-------------------------------- MODULE Secrets --------------------------------
(* Encryption at rest across restarts: the cipher (secrets.go), the store      *)
(* methods that seal and open columns (sqlite/*.go), the startup migration and *)
(* the requests that read and write tenants' secrets. A process runs with the  *)
(* key it was started with, or with none, and may be stopped at any point; the *)
(* database outlives it.                                                       *)
EXTENDS Naturals, Sequences

CONSTANTS Tenants, Texts, Keys, Workers,
          Empty, Nothing,  \* "" and NULL (or no row)
          NoKey,           \* database.encryption_key is not set
          Refused,         \* the error of a value that cannot be opened
          InitCells,       \* databases written before there was encryption
          MaxStarts, MaxRequests, MaxErrors

Columns == {"bot_token", "api_key", "client_secret", "password"}

(* Variant: a table is left out of the list.  *)
tenantColumns == <<"bot_token", "api_key", "client_secret">>

secretColumns == <<"bot_token", "api_key", "client_secret", "password">>

Plain  == Texts \cup {Empty}
Sealed == [key : Keys, text : Texts]
Stored == Plain \cup Sealed \cup {Nothing}
NoRow  == [c \in Columns |-> Nothing]

(* A text never looks like a sealed value (no token, key or password starts    *)
(* with "enc:v1:"). Rows older than encryption hold plain texts; api_key is    *)
(* NOT NULL, and rows of the other tables refer to a tenant's.                 *)
ASSUME Distinct ==
  /\ (Plain \cup {Nothing}) \cap Sealed = {}
  /\ Empty \notin Texts /\ Nothing \notin Plain
  /\ Refused \notin Stored /\ NoKey \notin Keys
ASSUME LegacyRows ==
  /\ InitCells \subseteq [Tenants -> [Columns -> Plain \cup {Nothing}]]
  /\ \A cs \in InitCells, t \in Tenants : cs[t]["api_key"] = Nothing => cs[t] = NoRow
ASSUME Bounds == {MaxStarts, MaxRequests, MaxErrors} \subseteq Nat

VARIABLES
  cells,      \* the secret columns of each tenant: tenants, zoom_credentials, irc_configs
  phase,      \* of the process: down, encrypting (the startup migration) or serving
  cipher,     \* the key of the running process, or NoKey
  txn, next,  \* the migration's uncommitted rows and the column it scans next
  work,       \* what each request goroutine is doing
  supplied,   \* history: the texts ever supplied for a column
  keysUsed,   \* history: the keys the service has been started with
  starts, requests, errors

vars == <<cells, phase, cipher, txn, next, work, supplied, keysUsed, starts, requests, errors>>

IsSealed(stored) == stored \notin Plain \cup {Nothing}

(* Nothing is encrypted without a key; empty values and NULLs never are.  *)
Seal(c, x) == IF c = NoKey \/ x \in {Empty, Nothing} THEN x ELSE [key |-> c, text |-> x]

(* Variant: whatever is not sealed is an error once there is a key.  *)
OpenSealedOnly(c, stored) ==
  IF ~IsSealed(stored)
    THEN IF c = NoKey \/ stored = Nothing THEN stored ELSE Refused
    ELSE IF stored.key = c THEN stored.text ELSE Refused

(* Values without the prefix pass through, so older rows stay readable.  *)
Open(c, stored) ==
  IF ~IsSealed(stored)
    THEN stored
    ELSE IF stored.key = c THEN stored.text
                           ELSE Refused       \* ErrNoKey, or the tag does not match

Exists(t) == cells[t]["api_key"] # Nothing

(* decryptTenant fails as a whole.  *)
CanRead(t) == \A c \in {"bot_token", "api_key"} : Open(cipher, cells[t][c]) # Refused

Idle == [op |-> "idle", at |-> "idle", tenant |-> Nothing, texts |-> Nothing, bot |-> Nothing]

(* What a request of each kind sends.  *)
Sends(op) ==
  CASE op = "install"                   -> [{"bot_token", "api_key"} -> Texts]
    [] op \in {"createTenant", "rotate"} -> [{"api_key"} -> Texts]
    [] op = "putCreds"                  -> [{"client_secret"} -> Plain]
    [] op = "putIRC"                    -> [{"password"} -> Plain]
    [] op = "setup"                     -> [{"client_secret"} -> Texts] \cup [{} -> Texts]
    [] op = "deleteTenant"              -> [{} -> Texts]

Ops == {"install", "createTenant", "rotate", "putCreds", "putIRC", "setup", "deleteTenant"}

(* Where a request starts: the API authenticates with the tenant's own key,    *)
(* except createTenant; the setup page looks for the tenant among all.         *)
Entry(op) ==
  CASE op = "install"      -> "lookup"
    [] op = "createTenant" -> "insert"
    [] op = "setup"        -> "list"
    [] OTHER               -> "auth"

Init ==
  /\ cells \in InitCells
  /\ phase = "down" /\ cipher = NoKey
  /\ txn = cells /\ next = 1
  /\ work = [w \in Workers |-> Idle]
  /\ supplied = [t \in Tenants |-> [c \in Columns |-> {cells[t][c]} \ {Nothing}]]
  /\ keysUsed = {}
  /\ starts = 0 /\ requests = 0 /\ errors = 0

-----------------------------------------------------------------------------
(* The process.                                                                *)

Requesting == UNCHANGED <<cells, supplied, work, requests, errors>>

(* main opens the store; with a key it migrates before it serves.  *)
Start(c) ==
  /\ phase = "down" /\ starts < MaxStarts
  /\ starts' = starts + 1
  /\ cipher' = c
  /\ keysUsed' = keysUsed \cup ({c} \ {NoKey})
  /\ txn' = cells
  /\ next' = 1
  /\ phase' = IF c = NoKey THEN "serving" ELSE "encrypting"
  /\ Requesting

(* Variant: without the condition NOT LIKE 'enc:v1:%'.  *)
EncryptAgain ==
  /\ phase = "encrypting" /\ next <= Len(secretColumns)
  /\ txn' = [t \in Tenants |-> [txn[t] EXCEPT ![secretColumns[next]] = Seal(cipher, @)]]
  /\ next' = next + 1
  /\ UNCHANGED <<phase, cipher, keysUsed, starts>> /\ Requesting

(* Seals what is stored in the clear in one column of every row.  *)
EncryptColumn ==
  /\ phase = "encrypting" /\ next <= Len(secretColumns)
  /\ txn' = [t \in Tenants |-> [txn[t] EXCEPT ![secretColumns[next]] =
                                  IF IsSealed(@) THEN @ ELSE Seal(cipher, @)]]
  /\ next' = next + 1
  /\ UNCHANGED <<phase, cipher, keysUsed, starts>> /\ Requesting

Commit ==
  /\ phase = "encrypting" /\ next > Len(secretColumns)
  /\ cells' = txn
  /\ phase' = "serving"
  /\ UNCHANGED <<cipher, txn, next, work, supplied, keysUsed, starts, requests, errors>>

(* A failed migration (log.Fatalf), --migrate-only, a signal or a crash. The   *)
(* transaction is rolled back; requests under way are cut off, on SIGTERM too: *)
(* main returns as soon as ListenAndServe does, without waiting for Shutdown.  *)
Stop ==
  /\ phase # "down"
  /\ phase' = "down"
  /\ txn' = cells /\ next' = 1
  /\ work' = [w \in Workers |-> Idle]
  /\ UNCHANGED <<cells, cipher, supplied, keysUsed, starts, requests, errors>>

-----------------------------------------------------------------------------
(* Requests. Every store call is one statement; goroutines interleave between. *)

Running == phase = "serving" /\ UNCHANGED <<phase, cipher, txn, next, keysUsed, starts>>

Goto(w, at) == work' = [work EXCEPT ![w].at = at]
Done(w)     == work' = [work EXCEPT ![w] = Idle]
Reads       == UNCHANGED <<cells, supplied, requests, errors>>

(* A statement that stores the texts of f, each sealed, in t's row.  *)
Put(t, f) ==
  /\ cells' = [cells EXCEPT ![t] =
       [c \in Columns |-> IF c \in DOMAIN f THEN Seal(cipher, f[c]) ELSE @[c]]]
  /\ supplied' = [supplied EXCEPT ![t] =
       [c \in Columns |-> IF c \in DOMAIN f THEN @[c] \cup {f[c]} ELSE @[c]]]

Only(f, C) == [c \in DOMAIN f \cap C |-> f[c]]

Arrive(w, op, t, f) ==
  /\ Running /\ work[w] = Idle /\ requests < MaxRequests
  /\ work' = [work EXCEPT ![w] =
       [op |-> op, at |-> Entry(op), tenant |-> t, texts |-> f, bot |-> Nothing]]
  /\ requests' = requests + 1
  /\ UNCHANGED <<cells, supplied, errors>>

(* The bearer token is compared with the opened api_key. A request with a      *)
(* wrong one goes no further, like one that cannot be checked.                 *)
Authenticate(w) ==
  LET t == work[w].tenant IN
    /\ Running /\ work[w].at = "auth"
    /\ \/ Exists(t) /\ CanRead(t)
          /\ Goto(w, IF work[w].op = "deleteTenant" THEN "lookup" ELSE "write")
       \/ Done(w)
    /\ Reads

(* Variant: only the absence of the row stops the request.  *)
LookUpRow(w) ==
  LET t == work[w].tenant IN
    /\ Running /\ work[w].at = "lookup"
    /\ \/ Exists(t) /\ Goto(w, "write")
       \/ ~Exists(t) /\ work[w].op = "install" /\ Goto(w, "insert")
       \/ ~Exists(t) /\ work[w].op # "install" /\ Done(w)
    /\ Reads

(* GetTenant, in the OAuth callback and in the API's DeleteTenant.  *)
LookUp(w) ==
  LET t == work[w].tenant IN
    /\ Running /\ work[w].at = "lookup"
    /\ \/ Exists(t) /\ CanRead(t) /\ Goto(w, "write")
       \/ ~Exists(t) /\ work[w].op = "install" /\ Goto(w, "insert")
       \/ /\ IF Exists(t) THEN ~CanRead(t) ELSE work[w].op # "install"
          /\ Done(w)
    /\ Reads

(* Variant: the token is kept as it is stored.  *)
ListStored(w) ==
  LET t == work[w].tenant IN
    /\ Running /\ work[w].at = "list"
    /\ \/ /\ Exists(t) /\ \A u \in Tenants : CanRead(u)
          /\ work' = [work EXCEPT ![w].at = "account", ![w].bot = cells[t]["bot_token"]]
       \/ Done(w)
    /\ Reads

(* The setup page opens every tenant's row to find one with the key.  *)
List(w) ==
  LET t == work[w].tenant IN
    /\ Running /\ work[w].at = "list"
    /\ \/ /\ Exists(t) /\ \A u \in Tenants : CanRead(u)
          /\ work' = [work EXCEPT ![w].at = "account",
                                  ![w].bot = Open(cipher, cells[t]["bot_token"])]
       \/ Done(w)
    /\ Reads

(* CreateTenant; an existing id is a constraint error.  *)
Insert(w) ==
  LET t == work[w].tenant IN
    /\ Running /\ work[w].at = "insert"
    /\ IF Exists(t) THEN UNCHANGED <<cells, supplied>> ELSE Put(t, work[w].texts)
    /\ Done(w)
    /\ UNCHANGED <<requests, errors>>

(* UpdateTenant leaves api_key alone, so a new installation's key is dropped.  *)
(* An UPDATE of a row that has gone changes nothing, and an upsert of another  *)
(* table's row needs the tenant's.                                             *)
Write(w) ==
  LET t == work[w].tenant
      f == IF work[w].op = "install" THEN Only(work[w].texts, {"bot_token"})
                                    ELSE work[w].texts IN
    /\ Running /\ work[w].at = "write" /\ work[w].op # "deleteTenant"
    /\ IF Exists(t) THEN Put(t, f) ELSE UNCHANGED <<cells, supplied>>
    /\ Done(w)
    /\ UNCHANGED <<requests, errors>>

(* Variant: without foreign keys the other tables keep their rows.  *)
DeleteTenantRow(w) ==
  /\ Running /\ work[w].at = "write" /\ work[w].op = "deleteTenant"
  /\ cells' = [cells EXCEPT ![work[w].tenant]["bot_token"] = Nothing,
                            ![work[w].tenant]["api_key"] = Nothing]
  /\ Done(w)
  /\ UNCHANGED <<supplied, requests, errors>>

(* Rows of the other tables go with the tenant's (ON DELETE CASCADE).  *)
Delete(w) ==
  /\ Running /\ work[w].at = "write" /\ work[w].op = "deleteTenant"
  /\ cells' = [cells EXCEPT ![work[w].tenant] = NoRow]
  /\ Done(w)
  /\ UNCHANGED <<supplied, requests, errors>>

(* The setup page's UpdateTenant writes back the token that List opened.  *)
SetAccount(w) ==
  LET t == work[w].tenant IN
    /\ Running /\ work[w].at = "account"
    /\ cells' = IF Exists(t)
                  THEN [cells EXCEPT ![t]["bot_token"] = Seal(cipher, work[w].bot)]
                  ELSE cells
    /\ IF DOMAIN work[w].texts = {}
         THEN Done(w)
         ELSE work' = [work EXCEPT ![w].at = "write", ![w].bot = Nothing]
    /\ UNCHANGED <<supplied, requests, errors>>

(* A store call that returns an error ends the request.  *)
Fail(w) ==
  /\ Running /\ work[w] # Idle /\ errors < MaxErrors
  /\ errors' = errors + 1
  /\ Done(w)
  /\ UNCHANGED <<cells, supplied, requests>>

-----------------------------------------------------------------------------
Serve(w) ==
  \/ \E op \in Ops, t \in Tenants : \E f \in Sends(op) : Arrive(w, op, t, f)
  \/ Authenticate(w) \/ LookUp(w) \/ List(w)
  \/ Insert(w) \/ Write(w) \/ Delete(w) \/ SetAccount(w)
  \/ Fail(w)

Next ==
  \/ \E c \in Keys \cup {NoKey} : Start(c)
  \/ EncryptColumn \/ Commit \/ Stop
  \/ \E w \in Workers : Serve(w)

Spec == Init /\ [][Next]_vars

-----------------------------------------------------------------------------
(* What the service promises about secrets.                                    *)

(* The types of the variables, and of what a request carries.  *)
Requested ==
  [op : Ops, at : {"auth", "lookup", "list", "insert", "account", "write"},
   tenant : Tenants, texts : UNION {Sends(op) : op \in Ops},
   bot : Plain \cup {Nothing}]

TypeOK ==
  /\ cells \in [Tenants -> [Columns -> Stored]]
  /\ phase \in {"down", "encrypting", "serving"}
  /\ cipher \in Keys \cup {NoKey}
  /\ txn \in [Tenants -> [Columns -> Stored]] /\ next \in 1 .. Len(secretColumns) + 1
  /\ work \in [Workers -> Requested \cup {Idle}]
  /\ \A w \in Workers : work[w] # Idle => work[w].texts \in Sends(work[w].op)
  /\ supplied \in [Tenants -> [Columns -> SUBSET Plain]]
  /\ keysUsed \subseteq Keys
  /\ {starts, requests, errors} \subseteq Nat

(* README.md, Secrets at Rest: with a lost or different key "the service will  *)
(* refuse to read them (and fail loudly) rather than pass garbage to Slack or  *)
(* Zoom". Whatever keys it was started with before, what a process reads from  *)
(* a column, and the token a setup request holds to write it back, is a text   *)
(* supplied for that column of that tenant, or an error.                       *)
NeverGarbage ==
  /\ \A t \in Tenants, c \in Columns :
       Open(cipher, cells[t][c]) \in supplied[t][c] \cup {Nothing, Refused}
  /\ \A w \in Workers :
       work[w].at = "account" => work[w].bot \in supplied[work[w].tenant]["bot_token"] \cup {Nothing}

(* README.md, Secrets at Rest: a process that serves with a key has no secret  *)
(* in the clear in the database, however often it was started without one or   *)
(* stopped half way through the migration (EncryptLegacySecrets).              *)
SealedWhileServing ==
  phase = "serving" /\ cipher # NoKey =>
    \A t \in Tenants, c \in Columns : cells[t][c] \in Sealed \cup {Empty, Nothing}

(* "Adding a key to an existing deployment is safe": as long as no other key   *)
(* was ever used the process opens every column, whether it was written before *)
(* there was a key, between two starts without it, or with it.                 *)
OneKeyOpensAll ==
  keysUsed \subseteq {cipher} =>
    \A t \in Tenants, c \in Columns : Open(cipher, cells[t][c]) # Refused

(* A start with the wrong key, or none, does no harm: while it serves, no      *)
(* request changes a tenant it cannot read, so the right key brings it back.   *)
(* Each request must have read the row before it writes, and what it read must *)
(* still say that the row can be read when it does.                            *)
WrongKeyDoesNoHarm ==
  [][phase = "serving" => \A t \in Tenants : ~CanRead(t) => cells'[t] = cells[t]]_vars

(* What a stored value says to whoever has its key.  *)
Says(stored) == IF IsSealed(stored) THEN stored.text ELSE stored

V == INSTANCE Vault WITH holds <- [t \in Tenants |-> [c \in Columns |-> Says(cells[t][c])]]

(* Sealing, migrating, stopping half way and changing keys are invisible: the  *)
(* database says what was supplied and not yet replaced or forgotten.          *)
KeepsSecrets == V!Spec

(* README.md, Secrets at Rest, on a lost key: "Recovery means every workspace  *)
(* reinstalls the Slack app": a completed installation leaves a tenant whose   *)
(* row can be read.                                                            *)
ReinstallRecovers ==
  [][\A w \in Workers, t \in Tenants :
       work[w].op = "install" /\ work[w].tenant = t /\ work'[w] = Idle /\ phase' = "serving" =>
         Exists(t)' /\ CanRead(t)']_vars
=============================================================================
