----------------------------- MODULE SecretsProofs -----------------------------
(* What Secrets promises, for every number of tenants, texts, keys and         *)
(* goroutines, and for any number of starts, requests and failed statements.   *)
EXTENDS Secrets, TLAPS

(* A value sealed with a key, or left alone, says what was sealed.  *)
LEMMA SealOpens ==
  ASSUME NEW c \in Keys \cup {NoKey}, NEW x \in Plain \cup {Nothing}
  PROVE  /\ Seal(c, x) \in Stored
         /\ Open(c, Seal(c, x)) = x /\ Says(Seal(c, x)) = x
         /\ IsSealed(Seal(c, x)) => Seal(c, x).key = c
         /\ c # NoKey => Seal(c, x) \in Sealed \cup {Empty, Nothing}
  <1>1. CASE c = NoKey \/ x \in {Empty, Nothing}
    <2>1. Seal(c, x) = x
      BY <1>1 DEF Seal
    <2>2. ~IsSealed(x)
      BY DEF IsSealed
    <2>3. Open(c, x) = x /\ Says(x) = x /\ x \in Stored
      BY <2>2 DEF Open, Says, Stored
    <2>4. c # NoKey => x \in Sealed \cup {Empty, Nothing}
      BY <1>1
    <2> QED
      BY <2>1, <2>2, <2>3, <2>4
  <1>2. CASE ~(c = NoKey \/ x \in {Empty, Nothing})
    <2>1. c \in Keys /\ x \in Texts /\ Seal(c, x) = [key |-> c, text |-> x]
      BY <1>2 DEF Seal, Plain
    <2>2. [key |-> c, text |-> x] \in Sealed
      BY <2>1 DEF Sealed
    <2>3. IsSealed([key |-> c, text |-> x])
      BY <2>2, Distinct DEF IsSealed
    <2> QED
      BY <2>1, <2>2, <2>3 DEF Open, Says, Stored
  <1> QED
    BY <1>1, <1>2 DEF Plain

(* A stored value is plain and says itself, or is sealed.  *)
LEMMA StoredSays ==
  ASSUME NEW x \in Stored
  PROVE  /\ Says(x) \in Plain \cup {Nothing}
         /\ IsSealed(x) <=> x \in Sealed
         /\ ~IsSealed(x) => Says(x) = x
         /\ \A c : Open(c, x) \in {Says(x), Refused}
         /\ \A c : IsSealed(x) /\ x.key = c => Open(c, x) = Says(x)
         /\ \A c : ~IsSealed(x) => Open(c, x) = x
         /\ \A c : Open(c, x) # Refused => Open(c, x) = Says(x)
         /\ Says(x) # Refused
  <1>1. IsSealed(x) <=> x \in Sealed
    BY Distinct DEF Stored, IsSealed
  <1>2. x \in Sealed => x.text \in Texts
    BY DEF Sealed
  <1>3. Says(x) \in Plain \cup {Nothing}
    BY <1>1, <1>2 DEF Says, IsSealed, Plain
  <1>4. Says(x) # Refused
    BY <1>3, Distinct DEF Stored
  <1>5. \A c : /\ Open(c, x) \in {Says(x), Refused}
               /\ IsSealed(x) /\ x.key = c => Open(c, x) = Says(x)
               /\ ~IsSealed(x) => Open(c, x) = x
               /\ Open(c, x) # Refused => Open(c, x) = Says(x)
    <2> TAKE c
    <2>1. CASE IsSealed(x)
      BY <2>1 DEF Open, Says
    <2>2. CASE ~IsSealed(x)
      BY <2>2 DEF Open, Says
    <2> QED
      BY <2>1, <2>2
  <1>6. ~IsSealed(x) => Says(x) = x
    BY DEF Says
  <1> QED
    BY <1>1, <1>3, <1>4, <1>5, <1>6

(* What a request sends is for columns, and plain.  *)
LEMMA SendsPlain ==
  ASSUME NEW op \in Ops, NEW f \in Sends(op)
  PROVE  /\ DOMAIN f \subseteq Columns
         /\ \A c \in DOMAIN f : f[c] \in Plain
         /\ f \in [DOMAIN f -> Plain]
  BY DEF Ops, Sends, Columns, Plain

-----------------------------------------------------------------------------
(* What a request's step may do to the tables: a column stays, or takes the    *)
(* sealed form of something supplied for it.                                   *)
Touched ==
  \A t \in Tenants, c \in Columns :
    /\ supplied[t][c] \subseteq supplied'[t][c]
    /\ \/ cells'[t][c] = cells[t][c]
       \/ \E x \in (supplied'[t][c] \cup {Nothing}) \cap (Plain \cup {Nothing}) :
            cells'[t][c] = Seal(cipher, x)

TablesOK ==
  /\ cells \in [Tenants -> [Columns -> Stored]]
  /\ supplied \in [Tenants -> [Columns -> SUBSET Plain]]

(* A write touches the columns it names, and no others.  *)
LEMMA PutTouches ==
  ASSUME TablesOK, cipher \in Keys \cup {NoKey}, NEW t \in Tenants, NEW f,
         DOMAIN f \subseteq Columns, \A c \in DOMAIN f : f[c] \in Plain, Put(t, f)
  PROVE  TablesOK' /\ Touched
  <1>1. \A c \in DOMAIN f : Seal(cipher, f[c]) \in Stored
    BY SealOpens
  <1>2. cells' \in [Tenants -> [Columns -> Stored]]
    BY <1>1 DEF Put, TablesOK
  <1>3. supplied' \in [Tenants -> [Columns -> SUBSET Plain]]
    BY DEF Put, TablesOK
  <1>4. \A u \in Tenants, c \in Columns :
          /\ u # t \/ c \notin DOMAIN f =>
               cells'[u][c] = cells[u][c] /\ supplied'[u][c] = supplied[u][c]
          /\ u = t /\ c \in DOMAIN f =>
               cells'[u][c] = Seal(cipher, f[c]) /\ supplied'[u][c] = supplied[u][c] \cup {f[c]}
    BY DEF Put, TablesOK
  <1>5. ASSUME NEW u \in Tenants, NEW c \in Columns
        PROVE  /\ supplied[u][c] \subseteq supplied'[u][c]
               /\ \/ cells'[u][c] = cells[u][c]
                  \/ \E x \in (supplied'[u][c] \cup {Nothing}) \cap (Plain \cup {Nothing}) :
                       cells'[u][c] = Seal(cipher, x)
    <2>1. CASE u = t /\ c \in DOMAIN f
      BY <2>1, <1>4
    <2>2. CASE ~(u = t /\ c \in DOMAIN f)
      BY <2>2, <1>4
    <2> QED
      BY <2>1, <2>2
  <1> QED
    BY <1>2, <1>3, <1>5 DEF TablesOK, Touched

(* A step that leaves the tables alone touches nothing.  *)
LEMMA SameTouches ==
  ASSUME TablesOK, UNCHANGED <<cells, supplied>>
  PROVE  TablesOK' /\ Touched
  BY DEF TablesOK, Touched

-----------------------------------------------------------------------------
(* Inductive invariant.                                                        *)

CellsOK ==
  \A t \in Tenants, c \in Columns :
    /\ Says(cells[t][c]) \in supplied[t][c] \cup {Nothing}
    /\ IsSealed(cells[t][c]) => cells[t][c].key \in keysUsed

(* The migration changes what no row says, and the columns it is past are      *)
(* sealed.                                                                     *)
MigrationOK ==
  /\ cipher \in keysUsed \cup {NoKey}
  /\ phase = "encrypting" =>
       /\ cipher # NoKey
       /\ \A t \in Tenants, c \in Columns :
            /\ Says(txn[t][c]) = Says(cells[t][c])
            /\ IsSealed(txn[t][c]) => txn[t][c].key \in keysUsed
       /\ \A t \in Tenants : \A i \in 1 .. next - 1 :
            txn[t][secretColumns[i]] \in Sealed \cup {Empty, Nothing}
  /\ SealedWhileServing

(* Whoever is about to write in a tenant's rows has read them, and they can    *)
(* still be read.                                                              *)
WorkOK ==
  /\ phase # "serving" => \A w \in Workers : work[w] = Idle
  /\ \A w \in Workers :
       /\ work[w].at \in {"write", "account"} => CanRead(work[w].tenant)
       /\ work[w].at = "account" =>
            work[w].bot \in supplied[work[w].tenant]["bot_token"] \cup {Nothing}

Inv == TypeOK /\ CellsOK /\ MigrationOK /\ WorkOK

ServerSame == UNCHANGED <<phase, cipher, txn, next, keysUsed, starts>>

(* While the process serves, what is touched stays readable with its key.      *)
LEMMA TouchKeeps ==
  ASSUME Inv, TablesOK', Touched, ServerSame, phase = "serving"
  PROVE  CellsOK' /\ MigrationOK' /\ \A t \in Tenants : CanRead(t) => CanRead(t)'
  <1>1. cipher \in Keys \cup {NoKey} /\ cipher \in keysUsed \cup {NoKey}
    BY DEF Inv, TypeOK, MigrationOK
  <1>2. \A t \in Tenants, c \in Columns :
          /\ cells[t][c] \in Stored /\ cells'[t][c] \in Stored
          /\ supplied[t][c] \subseteq supplied'[t][c]
    BY DEF Inv, TypeOK, TablesOK, Touched
  <1>3. ASSUME NEW t \in Tenants, NEW c \in Columns
        PROVE  /\ Says(cells'[t][c]) \in supplied'[t][c] \cup {Nothing}
               /\ IsSealed(cells'[t][c]) => cells'[t][c].key \in keysUsed
               /\ cipher # NoKey => cells'[t][c] \in Sealed \cup {Empty, Nothing}
               /\ Open(cipher, cells[t][c]) # Refused => Open(cipher, cells'[t][c]) # Refused
    <2>1. CASE cells'[t][c] = cells[t][c]
      <3>1. cipher # NoKey => cells[t][c] \in Sealed \cup {Empty, Nothing}
        BY DEF Inv, MigrationOK, SealedWhileServing
      <3>2. /\ Says(cells[t][c]) \in supplied[t][c] \cup {Nothing}
            /\ IsSealed(cells[t][c]) => cells[t][c].key \in keysUsed
        BY DEF Inv, CellsOK
      <3> QED
        BY <2>1, <3>1, <3>2, <1>2
    <2>2. ASSUME NEW x \in (supplied'[t][c] \cup {Nothing}) \cap (Plain \cup {Nothing}),
                 cells'[t][c] = Seal(cipher, x)
          PROVE  /\ Says(cells'[t][c]) \in supplied'[t][c] \cup {Nothing}
                 /\ IsSealed(cells'[t][c]) => cells'[t][c].key \in keysUsed
                 /\ cipher # NoKey => cells'[t][c] \in Sealed \cup {Empty, Nothing}
                 /\ Open(cipher, cells'[t][c]) # Refused
      <3>1. x \in Plain \cup {Nothing} /\ x # Refused
        BY Distinct DEF Stored
      <3>2. /\ Open(cipher, Seal(cipher, x)) = x /\ Says(Seal(cipher, x)) = x
            /\ IsSealed(Seal(cipher, x)) => Seal(cipher, x).key = cipher
            /\ cipher # NoKey => Seal(cipher, x) \in Sealed \cup {Empty, Nothing}
        BY <1>1, <3>1, SealOpens
      <3>3. IsSealed(Seal(cipher, x)) => cipher \in keysUsed
        <4>1. cipher = NoKey => Seal(cipher, x) = x /\ ~IsSealed(x)
          BY <3>1 DEF Seal, IsSealed
        <4> QED
          BY <4>1, <1>1
      <3> QED
        BY <2>2, <3>1, <3>2, <3>3
    <2> QED
      BY <2>1, <2>2 DEF Touched
  <1>4. CellsOK'
    BY <1>3 DEF CellsOK, ServerSame
  <1>5. SealedWhileServing'
    BY <1>3 DEF SealedWhileServing, ServerSame
  <1>6. MigrationOK'
    BY <1>1, <1>5 DEF MigrationOK, ServerSame
  <1>7. ASSUME NEW t \in Tenants, CanRead(t) PROVE CanRead(t)'
    <2>1. {"bot_token", "api_key"} \subseteq Columns
      BY DEF Columns
    <2> QED
      BY <1>3, <1>7, <2>1 DEF CanRead, ServerSame
  <1> QED
    BY <1>4, <1>6, <1>7

(* A request's next position, when it goes on.  *)
Advances(w) ==
  /\ work' \in [Workers -> Requested \cup {Idle}]
  /\ \A v \in Workers \ {w} : work'[v] = work[v]
  /\ work'[w] # Idle => work'[w].texts \in Sends(work'[w].op)

(* A goroutine without a request is at no statement.  *)
LEMMA IdleNowhere == Idle \notin Requested /\ Idle.at = "idle"
  BY DEF Idle, Requested

(* The end of a request, and a jump within it, change this goroutine alone.  *)
LEMMA DoneAdvances ==
  ASSUME TypeOK, NEW w \in Workers, Done(w)
  PROVE  Advances(w) /\ work'[w] = Idle
  BY DEF TypeOK, Done, Advances

(* A jump keeps what the request carries.  *)
LEMMA GotoAdvances ==
  ASSUME TypeOK, NEW w \in Workers, work[w] # Idle,
         NEW at \in {"lookup", "insert", "write"}, Goto(w, at)
  PROVE  /\ Advances(w) /\ work'[w].at = at
         /\ work'[w].tenant = work[w].tenant /\ work'[w].op = work[w].op
  <1>1. work[w] \in Requested
    BY DEF TypeOK
  <1>2. /\ work'[w] = [work[w] EXCEPT !.at = at]
        /\ \A v \in Workers \ {w} : work'[v] = work[v]
        /\ work' \in [Workers -> Requested \cup {Idle}]
    BY <1>1 DEF TypeOK, Goto, Requested
  <1>3. /\ work'[w].texts = work[w].texts /\ work'[w].op = work[w].op
        /\ work'[w].tenant = work[w].tenant /\ work'[w].at = at
    BY <1>1, <1>2 DEF Requested
  <1>4. work[w].texts \in Sends(work[w].op)
    BY DEF TypeOK
  <1> QED
    BY <1>2, <1>3, <1>4 DEF Advances

-----------------------------------------------------------------------------
(* What every step of a request comes to.                                      *)

StepOK(w) ==
  /\ TablesOK' /\ Touched /\ ServerSame /\ phase = "serving"
  /\ Advances(w) /\ {requests', errors'} \subseteq Nat
  /\ work'[w].at \in {"write", "account"} =>
       work'[w].tenant \in Tenants /\ CanRead(work'[w].tenant)
  /\ work'[w].at = "account" =>
       work'[w].bot \in supplied[work'[w].tenant]["bot_token"] \cup {Nothing}

(* What the step lemmas take from the type invariant.  *)
LEMMA TypeTables ==
  TypeOK => TablesOK /\ {requests, errors} \subseteq Nat /\ cipher \in Keys \cup {NoKey}
  BY DEF TypeOK, TablesOK

(* A last step that touches the tables properly.  *)
LEMMA DoneOK ==
  ASSUME TypeOK, NEW w \in Workers, Done(w), TablesOK', Touched, Running,
         {requests', errors'} \subseteq Nat
  PROVE  StepOK(w)
  BY DoneAdvances, IdleNowhere DEF StepOK, Running, ServerSame

(* Reading, and going on or giving up.  *)
LEMMA ReadOK ==
  ASSUME TypeOK, NEW w \in Workers, Running, Reads, work[w] # Idle,
         \/ Done(w)
         \/ \E at \in {"lookup", "insert"} : Goto(w, at)
         \/ Goto(w, "write") /\ CanRead(work[w].tenant)
  PROVE  StepOK(w)
  <1>1. TablesOK' /\ Touched /\ {requests', errors'} \subseteq Nat
    BY SameTouches, TypeTables DEF Reads
  <1>2. CASE Done(w)
    BY <1>1, <1>2, DoneOK
  <1>3. ASSUME NEW at \in {"lookup", "insert", "write"}, Goto(w, at),
               at = "write" => CanRead(work[w].tenant)
        PROVE  StepOK(w)
    <2>1. /\ Advances(w) /\ work'[w].at = at
          /\ work'[w].tenant = work[w].tenant
      BY <1>3, GotoAdvances
    <2>2. work[w].tenant \in Tenants
      BY DEF TypeOK, Requested
    <2> QED
      BY <1>1, <1>3, <2>1, <2>2 DEF StepOK, Running, ServerSame
  <1> QED
    BY <1>2, <1>3

(* A request arrives with the texts of its kind, at its first statement.  *)
LEMMA ArriveOK ==
  ASSUME TypeOK, NEW w \in Workers, NEW op \in Ops, NEW t \in Tenants, NEW f \in Sends(op),
         Arrive(w, op, t, f)
  PROVE  StepOK(w)
  <1> DEFINE r == [op |-> op, at |-> Entry(op), tenant |-> t, texts |-> f, bot |-> Nothing]
  <1>1. Entry(op) \in {"auth", "lookup", "list", "insert"}
    BY DEF Entry
  <1>2. r \in Requested
    BY <1>1 DEF Requested
  <1>3. work' = [work EXCEPT ![w] = r] /\ requests' = requests + 1 /\ errors' = errors
    BY DEF Arrive
  <1>4. Advances(w) /\ work'[w] = r
    <2>1. work'[w] = r /\ \A v \in Workers \ {w} : work'[v] = work[v]
      BY <1>3 DEF TypeOK
    <2>2. work' \in [Workers -> Requested \cup {Idle}]
      BY <1>2, <1>3 DEF TypeOK
    <2> QED
      BY <2>1, <2>2 DEF Advances
  <1>5. TablesOK' /\ Touched
    BY SameTouches, TypeTables DEF Arrive
  <1>6. {requests', errors'} \subseteq Nat
    BY <1>3, TypeTables
  <1> QED
    BY <1>1, <1>4, <1>5, <1>6 DEF StepOK, Arrive, Running, ServerSame

(* The token that the setup page keeps was opened, hence supplied.  *)
LEMMA ListOK ==
  ASSUME Inv, NEW w \in Workers, List(w)
  PROVE  StepOK(w)
  <1> DEFINE t == work[w].tenant
  <1> DEFINE bot == Open(cipher, cells[t]["bot_token"])
  <1>1. work[w] \in Requested /\ TypeOK /\ Running /\ Reads
    BY IdleNowhere DEF Inv, TypeOK, List
  <1>2. TablesOK' /\ Touched /\ {requests', errors'} \subseteq Nat
    BY <1>1, SameTouches, TypeTables DEF Reads
  <1>3. CASE Done(w)
    BY <1>1, <1>2, <1>3, DoneOK
  <1>4. CASE /\ \A u \in Tenants : CanRead(u)
             /\ work' = [work EXCEPT ![w].at = "account", ![w].bot = bot]
    <2>1. t \in Tenants /\ CanRead(t)
      BY <1>1, <1>4 DEF Requested
    <2>2. bot = Says(cells[t]["bot_token"])
      <3>1. cells[t]["bot_token"] \in Stored /\ bot # Refused
        BY <1>1, <2>1 DEF TypeOK, Columns, CanRead
      <3> QED
        BY <3>1, StoredSays
    <2>3. bot \in supplied[t]["bot_token"] \cup {Nothing} /\ bot \in Plain \cup {Nothing}
      <3>1. Says(cells[t]["bot_token"]) \in supplied[t]["bot_token"] \cup {Nothing}
        BY <2>1 DEF Inv, CellsOK, Columns
      <3>2. cells[t]["bot_token"] \in Stored
        BY <1>1, <2>1 DEF TypeOK, Columns
      <3> QED
        BY <2>2, <3>1, <3>2, StoredSays
    <2> HIDE DEF bot
    <2>4. /\ work'[w] = [work[w] EXCEPT !.at = "account", !.bot = bot]
          /\ \A v \in Workers \ {w} : work'[v] = work[v]
          /\ work' \in [Workers -> Requested \cup {Idle}]
      BY <1>1, <1>4, <2>3 DEF TypeOK, Requested
    <2>5. /\ work'[w].at = "account" /\ work'[w].bot = bot /\ work'[w].tenant = t
          /\ work'[w].texts = work[w].texts /\ work'[w].op = work[w].op
      BY <1>1, <2>4 DEF Requested
    <2>6. work[w].texts \in Sends(work[w].op)
      BY <1>1, IdleNowhere DEF TypeOK
    <2> QED
      BY <1>1, <1>2, <2>1, <2>3, <2>4, <2>5, <2>6 DEF StepOK, Running, ServerSame, Advances
  <1> QED
    BY <1>3, <1>4 DEF List

(* Insert, of a tenant that was not there.  *)
LEMMA InsertOK ==
  ASSUME Inv, NEW w \in Workers, Insert(w)
  PROVE  StepOK(w)
  <1> DEFINE t == work[w].tenant
  <1> DEFINE f == work[w].texts
  <1>1. TypeOK /\ Running /\ Done(w) /\ work[w] \in Requested /\ f \in Sends(work[w].op)
    BY IdleNowhere DEF Inv, TypeOK, Insert
  <1>2. t \in Tenants /\ work[w].op \in Ops
    BY <1>1 DEF Requested
  <1>3. CASE UNCHANGED <<cells, supplied>>
    BY <1>1, <1>3, SameTouches, TypeTables, DoneOK DEF Insert
  <1>4. CASE Put(t, f)
    <2>1. DOMAIN f \subseteq Columns /\ \A c \in DOMAIN f : f[c] \in Plain
      BY <1>1, <1>2, SendsPlain
    <2> HIDE DEF f, t
    <2>2. TablesOK' /\ Touched
      BY <1>1, <1>2, <1>4, <2>1, PutTouches, TypeTables
    <2> QED
      BY <1>1, <2>2, TypeTables, DoneOK DEF Insert
  <1> QED
    BY <1>3, <1>4 DEF Insert

(* Write, of the texts the request carries.  *)
LEMMA WriteOK ==
  ASSUME Inv, NEW w \in Workers, Write(w)
  PROVE  StepOK(w)
  <1> DEFINE t == work[w].tenant
  <1> DEFINE f == IF work[w].op = "install" THEN Only(work[w].texts, {"bot_token"})
                                            ELSE work[w].texts
  <1>1. /\ TypeOK /\ Running /\ Done(w) /\ work[w] \in Requested
        /\ work[w].texts \in Sends(work[w].op)
    BY IdleNowhere DEF Inv, TypeOK, Write
  <1>2. t \in Tenants /\ work[w].op \in Ops
    BY <1>1 DEF Requested
  <1>3. CASE UNCHANGED <<cells, supplied>>
    BY <1>1, <1>3, SameTouches, TypeTables, DoneOK DEF Write
  <1>4. CASE Put(t, f)
    <2>1. DOMAIN f \subseteq Columns /\ \A c \in DOMAIN f : f[c] \in Plain
      BY <1>1, <1>2, SendsPlain DEF Only
    <2> HIDE DEF f, t
    <2>2. TablesOK' /\ Touched
      BY <1>1, <1>2, <1>4, <2>1, PutTouches, TypeTables
    <2> QED
      BY <1>1, <2>2, TypeTables, DoneOK DEF Write
  <1> QED
    BY <1>3, <1>4 DEF Write

(* Delete: every column of the tenant becomes NULL.  *)
LEMMA DeleteOK ==
  ASSUME Inv, NEW w \in Workers, Delete(w)
  PROVE  StepOK(w)
  <1> DEFINE t == work[w].tenant
  <1>1. TypeOK /\ Running /\ Done(w) /\ work[w] \in Requested
    BY IdleNowhere DEF Inv, TypeOK, Delete
  <1>2. t \in Tenants
    BY <1>1 DEF Requested
  <1>3. NoRow \in [Columns -> Stored] /\ \A c \in Columns : NoRow[c] = Seal(cipher, Nothing)
    BY DEF NoRow, Stored, Seal
  <1>4. cells' = [cells EXCEPT ![t] = NoRow] /\ UNCHANGED <<supplied, requests, errors>>
    BY DEF Delete
  <1> HIDE DEF t
  <1>5. TablesOK'
    BY <1>1, <1>3, <1>4 DEF TypeOK, TablesOK
  <1>6. Touched
    BY <1>1, <1>2, <1>3, <1>4 DEF TypeOK, Touched
  <1> QED
    BY <1>1, <1>4, <1>5, <1>6, TypeTables, DoneOK

(* SetAccount seals the token that List opened.  *)
LEMMA SetAccountOK ==
  ASSUME Inv, NEW w \in Workers, SetAccount(w)
  PROVE  StepOK(w)
  <1> DEFINE t == work[w].tenant
  <1> DEFINE bot == work[w].bot
  <1>1. TypeOK /\ Running /\ work[w] \in Requested /\ work[w] # Idle /\ work[w].at = "account"
    BY IdleNowhere DEF Inv, TypeOK, SetAccount
  <1>2. t \in Tenants /\ bot \in Plain \cup {Nothing}
    BY <1>1 DEF Requested
  <1>3. bot \in supplied[t]["bot_token"] \cup {Nothing} /\ CanRead(t)
    BY <1>1 DEF Inv, WorkOK
  <1>4. UNCHANGED <<supplied, requests, errors>>
    BY DEF SetAccount
  <1>5. TablesOK' /\ Touched
    <2>1. CASE cells' = cells
      BY <1>1, <1>4, <2>1, SameTouches, TypeTables
    <2>2. CASE cells' = [cells EXCEPT ![t]["bot_token"] = Seal(cipher, bot)]
      <3>1. Seal(cipher, bot) \in Stored
        BY <1>1, <1>2, SealOpens DEF TypeOK
      <3>2. "bot_token" \in Columns
        BY DEF Columns
      <3>3. \A u \in Tenants, c \in Columns :
              \/ cells'[u][c] = cells[u][c]
              \/ u = t /\ c = "bot_token" /\ cells'[u][c] = Seal(cipher, bot)
        BY <1>1, <1>2, <2>2, <3>2 DEF TypeOK
      <3>4. TablesOK'
        BY <1>1, <1>2, <1>4, <2>2, <3>1, <3>2 DEF TypeOK, TablesOK
      <3> QED
        BY <1>2, <1>3, <1>4, <3>3, <3>4 DEF Touched
    <2> QED
      BY <2>1, <2>2 DEF SetAccount
  <1>6. {requests', errors'} \subseteq Nat
    BY <1>1, <1>4, TypeTables
  <1>7. CASE Done(w)
    BY <1>1, <1>5, <1>6, <1>7, DoneOK
  <1>8. CASE work' = [work EXCEPT ![w].at = "write", ![w].bot = Nothing]
    <2>1. /\ work'[w] = [work[w] EXCEPT !.at = "write", !.bot = Nothing]
          /\ \A v \in Workers \ {w} : work'[v] = work[v]
          /\ work' \in [Workers -> Requested \cup {Idle}]
      BY <1>1, <1>8 DEF TypeOK, Requested
    <2>2. /\ work'[w].at = "write" /\ work'[w].tenant = t
          /\ work'[w].texts = work[w].texts /\ work'[w].op = work[w].op
      BY <1>1, <2>1 DEF Requested
    <2>3. work[w].texts \in Sends(work[w].op)
      BY <1>1 DEF TypeOK
    <2>4. Advances(w)
      BY <2>1, <2>2, <2>3 DEF Advances
    <2> QED
      BY <1>1, <1>2, <1>3, <1>5, <1>6, <2>2, <2>4 DEF StepOK, Running, ServerSame
  <1> QED
    BY <1>7, <1>8 DEF SetAccount

(* Every statement of a request is such a step.  *)
LEMMA ServeOK ==
  ASSUME Inv, NEW w \in Workers, Serve(w)
  PROVE  StepOK(w)
  <1>1. TypeOK
    BY DEF Inv
  <1>2. ASSUME NEW op \in Ops, NEW t \in Tenants, NEW f \in Sends(op), Arrive(w, op, t, f)
        PROVE  StepOK(w)
    BY <1>1, <1>2, ArriveOK
  <1>3. CASE Authenticate(w)
    <2>1. work[w] # Idle
      BY <1>3, IdleNowhere DEF Authenticate
    <2> QED
      BY <1>1, <1>3, <2>1, ReadOK DEF Authenticate
  <1>4. CASE LookUp(w)
    <2>1. work[w] # Idle
      BY <1>4, IdleNowhere DEF LookUp
    <2> QED
      BY <1>1, <1>4, <2>1, ReadOK DEF LookUp
  <1>5. CASE Fail(w)
    <2>1. TablesOK' /\ Touched /\ {requests', errors'} \subseteq Nat
      BY <1>1, <1>5, SameTouches, TypeTables DEF Fail
    <2> QED
      BY <1>1, <1>5, <2>1, DoneOK DEF Fail
  <1> QED
    BY <1>2, <1>3, <1>4, <1>5, ListOK, InsertOK, WriteOK, DeleteOK, SetAccountOK DEF Serve

(* Hence each statement keeps the invariant: a column that was touched says    *)
(* something supplied, under the process's own key.  *)
LEMMA ServeKeeps ==
  ASSUME Inv, NEW w \in Workers, Serve(w)
  PROVE  Inv'
  <1>1. StepOK(w)
    BY ServeOK
  <1>2. CellsOK' /\ MigrationOK' /\ \A t \in Tenants : CanRead(t) => CanRead(t)'
    BY <1>1, TouchKeeps DEF StepOK
  <1>3. TypeOK'
    BY <1>1 DEF Inv, TypeOK, TablesOK, StepOK, Advances, ServerSame
  <1>4. WorkOK'
    <2>1. phase' = "serving"
      BY <1>1 DEF StepOK, ServerSame
    <2>2. ASSUME NEW v \in Workers
          PROVE  /\ work'[v].at \in {"write", "account"} =>
                      work'[v].tenant \in Tenants /\ CanRead(work'[v].tenant)
                 /\ work'[v].at = "account" =>
                      work'[v].bot \in supplied[work'[v].tenant]["bot_token"] \cup {Nothing}
      <3>1. CASE v = w
        BY <1>1, <3>1 DEF StepOK
      <3>2. CASE v # w
        <4>1. work'[v] = work[v]
          BY <1>1, <3>2 DEF StepOK, Advances
        <4>2. work[v].at \in {"write", "account"} => work[v].tenant \in Tenants
          BY IdleNowhere DEF Inv, TypeOK, Requested
        <4>3. /\ work[v].at \in {"write", "account"} => CanRead(work[v].tenant)
              /\ work[v].at = "account" =>
                   work[v].bot \in supplied[work[v].tenant]["bot_token"] \cup {Nothing}
          BY DEF Inv, WorkOK
        <4> QED
          BY <4>1, <4>2, <4>3
      <3> QED
        BY <3>1, <3>2
    <2>3. \A t \in Tenants : supplied[t]["bot_token"] \subseteq supplied'[t]["bot_token"]
      BY <1>1 DEF StepOK, Touched, Columns
    <2>4. ASSUME NEW t \in Tenants, NEW v \in Workers, work'[v].tenant = t
          PROVE  /\ work'[v].at \in {"write", "account"} => CanRead(t)'
                 /\ work'[v].at = "account" => work'[v].bot \in supplied'[t]["bot_token"] \cup {Nothing}
      BY <1>2, <2>2, <2>3, <2>4
    <2>5. ASSUME NEW v \in Workers
          PROVE  /\ work'[v].at \in {"write", "account"} => CanRead(work[v].tenant)'
                 /\ work'[v].at = "account" =>
                      work'[v].bot \in supplied'[work'[v].tenant]["bot_token"] \cup {Nothing}
      BY <2>2, <2>4 DEF CanRead
    <2> QED
      BY <2>1, <2>5 DEF WorkOK
  <1> QED
    BY <1>2, <1>3, <1>4 DEF Inv

-----------------------------------------------------------------------------
(* The process's own steps.                                                    *)

LEMMA InitInv == Init => Inv
  <1> SUFFICES ASSUME Init PROVE Inv
    OBVIOUS
  <1>1. cells \in [Tenants -> [Columns -> Plain \cup {Nothing}]]
    BY LegacyRows DEF Init
  <1>2. \A t \in Tenants, c \in Columns :
          /\ cells[t][c] \in Plain \cup {Nothing}
          /\ ~IsSealed(cells[t][c]) /\ Says(cells[t][c]) = cells[t][c]
          /\ supplied[t][c] = {cells[t][c]} \ {Nothing}
    BY <1>1 DEF IsSealed, Says, Init
  <1>3. cells \in [Tenants -> [Columns -> Stored]]
    BY <1>1 DEF Stored
  <1>4. supplied \in [Tenants -> [Columns -> SUBSET Plain]]
    BY <1>2 DEF Init
  <1>5. work \in [Workers -> Requested \cup {Idle}] /\ \A w \in Workers : work[w] = Idle
    BY DEF Init
  <1>6. TypeOK
    BY <1>3, <1>4, <1>5 DEF Init, TypeOK, secretColumns
  <1>7. CellsOK
    BY <1>2 DEF CellsOK
  <1>8. MigrationOK
    BY DEF Init, MigrationOK, SealedWhileServing
  <1>9. WorkOK
    BY <1>5, IdleNowhere DEF WorkOK, Init
  <1> QED
    BY <1>6, <1>7, <1>8, <1>9 DEF Inv

(* A start adds its key to those used and scans from the first column.  *)
LEMMA StartKeeps ==
  ASSUME Inv, NEW c \in Keys \cup {NoKey}, Start(c)
  PROVE  Inv'
  <1>1. UNCHANGED <<cells, supplied, work>> /\ phase = "down"
    BY DEF Start, Requesting
  <1>2. TypeOK'
    BY DEF Inv, TypeOK, Start, Requesting, secretColumns
  <1>3. CellsOK'
    BY <1>1 DEF Inv, CellsOK, Start
  <1>4. MigrationOK'
    <2>1. cipher' \in keysUsed' \cup {NoKey}
      BY DEF Start
    <2>2. phase' = "encrypting" => cipher' # NoKey /\ next' = 1 /\ txn' = cells'
      BY <1>1 DEF Start
    <2>3. SealedWhileServing'
      BY DEF Start, SealedWhileServing
    <2> QED
      BY <1>3, <2>1, <2>2, <2>3 DEF MigrationOK, CellsOK
  <1>5. WorkOK'
    BY <1>1, IdleNowhere DEF Inv, WorkOK
  <1> QED
    BY <1>2, <1>3, <1>4, <1>5 DEF Inv

(* One column of the migration: what is sealed already stays.  *)
LEMMA EncryptKeeps ==
  ASSUME Inv, EncryptColumn
  PROVE  Inv'
  <1> DEFINE c == secretColumns[next]
  <1>1. /\ UNCHANGED <<cells, supplied, work, phase, cipher, keysUsed>>
        /\ phase = "encrypting" /\ next' = next + 1 /\ next \in 1 .. 4
    BY DEF EncryptColumn, Requesting, secretColumns, Inv, TypeOK
  <1>2. \A i \in 1 .. 4 : secretColumns[i] \in Columns
    BY DEF secretColumns, Columns
  <1>3. /\ cipher \in Keys \cup {NoKey} /\ cipher # NoKey /\ cipher \in keysUsed
        /\ txn \in [Tenants -> [Columns -> Stored]]
    BY <1>1 DEF Inv, TypeOK, MigrationOK
  <1>4. \A t \in Tenants : txn'[t] =
          [txn[t] EXCEPT ![c] = IF IsSealed(txn[t][c]) THEN txn[t][c] ELSE Seal(cipher, txn[t][c])]
    BY DEF EncryptColumn
  <1>5. ASSUME NEW t \in Tenants, NEW d \in Columns
        PROVE  /\ d # c => txn'[t][d] = txn[t][d]
               /\ d = c => txn'[t][d] \in Sealed \cup {Empty, Nothing}
               /\ txn'[t][d] \in Stored
               /\ Says(txn'[t][d]) = Says(txn[t][d])
               /\ IsSealed(txn'[t][d]) => txn'[t][d].key \in keysUsed
    <2>1. txn[t][d] \in Stored /\ (IsSealed(txn[t][d]) => txn[t][d].key \in keysUsed)
      BY <1>1, <1>3 DEF Inv, MigrationOK
    <2>2. CASE d # c
      <3> DEFINE e == IF IsSealed(txn[t][c]) THEN txn[t][c] ELSE Seal(cipher, txn[t][c])
      <3>1. txn[t] \in [Columns -> Stored] /\ txn'[t] = [txn[t] EXCEPT ![c] = e]
        BY <1>3, <1>4
      <3> HIDE DEF e, c
      <3>2. txn'[t][d] = txn[t][d]
        BY <2>2, <3>1
      <3> QED
        BY <2>1, <2>2, <3>2
    <2>3. CASE d = c /\ IsSealed(txn[t][d])
      <3>1. txn'[t][d] = txn[t][d]
        BY <1>3, <1>4, <2>3
      <3> QED
        BY <2>1, <2>3, <3>1, StoredSays
    <2>4. CASE d = c /\ ~IsSealed(txn[t][d])
      <3>1. txn'[t][d] = Seal(cipher, txn[t][d])
        BY <1>3, <1>4, <2>4
      <3>2. txn[t][d] \in Plain \cup {Nothing} /\ Says(txn[t][d]) = txn[t][d]
        BY <2>4 DEF IsSealed, Says
      <3> QED
        BY <1>3, <2>4, <3>1, <3>2, SealOpens
    <2> QED
      BY <2>2, <2>3, <2>4
  <1>6. txn' \in [Tenants -> [Columns -> Stored]]
    <2>1. \A t \in Tenants : txn'[t] \in [Columns -> Stored]
      BY <1>3, <1>4, <1>5
    <2>2. txn' = [t \in Tenants |-> txn'[t]]
      BY DEF EncryptColumn
    <2> QED
      BY <2>1, <2>2
  <1>7. TypeOK'
    <2>1. next' \in 1 .. Len(secretColumns) + 1 /\ UNCHANGED <<starts, requests, errors>>
      BY <1>1 DEF secretColumns, EncryptColumn, Requesting
    <2> QED
      BY <1>1, <1>6, <2>1 DEF Inv, TypeOK
  <1>8. CellsOK'
    BY <1>1 DEF Inv, CellsOK
  <1>9. MigrationOK'
    <2>1. ASSUME NEW t \in Tenants, NEW i \in 1 .. next' - 1
          PROVE  txn'[t][secretColumns[i]] \in Sealed \cup {Empty, Nothing}
      <3>1. i \in 1 .. 4 /\ (i = next \/ i \in 1 .. next - 1)
        BY <1>1
      <3>2. CASE secretColumns[i] = c
        BY <1>2, <1>5, <3>1, <3>2
      <3>3. CASE secretColumns[i] # c
        <4>1. i \in 1 .. next - 1 /\ txn'[t][secretColumns[i]] = txn[t][secretColumns[i]]
          BY <1>2, <1>5, <3>1, <3>3
        <4> QED
          BY <1>1, <4>1 DEF Inv, MigrationOK
      <3> QED
        BY <3>2, <3>3
    <2>2. \A t \in Tenants, d \in Columns :
            /\ Says(txn'[t][d]) = Says(cells[t][d])
            /\ IsSealed(txn'[t][d]) => txn'[t][d].key \in keysUsed
      BY <1>1, <1>5 DEF Inv, MigrationOK
    <2>3. SealedWhileServing'
      BY <1>1 DEF SealedWhileServing
    <2> QED
      BY <1>1, <1>3, <2>1, <2>2, <2>3 DEF MigrationOK
  <1>10. WorkOK'
    BY <1>1, IdleNowhere DEF Inv, WorkOK
  <1> QED
    BY <1>7, <1>8, <1>9, <1>10 DEF Inv

(* All columns are done: every row is sealed, and says what it said.  *)
LEMMA CommitKeeps ==
  ASSUME Inv, Commit
  PROVE  /\ Inv'
         /\ \A t \in Tenants, c \in Columns : Says(cells'[t][c]) = Says(cells[t][c])
  <1>1. /\ cells' = txn /\ phase = "encrypting" /\ phase' = "serving" /\ next = 5
        /\ UNCHANGED <<cipher, txn, next, work, supplied, keysUsed, starts, requests, errors>>
    BY DEF Commit, secretColumns, Inv, TypeOK
  <1>2. \A t \in Tenants, c \in Columns :
          /\ Says(txn[t][c]) = Says(cells[t][c])
          /\ IsSealed(txn[t][c]) => txn[t][c].key \in keysUsed
    BY <1>1 DEF Inv, MigrationOK
  <1>3. TypeOK'
    BY <1>1 DEF Inv, TypeOK
  <1>4. CellsOK'
    BY <1>1, <1>2 DEF Inv, CellsOK
  <1>5. SealedWhileServing'
    <2>1. ASSUME NEW t \in Tenants, NEW c \in Columns
          PROVE  txn[t][c] \in Sealed \cup {Empty, Nothing}
      <3>1. PICK i \in 1 .. 4 : c = secretColumns[i]
        BY DEF Columns, secretColumns
      <3> QED
        BY <1>1, <3>1 DEF Inv, MigrationOK
    <2> QED
      BY <1>1, <2>1 DEF SealedWhileServing
  <1>6. MigrationOK'
    BY <1>1, <1>5 DEF Inv, MigrationOK
  <1>7. \A w \in Workers : work'[w] = Idle
    BY <1>1 DEF Inv, WorkOK
  <1>8. WorkOK'
    BY <1>1, <1>7, IdleNowhere DEF WorkOK
  <1> QED
    BY <1>1, <1>2, <1>3, <1>4, <1>6, <1>8 DEF Inv

(* A stop loses the requests and the uncommitted rows.  *)
LEMMA StopKeeps ==
  ASSUME Inv, Stop
  PROVE  Inv'
  <1>1. /\ phase' = "down" /\ txn' = cells /\ next' = 1 /\ work' = [w \in Workers |-> Idle]
        /\ UNCHANGED <<cells, cipher, supplied, keysUsed, starts, requests, errors>>
    BY DEF Stop
  <1>2. work' \in [Workers -> Requested \cup {Idle}] /\ \A w \in Workers : work'[w] = Idle
    BY <1>1
  <1>3. TypeOK'
    BY <1>1, <1>2 DEF Inv, TypeOK, secretColumns
  <1>4. CellsOK'
    BY <1>1 DEF Inv, CellsOK
  <1>5. MigrationOK'
    BY <1>1 DEF Inv, MigrationOK, SealedWhileServing
  <1>6. WorkOK'
    BY <1>2, IdleNowhere DEF WorkOK
  <1> QED
    BY <1>3, <1>4, <1>5, <1>6 DEF Inv

(* Every step keeps the invariant.  *)
LEMMA NextKeeps == Inv /\ [Next]_vars => Inv'
  <1> SUFFICES ASSUME Inv, [Next]_vars PROVE Inv'
    OBVIOUS
  <1>1. CASE UNCHANGED vars
    BY <1>1 DEF vars, Inv, TypeOK, CellsOK, MigrationOK, SealedWhileServing, WorkOK, CanRead
  <1> QED
    BY <1>1, StartKeeps, EncryptKeeps, CommitKeeps, StopKeeps, ServeKeeps DEF Next

-----------------------------------------------------------------------------
(* The promises.                                                               *)

(* Inv is an invariant.  *)
THEOREM Invariance == Spec => []Inv
  BY InitInv, NextKeeps, PTL DEF Spec

(* Type correctness of the database, the migration and the requests.  *)
THEOREM TypeCorrect == Spec => []TypeOK
  BY Invariance, PTL DEF Inv

(* No process ever reads from a column what nobody supplied for it: wrong keys *)
(* and plain rows included, it is the text, or an error.                       *)
THEOREM ReadsAreGenuine == Spec => []NeverGarbage
  <1>1. Inv => NeverGarbage
    <2> SUFFICES ASSUME Inv PROVE NeverGarbage
      OBVIOUS
    <2>1. ASSUME NEW t \in Tenants, NEW c \in Columns
          PROVE  Open(cipher, cells[t][c]) \in supplied[t][c] \cup {Nothing, Refused}
      <3>1. cells[t][c] \in Stored /\ Says(cells[t][c]) \in supplied[t][c] \cup {Nothing}
        BY DEF Inv, TypeOK, CellsOK
      <3> QED
        BY <3>1, StoredSays
    <2> QED
      BY <2>1 DEF Inv, WorkOK, NeverGarbage
  <1> QED
    BY <1>1, Invariance, PTL

(* A process that serves with a key has sealed every secret.  *)
THEOREM NoPlainSecrets == Spec => []SealedWhileServing
  BY Invariance, PTL DEF Inv, MigrationOK

(* Rows from before encryption, from starts without the key and with it: a key *)
(* that was the only one opens them all.                                       *)
THEOREM OneKeySuffices == Spec => []OneKeyOpensAll
  <1>1. Inv => OneKeyOpensAll
    <2> SUFFICES ASSUME Inv, keysUsed \subseteq {cipher}, NEW t \in Tenants, NEW c \in Columns
                 PROVE  Open(cipher, cells[t][c]) # Refused
      BY DEF OneKeyOpensAll
    <2>1. cells[t][c] \in Stored /\ (IsSealed(cells[t][c]) => cells[t][c].key = cipher)
      BY DEF Inv, TypeOK, CellsOK
    <2>2. Open(cipher, cells[t][c]) = Says(cells[t][c]) /\ Says(cells[t][c]) # Refused
      <3>1. CASE IsSealed(cells[t][c])
        BY <2>1, <3>1, StoredSays
      <3>2. CASE ~IsSealed(cells[t][c])
        BY <2>1, <3>2, StoredSays
      <3> QED
        BY <3>1, <3>2
    <2> QED
      BY <2>2
  <1> QED
    BY <1>1, Invariance, PTL

-----------------------------------------------------------------------------
(* What a request may do to which rows.                                        *)

RowsWhole == \A t \in Tenants : cells[t]["api_key"] = Nothing => cells[t] = NoRow

InsertsKey ==
  \A w \in Workers : work[w].at = "insert" => work[w].op \in {"install", "createTenant"}

Whole == Inv /\ RowsWhole /\ InsertsKey

(* The statements a request may send for its tenant t: some texts for a row    *)
(* that it can read or that is new, the token it read, or the deletion.        *)
Stores(t) ==
  \E C \in SUBSET Columns : \E f \in [C -> Plain] :
    /\ Put(t, f)
    /\ CanRead(t) /\ (Exists(t) \/ "api_key" \in C)

PutsBack(t) ==
  \E x \in supplied[t]["bot_token"] \cup {Nothing} :
    /\ cells' = [cells EXCEPT ![t]["bot_token"] = Seal(cipher, x)] /\ UNCHANGED supplied
    /\ CanRead(t) /\ Exists(t)

Deletes(t) ==
  /\ cells' = [cells EXCEPT ![t] = NoRow] /\ UNCHANGED supplied
  /\ CanRead(t)

(* An absent value opens with every key, and only NULL says NULL.  *)
LEMMA NothingOpens ==
  /\ \A c : Open(c, Nothing) = Nothing
  /\ Nothing # Refused
  /\ \A x \in Stored : Says(x) = Nothing <=> x = Nothing
  <1>1. ~IsSealed(Nothing) /\ Nothing # Refused
    BY Distinct DEF IsSealed, Stored
  <1>2. \A c : Open(c, Nothing) = Nothing
    BY <1>1 DEF Open
  <1>3. ASSUME NEW x \in Stored PROVE Says(x) = Nothing <=> x = Nothing
    <2>1. CASE x \in Sealed
      <3>1. Says(x) = x.text /\ x.text \in Texts
        BY <2>1, StoredSays DEF Says, Sealed
      <3>2. x # Nothing
        BY <1>1, <2>1, StoredSays
      <3> QED
        BY <3>1, <3>2, Distinct DEF Plain
    <2>2. CASE x \notin Sealed
      BY <2>2, StoredSays
    <2> QED
      BY <2>1, <2>2
  <1> QED
    BY <1>1, <1>2, <1>3

(* A tenant that is not there has nothing that cannot be read.  *)
LEMMA AbsentReads ==
  ASSUME RowsWhole, NEW t \in Tenants, ~Exists(t)
  PROVE  CanRead(t)
  <1>1. cells[t] = NoRow
    BY DEF RowsWhole, Exists
  <1>2. \A c \in {"bot_token", "api_key"} : cells[t][c] = Nothing
    BY <1>1 DEF NoRow, Columns
  <1> QED
    BY <1>2, NothingOpens DEF CanRead

(* What a statement of a request does to the tables: store what the request    *)
(* carries, put back the token, forget the tenant, or nothing.  *)
LEMMA ServeEffect ==
  ASSUME Whole, NEW w \in Workers, Serve(w)
  PROVE  \/ UNCHANGED <<cells, supplied>>
         \/ \E t \in Tenants : Stores(t) \/ PutsBack(t) \/ Deletes(t)
  <1> DEFINE t == work[w].tenant
  <1>1. CASE Insert(w)
    <2>1. /\ work[w] \in Requested /\ work[w].texts \in Sends(work[w].op)
          /\ work[w].op \in {"install", "createTenant"}
      BY <1>1, IdleNowhere DEF Whole, Inv, TypeOK, Insert, InsertsKey
    <2>2. t \in Tenants /\ work[w].op \in Ops
      BY <2>1 DEF Requested
    <2>3. "api_key" \in DOMAIN work[w].texts
      BY <2>1 DEF Sends
    <2>4. DOMAIN work[w].texts \in SUBSET Columns /\ work[w].texts \in [DOMAIN work[w].texts -> Plain]
      BY <2>1, <2>2, SendsPlain
    <2>5. CASE ~Exists(t)
      <3>1. Put(t, work[w].texts) /\ CanRead(t)
        BY <1>1, <2>2, <2>5, AbsentReads DEF Insert, Whole
      <3>2. Stores(t)
        BY <2>3, <2>4, <3>1 DEF Stores
      <3> QED
        BY <2>2, <3>2
    <2> QED
      BY <1>1, <2>5 DEF Insert
  <1>2. CASE Write(w)
    <2> DEFINE f == IF work[w].op = "install" THEN Only(work[w].texts, {"bot_token"})
                                              ELSE work[w].texts
    <2>1. work[w] \in Requested /\ work[w].texts \in Sends(work[w].op) /\ CanRead(t)
      BY <1>2, IdleNowhere DEF Whole, Inv, TypeOK, WorkOK, Write
    <2>2. t \in Tenants /\ work[w].op \in Ops
      BY <2>1 DEF Requested
    <2>3. DOMAIN f \in SUBSET Columns /\ f \in [DOMAIN f -> Plain]
      BY <2>1, <2>2, SendsPlain DEF Only
    <2>4. CASE Exists(t)
      <3>1. Put(t, f)
        BY <1>2, <2>4 DEF Write
      <3>2. Stores(t)
        BY <2>1, <2>3, <2>4, <3>1 DEF Stores
      <3> QED
        BY <2>2, <3>2
    <2> QED
      BY <1>2, <2>4 DEF Write
  <1>3. CASE Delete(w)
    <2>1. work[w] \in Requested /\ CanRead(t)
      BY <1>3, IdleNowhere DEF Whole, Inv, TypeOK, WorkOK, Delete
    <2>2. t \in Tenants /\ Deletes(t)
      BY <1>3, <2>1 DEF Requested, Delete, Deletes
    <2> QED
      BY <2>2
  <1>4. CASE SetAccount(w)
    <2>1. /\ work[w] \in Requested /\ CanRead(t) /\ UNCHANGED supplied
          /\ work[w].bot \in supplied[t]["bot_token"] \cup {Nothing}
      BY <1>4, IdleNowhere DEF Whole, Inv, TypeOK, WorkOK, SetAccount
    <2>2. t \in Tenants
      BY <2>1 DEF Requested
    <2>3. CASE Exists(t)
      <3>1. PutsBack(t)
        BY <1>4, <2>1, <2>3 DEF SetAccount, PutsBack
      <3> QED
        BY <2>2, <3>1
    <2> QED
      BY <1>4, <2>1, <2>3 DEF SetAccount
  <1> QED
    BY <1>1, <1>2, <1>3, <1>4
    DEF Serve, Arrive, Authenticate, LookUp, List, Fail, Reads

(* Sealing makes nothing of no text, and nothing of nothing.  *)
LEMMA EffectWhole ==
  ASSUME Whole, NEW t \in Tenants, Stores(t) \/ PutsBack(t) \/ Deletes(t)
  PROVE  RowsWhole'
  <1>0. TypeOK /\ RowsWhole /\ "api_key" \in Columns /\ cipher \in Keys \cup {NoKey}
    BY DEF Whole, Inv, TypeOK, Columns
  <1>1. SUFFICES ASSUME NEW u \in Tenants, cells'[u]["api_key"] = Nothing
                 PROVE  cells'[u] = NoRow
    BY DEF RowsWhole
  <1>2. CASE Stores(t)
    <2>1. PICK C \in SUBSET Columns : \E f \in [C -> Plain] :
            Put(t, f) /\ (Exists(t) \/ "api_key" \in C)
      BY <1>2 DEF Stores
    <2>2. PICK f \in [C -> Plain] : Put(t, f) /\ (Exists(t) \/ "api_key" \in C)
      BY <2>1
    <2>3. CASE u = t
      <3>1. cells'[u]["api_key"] = IF "api_key" \in C THEN Seal(cipher, f["api_key"])
                                                       ELSE cells[u]["api_key"]
        BY <1>0, <2>2, <2>3 DEF Put, TypeOK
      <3>2. "api_key" \in C => Seal(cipher, f["api_key"]) # Nothing
        <4>1. "api_key" \in C => Says(Seal(cipher, f["api_key"])) # Nothing
          BY <1>0, <2>2, SealOpens, Distinct
        <4>2. "api_key" \in C => Seal(cipher, f["api_key"]) \in Stored
          BY <1>0, <2>2, SealOpens
        <4> QED
          BY <4>1, <4>2, NothingOpens
      <3> QED
        BY <1>1, <2>2, <2>3, <3>1, <3>2 DEF Exists
    <2>4. CASE u # t
      BY <1>0, <1>1, <2>2, <2>4 DEF Put, TypeOK, RowsWhole
    <2> QED
      BY <2>3, <2>4
  <1>3. CASE PutsBack(t)
    <2>1. PICK x : cells' = [cells EXCEPT ![t]["bot_token"] = Seal(cipher, x)] /\ Exists(t)
      BY <1>3 DEF PutsBack
    <2>2. cells'[u]["api_key"] = cells[u]["api_key"] /\ (u # t => cells'[u] = cells[u])
      BY <1>0, <2>1 DEF TypeOK
    <2> QED
      BY <1>0, <1>1, <2>1, <2>2 DEF RowsWhole, Exists
  <1>4. CASE Deletes(t)
    <2>1. cells'[u] = IF u = t THEN NoRow ELSE cells[u]
      BY <1>0, <1>4 DEF Deletes, TypeOK
    <2> QED
      BY <1>0, <1>1, <2>1 DEF RowsWhole
  <1> QED
    BY <1>2, <1>3, <1>4

(* Only createTenant and an installation insert.  *)
LEMMA InsertsKeyKeeps ==
  ASSUME Whole, NEW w \in Workers, Serve(w)
  PROVE  InsertsKey'
  <1>1. TypeOK /\ Advances(w)
    BY ServeOK DEF Whole, Inv, StepOK
  <1>2. work'[w].at = "insert" => work'[w].op \in {"install", "createTenant"}
    <2>1. CASE Done(w)
      BY <1>1, <2>1, DoneAdvances, IdleNowhere
    <2>2. ASSUME NEW op \in Ops, NEW t \in Tenants, NEW f \in Sends(op), Arrive(w, op, t, f)
          PROVE  work'[w].at = "insert" => work'[w].op \in {"install", "createTenant"}
      <3>1. work'[w].at = Entry(op) /\ work'[w].op = op
        BY <1>1, <2>2 DEF Arrive, TypeOK
      <3> QED
        BY <3>1 DEF Entry, Ops
    <2>3. ASSUME work[w] # Idle, NEW at \in {"lookup", "write", "insert"}, Goto(w, at),
                 at = "insert" => work[w].op = "install"
          PROVE  work'[w].at = "insert" => work'[w].op \in {"install", "createTenant"}
      BY <1>1, <2>3, GotoAdvances
    <2>4. CASE List(w) \/ SetAccount(w)
      <3>1. CASE work' = [work EXCEPT ![w].at = "account",
                                      ![w].bot = Open(cipher, cells[work[w].tenant]["bot_token"])]
        <4>1. work[w] \in Requested
          BY <1>1, <2>4, IdleNowhere DEF TypeOK, List, SetAccount
        <4>2. work'[w].at = "account"
          BY <1>1, <3>1, <4>1 DEF TypeOK, Requested
        <4> QED
          BY <4>2
      <3>2. CASE work' = [work EXCEPT ![w].at = "write", ![w].bot = Nothing]
        <4>1. work[w] \in Requested
          BY <1>1, <2>4, IdleNowhere DEF TypeOK, List, SetAccount
        <4>2. work'[w].at = "write"
          BY <1>1, <3>2, <4>1 DEF TypeOK, Requested
        <4> QED
          BY <4>2
      <3> QED
        BY <2>1, <2>4, <3>1, <3>2 DEF List, SetAccount
    <2>5. CASE Authenticate(w)
      <3>1. work[w] # Idle
        BY <2>5, IdleNowhere DEF Authenticate
      <3> QED
        BY <2>1, <2>3, <2>5, <3>1 DEF Authenticate
    <2>6. CASE LookUp(w)
      <3>1. work[w] # Idle
        BY <2>6, IdleNowhere DEF LookUp
      <3> QED
        BY <2>1, <2>3, <2>6, <3>1 DEF LookUp
    <2> QED
      BY <2>1, <2>2, <2>4, <2>5, <2>6 DEF Serve, Insert, Write, Delete, Fail
  <1> QED
    BY <1>1, <1>2 DEF Whole, InsertsKey, Advances

(* Legacy databases have no row without its tenant.  *)
LEMMA InitWhole == Init => Whole
  <1> SUFFICES ASSUME Init PROVE Whole
    OBVIOUS
  <1>1. RowsWhole
    BY LegacyRows DEF Init, RowsWhole
  <1>2. InsertsKey
    BY IdleNowhere DEF Init, InsertsKey
  <1> QED
    BY <1>1, <1>2, InitInv DEF Whole

(* The migration seals values, and makes none appear or vanish.  *)
LEMMA CommitWhole ==
  ASSUME Whole, Commit
  PROVE  RowsWhole'
  <1>1. TypeOK /\ TypeOK' /\ \A t \in Tenants, c \in Columns : Says(cells'[t][c]) = Says(cells[t][c])
    BY CommitKeeps DEF Whole, Inv
  <1>2. \A t \in Tenants, c \in Columns : cells'[t][c] = Nothing <=> cells[t][c] = Nothing
    BY <1>1, NothingOpens DEF TypeOK
  <1>3. ASSUME NEW t \in Tenants, cells'[t]["api_key"] = Nothing
        PROVE  cells'[t] = NoRow
    <2>1. cells[t] = NoRow
      BY <1>2, <1>3 DEF Whole, RowsWhole, Columns
    <2>2. \A c \in Columns : cells'[t][c] = Nothing
      BY <1>2, <2>1 DEF NoRow
    <2> QED
      BY <1>1, <2>2 DEF NoRow, TypeOK
  <1> QED
    BY <1>3 DEF RowsWhole

(* Every step keeps the rows whole.  *)
LEMMA NextWhole == Whole /\ [Next]_vars => Whole'
  <1> SUFFICES ASSUME Whole, [Next]_vars PROVE Whole'
    OBVIOUS
  <1>1. Inv'
    BY NextKeeps DEF Whole
  <1>2. ASSUME UNCHANGED <<cells, work>> PROVE RowsWhole' /\ InsertsKey'
    BY <1>2 DEF Whole, RowsWhole, InsertsKey
  <1>3. CASE Commit
    BY <1>1, <1>3, CommitWhole DEF Commit, Whole, InsertsKey
  <1>4. CASE Stop
    <2>1. \A w \in Workers : work'[w] = Idle
      BY <1>4 DEF Stop
    <2> QED
      BY <1>1, <1>4, <2>1, IdleNowhere DEF Stop, Whole, RowsWhole, InsertsKey
  <1>5. ASSUME NEW w \in Workers, Serve(w) PROVE RowsWhole' /\ InsertsKey'
    <2>1. CASE UNCHANGED <<cells, supplied>>
      BY <1>5, <2>1, InsertsKeyKeeps DEF Whole, RowsWhole
    <2> QED
      BY <1>5, <2>1, InsertsKeyKeeps, ServeEffect, EffectWhole
  <1> QED
    BY <1>1, <1>2, <1>3, <1>4, <1>5
    DEF Next, vars, Start, EncryptColumn, Requesting, Whole

(* Rows of the other tables stay with their tenant's, whatever happens.  *)
THEOREM WholeInvariance == Spec => []Whole
  BY InitWhole, NextWhole, PTL DEF Spec

(* A request changes no tenant that its process cannot read: a start with the  *)
(* wrong key, or none, costs nobody a secret.                                  *)
THEOREM UnreadableStays == Spec => WrongKeyDoesNoHarm
  <1>1. Whole /\ [Next]_vars =>
          [phase = "serving" => \A t \in Tenants : ~CanRead(t) => cells'[t] = cells[t]]_vars
    <2> SUFFICES ASSUME Whole, Next, phase = "serving", NEW u \in Tenants, ~CanRead(u)
                 PROVE  cells'[u] = cells[u]
      BY DEF vars
    <2>1. ASSUME NEW w \in Workers, Serve(w) PROVE cells'[u] = cells[u]
      <3>1. CASE UNCHANGED <<cells, supplied>>
        BY <3>1
      <3>2. ASSUME NEW t \in Tenants, Stores(t) \/ PutsBack(t) \/ Deletes(t)
            PROVE  cells'[u] = cells[u]
        <4>1. u # t
          BY <3>2 DEF Stores, PutsBack, Deletes
        <4>2. cells \in [Tenants -> [Columns -> Stored]]
          BY DEF Whole, Inv, TypeOK
        <4> QED
          BY <3>2, <4>1, <4>2 DEF Stores, PutsBack, Deletes, Put
      <3> QED
        BY <2>1, <3>1, <3>2, ServeEffect
    <2> QED
      BY <2>1 DEF Next, Start, EncryptColumn, Commit, Stop, Requesting
  <1> QED
    BY <1>1, WholeInvariance, PTL DEF Spec, WrongKeyDoesNoHarm

-----------------------------------------------------------------------------
(* Secrets implements Vault.                                                   *)

Said == [t \in Tenants |-> [c \in Columns |-> Says(cells[t][c])]]

(* What the columns say, as a table.  *)
LEMMA SaidTyped ==
  ASSUME TypeOK
  PROVE  /\ Said \in [Tenants -> [Columns -> Plain \cup {Nothing}]]
         /\ \A t \in Tenants, c \in Columns : Said[t][c] = Says(cells[t][c])
  <1>1. \A t \in Tenants, c \in Columns : Says(cells[t][c]) \in Plain \cup {Nothing}
    BY StoredSays DEF TypeOK
  <1> QED
    BY <1>1 DEF Said

(* The same of the next state.  *)
LEMMA SaidTypedNext ==
  ASSUME TypeOK'
  PROVE  /\ Said' \in [Tenants -> [Columns -> Plain \cup {Nothing}]]
         /\ \A t \in Tenants, c \in Columns : Said'[t][c] = Says(cells'[t][c])
  <1>1. \A t \in Tenants, c \in Columns : cells'[t][c] \in Stored
    BY DEF TypeOK
  <1>2. \A t \in Tenants, c \in Columns : Says(cells'[t][c]) \in Plain \cup {Nothing}
    BY <1>1, StoredSays
  <1> QED
    BY <1>2 DEF Said

(* When no column changes what it says, the table is the same.  *)
LEMMA SameSaid ==
  ASSUME \A t \in Tenants, c \in Columns : Says(cells'[t][c]) = Says(cells[t][c])
  PROVE  Said' = Said
  BY DEF Said

(* Storing is a Supply of the abstract specification.  *)
LEMMA StoresSupplies ==
  ASSUME Whole, Whole', NEW t \in Tenants, Stores(t)
  PROVE  V!Next
  <1>1. TypeOK /\ TypeOK' /\ cipher \in Keys \cup {NoKey}
    BY DEF Whole, Inv, TypeOK
  <1>2. PICK C \in SUBSET Columns : \E f \in [C -> Plain] : Put(t, f)
    BY DEF Stores
  <1>3. PICK f \in [C -> Plain] : Put(t, f)
    BY <1>2
  <1>4. ASSUME NEW u \in Tenants, NEW c \in Columns
        PROVE  Says(cells'[u][c]) = IF u = t /\ c \in C THEN f[c] ELSE Says(cells[u][c])
    <2>1. cells'[u][c] = IF u = t /\ c \in C THEN Seal(cipher, f[c]) ELSE cells[u][c]
      BY <1>1, <1>3 DEF Put, TypeOK
    <2>2. c \in C => Says(Seal(cipher, f[c])) = f[c]
      BY <1>1, <1>3, SealOpens
    <2> QED
      BY <2>1, <2>2
  <1>5. Said' = [Said EXCEPT ![t] = [c \in Columns |-> IF c \in DOMAIN f THEN f[c] ELSE Said[t][c]]]
    <2>1. \A u \in Tenants, c \in Columns :
            Said'[u][c] = IF u = t /\ c \in C THEN f[c] ELSE Said[u][c]
      BY <1>1, <1>4, SaidTyped, SaidTypedNext
    <2>2. Said' \in [Tenants -> [Columns -> Plain \cup {Nothing}]]
      BY <1>1, SaidTypedNext
    <2>3. Said \in [Tenants -> [Columns -> Plain \cup {Nothing}]]
      BY <1>1, SaidTyped
    <2> DEFINE g == [c \in Columns |-> IF c \in DOMAIN f THEN f[c] ELSE Said[t][c]]
    <2>4. Said'[t] = g
      BY <2>1, <2>2, <1>3
    <2>5. \A u \in Tenants \ {t} : Said'[u] = Said[u]
      BY <2>1, <2>2, <2>3
    <2> HIDE DEF g
    <2>6. Said' = [Said EXCEPT ![t] = g]
      BY <2>2, <2>3, <2>4, <2>5
    <2> QED
      BY <2>6 DEF g
  <1>6. supplied' = [supplied EXCEPT ![t] =
          [c \in Columns |-> IF c \in DOMAIN f THEN supplied[t][c] \cup {f[c]} ELSE supplied[t][c]]]
    BY <1>3 DEF Put
  <1>7. V!Supply(t, f)
    BY <1>5, <1>6 DEF V!Supply, Said, V!Columns, Columns
  <1> QED
    BY <1>2, <1>3, <1>7 DEF V!Next, V!Columns, Columns, Plain

(* Writing back the token is a PutBack.  *)
LEMMA PutsBackRestores ==
  ASSUME Whole, Whole', NEW t \in Tenants, PutsBack(t)
  PROVE  V!Next
  <1>1. TypeOK /\ TypeOK' /\ cipher \in Keys \cup {NoKey} /\ "bot_token" \in Columns
    BY DEF Whole, Inv, TypeOK, Columns
  <1>2. PICK x \in supplied[t]["bot_token"] \cup {Nothing} :
          cells' = [cells EXCEPT ![t]["bot_token"] = Seal(cipher, x)] /\ UNCHANGED supplied
    BY DEF PutsBack
  <1>3. x \in Plain \cup {Nothing}
    BY <1>1 DEF TypeOK
  <1>4. ASSUME NEW u \in Tenants, NEW c \in Columns
        PROVE  Says(cells'[u][c]) = IF u = t /\ c = "bot_token" THEN x ELSE Says(cells[u][c])
    <2>1. cells'[u][c] = IF u = t /\ c = "bot_token" THEN Seal(cipher, x) ELSE cells[u][c]
      BY <1>1, <1>2 DEF TypeOK
    <2>2. Says(Seal(cipher, x)) = x
      BY <1>1, <1>3, SealOpens
    <2> QED
      BY <2>1, <2>2
  <1>5. Said' = [Said EXCEPT ![t] = [c \in Columns |-> IF c = "bot_token" THEN x ELSE Said[t][c]]]
    <2>1. \A u \in Tenants, c \in Columns :
            Said'[u][c] = IF u = t /\ c = "bot_token" THEN x ELSE Said[u][c]
      BY <1>1, <1>4, SaidTyped, SaidTypedNext
    <2>2. Said' \in [Tenants -> [Columns -> Plain \cup {Nothing}]]
      BY <1>1, SaidTypedNext
    <2>3. Said \in [Tenants -> [Columns -> Plain \cup {Nothing}]]
      BY <1>1, SaidTyped
    <2> DEFINE g == [c \in Columns |-> IF c = "bot_token" THEN x ELSE Said[t][c]]
    <2>4. Said'[t] = g
      BY <2>1, <2>2
    <2>5. \A u \in Tenants \ {t} : Said'[u] = Said[u]
      BY <2>1, <2>2, <2>3
    <2> HIDE DEF g
    <2>6. Said' = [Said EXCEPT ![t] = g]
      BY <2>2, <2>3, <2>4, <2>5
    <2> QED
      BY <2>6 DEF g
  <1>6. V!PutBack(t, x)
    BY <1>2, <1>5 DEF V!PutBack, Said, V!Columns, Columns
  <1> QED
    BY <1>3, <1>6 DEF V!Next, Plain

(* Deleting is a Forget.  *)
LEMMA DeletesForgets ==
  ASSUME Whole, Whole', NEW t \in Tenants, Deletes(t)
  PROVE  V!Next
  <1>1. TypeOK /\ TypeOK'
    BY DEF Whole, Inv
  <1>2. cells' = [cells EXCEPT ![t] = NoRow] /\ UNCHANGED supplied
    BY DEF Deletes
  <1>3. Says(Nothing) = Nothing
    BY DEF Says, IsSealed
  <1>4. \A u \in Tenants, c \in Columns :
          Says(cells'[u][c]) = IF u = t THEN Nothing ELSE Says(cells[u][c])
    BY <1>1, <1>2, <1>3 DEF TypeOK, NoRow
  <1>5. Said' = [Said EXCEPT ![t] = [c \in Columns |-> Nothing]]
    BY <1>4 DEF Said
  <1>6. V!Forget(t)
    BY <1>2, <1>5 DEF V!Forget, Said, V!Columns, Columns
  <1> QED
    BY <1>6 DEF V!Next

(* Whatever is sealed, migrated, rolled back or restarted, the database says   *)
(* what was supplied for a column and not replaced or forgotten since.         *)
THEOREM Implements == Spec => KeepsSecrets
  <1>1. Init => V!Init
    <2> SUFFICES ASSUME Init PROVE V!Init
      OBVIOUS
    <2>1. TypeOK
      BY InitInv DEF Inv
    <2>2. \A t \in Tenants, c \in Columns : Says(cells[t][c]) = cells[t][c]
      BY LegacyRows DEF Init, Says, IsSealed
    <2>3. \A t \in Tenants, c \in Columns : Said[t][c] = cells[t][c]
      BY <2>1, <2>2, SaidTyped
    <2>4. supplied = [t \in Tenants |-> [c \in Columns |-> {Said[t][c]} \ {Nothing}]]
      BY <2>3 DEF Init
    <2>5. Said \in [Tenants -> [Columns -> Texts \cup {Empty, Nothing}]]
      BY <2>1, SaidTyped DEF Plain
    <2> QED
      BY <2>4, <2>5 DEF V!Init, Said, V!Columns, Columns
  <1>2. Whole /\ Whole' /\ [Next]_vars => [V!Next]_<<Said, supplied>>
    <2> SUFFICES ASSUME Whole, Whole', [Next]_vars
                 PROVE  V!Next \/ (Said' = Said /\ supplied' = supplied)
      OBVIOUS
    <2>1. ASSUME UNCHANGED <<cells, supplied>>
          PROVE  Said' = Said /\ supplied' = supplied
      BY <2>1, SameSaid
    <2>2. ASSUME NEW w \in Workers, Serve(w)
          PROVE  V!Next \/ (Said' = Said /\ supplied' = supplied)
      BY <2>1, <2>2, ServeEffect, StoresSupplies, PutsBackRestores, DeletesForgets
    <2>3. CASE Commit
      BY <2>3, CommitKeeps, SameSaid DEF Whole, Commit
    <2> QED
      BY <2>1, <2>2, <2>3 DEF Next, vars, Start, EncryptColumn, Stop, Requesting
  <1>3. [V!Next]_<<Said, supplied>>
          <=> [V!Next]_<<[t \in Tenants |-> [c \in Columns |-> Says(cells[t][c])]], supplied>>
    BY DEF Said
  <1>4. Whole /\ Whole' /\ [Next]_vars =>
          [V!Next]_<<[t \in Tenants |-> [c \in Columns |-> Says(cells[t][c])]], supplied>>
    BY <1>2, <1>3
  <1> QED
    BY <1>1, <1>4, WholeInvariance, PTL DEF Spec, KeepsSecrets, V!Spec

=============================================================================
