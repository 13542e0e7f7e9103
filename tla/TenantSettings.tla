---------------------------- MODULE TenantSettings ----------------------------
(* The requests on one tenant's settings as the handlers carry them out: each  *)
(* in a goroutine of its own, one SQLite statement at a time. A request that   *)
(* changes one column reads the row, changes it in memory and writes the       *)
(* columns of its UPDATE back, so two requests can undo each other.            *)
EXTENDS SettingsData

CONSTANTS Workers,
          MaxRequests, MaxErrors     \* bounds for TLC

VARIABLES
  tenant, admins, filters, subs, creds, lastFilter, lastSub,   \* the tables
  worker,    \* the request of each goroutine, the statement it is at, the row it read
  clash,     \* two requests that disturb each other have overlapped
  issued,    \* keys that were ever generated
  retired,   \* keys that were replaced
  begun, errors                                                \* bounded

rows == <<tenant, admins, filters, subs, creds, lastFilter, lastSub>>
vars == <<tenant, admins, filters, subs, creds, lastFilter, lastSub,
          worker, clash, issued, retired, begun, errors>>

Atomic == INSTANCE Settings

Idle == [req |-> None, at |-> "idle", row |-> None]
Busy(w) == worker[w].req # None
Req(w)  == worker[w].req
Row(w)  == worker[w].row
At(w, at, ops) == worker[w].at = at /\ worker[w].req.op \in ops

WorkerState ==
  {Idle} \cup [req : Requests, at : {"read", "write", "then"},
                row : Tenant \cup Filter \cup Subscription \cup {None}]

TypeOK ==
  /\ Consistent(tenant, admins, filters, subs, creds, lastFilter, lastSub)
  /\ worker \in [Workers -> WorkerState]
  /\ clash \in BOOLEAN
  /\ issued \subseteq Keys /\ retired \subseteq Keys
  /\ begun \in Nat /\ errors \in Nat

(*************************** Which requests disturb each other ************)
(* Cells <<table, row, column>>; the row None stands for any row.           *)
TenantCells(cols) == {<<"tenant", None, c>> : c \in cols}
FilterCells(sel, cols) == {<<"filter", IF sel \in Patterns THEN None ELSE sel, c>> : c \in cols}
SubCells(ch) == {<<"sub", ch, "row">>}

SentColumns(r, cols) == {c \in cols : r[c] # None}

(* The cells a request changes. *)
Changes(r) ==
  CASE r.op = "defaults" -> TenantCells(SentColumns(r, {"suffix", "link"}))
    [] r.op = "override" -> FilterCells(r.sel, SentColumns(r, {"suffix", "link"}))
    [] r.op = "patch"    -> FilterCells(r.sel, {"suffix", "link"} \cup SentColumns(r, {"pattern"}))
    [] r.op = "deleteFilter" -> FilterCells(r.sel, {"pattern", "suffix", "link"})
    [] r.op \in {"subscribe", "unsubscribe", "createSubscription"} -> SubCells(r.target)
    [] r.op \in {"updateSubscription", "deleteSubscription"} -> SubCells(None)
    [] r.op = "removeAdmin" -> {<<"admin", r.user, "row">>}
    [] r.op = "rotate"   -> TenantCells({"key"})
    [] r.op = "setup"    -> TenantCells({"account"})
    [] r.op = "install"  -> TenantCells(IF tenant = None THEN {"row"} ELSE {"token"})
    [] r.op \in {"createTenant", "deleteTenant"} -> TenantCells({"row"})
    [] OTHER -> {}

(* The cells it has read when it writes: its authority, what it decides on and *)
(* the columns it writes back as it read them.                                  *)
RestsOn(r) ==
  TenantCells({"row"})
  \cup (IF r.who \in Users THEN {<<"admin", r.who, "row">>}
        ELSE IF r.who \in Keys THEN TenantCells({"key"}) ELSE {})
  \cup (CASE r.op = "defaults" -> TenantCells({c \in {"suffix", "link"} : r[c] = None})
          [] r.op = "override" ->
               FilterCells(r.sel, {"pattern"} \cup {c \in {"suffix", "link"} : r[c] = None})
          [] r.op = "patch" -> FilterCells(r.sel, {c \in {"pattern"} : r[c] = None})
          [] r.op \in {"subscribe", "unsubscribe"} -> SubCells(r.target)
          [] r.op = "updateSubscription" -> SubCells(None)
          [] r.op = "setup"   -> TenantCells({"suffix", "link", "token"})
          [] r.op = "install" -> TenantCells({"suffix", "link", "account"})
          [] OTHER -> {})

Meet(x, y) == x[1] = y[1] /\ x[3] = y[3] /\ (x[2] = y[2] \/ None \in {x[2], y[2]})

Disturbs(r, q) == \E x \in Changes(r), y \in RestsOn(q) : Meet(x, y)

(*************************** The beginning of a request *******************)
Init ==
  /\ Atomic!Init
  /\ worker = [w \in Workers |-> Idle]
  /\ clash = FALSE
  /\ issued = IF tenant = None THEN {} ELSE {tenant.key}
  /\ retired = {}
  /\ begun = 0 /\ errors = 0

Authorised(r) ==
  CASE r.who \in Users -> r.who \in admins
    [] r.who \in Keys  -> tenant # None /\ tenant.key = r.who
    [] OTHER -> TRUE

(* Keys are random: a new one was never used. *)
Generates(r) == r.op \in {"rotate", "install", "createTenant"}

ReadFirst(r) ==
  r.op \in {"defaults", "override", "patch", "deleteFilter", "subscribe", "unsubscribe",
            "updateSubscription", "deleteSubscription", "install", "deleteTenant"}

(* Variant: anybody can be removed. *)
NoSelfCheck(r) == TRUE

(* "You can't remove yourself as admin." *)
NotOneself(r) == r.op = "removeAdmin" => r.user # r.who

(* IsAdmin for a command, GetTenant for a key. The setup page finds its tenant *)
(* by the key and keeps the row.                                               *)
Begin(w, r) ==
  /\ ~Busy(w) /\ begun < MaxRequests
  /\ Authorised(r)
  /\ NotOneself(r)
  /\ Generates(r) => r.key \notin issued
  /\ issued' = IF Generates(r) THEN issued \cup {r.key} ELSE issued
  /\ worker' = [worker EXCEPT ![w] =
       [req |-> r, at |-> IF ReadFirst(r) THEN "read" ELSE "write",
        row |-> IF r.op = "setup" THEN tenant ELSE None]]
  /\ clash' = LET others == {v \in Workers \ {w} : Busy(v)}
              IN  others # {} /\ (clash \/ \E v \in others : Disturbs(r, Req(v)) \/ Disturbs(Req(v), r))
  /\ begun' = begun + 1
  /\ UNCHANGED <<rows, retired, errors>>

Goes(w, at, row) ==
  /\ worker' = [worker EXCEPT ![w] = [req |-> Req(w), at |-> at, row |-> row]]
  /\ UNCHANGED <<clash, issued, begun, errors>>

Ends(w) ==
  /\ worker' = [worker EXCEPT ![w] = Idle]
  /\ UNCHANGED <<clash, issued, begun, errors>>

(* A statement that fails ends the request. A failure to make the installer an *)
(* admin is only logged, and the callback ends all the same.                   *)
StatementFails(w) ==
  /\ Busy(w) /\ errors < MaxErrors
  /\ errors' = errors + 1
  /\ worker' = [worker EXCEPT ![w] = Idle]
  /\ UNCHANGED <<rows, clash, issued, retired, begun>>

(*************************** Reading **************************************)
(* Without a tenant the request ends, or the callback creates one. *)
GetTenant(w) ==
  /\ At(w, "read", {"defaults", "install", "deleteTenant"})
  /\ IF tenant = None /\ Req(w).op # "install" THEN Ends(w) ELSE Goes(w, "write", tenant)
  /\ UNCHANGED <<rows, retired>>

(* ListFilters and the first of that pattern, in any order, or GetFilter. *)
FindFilter(w) ==
  /\ At(w, "read", {"override", "patch", "deleteFilter"})
  /\ LET found == Selected(filters, Req(w).sel)
     IN  IF found = {} THEN Ends(w) ELSE \E f \in found : Goes(w, "write", f)
  /\ UNCHANGED <<rows, retired>>

(* Variant: a subscription that is switched off does not count. *)
CheckEnabledDuplicate(w) ==
  /\ At(w, "read", {"subscribe"})
  /\ IF \E s \in SlackOn(subs, Req(w).target) : s.enabled THEN Ends(w) ELSE Goes(w, "write", None)
  /\ UNCHANGED <<rows, retired>>

(* ListSubscriptions: a duplicate ends subscribe. *)
CheckDuplicate(w) ==
  /\ At(w, "read", {"subscribe"})
  /\ IF SlackOn(subs, Req(w).target) # {} THEN Ends(w) ELSE Goes(w, "write", None)
  /\ UNCHANGED <<rows, retired>>

FindSubscription(w) ==
  /\ At(w, "read", {"unsubscribe", "updateSubscription", "deleteSubscription"})
  /\ LET found == IF Req(w).op = "unsubscribe" THEN SlackOn(subs, Req(w).target)
                  ELSE {s \in subs : s.id = Req(w).id}
     IN  IF found = {} THEN Ends(w) ELSE \E s \in found : Goes(w, "write", s)
  /\ UNCHANGED <<rows, retired>>

(*************************** Writing the tenant ***************************)
(* Both columns, the one that was not sent as it was read. *)
UpdateTenantDefaults(w) ==
  /\ At(w, "write", {"defaults"})
  /\ tenant' = IF tenant = None THEN None
               ELSE [tenant EXCEPT !.suffix = Sent(Req(w).suffix, Row(w).suffix),
                                   !.link   = Sent(Req(w).link, Row(w).link)]
  /\ Ends(w)
  /\ UNCHANGED <<admins, filters, subs, creds, lastFilter, lastSub, retired>>

(* The row as it was read, with the account or the token replaced. *)
Changed(w) ==
  IF Req(w).op = "setup" THEN [Row(w) EXCEPT !.account = Req(w).account]
  ELSE [Row(w) EXCEPT !.token = Req(w).token]

(* Variant: the key is written back too. *)
AllColumns(w) == Changed(w)

(* Every column but the key. *)
Updated(w) == [Changed(w) EXCEPT !.key = tenant.key]

UpdateTenant(w) ==
  /\ At(w, "write", {"setup", "install"}) /\ Row(w) # None
  /\ tenant' = IF tenant = None THEN None ELSE Updated(w)
  /\ IF Req(w).op = "setup" /\ Req(w).creds = None THEN Ends(w) ELSE Goes(w, "then", None)
  /\ UNCHANGED <<admins, filters, subs, creds, lastFilter, lastSub, retired>>

(* Fails on the primary key if the tenant is there by now. *)
CreateTenant(w) ==
  /\ At(w, "write", {"install", "createTenant"}) /\ Row(w) = None
  /\ IF tenant # None THEN tenant' = tenant /\ Ends(w)
     ELSE IF Req(w).op = "install"
       THEN tenant' = NewTenant(None, Req(w).token, Req(w).key) /\ Goes(w, "then", None)
       ELSE tenant' = NewTenant(Req(w).account, None, Req(w).key) /\ Ends(w)
  /\ UNCHANGED <<admins, filters, subs, creds, lastFilter, lastSub, retired>>

UpdateTenantAPIKey(w) ==
  /\ At(w, "write", {"rotate"})
  /\ tenant' = IF tenant = None THEN None ELSE [tenant EXCEPT !.key = Req(w).key]
  /\ retired' = IF tenant = None THEN retired ELSE retired \cup {tenant.key}
  /\ Ends(w)
  /\ UNCHANGED <<admins, filters, subs, creds, lastFilter, lastSub>>

(* Variant: without ON DELETE CASCADE. *)
DeleteTenantOnly(w) ==
  /\ At(w, "write", {"deleteTenant"})
  /\ tenant' = None
  /\ retired' = IF tenant = None THEN retired ELSE retired \cup {tenant.key}
  /\ Ends(w)
  /\ UNCHANGED <<admins, filters, subs, creds, lastFilter, lastSub>>

DeleteTenant(w) ==
  /\ At(w, "write", {"deleteTenant"})
  /\ tenant' = None /\ admins' = {} /\ filters' = {} /\ subs' = {} /\ creds' = None
  /\ retired' = IF tenant = None THEN retired ELSE retired \cup {tenant.key}
  /\ Ends(w)
  /\ UNCHANGED <<lastFilter, lastSub>>

(*************************** Writing the other tables *********************)
(* Inserts without their tenant are refused by the foreign key. *)
AddAdmin(w) ==
  /\ At(w, "write", {"addAdmin"}) \/ At(w, "then", {"install"})
  /\ admins' = IF tenant = None THEN admins ELSE admins \cup {Req(w).user}
  /\ Ends(w)
  /\ UNCHANGED <<tenant, filters, subs, creds, lastFilter, lastSub, retired>>

RemoveAdmin(w) ==
  /\ At(w, "write", {"removeAdmin"})
  /\ admins' = admins \ {Req(w).user}
  /\ Ends(w)
  /\ UNCHANGED <<tenant, filters, subs, creds, lastFilter, lastSub, retired>>

UpsertZoomCredentials(w) ==
  /\ At(w, "write", {"putCreds"}) \/ At(w, "then", {"setup"})
  /\ creds' = IF tenant = None THEN creds ELSE Req(w).creds
  /\ Ends(w)
  /\ UNCHANGED <<tenant, admins, filters, subs, lastFilter, lastSub, retired>>

CreateFilter(w) ==
  /\ At(w, "write", {"createFilter"})
  /\ IF tenant = None THEN UNCHANGED <<filters, lastFilter>>
     ELSE /\ lastFilter' = lastFilter + 1
          /\ filters' = filters \cup {[id |-> lastFilter', pattern |-> Req(w).pattern,
                                       suffix |-> Req(w).suffix, link |-> Req(w).link]}
  /\ Ends(w)
  /\ UNCHANGED <<tenant, admins, subs, creds, lastSub, retired>>

(* The row as it was read, with the changes, over the row of that id. *)
UpdateFilter(w) ==
  /\ At(w, "write", {"override", "patch"})
  /\ LET r   == Req(w)
         row == IF r.op = "override"
                  THEN [Row(w) EXCEPT !.suffix = Sent(r.suffix, @), !.link = Sent(r.link, @)]
                  ELSE [Row(w) EXCEPT !.pattern = Sent(r.pattern, @), !.suffix = r.suffix, !.link = r.link]
     IN  filters' = {IF f.id = row.id THEN row ELSE f : f \in filters}
  /\ Ends(w)
  /\ UNCHANGED <<tenant, admins, subs, creds, lastFilter, lastSub, retired>>

DeleteFilter(w) ==
  /\ At(w, "write", {"deleteFilter"})
  /\ filters' = {f \in filters : f.id # Row(w).id}
  /\ Ends(w)
  /\ UNCHANGED <<tenant, admins, subs, creds, lastFilter, lastSub, retired>>

CreateSubscription(w) ==
  /\ At(w, "write", {"subscribe", "createSubscription"})
  /\ IF tenant = None THEN UNCHANGED <<subs, lastSub>>
     ELSE /\ lastSub' = lastSub + 1
          /\ subs' = subs \cup {[id |-> lastSub', target |-> Req(w).target, enabled |-> TRUE,
                                 type |-> IF Req(w).op = "subscribe" THEN "slack" ELSE Req(w).type]}
  /\ Ends(w)
  /\ UNCHANGED <<tenant, admins, filters, creds, lastFilter, retired>>

UpdateSubscription(w) ==
  /\ At(w, "write", {"updateSubscription"})
  /\ LET row == [Row(w) EXCEPT !.enabled = Sent(Req(w).enabled, @), !.target = Sent(Req(w).target, @)]
     IN  subs' = {IF s.id = row.id THEN row ELSE s : s \in subs}
  /\ Ends(w)
  /\ UNCHANGED <<tenant, admins, filters, creds, lastFilter, lastSub, retired>>

DeleteSubscription(w) ==
  /\ At(w, "write", {"unsubscribe", "deleteSubscription"})
  /\ subs' = {s \in subs : s.id # Row(w).id}
  /\ Ends(w)
  /\ UNCHANGED <<tenant, admins, filters, creds, lastFilter, lastSub, retired>>

Step(w) ==
  \/ \E r \in Requests : Begin(w, r)
  \/ GetTenant(w) \/ FindFilter(w) \/ CheckDuplicate(w) \/ FindSubscription(w)
  \/ UpdateTenantDefaults(w) \/ UpdateTenant(w) \/ CreateTenant(w)
  \/ UpdateTenantAPIKey(w) \/ DeleteTenant(w)
  \/ AddAdmin(w) \/ RemoveAdmin(w) \/ UpsertZoomCredentials(w)
  \/ CreateFilter(w) \/ UpdateFilter(w) \/ DeleteFilter(w)
  \/ CreateSubscription(w) \/ UpdateSubscription(w) \/ DeleteSubscription(w)
  \/ StatementFails(w)

Next == \E w \in Workers : Step(w)
Spec == Init /\ [][Next]_vars

(*************************** Properties ***********************************)
(* Requests overlap at will; as long as none of them disturbs another one, each *)
(* takes effect as the one step Settings describes, in spite of the rows that   *)
(* are read, kept and written back whole.                                       *)
AtomicUnlessClash == [][clash \/ Atomic!Next]_rows

(* A key that was replaced never works again: the requests that write a tenant *)
(* back as they read it (setup page, re-install) leave out the key.            *)
RetiredStaysRetired == tenant # None => tenant.key \notin retired

(* A workspace that has admins keeps one: nobody removes themselves, and who    *)
(* removes the others is an admin, unless two requests crossed. The API key may *)
(* remove all of them.                                                          *)
AnAdminRemains ==
  [][\/ clash \/ admins = {} \/ admins' # {} \/ tenant' = None
     \/ \E w \in Workers : At(w, "write", {"removeAdmin"}) /\ Req(w).who \in Keys /\ ~Busy(w)']_vars
=============================================================================
