------------------------- MODULE TenantSettingsProofs -------------------------
(***************************************************************************)
(* Facts of TenantSettings that hold for any number of goroutines and      *)
(* requests, and for any requests; and that TenantSettings implements      *)
(* Settings as long as no two requests that disturb each other overlap.    *)
(***************************************************************************)
EXTENDS TenantSettings, TLAPS

USE RequestsAssumption

-----------------------------------------------------------------------------
(* Requests and rows *)

(* What a request carries, by its kind. *)
LEMMA RequestFields ==
  ASSUME NEW r \in Requests
  PROVE  /\ r # None
         /\ r.op = "defaults" => r.suffix \in Opt(Suffixes) /\ r.link \in Opt(Links)
         /\ r.op = "override" =>
              r.sel \in Patterns \cup Ids /\ r.suffix \in Opt(Suffixes) /\ r.link \in Opt(Links)
         /\ r.op = "patch" =>
              r.sel \in Ids /\ r.pattern \in Opt(Patterns) /\ r.suffix \in Opt(Suffixes) /\ r.link \in Opt(Links)
         /\ r.op = "createFilter" =>
              r.pattern \in Patterns /\ r.suffix \in Opt(Suffixes) /\ r.link \in Opt(Links)
         /\ r.op = "deleteFilter" => r.sel \in Ids
         /\ r.op \in {"subscribe", "unsubscribe"} => r.target \in Channels
         /\ r.op = "createSubscription" => r.type \in Types /\ r.target \in Channels
         /\ r.op = "updateSubscription" =>
              r.id \in Ids /\ r.enabled \in Opt(BOOLEAN) /\ r.target \in Opt(Channels)
         /\ r.op = "deleteSubscription" => r.id \in Ids
         /\ r.op \in {"addAdmin", "removeAdmin"} => r.user \in Users
         /\ r.op = "rotate" => r.key \in Keys
         /\ r.op = "putCreds" => r.creds \in Creds
         /\ r.op = "setup" => r.account \in Accounts /\ r.creds \in Opt(Creds)
         /\ r.op = "install" => r.user \in Users /\ r.token \in Tokens /\ r.key \in Keys
         /\ r.op = "createTenant" => r.account \in Accounts /\ r.key \in Keys
<1>1. r \in Request /\ r # None
  OBVIOUS
<1> QED
  BY <1>1 DEF Request

(* Who makes it. *)
LEMMA RequestMaker ==
  ASSUME NEW r \in Requests
  PROVE  /\ r.op \in {"override", "subscribe", "unsubscribe"} => r.who \in Users
         /\ r.op \in {"patch", "deleteFilter", "createSubscription", "updateSubscription",
                      "deleteSubscription", "rotate", "putCreds", "setup", "deleteTenant"} => r.who \in Keys
         /\ r.op \in {"defaults", "createFilter", "addAdmin", "removeAdmin"} => r.who \in Users \cup Keys
         /\ r.op \in {"install", "createTenant"} => r.who = None
BY DEF Request

-----------------------------------------------------------------------------
(* Type correctness *)

(* What a goroutine has read when it comes to its write. *)
RowFits(w) ==
  /\ At(w, "write", {"defaults", "setup"}) => Row(w) \in Tenant
  /\ At(w, "write", {"install"}) => Row(w) \in Tenant \cup {None}
  /\ At(w, "write", {"override", "patch", "deleteFilter"}) =>
       /\ Row(w) \in Filter /\ Row(w).id <= lastFilter
       /\ Req(w).sel \in {Row(w).id, Row(w).pattern}
  /\ At(w, "write", {"unsubscribe", "updateSubscription", "deleteSubscription"}) =>
       /\ Row(w) \in Subscription /\ Row(w).id <= lastSub
       /\ Req(w).op # "unsubscribe" => Row(w).id = Req(w).id
  /\ At(w, "then", {"setup"}) => Req(w).creds # None
  /\ worker[w].at = "then" => Req(w).op \in {"setup", "install"}

(* With it the type invariant is inductive. *)
Typed == TypeOK /\ \A w \in Workers : RowFits(w)

LEMMA GoesTyped ==
  ASSUME TypeOK, NEW w \in Workers, Busy(w), NEW at \in {"write", "then"},
         NEW row \in Tenant \cup Filter \cup Subscription \cup {None},
         Goes(w, at, row)
  PROVE  /\ worker' \in [Workers -> WorkerState]
         /\ worker'[w] = [req |-> worker[w].req, at |-> at, row |-> row]
         /\ \A v \in Workers : v # w => worker'[v] = worker[v]
<1>1. Req(w) \in Requests
  BY DEF TypeOK, WorkerState, Busy, Idle, Req
<1>2. [req |-> Req(w), at |-> at, row |-> row] \in WorkerState
  BY <1>1 DEF WorkerState
<1> QED
  BY <1>2 DEF Goes, TypeOK, Req

LEMMA EndsTyped ==
  ASSUME TypeOK, NEW w \in Workers, worker' = [worker EXCEPT ![w] = Idle]
  PROVE  /\ worker' \in [Workers -> WorkerState]
         /\ worker'[w] = Idle
         /\ \A v \in Workers : v # w => worker'[v] = worker[v]
BY DEF TypeOK, WorkerState, Idle

LEMMA IdleFits ==
  ASSUME NEW w \in Workers, worker[w] = Idle
  PROVE  RowFits(w)
BY DEF RowFits, Idle, At

(* A goroutine that does nothing keeps what it has. *)
LEMMA OthersFit ==
  ASSUME NEW w \in Workers, RowFits(w), worker'[w] = worker[w], lastFilter \in Nat, lastSub \in Nat,
         lastFilter' \in Nat, lastSub' \in Nat, lastFilter <= lastFilter', lastSub <= lastSub',
         At(w, "write", {"override", "patch", "deleteFilter"}) => Row(w) \in Filter,
         At(w, "write", {"unsubscribe", "updateSubscription", "deleteSubscription"}) => Row(w) \in Subscription
  PROVE  RowFits(w)'
BY DEF RowFits, At, Req, Row, Filter, Subscription, Ids

LEMMA AllFit ==
  ASSUME Typed, NEW w \in Workers, \A v \in Workers : v # w => worker'[v] = worker[v], RowFits(w)',
         lastFilter' \in Nat, lastSub' \in Nat, lastFilter <= lastFilter', lastSub <= lastSub'
  PROVE  \A v \in Workers : RowFits(v)'
<1> SUFFICES ASSUME NEW v \in Workers, v # w PROVE RowFits(v)'
  OBVIOUS
<1>1. lastFilter \in Nat /\ lastSub \in Nat
  BY DEF Typed, TypeOK, Consistent
<1>2. RowFits(v)
  BY DEF Typed
<1>3. /\ At(v, "write", {"override", "patch", "deleteFilter"}) => Row(v) \in Filter
      /\ At(v, "write", {"unsubscribe", "updateSubscription", "deleteSubscription"}) => Row(v) \in Subscription
  BY <1>2 DEF RowFits
<1> QED
  BY <1>1, <1>2, <1>3, OthersFit

LEMMA IdleFitsNext ==
  ASSUME NEW w \in Workers, worker'[w] = Idle
  PROVE  RowFits(w)'
BY DEF RowFits, Idle, At

LEMMA TypedInit ==
  Init => Typed
<1> SUFFICES ASSUME Init PROVE Typed
  OBVIOUS
<1>1. Consistent(tenant, admins, filters, subs, creds, lastFilter, lastSub)
  BY DEF Init, Atomic!Init
<1>2. worker \in [Workers -> WorkerState]
  BY DEF Init, Idle, WorkerState
<1>3. issued \subseteq Keys
  <2>1. tenant # None => tenant.key \in Keys
    BY <1>1 DEF Consistent, Tenant
  <2> QED
    BY <2>1 DEF Init
<1>4. \A w \in Workers : RowFits(w)
  BY IdleFits DEF Init
<1> QED
  BY <1>1, <1>2, <1>3, <1>4 DEF Init, Typed, TypeOK

LEMMA TypedBegin ==
  ASSUME Typed, NEW w \in Workers, NEW r \in Requests, Begin(w, r)
  PROVE  Typed'
<1>1. UNCHANGED rows /\ UNCHANGED <<retired, errors>>
  BY DEF Begin
<1>2. Consistent(tenant, admins, filters, subs, creds, lastFilter, lastSub)'
  BY <1>1 DEF Typed, TypeOK, rows
<1> DEFINE row == IF r.op = "setup" THEN tenant ELSE None
           x == [req |-> r, at |-> IF ReadFirst(r) THEN "read" ELSE "write", row |-> row]
<1>3. worker' = [worker EXCEPT ![w] = x]
  BY DEF Begin
<1>4. row \in Tenant \cup {None} /\ (r.op = "setup" => row \in Tenant)
  <2>1. r.op = "setup" => tenant # None
    BY RequestMaker DEF Begin, Authorised
  <2> QED
    BY <2>1 DEF Typed, TypeOK, Consistent
<1>5. x \in WorkerState
  BY <1>4 DEF WorkerState
<1>6. /\ worker' \in [Workers -> WorkerState]
      /\ worker'[w] = x
      /\ \A v \in Workers : v # w => worker'[v] = worker[v]
  BY <1>3, <1>5 DEF Typed, TypeOK
<1>7. RowFits(w)'
  BY <1>4, <1>6 DEF RowFits, At, Row, Req, ReadFirst
<1>8. lastFilter' = lastFilter /\ lastSub' = lastSub /\ lastFilter \in Nat /\ lastSub \in Nat
  BY <1>1 DEF rows, Typed, TypeOK, Consistent
<1>9. \A v \in Workers : RowFits(v)'
  BY <1>6, <1>7, <1>8, AllFit
<1>10. issued' \subseteq Keys /\ retired' \subseteq Keys
  BY <1>1, RequestFields DEF Begin, Generates, Typed, TypeOK
<1>11. begun' \in Nat /\ errors' \in Nat /\ clash' \in BOOLEAN
  BY <1>1 DEF Begin, Typed, TypeOK
<1> QED
  BY <1>2, <1>6, <1>9, <1>10, <1>11 DEF Typed, TypeOK

(* The steps of a request after its beginning, but for what they write. *)
LEMMA TypedEnds ==
  ASSUME Typed, NEW w \in Workers, worker' = [worker EXCEPT ![w] = Idle],
         Consistent(tenant, admins, filters, subs, creds, lastFilter, lastSub)',
         lastFilter <= lastFilter', lastSub <= lastSub', UNCHANGED <<clash, issued, begun>>,
         errors' \in Nat, retired' \subseteq Keys
  PROVE  Typed'
<1>1. /\ worker' \in [Workers -> WorkerState]
      /\ worker'[w] = Idle
      /\ \A v \in Workers : v # w => worker'[v] = worker[v]
  BY EndsTyped DEF Typed
<1>2. lastFilter' \in Nat /\ lastSub' \in Nat
  BY DEF Consistent
<1>3. \A v \in Workers : RowFits(v)'
  BY <1>1, <1>2, IdleFitsNext, AllFit
<1> QED
  BY <1>1, <1>3 DEF Typed, TypeOK

LEMMA TypedGoes ==
  ASSUME Typed, NEW w \in Workers, Busy(w), NEW at \in {"write", "then"},
         NEW row \in Tenant \cup Filter \cup Subscription \cup {None}, Goes(w, at, row),
         Consistent(tenant, admins, filters, subs, creds, lastFilter, lastSub)',
         lastFilter <= lastFilter', lastSub <= lastSub', retired' \subseteq Keys,
         worker'[w] = [req |-> worker[w].req, at |-> at, row |-> row] => RowFits(w)'
  PROVE  Typed'
<1>1. /\ worker' \in [Workers -> WorkerState]
      /\ worker'[w] = [req |-> worker[w].req, at |-> at, row |-> row]
      /\ \A v \in Workers : v # w => worker'[v] = worker[v]
  BY GoesTyped DEF Typed
<1>2. lastFilter' \in Nat /\ lastSub' \in Nat
  BY DEF Consistent
<1>3. \A v \in Workers : RowFits(v)'
  BY <1>1, <1>2, AllFit
<1> QED
  BY <1>1, <1>3 DEF Typed, TypeOK, Goes

(* A goroutine at a statement has a request. *)
LEMMA AtWork ==
  ASSUME TypeOK, NEW w \in Workers, worker[w].at # "idle"
  PROVE  Busy(w) /\ Req(w) \in Requests
BY DEF TypeOK, WorkerState, Idle, Busy, Req

-----------------------------------------------------------------------------
(* Type correctness: reading *)

LEMMA TypedGetTenant ==
  ASSUME Typed, NEW w \in Workers, GetTenant(w)
  PROVE  Typed'
<1>1. Busy(w)
  BY AtWork DEF Typed, GetTenant, At
<1>2. /\ Consistent(tenant, admins, filters, subs, creds, lastFilter, lastSub)'
      /\ lastFilter <= lastFilter' /\ lastSub <= lastSub' /\ retired' \subseteq Keys
  BY DEF GetTenant, rows, Typed, TypeOK, Consistent
<1>3. CASE Ends(w)
  BY <1>2, <1>3, TypedEnds DEF Ends, Typed, TypeOK
<1>4. CASE Goes(w, "write", tenant) /\ (tenant # None \/ Req(w).op = "install")
  <2>1. tenant \in Tenant \cup {None}
    BY DEF Typed, TypeOK, Consistent
  <2>2. worker'[w] = [req |-> worker[w].req, at |-> "write", row |-> tenant] => RowFits(w)'
    BY <1>4, <2>1 DEF RowFits, At, Req, Row, GetTenant
  <2> QED
    BY <1>1, <1>2, <1>4, <2>1, <2>2, TypedGoes
<1> QED
  BY <1>3, <1>4 DEF GetTenant

LEMMA TypedFindFilter ==
  ASSUME Typed, NEW w \in Workers, FindFilter(w)
  PROVE  Typed'
<1>1. Busy(w)
  BY AtWork DEF Typed, FindFilter, At
<1>2. /\ Consistent(tenant, admins, filters, subs, creds, lastFilter, lastSub)'
      /\ lastFilter <= lastFilter' /\ lastSub <= lastSub' /\ retired' \subseteq Keys
      /\ lastFilter' = lastFilter
  BY DEF FindFilter, rows, Typed, TypeOK, Consistent
<1>3. CASE Ends(w)
  BY <1>2, <1>3, TypedEnds DEF Ends, Typed, TypeOK
<1>4. CASE \E f \in Selected(filters, Req(w).sel) : Goes(w, "write", f)
  <2>1. PICK f \in Selected(filters, Req(w).sel) : Goes(w, "write", f)
    BY <1>4
  <2>2. f \in Filter /\ f.id <= lastFilter /\ Req(w).sel \in {f.id, f.pattern}
    BY DEF Typed, TypeOK, Consistent, Selected
  <2>3. worker'[w] = [req |-> worker[w].req, at |-> "write", row |-> f] => RowFits(w)'
    BY <1>2, <2>2 DEF RowFits, At, Req, Row, FindFilter
  <2> QED
    BY <1>1, <1>2, <2>1, <2>2, <2>3, TypedGoes
<1> QED
  BY <1>3, <1>4 DEF FindFilter

LEMMA TypedCheckDuplicate ==
  ASSUME Typed, NEW w \in Workers, CheckDuplicate(w)
  PROVE  Typed'
<1>1. Busy(w)
  BY AtWork DEF Typed, CheckDuplicate, At
<1>2. /\ Consistent(tenant, admins, filters, subs, creds, lastFilter, lastSub)'
      /\ lastFilter <= lastFilter' /\ lastSub <= lastSub' /\ retired' \subseteq Keys
  BY DEF CheckDuplicate, rows, Typed, TypeOK, Consistent
<1>3. CASE Ends(w)
  BY <1>2, <1>3, TypedEnds DEF Ends, Typed, TypeOK
<1>4. CASE Goes(w, "write", None)
  <2>1. worker'[w] = [req |-> worker[w].req, at |-> "write", row |-> None] => RowFits(w)'
    BY DEF RowFits, At, Req, Row, CheckDuplicate
  <2> QED
    BY <1>1, <1>2, <1>4, <2>1, TypedGoes
<1> QED
  BY <1>3, <1>4 DEF CheckDuplicate

LEMMA TypedFindSubscription ==
  ASSUME Typed, NEW w \in Workers, FindSubscription(w)
  PROVE  Typed'
<1>1. Busy(w)
  BY AtWork DEF Typed, FindSubscription, At
<1>2. /\ Consistent(tenant, admins, filters, subs, creds, lastFilter, lastSub)'
      /\ lastFilter <= lastFilter' /\ lastSub <= lastSub' /\ retired' \subseteq Keys
      /\ lastSub' = lastSub
  BY DEF FindSubscription, rows, Typed, TypeOK, Consistent
<1>3. CASE Ends(w)
  BY <1>2, <1>3, TypedEnds DEF Ends, Typed, TypeOK
<1>4. CASE ~ Ends(w)
  <2>1. PICK s \in subs : /\ Goes(w, "write", s)
                          /\ Req(w).op # "unsubscribe" => s.id = Req(w).id
    BY <1>4 DEF FindSubscription, SlackOn
  <2>2. s \in Subscription /\ s.id <= lastSub
    BY DEF Typed, TypeOK, Consistent
  <2>3. worker'[w] = [req |-> worker[w].req, at |-> "write", row |-> s] => RowFits(w)'
    BY <1>2, <2>1, <2>2 DEF RowFits, At, Req, Row, FindSubscription
  <2> QED
    BY <1>1, <1>2, <2>1, <2>2, <2>3, TypedGoes
<1> QED
  BY <1>3, <1>4

-----------------------------------------------------------------------------
(* Type correctness: writing *)

LEMMA TypedUpdateTenantDefaults ==
  ASSUME Typed, NEW w \in Workers, UpdateTenantDefaults(w)
  PROVE  Typed'
<1>1. Req(w) \in Requests
  BY AtWork DEF Typed, UpdateTenantDefaults, At
<1>2. Row(w) \in Tenant
  BY DEF UpdateTenantDefaults, Typed, RowFits, At
<1>3. Req(w).suffix \in Opt(Suffixes) /\ Req(w).link \in Opt(Links)
  BY <1>1, RequestFields DEF UpdateTenantDefaults, At, Req
<1>4. tenant # None => tenant' \in Tenant
  BY <1>2, <1>3 DEF UpdateTenantDefaults, Sent, Opt, Tenant, Typed, TypeOK, Consistent
<1>5. Consistent(tenant, admins, filters, subs, creds, lastFilter, lastSub)'
  BY <1>4 DEF UpdateTenantDefaults, Typed, TypeOK, Consistent
<1>9. /\ Ends(w) /\ lastFilter <= lastFilter' /\ lastSub <= lastSub'
      /\ retired' \subseteq Keys
  BY DEF UpdateTenantDefaults, Typed, TypeOK, Consistent
<1> QED
  BY <1>5, <1>9, TypedEnds DEF Ends, Typed, TypeOK

LEMMA TypedUpdateTenant ==
  ASSUME Typed, NEW w \in Workers, UpdateTenant(w)
  PROVE  Typed'
<1>1. Req(w) \in Requests /\ Busy(w)
  BY AtWork DEF Typed, UpdateTenant, At
<1>2. Row(w) \in Tenant
  BY DEF UpdateTenant, Typed, RowFits, At
<1>3. /\ Req(w).op = "setup" => Req(w).account \in Accounts
      /\ Req(w).op = "install" => Req(w).token \in Tokens
  BY <1>1, RequestFields
<1>4. tenant # None => tenant' \in Tenant
  <2>1. Changed(w) \in Tenant
    BY <1>2, <1>3 DEF UpdateTenant, At, Req, Changed, Tenant, Opt
  <2>2. tenant # None => tenant.key \in Keys
    BY DEF Typed, TypeOK, Consistent, Tenant
  <2>3. tenant # None => Updated(w) \in Tenant
    BY <2>1, <2>2 DEF Updated, Tenant
  <2> QED
    BY <2>3 DEF UpdateTenant
<1>5. Consistent(tenant, admins, filters, subs, creds, lastFilter, lastSub)'
  BY <1>4 DEF UpdateTenant, Typed, TypeOK, Consistent
<1>6. lastFilter <= lastFilter' /\ lastSub <= lastSub' /\ retired' \subseteq Keys
  BY DEF UpdateTenant, Typed, TypeOK, Consistent
<1>7. CASE Ends(w)
  BY <1>5, <1>6, <1>7, TypedEnds DEF Ends, Typed, TypeOK
<1>8. CASE Goes(w, "then", None) /\ ~(Req(w).op = "setup" /\ Req(w).creds = None)
  <2>1. worker'[w] = [req |-> worker[w].req, at |-> "then", row |-> None] => RowFits(w)'
    BY <1>8 DEF RowFits, At, Req, Row, UpdateTenant
  <2> QED
    BY <1>1, <1>5, <1>6, <1>8, <2>1, TypedGoes
<1> QED
  BY <1>7, <1>8 DEF UpdateTenant

LEMMA TypedCreateTenant ==
  ASSUME Typed, NEW w \in Workers, CreateTenant(w)
  PROVE  Typed'
<1>1. Req(w) \in Requests /\ Busy(w)
  BY AtWork DEF Typed, CreateTenant, At
<1>2. tenant' \in Tenant
  <2>1. /\ Req(w).op = "install" => Req(w).token \in Tokens /\ Req(w).key \in Keys
        /\ Req(w).op = "createTenant" => Req(w).account \in Accounts /\ Req(w).key \in Keys
    BY <1>1, RequestFields
  <2> QED
    BY <2>1 DEF CreateTenant, At, Req, NewTenant, Tenant, Opt, Links, Typed, TypeOK, Consistent
<1>3. Consistent(tenant, admins, filters, subs, creds, lastFilter, lastSub)'
  BY <1>2 DEF CreateTenant, Typed, TypeOK, Consistent
<1>4. lastFilter <= lastFilter' /\ lastSub <= lastSub' /\ retired' \subseteq Keys
  BY DEF CreateTenant, Typed, TypeOK, Consistent
<1>5. CASE Ends(w)
  BY <1>3, <1>4, <1>5, TypedEnds DEF Ends, Typed, TypeOK
<1>6. CASE Goes(w, "then", None) /\ Req(w).op = "install"
  <2>1. worker'[w] = [req |-> worker[w].req, at |-> "then", row |-> None] => RowFits(w)'
    BY <1>6 DEF RowFits, At, Req, Row
  <2> QED
    BY <1>1, <1>3, <1>4, <1>6, <2>1, TypedGoes
<1> QED
  BY <1>5, <1>6 DEF CreateTenant

LEMMA TypedUpdateTenantAPIKey ==
  ASSUME Typed, NEW w \in Workers, UpdateTenantAPIKey(w)
  PROVE  Typed'
<1>1. Req(w).key \in Keys
  BY AtWork, RequestFields DEF Typed, UpdateTenantAPIKey, At, Req
<1>2. tenant # None => tenant' \in Tenant /\ tenant.key \in Keys
  BY <1>1 DEF UpdateTenantAPIKey, Tenant, Typed, TypeOK, Consistent
<1>3. Consistent(tenant, admins, filters, subs, creds, lastFilter, lastSub)'
  BY <1>2 DEF UpdateTenantAPIKey, Typed, TypeOK, Consistent
<1>9. /\ Ends(w) /\ lastFilter <= lastFilter' /\ lastSub <= lastSub'
      /\ retired' \subseteq Keys
  BY <1>2 DEF UpdateTenantAPIKey, Typed, TypeOK, Consistent
<1> QED
  BY <1>3, <1>9, TypedEnds DEF Ends, Typed, TypeOK

LEMMA TypedDeleteTenant ==
  ASSUME Typed, NEW w \in Workers, DeleteTenant(w)
  PROVE  Typed'
<1>1. Consistent(tenant, admins, filters, subs, creds, lastFilter, lastSub)'
  BY DEF DeleteTenant, Opt, Typed, TypeOK, Consistent
<1>2. tenant # None => tenant.key \in Keys
  BY DEF Tenant, Typed, TypeOK, Consistent
<1>9. /\ Ends(w) /\ lastFilter <= lastFilter' /\ lastSub <= lastSub'
      /\ retired' \subseteq Keys
  BY <1>2 DEF DeleteTenant, Typed, TypeOK, Consistent
<1> QED
  BY <1>1, <1>9, TypedEnds DEF Ends, Typed, TypeOK

LEMMA TypedAddAdmin ==
  ASSUME Typed, NEW w \in Workers, AddAdmin(w)
  PROVE  Typed'
<1>1. Req(w).user \in Users
  BY AtWork, RequestFields DEF Typed, AddAdmin, At, Req
<1>2. Consistent(tenant, admins, filters, subs, creds, lastFilter, lastSub)'
  BY <1>1 DEF AddAdmin, Typed, TypeOK, Consistent
<1>9. /\ Ends(w) /\ lastFilter <= lastFilter' /\ lastSub <= lastSub'
      /\ retired' \subseteq Keys
  BY DEF AddAdmin, Typed, TypeOK, Consistent
<1> QED
  BY <1>2, <1>9, TypedEnds DEF Ends, Typed, TypeOK

LEMMA TypedRemoveAdmin ==
  ASSUME Typed, NEW w \in Workers, RemoveAdmin(w)
  PROVE  Typed'
<1>1. Consistent(tenant, admins, filters, subs, creds, lastFilter, lastSub)'
  BY DEF RemoveAdmin, Typed, TypeOK, Consistent
<1>9. /\ Ends(w) /\ lastFilter <= lastFilter' /\ lastSub <= lastSub'
      /\ retired' \subseteq Keys
  BY DEF RemoveAdmin, Typed, TypeOK, Consistent
<1> QED
  BY <1>1, <1>9, TypedEnds DEF Ends, Typed, TypeOK

LEMMA TypedUpsertZoomCredentials ==
  ASSUME Typed, NEW w \in Workers, UpsertZoomCredentials(w)
  PROVE  Typed'
<1>1. Req(w).creds \in Opt(Creds)
  BY AtWork, RequestFields DEF Typed, UpsertZoomCredentials, At, Req, Opt
<1>2. Consistent(tenant, admins, filters, subs, creds, lastFilter, lastSub)'
  BY <1>1 DEF UpsertZoomCredentials, Typed, TypeOK, Consistent
<1>9. /\ Ends(w) /\ lastFilter <= lastFilter' /\ lastSub <= lastSub'
      /\ retired' \subseteq Keys
  BY DEF UpsertZoomCredentials, Typed, TypeOK, Consistent
<1> QED
  BY <1>2, <1>9, TypedEnds DEF Ends, Typed, TypeOK

LEMMA TypedCreateFilter ==
  ASSUME Typed, NEW w \in Workers, CreateFilter(w)
  PROVE  Typed'
<1> DEFINE new == [id |-> lastFilter + 1, pattern |-> Req(w).pattern,
                   suffix |-> Req(w).suffix, link |-> Req(w).link]
<1>1. /\ Req(w).pattern \in Patterns
      /\ Req(w).suffix \in Opt(Suffixes) /\ Req(w).link \in Opt(Links)
  BY AtWork, RequestFields DEF Typed, CreateFilter, At, Req
<1>2. lastFilter \in Nat
  BY DEF Typed, TypeOK, Consistent
<1>3. new \in Filter
  BY <1>1, <1>2 DEF Filter, Ids
<1>4. CASE tenant # None
  <2>1. filters' = filters \cup {new} /\ lastFilter' = lastFilter + 1
    BY <1>4 DEF CreateFilter
  <2>2. \A f \in filters : f.id \in Nat /\ f.id <= lastFilter
    BY DEF Typed, TypeOK, Consistent, Filter, Ids
  <2>3. \A f \in filters' : f.id <= lastFilter' /\ \A g \in filters' : f.id = g.id => f = g
    <3>1. new.id = lastFilter + 1
      OBVIOUS
    <3>2. \A f \in filters : f.id # new.id /\ f.id <= lastFilter'
      BY <1>2, <2>1, <2>2, <3>1
    <3>3. \A f, g \in filters : f.id = g.id => f = g
      BY DEF Typed, TypeOK, Consistent
    <3> HIDE DEF new
    <3> QED
      BY <1>2, <2>1, <3>1, <3>2, <3>3
  <2>4. Consistent(tenant, admins, filters, subs, creds, lastFilter, lastSub)'
    BY <1>2, <1>3, <1>4, <2>1, <2>3 DEF CreateFilter, Typed, TypeOK, Consistent
  <2>9. /\ Ends(w) /\ lastFilter <= lastFilter' /\ lastSub <= lastSub'
        /\ retired' \subseteq Keys
    BY <1>2, <2>1 DEF CreateFilter, Typed, TypeOK, Consistent
  <2> QED
    BY <2>4, <2>9, TypedEnds DEF Ends, Typed, TypeOK
<1>5. CASE tenant = None
  <2>1. Consistent(tenant, admins, filters, subs, creds, lastFilter, lastSub)'
    BY <1>5 DEF CreateFilter, Typed, TypeOK, Consistent
  <2>9. /\ Ends(w) /\ lastFilter <= lastFilter' /\ lastSub <= lastSub'
        /\ retired' \subseteq Keys
    BY <1>2, <1>5 DEF CreateFilter, Typed, TypeOK, Consistent
  <2> QED
    BY <2>1, <2>9, TypedEnds DEF Ends, Typed, TypeOK
<1> QED
  BY <1>4, <1>5

(* Replacing the row of an id keeps the ids apart. *)
LEMMA ReplaceById ==
  ASSUME NEW fs, NEW row, NEW n,
         \A f \in fs : f.id <= n /\ \A g \in fs : f.id = g.id => f = g
  PROVE  LET new == {IF f.id = row.id THEN row ELSE f : f \in fs}
         IN  \A f \in new : f.id <= n /\ \A g \in new : f.id = g.id => f = g
<1> DEFINE new == {IF f.id = row.id THEN row ELSE f : f \in fs}
<1>1. \A f \in new : (f = row /\ \E g \in fs : g.id = row.id) \/ (f \in fs /\ f.id # row.id)
  OBVIOUS
<1> HIDE DEF new
<1>2. \A f \in new : f.id <= n /\ \A g \in new : f.id = g.id => f = g
  BY <1>1
<1> QED
  BY <1>2 DEF new

LEMMA TypedUpdateFilter ==
  ASSUME Typed, NEW w \in Workers, UpdateFilter(w)
  PROVE  Typed'
<1> DEFINE r   == Req(w)
           row == IF r.op = "override"
                    THEN [Row(w) EXCEPT !.suffix = Sent(r.suffix, @), !.link = Sent(r.link, @)]
                    ELSE [Row(w) EXCEPT !.pattern = Sent(r.pattern, @), !.suffix = r.suffix, !.link = r.link]
<1>1. Row(w) \in Filter
  BY DEF UpdateFilter, At, Typed, RowFits
<1>2. /\ r.op = "override" => r.suffix \in Opt(Suffixes) /\ r.link \in Opt(Links)
      /\ r.op = "patch" =>
           r.pattern \in Opt(Patterns) /\ r.suffix \in Opt(Suffixes) /\ r.link \in Opt(Links)
      /\ r.op \in {"override", "patch"}
  BY AtWork, RequestFields DEF Typed, UpdateFilter, At, Req
<1>3. row \in Filter
  BY <1>1, <1>2 DEF Filter, Sent, Opt
<1>4. filters' = {IF f.id = row.id THEN row ELSE f : f \in filters}
  BY DEF UpdateFilter
<1> HIDE DEF row
<1>5. filters' \subseteq Filter
  BY <1>3, <1>4 DEF Typed, TypeOK, Consistent
<1>6. \A f \in filters' : f.id <= lastFilter /\ \A g \in filters' : f.id = g.id => f = g
  <2>1. \A f \in filters : f.id <= lastFilter /\ \A g \in filters : f.id = g.id => f = g
    BY DEF Typed, TypeOK, Consistent
  <2> QED
    BY <2>1, <1>4, ReplaceById
<1>7. filters = {} => filters' = {}
  BY <1>4
<1>8. Consistent(tenant, admins, filters, subs, creds, lastFilter, lastSub)'
  BY <1>5, <1>6, <1>7 DEF UpdateFilter, Typed, TypeOK, Consistent
<1>9. /\ Ends(w) /\ lastFilter <= lastFilter' /\ lastSub <= lastSub'
      /\ retired' \subseteq Keys
  BY DEF UpdateFilter, Typed, TypeOK, Consistent
<1> QED
  BY <1>8, <1>9, TypedEnds DEF Ends, Typed, TypeOK

LEMMA TypedDeleteFilter ==
  ASSUME Typed, NEW w \in Workers, DeleteFilter(w)
  PROVE  Typed'
<1>1. Consistent(tenant, admins, filters, subs, creds, lastFilter, lastSub)'
  BY DEF DeleteFilter, Typed, TypeOK, Consistent
<1>2. /\ Ends(w) /\ lastFilter <= lastFilter' /\ lastSub <= lastSub'
      /\ retired' \subseteq Keys
  BY DEF DeleteFilter, Typed, TypeOK, Consistent
<1> QED
  BY <1>1, <1>2, TypedEnds DEF Ends, Typed, TypeOK

LEMMA TypedCreateSubscription ==
  ASSUME Typed, NEW w \in Workers, CreateSubscription(w)
  PROVE  Typed'
<1> DEFINE new == [id |-> lastSub + 1, target |-> Req(w).target, enabled |-> TRUE,
                   type |-> IF Req(w).op = "subscribe" THEN "slack" ELSE Req(w).type]
<1>1. /\ Req(w).target \in Channels
      /\ Req(w).op = "createSubscription" => Req(w).type \in Types
      /\ Req(w).op \in {"subscribe", "createSubscription"}
  BY AtWork, RequestFields DEF Typed, CreateSubscription, At, Req
<1>2. lastSub \in Nat
  BY DEF Typed, TypeOK, Consistent
<1>3. new \in Subscription
  BY <1>1, <1>2 DEF Subscription, Ids, Types
<1>4. CASE tenant # None
  <2>1. subs' = subs \cup {new} /\ lastSub' = lastSub + 1
    BY <1>4 DEF CreateSubscription
  <2>2. \A s \in subs : s.id \in Nat /\ s.id <= lastSub
    BY DEF Typed, TypeOK, Consistent, Subscription, Ids
  <2>3. \A s \in subs' : s.id <= lastSub' /\ \A q \in subs' : s.id = q.id => s = q
    <3>1. new.id = lastSub + 1
      OBVIOUS
    <3>2. \A s \in subs : s.id # new.id /\ s.id <= lastSub'
      BY <1>2, <2>1, <2>2, <3>1
    <3>3. \A s, q \in subs : s.id = q.id => s = q
      BY DEF Typed, TypeOK, Consistent
    <3> HIDE DEF new
    <3> QED
      BY <1>2, <2>1, <3>1, <3>2, <3>3
  <2>4. Consistent(tenant, admins, filters, subs, creds, lastFilter, lastSub)'
    BY <1>2, <1>3, <1>4, <2>1, <2>3 DEF CreateSubscription, Typed, TypeOK, Consistent
  <2>5. /\ Ends(w) /\ lastFilter <= lastFilter' /\ lastSub <= lastSub'
        /\ retired' \subseteq Keys
    BY <1>2, <2>1 DEF CreateSubscription, Typed, TypeOK, Consistent
  <2> QED
    BY <2>4, <2>5, TypedEnds DEF Ends, Typed, TypeOK
<1>5. CASE tenant = None
  <2>1. Consistent(tenant, admins, filters, subs, creds, lastFilter, lastSub)'
    BY <1>5 DEF CreateSubscription, Typed, TypeOK, Consistent
  <2>2. /\ Ends(w) /\ lastFilter <= lastFilter' /\ lastSub <= lastSub'
        /\ retired' \subseteq Keys
    BY <1>2, <1>5 DEF CreateSubscription, Typed, TypeOK, Consistent
  <2> QED
    BY <2>1, <2>2, TypedEnds DEF Ends, Typed, TypeOK
<1> QED
  BY <1>4, <1>5

LEMMA TypedUpdateSubscription ==
  ASSUME Typed, NEW w \in Workers, UpdateSubscription(w)
  PROVE  Typed'
<1> DEFINE row == [Row(w) EXCEPT !.enabled = Sent(Req(w).enabled, @), !.target = Sent(Req(w).target, @)]
<1>1. Row(w) \in Subscription
  BY DEF UpdateSubscription, At, Typed, RowFits
<1>2. Req(w).enabled \in Opt(BOOLEAN) /\ Req(w).target \in Opt(Channels)
  BY AtWork, RequestFields DEF Typed, UpdateSubscription, At, Req
<1>3. row \in Subscription
  <2>1. Row(w).enabled \in BOOLEAN /\ Row(w).target \in Channels
    BY <1>1 DEF Subscription
  <2>2. Sent(Req(w).enabled, Row(w).enabled) \in BOOLEAN
    BY <1>2, <2>1, Zenon DEF Sent, Opt
  <2>3. Sent(Req(w).target, Row(w).target) \in Channels
    BY <1>2, <2>1 DEF Sent, Opt
  <2> QED
    BY <1>1, <2>2, <2>3 DEF Subscription
<1>4. subs' = {IF s.id = row.id THEN row ELSE s : s \in subs}
  BY DEF UpdateSubscription
<1> HIDE DEF row
<1>5. subs' \subseteq Subscription
  BY <1>3, <1>4 DEF Typed, TypeOK, Consistent
<1>6. \A s \in subs' : s.id <= lastSub /\ \A q \in subs' : s.id = q.id => s = q
  <2>1. \A s \in subs : s.id <= lastSub /\ \A q \in subs : s.id = q.id => s = q
    BY DEF Typed, TypeOK, Consistent
  <2> QED
    BY <2>1, <1>4, ReplaceById
<1>7. subs = {} => subs' = {}
  BY <1>4
<1>8. Consistent(tenant, admins, filters, subs, creds, lastFilter, lastSub)'
  BY <1>5, <1>6, <1>7 DEF UpdateSubscription, Typed, TypeOK, Consistent
<1>9. /\ Ends(w) /\ lastFilter <= lastFilter' /\ lastSub <= lastSub'
      /\ retired' \subseteq Keys
  BY DEF UpdateSubscription, Typed, TypeOK, Consistent
<1> QED
  BY <1>8, <1>9, TypedEnds DEF Ends, Typed, TypeOK

LEMMA TypedDeleteSubscription ==
  ASSUME Typed, NEW w \in Workers, DeleteSubscription(w)
  PROVE  Typed'
<1>1. Consistent(tenant, admins, filters, subs, creds, lastFilter, lastSub)'
  BY DEF DeleteSubscription, Typed, TypeOK, Consistent
<1>2. /\ Ends(w) /\ lastFilter <= lastFilter' /\ lastSub <= lastSub'
      /\ retired' \subseteq Keys
  BY DEF DeleteSubscription, Typed, TypeOK, Consistent
<1> QED
  BY <1>1, <1>2, TypedEnds DEF Ends, Typed, TypeOK

LEMMA TypedStatementFails ==
  ASSUME Typed, NEW w \in Workers, StatementFails(w)
  PROVE  Typed'
<1>1. /\ Consistent(tenant, admins, filters, subs, creds, lastFilter, lastSub)'
      /\ lastFilter <= lastFilter' /\ lastSub <= lastSub' /\ retired' \subseteq Keys
      /\ errors' \in Nat /\ UNCHANGED <<clash, issued, begun>>
      /\ worker' = [worker EXCEPT ![w] = Idle]
  BY DEF StatementFails, rows, Typed, TypeOK, Consistent
<1> QED
  BY <1>1, TypedEnds

-----------------------------------------------------------------------------
(* Type correctness *)

LEMMA TypedStep ==
  Typed /\ [Next]_vars => Typed'
<1> SUFFICES ASSUME Typed, [Next]_vars PROVE Typed'
  OBVIOUS
<1>1. CASE UNCHANGED vars
  BY <1>1 DEF vars, Typed, TypeOK, Consistent, WorkerState, RowFits, At, Row, Req
<1>2. CASE Next
  <2>1. PICK w \in Workers : Step(w)
    BY <1>2 DEF Next
  <2>2. CASE \E r \in Requests : Begin(w, r)
    BY <2>2, TypedBegin
  <2>3. CASE GetTenant(w) \/ FindFilter(w) \/ CheckDuplicate(w) \/ FindSubscription(w)
    BY <2>3, TypedGetTenant, TypedFindFilter, TypedCheckDuplicate, TypedFindSubscription
  <2>4. CASE \/ UpdateTenantDefaults(w) \/ UpdateTenant(w) \/ CreateTenant(w)
             \/ UpdateTenantAPIKey(w) \/ DeleteTenant(w)
    BY <2>4, TypedUpdateTenantDefaults, TypedUpdateTenant, TypedCreateTenant,
       TypedUpdateTenantAPIKey, TypedDeleteTenant
  <2>5. CASE AddAdmin(w) \/ RemoveAdmin(w) \/ UpsertZoomCredentials(w)
    BY <2>5, TypedAddAdmin, TypedRemoveAdmin, TypedUpsertZoomCredentials
  <2>6. CASE CreateFilter(w) \/ UpdateFilter(w) \/ DeleteFilter(w)
    BY <2>6, TypedCreateFilter, TypedUpdateFilter, TypedDeleteFilter
  <2>7. CASE CreateSubscription(w) \/ UpdateSubscription(w) \/ DeleteSubscription(w)
    BY <2>7, TypedCreateSubscription, TypedUpdateSubscription, TypedDeleteSubscription
  <2>8. CASE StatementFails(w)
    BY <2>8, TypedStatementFails
  <2> QED
    BY <2>1, <2>2, <2>3, <2>4, <2>5, <2>6, <2>7, <2>8, Zenon DEF Step
<1> QED
  BY <1>1, <1>2

LEMMA AlwaysTyped ==
  Spec => []Typed
<1> QED
  BY TypedInit, TypedStep, PTL DEF Spec

(* Type correctness: every row has its type and an id of its own, and without *)
(* its tenant no row is left (the foreign keys of the schema).                *)
THEOREM TypeCorrect ==
  Spec => []TypeOK
<1>1. Typed => TypeOK
  BY DEF Typed
<1> QED
  BY <1>1, AlwaysTyped, PTL

-----------------------------------------------------------------------------
(* Keys *)

(* A request that has generated a key and not written it. *)
Pending(w) == Busy(w) /\ Generates(Req(w)) /\ worker[w].at \in {"read", "write"}

(* The tenant's key and those still to be written were never replaced, and no *)
(* two of them are the same.                                                  *)
KeysOK ==
  /\ retired \subseteq issued
  /\ tenant # None => tenant.key \in issued \ retired
  /\ \A w \in Workers : Pending(w) =>
       /\ Req(w).key \in issued \ retired
       /\ tenant # None => Req(w).key # tenant.key
       /\ \A v \in Workers : v # w /\ Pending(v) => Req(v).key # Req(w).key

LEMMA EndsPending ==
  ASSUME TypeOK, NEW w \in Workers, worker' = [worker EXCEPT ![w] = Idle]
  PROVE  \A v \in Workers : Pending(v)' => v # w /\ Pending(v) /\ Req(v)' = Req(v)
<1>1. /\ worker'[w] = Idle
      /\ \A v \in Workers : v # w => worker'[v] = worker[v]
  BY EndsTyped
<1> QED
  BY <1>1 DEF Pending, Busy, Req, Idle

LEMMA GoesPending ==
  ASSUME TypeOK, NEW w \in Workers, Busy(w), NEW at \in {"write", "then"},
         NEW row \in Tenant \cup Filter \cup Subscription \cup {None}, Goes(w, at, row),
         at = "then" \/ worker[w].at = "read"
  PROVE  \A v \in Workers : Pending(v)' => /\ Pending(v) /\ Req(v)' = Req(v)
                                           /\ at = "then" => v # w
<1>1. /\ worker'[w] = [req |-> worker[w].req, at |-> at, row |-> row]
      /\ \A v \in Workers : v # w => worker'[v] = worker[v]
  BY GoesTyped
<1> QED
  BY <1>1 DEF Pending, Busy, Req

(* Steps that leave the keys alone. *)
LEMMA KeysAlone ==
  ASSUME KeysOK, UNCHANGED <<issued, retired>>,
         tenant' # None => tenant # None /\ tenant'.key = tenant.key,
         \A v \in Workers : Pending(v)' => Pending(v) /\ Req(v)' = Req(v)
  PROVE  KeysOK'
BY DEF KeysOK

LEMMA KeysInit ==
  Init => KeysOK
BY DEF Init, KeysOK, Pending, Busy, Idle

LEMMA KeysBegin ==
  ASSUME Typed, KeysOK, NEW w \in Workers, NEW r \in Requests, Begin(w, r)
  PROVE  KeysOK'
<1>1. /\ worker'[w].req = r
      /\ \A v \in Workers : v # w => worker'[v] = worker[v]
  BY DEF Begin, Typed, TypeOK
<1>2. UNCHANGED <<tenant, retired>>
  BY DEF Begin, rows
<1>3. /\ Generates(r) => r.key \notin issued /\ issued' = issued \cup {r.key}
      /\ ~ Generates(r) => issued' = issued
  BY DEF Begin
<1>4. \A v \in Workers : v # w => (Pending(v)' <=> Pending(v)) /\ Req(v)' = Req(v)
  BY <1>1 DEF Pending, Busy, Req
<1>5. Req(w)' = r /\ (Pending(w)' => Generates(r))
  BY <1>1 DEF Pending, Req
<1>6. retired' \subseteq issued' /\ (tenant' # None => tenant'.key \in issued' \ retired')
  BY <1>2, <1>3 DEF KeysOK
<1>7. ASSUME NEW v \in Workers, Pending(v)'
      PROVE  /\ Req(v)'.key \in issued' \ retired'
             /\ tenant' # None => Req(v)'.key # tenant'.key
             /\ \A u \in Workers : u # v /\ Pending(u)' => Req(u)'.key # Req(v)'.key
  <2>1. CASE v # w
    BY <1>2, <1>3, <1>4, <1>5, <1>7, <2>1 DEF KeysOK
  <2>2. CASE v = w
    BY <1>2, <1>3, <1>4, <1>5, <1>7, <2>2 DEF KeysOK
  <2> QED
    BY <2>1, <2>2
<1> QED
  BY <1>6, <1>7 DEF KeysOK

LEMMA KeysRead ==
  ASSUME Typed, KeysOK, NEW w \in Workers,
         GetTenant(w) \/ FindFilter(w) \/ CheckDuplicate(w) \/ FindSubscription(w)
  PROVE  KeysOK'
<1>1. UNCHANGED <<tenant, issued, retired>>
  BY DEF GetTenant, FindFilter, CheckDuplicate, FindSubscription, rows, Ends, Goes
<1>2. worker[w].at = "read" /\ Busy(w) /\ TypeOK
  BY AtWork DEF GetTenant, FindFilter, CheckDuplicate, FindSubscription, At, Typed
<1>3. Ends(w) \/ \E row \in Tenant \cup Filter \cup Subscription \cup {None} : Goes(w, "write", row)
  <2>1. /\ tenant \in Tenant \cup {None}
        /\ filters \subseteq Filter /\ subs \subseteq Subscription
    BY DEF Typed, TypeOK, Consistent
  <2>2. CASE GetTenant(w)
    BY <2>1, <2>2 DEF GetTenant
  <2>3. CASE FindFilter(w)
    BY <2>1, <2>3 DEF FindFilter, Selected
  <2>4. CASE CheckDuplicate(w)
    BY <2>1, <2>4 DEF CheckDuplicate
  <2>5. CASE FindSubscription(w)
    BY <2>1, <2>5 DEF FindSubscription, SlackOn
  <2> QED
    BY <2>2, <2>3, <2>4, <2>5
<1>4. \A v \in Workers : Pending(v)' => Pending(v) /\ Req(v)' = Req(v)
  <2>1. CASE Ends(w)
    BY <1>2, <2>1, EndsPending DEF Ends
  <2>2. CASE \E row \in Tenant \cup Filter \cup Subscription \cup {None} : Goes(w, "write", row)
    BY <1>2, <2>2, GoesPending
  <2> QED
    BY <1>3, <2>1, <2>2
<1> QED
  BY <1>1, <1>4, KeysAlone

LEMMA KeysUpdateTenant ==
  ASSUME Typed, KeysOK, NEW w \in Workers, UpdateTenant(w)
  PROVE  KeysOK'
<1>1. UNCHANGED <<issued, retired>>
  BY DEF UpdateTenant, Ends, Goes
<1>2. Row(w) \in Tenant
  BY DEF UpdateTenant, Typed, RowFits, At
<1>3. tenant' # None => tenant # None /\ tenant'.key = tenant.key
  <2>1. Changed(w) \in [suffix : Suffixes, link : Links, account : {Changed(w).account},
                        token : {Changed(w).token}, key : Keys]
    BY <1>2 DEF Changed, Tenant
  <2>2. Updated(w).key = tenant.key
    BY <2>1 DEF Updated
  <2> QED
    BY <2>2 DEF UpdateTenant
<1>4. \A v \in Workers : Pending(v)' => Pending(v) /\ Req(v)' = Req(v)
  <2>1. Busy(w) /\ TypeOK
    BY AtWork DEF UpdateTenant, At, Typed
  <2>2. Ends(w) \/ Goes(w, "then", None)
    BY DEF UpdateTenant
  <2> QED
    BY <2>1, <2>2, EndsPending, GoesPending DEF Ends
<1> QED
  BY <1>1, <1>3, <1>4, KeysAlone

(* The key that is written is one that was pending. *)
LEMMA KeysCreateTenant ==
  ASSUME Typed, KeysOK, NEW w \in Workers, CreateTenant(w)
  PROVE  KeysOK'
<1>1. UNCHANGED <<issued, retired>>
  BY DEF CreateTenant, Ends, Goes
<1>2. Busy(w) /\ TypeOK /\ Pending(w)
  BY AtWork DEF CreateTenant, At, Typed, Pending, Generates, Req
<1>3. Ends(w) \/ Goes(w, "then", None)
  BY DEF CreateTenant
<1>4. \A v \in Workers : Pending(v)' => v # w /\ Pending(v) /\ Req(v)' = Req(v)
  BY <1>2, <1>3, EndsPending, GoesPending DEF Ends
<1>5. CASE tenant # None
  <2>1. tenant' = tenant
    BY <1>5 DEF CreateTenant
  <2> QED
    BY <1>1, <1>4, <1>5, <2>1, KeysAlone
<1>6. CASE tenant = None
  <2>1. tenant'.key = Req(w).key
    BY <1>6 DEF CreateTenant, NewTenant
  <2> QED
    BY <1>1, <1>2, <1>4, <1>6, <2>1 DEF KeysOK
<1> QED
  BY <1>5, <1>6

LEMMA KeysUpdateTenantAPIKey ==
  ASSUME Typed, KeysOK, NEW w \in Workers, UpdateTenantAPIKey(w)
  PROVE  KeysOK'
<1>1. issued' = issued
  BY DEF UpdateTenantAPIKey, Ends
<1>2. TypeOK /\ Pending(w)
  BY AtWork DEF UpdateTenantAPIKey, At, Typed, Pending, Generates, Req
<1>3. \A v \in Workers : Pending(v)' => v # w /\ Pending(v) /\ Req(v)' = Req(v)
  BY <1>2, EndsPending DEF UpdateTenantAPIKey, Ends
<1>4. CASE tenant = None
  <2>1. tenant' = None /\ retired' = retired
    BY <1>4 DEF UpdateTenantAPIKey
  <2> QED
    BY <1>1, <1>3, <2>1, KeysAlone
<1>5. CASE tenant # None
  <2>1. tenant \in Tenant
    BY <1>5 DEF Typed, TypeOK, Consistent
  <2>2. tenant'.key = Req(w).key /\ retired' = retired \cup {tenant.key}
    BY <1>5, <2>1 DEF UpdateTenantAPIKey, Tenant
  <2> QED
    BY <1>1, <1>2, <1>3, <1>5, <2>2 DEF KeysOK
<1> QED
  BY <1>4, <1>5

LEMMA KeysDeleteTenant ==
  ASSUME Typed, KeysOK, NEW w \in Workers, DeleteTenant(w)
  PROVE  KeysOK'
<1>1. issued' = issued /\ tenant' = None
  BY DEF DeleteTenant, Ends
<1>2. \A v \in Workers : Pending(v)' => v # w /\ Pending(v) /\ Req(v)' = Req(v)
  BY EndsPending DEF DeleteTenant, Ends, Typed
<1>3. retired' = IF tenant = None THEN retired ELSE retired \cup {tenant.key}
  BY DEF DeleteTenant
<1> QED
  BY <1>1, <1>2, <1>3 DEF KeysOK

LEMMA KeysElsewhere ==
  ASSUME Typed, KeysOK, NEW w \in Workers,
         \/ UpdateTenantDefaults(w) \/ AddAdmin(w) \/ RemoveAdmin(w) \/ UpsertZoomCredentials(w)
         \/ CreateFilter(w) \/ UpdateFilter(w) \/ DeleteFilter(w)
         \/ CreateSubscription(w) \/ UpdateSubscription(w) \/ DeleteSubscription(w)
         \/ StatementFails(w)
  PROVE  KeysOK'
<1>1. UNCHANGED <<issued, retired>> /\ worker' = [worker EXCEPT ![w] = Idle]
  BY DEF UpdateTenantDefaults, AddAdmin, RemoveAdmin, UpsertZoomCredentials, CreateFilter, UpdateFilter,
         DeleteFilter, CreateSubscription, UpdateSubscription, DeleteSubscription, StatementFails, Ends
<1>2. tenant' # None => tenant # None /\ tenant'.key = tenant.key
  <2>1. CASE UpdateTenantDefaults(w)
    <3>1. tenant # None => tenant \in Tenant
      BY DEF Typed, TypeOK, Consistent
    <3> QED
      BY <2>1, <3>1 DEF UpdateTenantDefaults, Tenant
  <2>2. CASE ~ UpdateTenantDefaults(w)
    BY <2>2 DEF AddAdmin, RemoveAdmin, UpsertZoomCredentials, CreateFilter, UpdateFilter,
         DeleteFilter, CreateSubscription, UpdateSubscription, DeleteSubscription, StatementFails, rows
  <2> QED
    BY <2>1, <2>2
<1>3. \A v \in Workers : Pending(v)' => Pending(v) /\ Req(v)' = Req(v)
  BY <1>1, EndsPending DEF Typed
<1> QED
  BY <1>1, <1>2, <1>3, KeysAlone

LEMMA KeysStep ==
  Typed /\ KeysOK /\ [Next]_vars => KeysOK'
<1> SUFFICES ASSUME Typed, KeysOK, [Next]_vars PROVE KeysOK'
  OBVIOUS
<1>1. CASE UNCHANGED vars
  BY <1>1 DEF vars, KeysOK, Pending, Busy, Req
<1>2. CASE Next
  <2>1. PICK w \in Workers : Step(w)
    BY <1>2 DEF Next
  <2> QED
    BY <2>1, KeysBegin, KeysRead, KeysUpdateTenant, KeysCreateTenant, KeysUpdateTenantAPIKey,
       KeysDeleteTenant, KeysElsewhere, Zenon DEF Step
<1> QED
  BY <1>1, <1>2

(* A key that was replaced never works again, whatever requests overlap: those *)
(* that write back a tenant row they read before a rotation leave out its key. *)
THEOREM KeysStayRetired ==
  Spec => []RetiredStaysRetired
<1>1. KeysOK => RetiredStaysRetired
  BY DEF KeysOK, RetiredStaysRetired
<1> QED
  BY <1>1, KeysInit, KeysStep, AlwaysTyped, PTL DEF Spec

-----------------------------------------------------------------------------
(* Settings *)

(* No two requests that are under way disturb each other. *)
Undisturbed ==
  \A v, w \in Workers : v # w =>
    \A r, q \in Requests : Req(v) = r /\ Req(w) = q => ~ Disturbs(r, q)

(* Who made a request may still make it. *)
Entitled(w) ==
  /\ Req(w).who \in Users => Req(w).who \in admins
  /\ Req(w).who \in Keys  => tenant # None /\ tenant.key = Req(w).who
  /\ NotOneself(Req(w))

(* A column that is written back as it was read is still what it was. *)
SameDefaults(w) ==
  At(w, "write", {"defaults"}) =>
    /\ Req(w).suffix = None => Row(w).suffix = tenant.suffix
    /\ Req(w).link = None => Row(w).link = tenant.link

SameTenant(w) ==
  /\ At(w, "write", {"setup"}) =>
       Row(w).suffix = tenant.suffix /\ Row(w).link = tenant.link /\ Row(w).token = tenant.token
  /\ At(w, "write", {"install"}) =>
       /\ Row(w) = None <=> tenant = None
       /\ Row(w) # None =>
            Row(w).suffix = tenant.suffix /\ Row(w).link = tenant.link /\ Row(w).account = tenant.account

SameFilter(w) ==
  /\ At(w, "write", {"override"}) => \A f \in filters :
       /\ f.id = Row(w).id => f.pattern = Row(w).pattern
       /\ f.id = Row(w).id /\ Req(w).suffix = None => f.suffix = Row(w).suffix
       /\ f.id = Row(w).id /\ Req(w).link = None => f.link = Row(w).link
  /\ At(w, "write", {"patch"}) =>
       \A f \in filters : f.id = Row(w).id /\ Req(w).pattern = None => f.pattern = Row(w).pattern

(* What a request on subscriptions has found is still so. *)
SameSubs(w) ==
  /\ At(w, "write", {"subscribe"}) => SlackOn(subs, Req(w).target) = {}
  /\ At(w, "write", {"unsubscribe"}) =>
       \A s \in subs : s.id = Row(w).id => s.type = "slack" /\ s.target = Req(w).target
  /\ At(w, "write", {"updateSubscription"}) => \A s \in subs : s.id = Row(w).id => s = Row(w)

Fresh(w) == Entitled(w) /\ SameDefaults(w) /\ SameTenant(w) /\ SameFilter(w) /\ SameSubs(w)

AtomicInv ==
  ~ clash => Undisturbed /\ \A w \in Workers : Busy(w) => Fresh(w)

-----------------------------------------------------------------------------
(* Cells *)

(* What a request rests on, whatever it is. *)
LEMMA RestsOnAuthority ==
  ASSUME NEW r \in Requests
  PROVE  /\ <<"tenant", None, "row">> \in RestsOn(r)
         /\ r.who \in Users => <<"admin", r.who, "row">> \in RestsOn(r)
         /\ r.who \in Keys => <<"tenant", None, "key">> \in RestsOn(r)
BY DEF RestsOn, TenantCells

LEMMA RestsOnDefaults ==
  ASSUME NEW r \in Requests, r.op = "defaults"
  PROVE  /\ r.suffix = None => <<"tenant", None, "suffix">> \in RestsOn(r)
         /\ r.link = None => <<"tenant", None, "link">> \in RestsOn(r)
BY DEF RestsOn, TenantCells

LEMMA RestsOnRow ==
  ASSUME NEW r \in Requests
  PROVE  /\ r.op \in {"setup", "install"} =>
              <<"tenant", None, "suffix">> \in RestsOn(r) /\ <<"tenant", None, "link">> \in RestsOn(r)
         /\ r.op = "setup" => <<"tenant", None, "token">> \in RestsOn(r)
         /\ r.op = "install" => <<"tenant", None, "account">> \in RestsOn(r)
BY DEF RestsOn, TenantCells

LEMMA RestsOnFilter ==
  ASSUME NEW r \in Requests, NEW row \in Filter, r.op \in {"override", "patch"},
         r.sel \in {row.id, row.pattern}
  PROVE  \E x \in {None, row.id} :
           /\ r.op = "override" => <<"filter", x, "pattern">> \in RestsOn(r)
           /\ r.op = "override" /\ r.suffix = None => <<"filter", x, "suffix">> \in RestsOn(r)
           /\ r.op = "override" /\ r.link = None => <<"filter", x, "link">> \in RestsOn(r)
           /\ r.op = "patch" /\ r.pattern = None => <<"filter", x, "pattern">> \in RestsOn(r)
<1> DEFINE x == IF r.sel \in Patterns THEN None ELSE r.sel
<1>1. x \in {None, row.id}
  BY DEF Filter
<1>2. CASE r.op = "override"
  BY <1>1, <1>2 DEF RestsOn, FilterCells
<1>3. CASE r.op = "patch"
  BY <1>1, <1>3 DEF RestsOn, FilterCells
<1> QED
  BY <1>2, <1>3

LEMMA RestsOnSubs ==
  ASSUME NEW r \in Requests
  PROVE  /\ r.op \in {"subscribe", "unsubscribe"} => <<"sub", r.target, "row">> \in RestsOn(r)
         /\ r.op = "updateSubscription" => <<"sub", None, "row">> \in RestsOn(r)
BY DEF RestsOn, SubCells

(* A change meets what rests on the same cell. *)
LEMMA MeetDisturbs ==
  ASSUME NEW r, NEW q, NEW x \in Changes(r), NEW y \in RestsOn(q), Meet(x, y)
  PROVE  Disturbs(r, q)
BY DEF Disturbs

-----------------------------------------------------------------------------
(* What a step changes *)

TenantFootprint(r) ==
  \/ <<"tenant", None, "row">> \in Changes(r)
  \/ /\ tenant = None <=> tenant' = None
     /\ tenant # None =>
          /\ tenant'.suffix = tenant.suffix \/ <<"tenant", None, "suffix">> \in Changes(r)
          /\ tenant'.link = tenant.link \/ <<"tenant", None, "link">> \in Changes(r)
          /\ tenant'.account = tenant.account \/ <<"tenant", None, "account">> \in Changes(r)
          /\ tenant'.token = tenant.token \/ <<"tenant", None, "token">> \in Changes(r)
          /\ tenant'.key = tenant.key \/ <<"tenant", None, "key">> \in Changes(r)

AdminFootprint(r) ==
  \/ <<"tenant", None, "row">> \in Changes(r)
  \/ \A u \in admins \ admins' : <<"admin", u, "row">> \in Changes(r)

(* The cell of a filter's column, or that of any filter's. *)
FilterCell(r, id, col) == <<"filter", id, col>> \in Changes(r) \/ <<"filter", None, col>> \in Changes(r)

FilterFootprint(r) ==
  \A g \in filters' \ filters :
    \/ g.id > lastFilter
    \/ \E f \in filters :
         /\ f.id = g.id
         /\ g.pattern = f.pattern \/ FilterCell(r, f.id, "pattern")
         /\ g.suffix = f.suffix \/ FilterCell(r, f.id, "suffix")
         /\ g.link = f.link \/ FilterCell(r, f.id, "link")

SubFootprint(r) ==
  \A s \in subs' \ subs :
    \/ <<"sub", None, "row">> \in Changes(r)
    \/ s.id > lastSub /\ <<"sub", s.target, "row">> \in Changes(r)

(* A step changes only the cells its request may change. *)
Footprint(r) == TenantFootprint(r) /\ AdminFootprint(r) /\ FilterFootprint(r) /\ SubFootprint(r)

-----------------------------------------------------------------------------
(* Requests that are not disturbed *)

LEMMA SameDisturbance ==
  ASSUME tenant = None <=> tenant' = None
  PROVE  \A r, q \in Requests : Disturbs(r, q)' <=> Disturbs(r, q)
<1>1. \A r \in Requests : Changes(r)' = Changes(r)
  BY DEF Changes
<1>2. \A r \in Requests : RestsOn(r)' = RestsOn(r)
  BY DEF RestsOn
<1> QED
  BY <1>1, <1>2 DEF Disturbs

(* Whoever goes on without disturbing anybody leaves the others undisturbed. *)
LEMMA UndisturbedKept ==
  ASSUME Typed, Undisturbed, NEW w \in Workers, Busy(w), Footprint(Req(w)),
         \A v \in Workers : v # w => worker'[v] = worker[v],
         worker'[w] = Idle \/ worker'[w].req = worker[w].req
  PROVE  Undisturbed'
<1>1. Req(w) \in Requests
  BY DEF Typed, TypeOK, WorkerState, Busy, Idle, Req
<1>2. \A v \in Workers : Req(v)' \in Requests => Req(v)' = Req(v)
  BY DEF Req, Idle
<1>3. CASE tenant = None <=> tenant' = None
  BY <1>2, <1>3, SameDisturbance DEF Undisturbed
<1>4. CASE ~(tenant = None <=> tenant' = None)
  <2>1. <<"tenant", None, "row">> \in Changes(Req(w))
    BY <1>4 DEF Footprint, TenantFootprint
  <2>2. \A q \in Requests : Disturbs(Req(w), q)
    BY <2>1, RestsOnAuthority, MeetDisturbs DEF Meet
  <2>3. \A v \in Workers : v # w => Req(v) \notin Requests
    BY <1>1, <2>2 DEF Undisturbed
  <2> QED
    BY <1>2, <2>3 DEF Undisturbed
<1> QED
  BY <1>3, <1>4

LEMMA EntitledKept ==
  ASSUME NEW w \in Workers, NEW v \in Workers, Req(v) \in Requests, ~ Disturbs(Req(w), Req(v)),
         TenantFootprint(Req(w)), AdminFootprint(Req(w)), worker'[v] = worker[v], Entitled(v)
  PROVE  Entitled(v)'
<1>1. <<"tenant", None, "row">> \notin Changes(Req(w))
  BY RestsOnAuthority, MeetDisturbs DEF Meet
<1>2. Req(v)' = Req(v)
  BY DEF Req
<1>3. Req(v).who \in Users => Req(v).who \in admins'
  BY <1>1, RestsOnAuthority, MeetDisturbs DEF Entitled, Meet, AdminFootprint
<1>4. Req(v).who \in Keys => tenant' # None /\ tenant'.key = Req(v).who
  BY <1>1, RestsOnAuthority, MeetDisturbs DEF Entitled, Meet, TenantFootprint
<1> QED
  BY <1>2, <1>3, <1>4 DEF Entitled, NotOneself

LEMMA EntitledTenant ==
  ASSUME TypeOK, NEW w \in Workers, Entitled(w), Req(w).who \in Users \cup Keys
  PROVE  tenant # None
BY DEF TypeOK, Consistent, Entitled

LEMMA DefaultsKept ==
  ASSUME TypeOK, NEW w \in Workers, NEW v \in Workers, Req(v) \in Requests, ~ Disturbs(Req(w), Req(v)),
         TenantFootprint(Req(w)), worker'[v] = worker[v], Entitled(v), SameDefaults(v)
  PROVE  SameDefaults(v)'
<1>1. <<"tenant", None, "row">> \notin Changes(Req(w))
  BY RestsOnAuthority, MeetDisturbs DEF Meet
<1> SUFFICES ASSUME At(v, "write", {"defaults"})
             PROVE  /\ Req(v).suffix = None => Row(v).suffix = tenant'.suffix
                    /\ Req(v).link = None => Row(v).link = tenant'.link
  BY DEF SameDefaults, At, Req, Row
<1>2. Req(v).op = "defaults"
  BY DEF At, Req
<1>3. Req(v).suffix = None => <<"tenant", None, "suffix">> \notin Changes(Req(w))
  BY <1>2, RestsOnDefaults, MeetDisturbs DEF Meet
<1>4. Req(v).link = None => <<"tenant", None, "link">> \notin Changes(Req(w))
  BY <1>2, RestsOnDefaults, MeetDisturbs DEF Meet
<1>5. tenant # None
  BY <1>2, RequestMaker, EntitledTenant
<1> QED
  BY <1>1, <1>3, <1>4, <1>5 DEF SameDefaults, TenantFootprint

LEMMA TenantKept ==
  ASSUME NEW w \in Workers, NEW v \in Workers, Req(v) \in Requests, ~ Disturbs(Req(w), Req(v)),
         TenantFootprint(Req(w)), worker'[v] = worker[v], Entitled(v), SameTenant(v)
  PROVE  SameTenant(v)'
<1>1. <<"tenant", None, "row">> \notin Changes(Req(w))
  BY RestsOnAuthority, MeetDisturbs DEF Meet
<1>2. Row(v)' = Row(v) /\ (At(v, "write", {"setup"})' <=> At(v, "write", {"setup"}))
      /\ (At(v, "write", {"install"})' <=> At(v, "write", {"install"}))
  BY DEF Row, At
<1>3. Req(v).op \in {"setup", "install"} =>
        <<"tenant", None, "suffix">> \notin Changes(Req(w)) /\ <<"tenant", None, "link">> \notin Changes(Req(w))
  BY RestsOnRow, MeetDisturbs DEF Meet
<1>4. CASE At(v, "write", {"setup"})
  <2>1. Req(v).op = "setup"
    BY <1>4 DEF At, Req
  <2>2. tenant # None
    BY <2>1, RequestMaker DEF Entitled
  <2>3. <<"tenant", None, "token">> \notin Changes(Req(w))
    BY <2>1, RestsOnRow, MeetDisturbs DEF Meet
  <2> QED
    BY <1>1, <1>2, <1>3, <1>4, <2>1, <2>2, <2>3 DEF SameTenant, TenantFootprint, At
<1>5. CASE At(v, "write", {"install"})
  <2>1. Req(v).op = "install"
    BY <1>5 DEF At, Req
  <2>3. <<"tenant", None, "account">> \notin Changes(Req(w))
    BY <2>1, RestsOnRow, MeetDisturbs DEF Meet
  <2> QED
    BY <1>1, <1>2, <1>3, <1>5, <2>1, <2>3 DEF SameTenant, TenantFootprint, At
<1> QED
  BY <1>2, <1>4, <1>5 DEF SameTenant
LEMMA FilterKept ==
  ASSUME NEW w \in Workers, NEW v \in Workers, Req(v) \in Requests, ~ Disturbs(Req(w), Req(v)),
         FilterFootprint(Req(w)), worker'[v] = worker[v], RowFits(v), SameFilter(v), lastFilter \in Nat
  PROVE  SameFilter(v)'
<1>1. Row(v)' = Row(v) /\ Req(v)' = Req(v)
      /\ (At(v, "write", {"override"})' <=> At(v, "write", {"override"}))
      /\ (At(v, "write", {"patch"})' <=> At(v, "write", {"patch"}))
  BY DEF Row, Req, At
<1> SUFFICES ASSUME At(v, "write", {"override", "patch"}) PROVE SameFilter(v)'
  BY <1>1 DEF SameFilter, At
<1>2. Row(v) \in Filter /\ Row(v).id <= lastFilter /\ Req(v).sel \in {Row(v).id, Row(v).pattern}
  BY DEF RowFits, At
<1>3. Req(v).op \in {"override", "patch"}
  BY DEF At, Req
<1>4. PICK x \in {None, Row(v).id} :
        /\ Req(v).op = "override" => <<"filter", x, "pattern">> \in RestsOn(Req(v))
        /\ Req(v).op = "override" /\ Req(v).suffix = None => <<"filter", x, "suffix">> \in RestsOn(Req(v))
        /\ Req(v).op = "override" /\ Req(v).link = None => <<"filter", x, "link">> \in RestsOn(Req(v))
        /\ Req(v).op = "patch" /\ Req(v).pattern = None => <<"filter", x, "pattern">> \in RestsOn(Req(v))
  BY <1>2, <1>3, RestsOnFilter
<1>5. ASSUME NEW col, FilterCell(Req(w), Row(v).id, col)
      PROVE  <<"filter", x, col>> \notin RestsOn(Req(v))
  <2>1. PICK y \in {None, Row(v).id} : <<"filter", y, col>> \in Changes(Req(w))
    BY <1>5 DEF FilterCell
  <2>2. Meet(<<"filter", y, col>>, <<"filter", x, col>>)
    BY DEF Meet
  <2> QED
    BY <2>1, <2>2, MeetDisturbs
<1>6. ASSUME NEW g \in filters', g.id = Row(v).id
      PROVE  \E f \in filters :
               /\ f.id = Row(v).id
               /\ g.pattern = f.pattern \/ <<"filter", x, "pattern">> \notin RestsOn(Req(v))
               /\ g.suffix = f.suffix \/ <<"filter", x, "suffix">> \notin RestsOn(Req(v))
               /\ g.link = f.link \/ <<"filter", x, "link">> \notin RestsOn(Req(v))
  <2>1. CASE g \in filters
    BY <1>6, <2>1
  <2>2. CASE g \notin filters
    <3>1. ~(g.id > lastFilter)
      BY <1>2, <1>6 DEF Filter, Ids
    <3>2. PICK f \in filters :
            /\ f.id = g.id
            /\ g.pattern = f.pattern \/ FilterCell(Req(w), f.id, "pattern")
            /\ g.suffix = f.suffix \/ FilterCell(Req(w), f.id, "suffix")
            /\ g.link = f.link \/ FilterCell(Req(w), f.id, "link")
      BY <2>2, <3>1 DEF FilterFootprint
    <3> QED
      BY <1>5, <1>6, <3>2
  <2> QED
    BY <2>1, <2>2
<1>7. CASE At(v, "write", {"override"})
  <2>1. Req(v).op = "override"
    BY <1>7 DEF At, Req
  <2> QED
    BY <1>1, <1>4, <1>6, <1>7, <2>1 DEF SameFilter, At
<1>8. CASE At(v, "write", {"patch"})
  <2>1. Req(v).op = "patch"
    BY <1>8 DEF At, Req
  <2> QED
    BY <1>1, <1>4, <1>6, <1>8, <2>1 DEF SameFilter, At
<1> QED
  BY <1>7, <1>8 DEF At

LEMMA SubsKept ==
  ASSUME NEW w \in Workers, NEW v \in Workers, Req(v) \in Requests, ~ Disturbs(Req(w), Req(v)),
         SubFootprint(Req(w)), worker'[v] = worker[v], RowFits(v), SameSubs(v), lastSub \in Nat
  PROVE  SameSubs(v)'
<1>1. Row(v)' = Row(v) /\ Req(v)' = Req(v)
      /\ (At(v, "write", {"subscribe"})' <=> At(v, "write", {"subscribe"}))
      /\ (At(v, "write", {"unsubscribe"})' <=> At(v, "write", {"unsubscribe"}))
      /\ (At(v, "write", {"updateSubscription"})' <=> At(v, "write", {"updateSubscription"}))
  BY DEF Row, Req, At
<1>2. CASE At(v, "write", {"subscribe"})
  <2>1. <<"sub", Req(v).target, "row">> \in RestsOn(Req(v))
    BY <1>2, RestsOnSubs DEF At, Req
  <2>2. ASSUME NEW s \in SlackOn(subs', Req(v).target) PROVE FALSE
    <3>1. s \in subs' /\ s.target = Req(v).target /\ s \notin subs
      BY <1>2 DEF SlackOn, SameSubs
    <3>2. <<"sub", None, "row">> \in Changes(Req(w)) \/ <<"sub", Req(v).target, "row">> \in Changes(Req(w))
      BY <3>1 DEF SubFootprint
    <3> QED
      BY <2>1, <3>2, MeetDisturbs DEF Meet
  <2> QED
    BY <1>1, <1>2, <2>2 DEF SameSubs, At
<1>3. CASE At(v, "write", {"unsubscribe"})
  <2>1. <<"sub", Req(v).target, "row">> \in RestsOn(Req(v))
    BY <1>3, RestsOnSubs DEF At, Req
  <2>2. Row(v) \in Subscription /\ Row(v).id <= lastSub
    BY <1>3 DEF RowFits, At
  <2>3. ASSUME NEW s \in subs', s.id = Row(v).id PROVE s \in subs
    <3>1. <<"sub", None, "row">> \notin Changes(Req(w))
      BY <2>1, MeetDisturbs DEF Meet
    <3>2. ~(s.id > lastSub)
      BY <2>2, <2>3 DEF Subscription, Ids
    <3> QED
      BY <3>1, <3>2 DEF SubFootprint
  <2> QED
    BY <1>1, <1>3, <2>3 DEF SameSubs, At
<1>4. CASE At(v, "write", {"updateSubscription"})
  <2>1. <<"sub", None, "row">> \in RestsOn(Req(v))
    BY <1>4, RestsOnSubs DEF At, Req
  <2>2. ASSUME NEW s \in subs', s \notin subs PROVE FALSE
    <3>1. <<"sub", None, "row">> \in Changes(Req(w)) \/ <<"sub", s.target, "row">> \in Changes(Req(w))
      BY <2>2 DEF SubFootprint
    <3> QED
      BY <2>1, <3>1, MeetDisturbs DEF Meet
  <2> QED
    BY <1>1, <1>4, <2>2 DEF SameSubs, At
<1> QED
  BY <1>1, <1>2, <1>3, <1>4 DEF SameSubs

(* What a request has read stays true while others go on beside it. *)
LEMMA FreshKept ==
  ASSUME Typed, Undisturbed, NEW w \in Workers, Req(w) \in Requests, Footprint(Req(w)),
         NEW v \in Workers, v # w, worker'[v] = worker[v], Busy(v), Fresh(v)
  PROVE  Fresh(v)'
<1>1. Req(v) \in Requests
  BY DEF Typed, TypeOK, WorkerState, Busy, Idle, Req
<1>2. ~ Disturbs(Req(w), Req(v))
  BY <1>1 DEF Undisturbed
<1>3. TypeOK /\ RowFits(v) /\ lastFilter \in Nat /\ lastSub \in Nat
  BY DEF Typed, TypeOK, Consistent
<1> QED
  BY <1>1, <1>2, <1>3, EntitledKept, DefaultsKept, TenantKept, FilterKept, SubsKept DEF Fresh, Footprint
-----------------------------------------------------------------------------
(* Each statement that writes is a step of Settings, or changes nothing *)

LEMMA AtomicAuthorised ==
  ASSUME TypeOK, NEW w \in Workers, Entitled(w), Req(w).who \in Users \cup Keys
  PROVE  Atomic!Authorised(Req(w))
BY EntitledTenant DEF Entitled, Atomic!Authorised

(* A step that leaves a table alone changes no cell of it. *)
LEMMA NoFootprint ==
  ASSUME NEW r
  PROVE  /\ tenant' = tenant => TenantFootprint(r)
         /\ admins' = admins => AdminFootprint(r)
         /\ filters' = filters => FilterFootprint(r)
         /\ subs' = subs => SubFootprint(r)
BY DEF TenantFootprint, AdminFootprint, FilterFootprint, SubFootprint

LEMMA DefaultsAtomic ==
  ASSUME Typed, NEW w \in Workers, Fresh(w), UpdateTenantDefaults(w)
  PROVE  Footprint(Req(w)) /\ Atomic!Do(Req(w))
<1>1. Req(w) \in Requests /\ Req(w).op = "defaults"
  BY AtWork DEF Typed, UpdateTenantDefaults, At, Req
<1>2. Req(w).who \in Users \cup Keys
  BY <1>1, RequestMaker
<1>3. Atomic!Authorised(Req(w)) /\ tenant # None /\ tenant \in Tenant
  BY <1>2, AtomicAuthorised, EntitledTenant DEF Fresh, Typed, TypeOK, Consistent
<1>4. tenant' = [tenant EXCEPT !.suffix = Sent(Req(w).suffix, Row(w).suffix),
                               !.link   = Sent(Req(w).link, Row(w).link)]
  BY <1>3 DEF UpdateTenantDefaults
<1>5. /\ Req(w).suffix = None => Row(w).suffix = tenant.suffix
      /\ Req(w).link = None => Row(w).link = tenant.link
  BY DEF Fresh, SameDefaults, UpdateTenantDefaults
<1>6. /\ Sent(Req(w).suffix, Row(w).suffix) = Sent(Req(w).suffix, tenant.suffix)
      /\ Sent(Req(w).link, Row(w).link) = Sent(Req(w).link, tenant.link)
  BY <1>5 DEF Sent
<1>7. Atomic!SetDefaults(Req(w))
  BY <1>1, <1>3, <1>4, <1>6 DEF UpdateTenantDefaults, Sent, Atomic!Sent, Atomic!SetDefaults, Atomic!OnlyTenant
<1>8. TenantFootprint(Req(w))
  <2>1. /\ Req(w).suffix # None => <<"tenant", None, "suffix">> \in Changes(Req(w))
        /\ Req(w).link # None => <<"tenant", None, "link">> \in Changes(Req(w))
    BY <1>1 DEF Changes, TenantCells, SentColumns
  <2>2. /\ tenant' # None
        /\ tenant'.suffix = Sent(Req(w).suffix, tenant.suffix)
        /\ tenant'.link = Sent(Req(w).link, tenant.link)
        /\ tenant'.account = tenant.account /\ tenant'.token = tenant.token /\ tenant'.key = tenant.key
    <3>1. tenant' \in Tenant
      <4>1. Req(w).suffix \in Opt(Suffixes) /\ Req(w).link \in Opt(Links)
        BY <1>1, RequestFields
      <4> QED
        BY <1>3, <1>4, <1>6, <4>1 DEF Sent, Opt, Tenant
    <3> QED
      BY <1>3, <1>4, <1>6, <3>1 DEF Tenant
  <2> QED
    BY <1>3, <2>1, <2>2 DEF TenantFootprint, Sent
<1>9. Footprint(Req(w))
  BY <1>8, NoFootprint DEF UpdateTenantDefaults, Footprint
<1> QED
  BY <1>7, <1>9 DEF Atomic!Do

LEMMA UpdateTenantAtomic ==
  ASSUME Typed, NEW w \in Workers, Fresh(w), UpdateTenant(w)
  PROVE  Footprint(Req(w)) /\ Atomic!Do(Req(w))
<1>1. Req(w) \in Requests /\ Req(w).op \in {"setup", "install"}
  BY AtWork DEF Typed, UpdateTenant, At, Req
<1>2. Row(w) \in Tenant
  BY DEF UpdateTenant, Typed, RowFits, At
<1>3. tenant # None /\ tenant \in Tenant
  <2>1. Req(w).op = "setup" => tenant # None
    BY <1>1, RequestMaker, EntitledTenant DEF Fresh, Typed
  <2>2. Req(w).op = "install" => tenant # None
    BY DEF Fresh, SameTenant, UpdateTenant, At, Req
  <2> QED
    BY <1>1, <2>1, <2>2 DEF Typed, TypeOK, Consistent
<1>4. tenant' = Updated(w)
  BY <1>3 DEF UpdateTenant
<1>5. tenant' = IF Req(w).op = "setup" THEN [tenant EXCEPT !.account = Req(w).account]
                ELSE [tenant EXCEPT !.token = Req(w).token]
  <2>1. CASE Req(w).op = "setup"
    <3>1. Row(w).suffix = tenant.suffix /\ Row(w).link = tenant.link /\ Row(w).token = tenant.token
      BY <2>1 DEF Fresh, SameTenant, UpdateTenant, At, Req
    <3> QED
      BY <1>2, <1>3, <1>4, <2>1, <3>1 DEF Updated, Changed, Tenant
  <2>2. CASE Req(w).op = "install"
    <3>1. Row(w).suffix = tenant.suffix /\ Row(w).link = tenant.link /\ Row(w).account = tenant.account
      BY <2>2 DEF Fresh, SameTenant, UpdateTenant, At, Req
    <3> QED
      BY <1>2, <1>3, <1>4, <2>2, <3>1 DEF Updated, Changed, Tenant
  <2> QED
    BY <1>1, <2>1, <2>2
<1>6. Atomic!Do(Req(w))
  <2>1. CASE Req(w).op = "setup"
    <3>1. Atomic!Authorised(Req(w))
      BY <1>1, <2>1, RequestMaker, AtomicAuthorised DEF Fresh, Typed
    <3>2. Atomic!SetAccount(Req(w))
      BY <1>5, <2>1, <3>1 DEF UpdateTenant, Atomic!SetAccount, Atomic!OnlyTenant
    <3> QED
      BY <3>2 DEF Atomic!Do
  <2>2. CASE Req(w).op = "install"
    <3>1. Atomic!Install(Req(w))
      BY <1>3, <1>5, <2>2 DEF UpdateTenant, Atomic!Install, Atomic!OnlyTenant
    <3> QED
      BY <3>1 DEF Atomic!Do
  <2> QED
    BY <1>1, <2>1, <2>2
<1>7. TenantFootprint(Req(w))
  <2>1. /\ Req(w).op = "setup" => <<"tenant", None, "account">> \in Changes(Req(w))
        /\ Req(w).op = "install" => <<"tenant", None, "token">> \in Changes(Req(w))
    BY <1>1, <1>3 DEF Changes, TenantCells
  <2>2. /\ Req(w).op = "setup" => Req(w).account \in Accounts
        /\ Req(w).op = "install" => Req(w).token \in Tokens
    BY <1>1, RequestFields
  <2>3. tenant' # None
    BY <1>1, <1>3, <1>5, <2>2 DEF Tenant, Opt
  <2>4. /\ tenant'.suffix = tenant.suffix /\ tenant'.link = tenant.link /\ tenant'.key = tenant.key
        /\ Req(w).op = "setup" => tenant'.token = tenant.token
        /\ Req(w).op = "install" => tenant'.account = tenant.account
    BY <1>1, <1>3, <1>5 DEF Tenant
  <2> QED
    BY <1>1, <1>3, <2>1, <2>3, <2>4 DEF TenantFootprint
<1>8. Footprint(Req(w))
  BY <1>7, NoFootprint DEF UpdateTenant, Footprint
<1> QED
  BY <1>6, <1>8

LEMMA CreateTenantAtomic ==
  ASSUME Typed, NEW w \in Workers, Fresh(w), CreateTenant(w)
  PROVE  Footprint(Req(w)) /\ (Atomic!Do(Req(w)) \/ UNCHANGED rows)
<1>1. Req(w) \in Requests /\ Req(w).op \in {"install", "createTenant"}
  BY AtWork DEF Typed, CreateTenant, At, Req
<1>2. CASE tenant # None
  BY <1>2, NoFootprint DEF CreateTenant, Footprint, rows
<1>3. CASE tenant = None
  <2>1. <<"tenant", None, "row">> \in Changes(Req(w))
    BY <1>1, <1>3 DEF Changes, TenantCells
  <2>2. Atomic!Install(Req(w)) \/ Atomic!CreateTenant(Req(w))
    BY <1>1, <1>3 DEF CreateTenant, Atomic!Install, Atomic!CreateTenant, Atomic!OnlyTenant,
                      NewTenant, Atomic!NewTenant
  <2> QED
    BY <2>1, <2>2, NoFootprint DEF CreateTenant, TenantFootprint, Footprint, Atomic!Do
<1> QED
  BY <1>2, <1>3

LEMMA UpdateTenantAPIKeyAtomic ==
  ASSUME Typed, NEW w \in Workers, Fresh(w), UpdateTenantAPIKey(w)
  PROVE  Footprint(Req(w)) /\ (Atomic!Do(Req(w)) \/ UNCHANGED rows)
<1>1. Req(w) \in Requests /\ Req(w).op = "rotate"
  BY AtWork DEF Typed, UpdateTenantAPIKey, At, Req
<1>2. Atomic!Authorised(Req(w)) /\ tenant \in Tenant /\ tenant # None
  BY <1>1, RequestMaker, AtomicAuthorised, EntitledTenant DEF Fresh, Typed, TypeOK, Consistent
<1>3. Atomic!Rotate(Req(w))
  BY <1>1, <1>2 DEF UpdateTenantAPIKey, Atomic!Rotate, Atomic!OnlyTenant
<1>4. TenantFootprint(Req(w))
  <2>1. <<"tenant", None, "key">> \in Changes(Req(w))
    BY <1>1 DEF Changes, TenantCells
  <2>2. Req(w).key \in Keys
    BY <1>1, RequestFields
  <2>3. tenant' = [tenant EXCEPT !.key = Req(w).key] /\ tenant' # None
    BY <1>2, <2>2 DEF UpdateTenantAPIKey, Tenant
  <2> QED
    BY <1>2, <2>1, <2>3 DEF TenantFootprint, Tenant
<1> QED
  BY <1>3, <1>4, NoFootprint DEF UpdateTenantAPIKey, Footprint, Atomic!Do

LEMMA DeleteTenantAtomic ==
  ASSUME Typed, NEW w \in Workers, Fresh(w), DeleteTenant(w)
  PROVE  Footprint(Req(w)) /\ (Atomic!Do(Req(w)) \/ UNCHANGED rows)
<1>1. Req(w) \in Requests /\ Req(w).op = "deleteTenant"
  BY AtWork DEF Typed, DeleteTenant, At, Req
<1>2. Atomic!Authorised(Req(w))
  BY <1>1, RequestMaker, AtomicAuthorised DEF Fresh, Typed
<1>3. Atomic!DeleteTenant(Req(w))
  BY <1>1, <1>2 DEF DeleteTenant, Atomic!DeleteTenant
<1>4. <<"tenant", None, "row">> \in Changes(Req(w))
  BY <1>1 DEF Changes, TenantCells
<1>5. filters' \ filters = {} /\ subs' \ subs = {}
  BY DEF DeleteTenant
<1> QED
  BY <1>3, <1>4, <1>5 DEF Footprint, TenantFootprint, AdminFootprint, FilterFootprint, SubFootprint, Atomic!Do

LEMMA AddAdminAtomic ==
  ASSUME Typed, NEW w \in Workers, Fresh(w), AddAdmin(w)
  PROVE  Footprint(Req(w)) /\ (Atomic!Do(Req(w)) \/ UNCHANGED rows)
<1>1. Req(w) \in Requests /\ Req(w).op \in {"addAdmin", "install"}
  BY AtWork DEF Typed, AddAdmin, At, Req
<1>2. AdminFootprint(Req(w))
  BY DEF AddAdmin, AdminFootprint
<1>3. Footprint(Req(w))
  BY <1>2, NoFootprint DEF AddAdmin, Footprint
<1>4. CASE tenant = None
  BY <1>3, <1>4 DEF AddAdmin, rows
<1>5. CASE tenant # None
  <2>1. Req(w).op = "addAdmin" => Atomic!Authorised(Req(w))
    BY <1>1, RequestMaker, AtomicAuthorised DEF Fresh, Typed
  <2>2. Atomic!AddAdmin(Req(w))
    BY <1>1, <1>5, <2>1 DEF AddAdmin, Atomic!AddAdmin, Atomic!OnlyAdmins
  <2> QED
    BY <1>3, <2>2 DEF Atomic!Do
<1> QED
  BY <1>4, <1>5

LEMMA RemoveAdminAtomic ==
  ASSUME Typed, NEW w \in Workers, Fresh(w), RemoveAdmin(w)
  PROVE  Footprint(Req(w)) /\ (Atomic!Do(Req(w)) \/ UNCHANGED rows)
<1>1. Req(w) \in Requests /\ Req(w).op = "removeAdmin"
  BY AtWork DEF Typed, RemoveAdmin, At, Req
<1>2. Atomic!RemoveAdmin(Req(w))
  <2>1. Atomic!Authorised(Req(w))
    BY <1>1, RequestMaker, AtomicAuthorised DEF Fresh, Typed
  <2> QED
    BY <1>1, <2>1 DEF RemoveAdmin, Atomic!RemoveAdmin, Atomic!OnlyAdmins
<1>3. <<"admin", Req(w).user, "row">> \in Changes(Req(w))
  BY <1>1 DEF Changes
<1>4. AdminFootprint(Req(w))
  BY <1>3 DEF RemoveAdmin, AdminFootprint
<1> QED
  BY <1>2, <1>4, NoFootprint DEF RemoveAdmin, Footprint, Atomic!Do

LEMMA UpsertZoomCredentialsAtomic ==
  ASSUME Typed, NEW w \in Workers, Fresh(w), UpsertZoomCredentials(w)
  PROVE  Footprint(Req(w)) /\ (Atomic!Do(Req(w)) \/ UNCHANGED rows)
<1>1. Req(w) \in Requests /\ Req(w).op \in {"putCreds", "setup"}
  BY AtWork DEF Typed, UpsertZoomCredentials, At, Req
<1>2. Atomic!Authorised(Req(w)) /\ tenant # None
  BY <1>1, RequestMaker, AtomicAuthorised, EntitledTenant DEF Fresh, Typed
<1>3. Req(w).creds # None
  <2>1. Req(w).op = "putCreds" => Req(w).creds # None
    BY <1>1, RequestFields
  <2> QED
    BY <1>1, <2>1 DEF UpsertZoomCredentials, Typed, RowFits, At, Req
<1>4. Atomic!SetCreds(Req(w))
  BY <1>1, <1>2, <1>3 DEF UpsertZoomCredentials, Atomic!SetCreds, Atomic!OnlyCreds, Atomic!Sent
<1> QED
  BY <1>4, NoFootprint DEF UpsertZoomCredentials, Footprint, Atomic!Do

LEMMA CreateFilterAtomic ==
  ASSUME Typed, NEW w \in Workers, Fresh(w), CreateFilter(w)
  PROVE  Footprint(Req(w)) /\ (Atomic!Do(Req(w)) \/ UNCHANGED rows)
<1>1. Req(w) \in Requests /\ Req(w).op = "createFilter"
  BY AtWork DEF Typed, CreateFilter, At, Req
<1>2. Atomic!Authorised(Req(w)) /\ tenant # None
  BY <1>1, RequestMaker, AtomicAuthorised, EntitledTenant DEF Fresh, Typed
<1>3. Atomic!CreateFilter(Req(w))
  BY <1>1, <1>2 DEF CreateFilter, Atomic!CreateFilter, Atomic!OnlyFilters
<1>4. FilterFootprint(Req(w))
  <2>1. lastFilter \in Nat
    BY DEF Typed, TypeOK, Consistent
  <2>2. \A g \in filters' \ filters : g.id = lastFilter + 1
    BY <1>2 DEF CreateFilter
  <2> QED
    BY <2>1, <2>2 DEF FilterFootprint
<1> QED
  BY <1>3, <1>4, NoFootprint DEF CreateFilter, Footprint, Atomic!Do

(* Replacing the row of an id replaces one row, or none. *)
LEMMA ReplacesOne ==
  ASSUME NEW fs, NEW row, \A f, g \in fs : f.id = g.id => f = g
  PROVE  LET new == {IF f.id = row.id THEN row ELSE f : f \in fs}
         IN  \/ new = fs
             \/ \E g \in fs : g.id = row.id /\ new = (fs \ {g}) \cup {row}
<1> DEFINE new == {IF f.id = row.id THEN row ELSE f : f \in fs}
<1>1. CASE \E g \in fs : g.id = row.id
  <2>1. PICK g \in fs : g.id = row.id
    BY <1>1
  <2>2. \A f \in fs : f.id = row.id <=> f = g
    BY <2>1
  <2>3. new \subseteq (fs \ {g}) \cup {row}
    BY <2>2
  <2>4. (fs \ {g}) \cup {row} \subseteq new
    BY <2>1, <2>2
  <2>5. new = (fs \ {g}) \cup {row}
    BY <2>3, <2>4
  <2> HIDE DEF new
  <2>6. \E h \in fs : h.id = row.id /\ new = (fs \ {h}) \cup {row}
    BY <2>1, <2>5
  <2> QED
    BY <2>6 DEF new
<1>2. CASE ~ \E g \in fs : g.id = row.id
  BY <1>2
<1> QED
  BY <1>1, <1>2

(* What is written over a filter changes in it what the request sent. *)
LEMMA OverrideAtomic ==
  ASSUME Typed, NEW w \in Workers, Fresh(w), UpdateFilter(w), Req(w).op = "override"
  PROVE  FilterFootprint(Req(w)) /\ (Atomic!Override(Req(w)) \/ filters' = filters)
<1> DEFINE r   == Req(w)
           row == [Row(w) EXCEPT !.suffix = Sent(r.suffix, @), !.link = Sent(r.link, @)]
<1>1. r \in Requests /\ At(w, "write", {"override"})
  BY AtWork DEF Typed, UpdateFilter, At, Req
<1>2. Row(w) \in Filter /\ r.sel \in {Row(w).id, Row(w).pattern}
  BY <1>1 DEF Typed, RowFits, At
<1>3. filters' = {IF f.id = row.id THEN row ELSE f : f \in filters}
  BY DEF UpdateFilter
<1>4. row.id = Row(w).id /\ row.pattern = Row(w).pattern
      /\ row.suffix = Sent(r.suffix, Row(w).suffix) /\ row.link = Sent(r.link, Row(w).link)
  BY <1>2 DEF Filter
<1>5. filters \subseteq Filter /\ \A f, g \in filters : f.id = g.id => f = g
  BY DEF Typed, TypeOK, Consistent
<1>6. ASSUME NEW g \in filters, g.id = row.id
      PROVE  /\ row = [g EXCEPT !.suffix = Sent(r.suffix, g.suffix), !.link = Sent(r.link, g.link)]
             /\ g \in Selected(filters, r.sel)
             /\ g.pattern = Row(w).pattern
  <2>1. g \in Filter
    BY <1>5
  <2>2. /\ g.pattern = Row(w).pattern
        /\ r.suffix = None => g.suffix = Row(w).suffix
        /\ r.link = None => g.link = Row(w).link
    BY <1>1, <1>4, <1>6 DEF Fresh, SameFilter
  <2>3. Sent(r.suffix, Row(w).suffix) = Sent(r.suffix, g.suffix) /\ Sent(r.link, Row(w).link) = Sent(r.link, g.link)
    BY <2>2 DEF Sent
  <2>4. row = [g EXCEPT !.suffix = Sent(r.suffix, g.suffix), !.link = Sent(r.link, g.link)]
    BY <1>2, <1>4, <1>6, <2>1, <2>2, <2>3 DEF Filter
  <2> QED
    BY <1>2, <1>4, <1>6, <2>2, <2>4 DEF Selected
<1> HIDE DEF row
<1>7. filters' = filters \/ \E g \in filters : g.id = row.id /\ filters' = (filters \ {g}) \cup {row}
  <2>1. \A f, g \in filters : f.id = g.id => f = g
    BY <1>5
  <2>2. \/ {IF f.id = row.id THEN row ELSE f : f \in filters} = filters
        \/ \E g \in filters :
             g.id = row.id /\ {IF f.id = row.id THEN row ELSE f : f \in filters} = (filters \ {g}) \cup {row}
    BY ZenonT(60), <2>1, ReplacesOne
  <2> QED
    BY <1>3, <2>2
<1>8. CASE filters' = filters
  BY <1>8, NoFootprint
<1>9. CASE \E g \in filters : g.id = row.id /\ filters' = (filters \ {g}) \cup {row}
  <2>1. PICK g \in filters : g.id = row.id /\ filters' = (filters \ {g}) \cup {row}
    BY <1>9
  <2>2. Atomic!Authorised(r)
    BY <1>1, RequestMaker, AtomicAuthorised DEF Fresh, Typed
  <2>3. Atomic!Override(r)
    <3>1. g \in Atomic!Selected(filters, r.sel)
      BY <1>6, <2>1 DEF Selected, Atomic!Selected
    <3>2. filters' = (filters \ {g}) \cup
            {[g EXCEPT !.suffix = Atomic!Sent(r.suffix, g.suffix), !.link = Atomic!Sent(r.link, g.link)]}
      BY <1>6, <2>1 DEF Sent, Atomic!Sent
    <3> QED
      BY <2>2, <3>1, <3>2 DEF UpdateFilter, Atomic!Override, Atomic!OnlyFilters
  <2>4. /\ r.suffix # None => FilterCell(r, g.id, "suffix")
        /\ r.link # None => FilterCell(r, g.id, "link")
    <3>1. r.sel \in Patterns \/ r.sel = g.id
      BY <1>2, <1>4, <2>1 DEF Filter
    <3> QED
      BY <1>1, <3>1 DEF FilterCell, Changes, FilterCells, SentColumns
  <2>5. /\ row.pattern = g.pattern
        /\ row.suffix = g.suffix \/ r.suffix # None
        /\ row.link = g.link \/ r.link # None
    <3>1. /\ r.suffix = None => g.suffix = Row(w).suffix
          /\ r.link = None => g.link = Row(w).link
      BY <1>1, <1>4, <2>1 DEF Fresh, SameFilter
    <3> QED
      BY <1>4, <1>6, <2>1, <3>1 DEF Sent
  <2>6. FilterFootprint(r)
    BY <2>1, <2>4, <2>5 DEF FilterFootprint
  <2> QED
    BY <2>3, <2>6
<1> QED
  BY <1>7, <1>8, <1>9

LEMMA PatchAtomic ==
  ASSUME Typed, NEW w \in Workers, Fresh(w), UpdateFilter(w), Req(w).op = "patch"
  PROVE  FilterFootprint(Req(w)) /\ (Atomic!Patch(Req(w)) \/ filters' = filters)
<1> DEFINE r   == Req(w)
           row == [Row(w) EXCEPT !.pattern = Sent(r.pattern, @), !.suffix = r.suffix, !.link = r.link]
<1>1. r \in Requests /\ At(w, "write", {"patch"})
  BY AtWork DEF Typed, UpdateFilter, At, Req
<1>2. Row(w) \in Filter /\ r.sel = Row(w).id
  <2>1. Row(w) \in Filter /\ r.sel \in {Row(w).id, Row(w).pattern} /\ r.sel \in Ids
    BY <1>1, RequestFields DEF Typed, RowFits, At
  <2> QED
    BY <2>1 DEF Filter
<1>3. filters' = {IF f.id = row.id THEN row ELSE f : f \in filters}
  BY DEF UpdateFilter
<1>4. row.id = Row(w).id /\ row.pattern = Sent(r.pattern, Row(w).pattern)
      /\ row.suffix = r.suffix /\ row.link = r.link
  BY <1>2 DEF Filter
<1>5. filters \subseteq Filter /\ \A f, g \in filters : f.id = g.id => f = g
  BY DEF Typed, TypeOK, Consistent
<1>6. ASSUME NEW g \in filters, g.id = row.id
      PROVE  /\ row = [g EXCEPT !.pattern = Sent(r.pattern, g.pattern), !.suffix = r.suffix, !.link = r.link]
             /\ r.pattern = None => row.pattern = g.pattern
  <2>1. g \in Filter
    BY <1>5
  <2>2. r.pattern = None => g.pattern = Row(w).pattern
    BY <1>1, <1>4, <1>6 DEF Fresh, SameFilter
  <2>3. Sent(r.pattern, Row(w).pattern) = Sent(r.pattern, g.pattern)
    BY <2>2 DEF Sent
  <2> QED
    BY <1>2, <1>4, <1>6, <2>1, <2>2, <2>3 DEF Filter, Sent
<1> HIDE DEF row
<1>7. filters' = filters \/ \E g \in filters : g.id = row.id /\ filters' = (filters \ {g}) \cup {row}
  <2>1. \A f, g \in filters : f.id = g.id => f = g
    BY <1>5
  <2>2. \/ {IF f.id = row.id THEN row ELSE f : f \in filters} = filters
        \/ \E g \in filters :
             g.id = row.id /\ {IF f.id = row.id THEN row ELSE f : f \in filters} = (filters \ {g}) \cup {row}
    BY ZenonT(60), <2>1, ReplacesOne
  <2> QED
    BY <1>3, <2>2
<1>8. CASE filters' = filters
  BY <1>8, NoFootprint
<1>9. CASE \E g \in filters : g.id = row.id /\ filters' = (filters \ {g}) \cup {row}
  <2>1. PICK g \in filters : g.id = row.id /\ filters' = (filters \ {g}) \cup {row}
    BY <1>9
  <2>2. Atomic!Authorised(r)
    BY <1>1, RequestMaker, AtomicAuthorised DEF Fresh, Typed
  <2>3. Atomic!Patch(r)
    <3>1. g \in Atomic!Selected(filters, r.sel)
      BY <1>2, <1>4, <2>1 DEF Atomic!Selected
    <3>2. filters' = (filters \ {g}) \cup
            {[g EXCEPT !.pattern = Atomic!Sent(r.pattern, g.pattern), !.suffix = r.suffix, !.link = r.link]}
      BY <1>6, <2>1 DEF Sent, Atomic!Sent
    <3> QED
      BY <2>2, <3>1, <3>2 DEF UpdateFilter, Atomic!Patch, Atomic!OnlyFilters
  <2>4. /\ r.pattern # None => FilterCell(r, g.id, "pattern")
        /\ FilterCell(r, g.id, "suffix") /\ FilterCell(r, g.id, "link")
    <3>1. r.sel = g.id
      BY <1>2, <1>4, <2>1
    <3> QED
      BY <1>1, <3>1 DEF FilterCell, Changes, FilterCells, SentColumns
  <2>5. FilterFootprint(r)
    BY <1>6, <2>1, <2>4 DEF FilterFootprint
  <2> QED
    BY <2>3, <2>5
<1> QED
  BY <1>7, <1>8, <1>9

LEMMA UpdateFilterAtomic ==
  ASSUME Typed, NEW w \in Workers, Fresh(w), UpdateFilter(w)
  PROVE  Footprint(Req(w)) /\ (Atomic!Do(Req(w)) \/ UNCHANGED rows)
<1>1. Req(w).op \in {"override", "patch"}
  BY DEF UpdateFilter, At, Req
<1>2. FilterFootprint(Req(w)) /\ (Atomic!Override(Req(w)) \/ Atomic!Patch(Req(w)) \/ filters' = filters)
  BY <1>1, OverrideAtomic, PatchAtomic
<1> QED
  BY <1>2, NoFootprint DEF UpdateFilter, Footprint, Atomic!Do, rows

LEMMA DeleteFilterAtomic ==
  ASSUME Typed, NEW w \in Workers, Fresh(w), DeleteFilter(w)
  PROVE  Footprint(Req(w)) /\ (Atomic!Do(Req(w)) \/ UNCHANGED rows)
<1>1. Req(w) \in Requests /\ Req(w).op = "deleteFilter"
  BY AtWork DEF Typed, DeleteFilter, At, Req
<1>2. Row(w) \in Filter /\ Req(w).sel \in {Row(w).id, Row(w).pattern} /\ Req(w).sel \in Ids
  BY <1>1, RequestFields DEF DeleteFilter, Typed, RowFits, At, Req
<1>3. Req(w).sel = Row(w).id
  BY <1>2 DEF Filter
<1>4. Atomic!Selected(filters, Req(w).sel) = {f \in filters : f.id = Row(w).id}
  BY <1>2, <1>3 DEF Atomic!Selected, Typed, TypeOK, Consistent, Filter
<1>5. Atomic!DeleteFilter(Req(w))
  <2>1. Atomic!Authorised(Req(w))
    BY <1>1, RequestMaker, AtomicAuthorised DEF Fresh, Typed
  <2>2. filters' = filters \ Atomic!Selected(filters, Req(w).sel)
    BY <1>4 DEF DeleteFilter
  <2> QED
    BY <1>1, <2>1, <2>2 DEF DeleteFilter, Atomic!DeleteFilter, Atomic!OnlyFilters
<1>6. FilterFootprint(Req(w))
  BY DEF DeleteFilter, FilterFootprint
<1> QED
  BY <1>5, <1>6, NoFootprint DEF DeleteFilter, Footprint, Atomic!Do

LEMMA CreateSubscriptionAtomic ==
  ASSUME Typed, NEW w \in Workers, Fresh(w), CreateSubscription(w)
  PROVE  Footprint(Req(w)) /\ (Atomic!Do(Req(w)) \/ UNCHANGED rows)
<1>1. Req(w) \in Requests /\ Req(w).op \in {"subscribe", "createSubscription"}
  BY AtWork DEF Typed, CreateSubscription, At, Req
<1>2. Atomic!Authorised(Req(w)) /\ tenant # None
  BY <1>1, RequestMaker, AtomicAuthorised, EntitledTenant DEF Fresh, Typed
<1>3. Atomic!Subscribe(Req(w))
  <2>1. Req(w).op = "subscribe" => Atomic!SlackOn(subs, Req(w).target) = {}
    BY DEF Fresh, SameSubs, CreateSubscription, At, Req, SlackOn, Atomic!SlackOn
  <2> QED
    BY <1>1, <1>2, <2>1 DEF CreateSubscription, Atomic!Subscribe, Atomic!OnlySubs
<1>4. SubFootprint(Req(w))
  <2>1. lastSub \in Nat
    BY DEF Typed, TypeOK, Consistent
  <2>2. \A s \in subs' \ subs : s.id = lastSub + 1 /\ s.target = Req(w).target
    BY <1>2 DEF CreateSubscription
  <2>3. <<"sub", Req(w).target, "row">> \in Changes(Req(w))
    BY <1>1 DEF Changes, SubCells
  <2> QED
    BY <2>1, <2>2, <2>3 DEF SubFootprint
<1> QED
  BY <1>3, <1>4, NoFootprint DEF CreateSubscription, Footprint, Atomic!Do

LEMMA UpdateSubscriptionAtomic ==
  ASSUME Typed, NEW w \in Workers, Fresh(w), UpdateSubscription(w)
  PROVE  Footprint(Req(w)) /\ (Atomic!Do(Req(w)) \/ UNCHANGED rows)
<1> DEFINE r   == Req(w)
           row == [Row(w) EXCEPT !.enabled = Sent(r.enabled, @), !.target = Sent(r.target, @)]
<1>1. r \in Requests /\ r.op = "updateSubscription" /\ At(w, "write", {"updateSubscription"})
  BY AtWork DEF Typed, UpdateSubscription, At, Req
<1>2. Row(w) \in Subscription /\ Row(w).id = r.id
  BY <1>1 DEF Typed, RowFits, At
<1>3. subs' = {IF s.id = row.id THEN row ELSE s : s \in subs}
  BY DEF UpdateSubscription
<1>4. row.id = Row(w).id
  BY <1>2 DEF Subscription
<1>5. \A s, q \in subs : s.id = q.id => s = q
  BY DEF Typed, TypeOK, Consistent
<1>6. row = [Row(w) EXCEPT !.enabled = Atomic!Sent(r.enabled, Row(w).enabled), !.target = Atomic!Sent(r.target, Row(w).target)]
  BY DEF Sent, Atomic!Sent
<1> HIDE DEF row
<1>7. subs' = subs \/ \E s \in subs : s.id = row.id /\ subs' = (subs \ {s}) \cup {row}
  BY ZenonT(60), <1>3, <1>5, ReplacesOne
<1>8. SubFootprint(r)
  BY <1>1 DEF SubFootprint, Changes, SubCells
<1>9. CASE \E s \in subs : s.id = row.id /\ subs' = (subs \ {s}) \cup {row}
  <2>1. PICK s \in subs : s.id = row.id /\ subs' = (subs \ {s}) \cup {row}
    BY <1>9
  <2>2. s = Row(w)
    BY <1>1, <1>4, <2>1 DEF Fresh, SameSubs
  <2>3. Atomic!Authorised(r)
    BY <1>1, RequestMaker, AtomicAuthorised DEF Fresh, Typed
  <2>4. Atomic!UpdateSubscription(r)
    BY <1>1, <1>2, <1>6, <2>1, <2>2, <2>3 DEF UpdateSubscription, Atomic!UpdateSubscription, Atomic!OnlySubs
  <2> QED
    BY <1>8, <2>4, NoFootprint DEF UpdateSubscription, Footprint, Atomic!Do
<1>10. CASE subs' = subs
  BY <1>8, <1>10, NoFootprint DEF UpdateSubscription, Footprint, rows
<1> QED
  BY <1>7, <1>9, <1>10

LEMMA DeleteSubscriptionAtomic ==
  ASSUME Typed, NEW w \in Workers, Fresh(w), DeleteSubscription(w)
  PROVE  Footprint(Req(w)) /\ (Atomic!Do(Req(w)) \/ UNCHANGED rows)
<1>1. Req(w) \in Requests /\ Req(w).op \in {"unsubscribe", "deleteSubscription"}
  BY AtWork DEF Typed, DeleteSubscription, At, Req
<1>2. SubFootprint(Req(w))
  BY DEF DeleteSubscription, SubFootprint
<1>3. Footprint(Req(w))
  BY <1>2, NoFootprint DEF DeleteSubscription, Footprint
<1>4. Atomic!Authorised(Req(w))
  BY <1>1, RequestMaker, AtomicAuthorised DEF Fresh, Typed
<1>5. CASE Req(w).op = "deleteSubscription"
  <2>1. Row(w).id = Req(w).id
    BY <1>5 DEF DeleteSubscription, Typed, RowFits, At, Req
  <2>2. Atomic!DeleteSubscription(Req(w))
    BY <1>4, <1>5, <2>1 DEF DeleteSubscription, Atomic!DeleteSubscription, Atomic!OnlySubs
  <2> QED
    BY <1>3, <2>2 DEF Atomic!Do
<1>6. CASE Req(w).op = "unsubscribe"
  <2>1. CASE \E s \in subs : s.id = Row(w).id
    <3>1. PICK s \in subs : s.id = Row(w).id
      BY <2>1
    <3>2. subs' = subs \ {s}
      BY <3>1 DEF DeleteSubscription, Typed, TypeOK, Consistent
    <3>3. s \in Atomic!SlackOn(subs, Req(w).target)
      BY <1>6, <3>1 DEF DeleteSubscription, Fresh, SameSubs, At, Req, Atomic!SlackOn
    <3>4. Atomic!Unsubscribe(Req(w))
      BY <1>4, <1>6, <3>2, <3>3 DEF DeleteSubscription, Atomic!Unsubscribe, Atomic!OnlySubs
    <3> QED
      BY <1>3, <3>4 DEF Atomic!Do
  <2>2. CASE ~ \E s \in subs : s.id = Row(w).id
    <3>1. subs' = subs
      BY <2>2 DEF DeleteSubscription
    <3> QED
      BY <1>3, <3>1 DEF DeleteSubscription, rows
  <2> QED
    BY <2>1, <2>2
<1> QED
  BY <1>1, <1>5, <1>6

Reads(w) == GetTenant(w) \/ FindFilter(w) \/ CheckDuplicate(w) \/ FindSubscription(w)

Writes(w) ==
  \/ UpdateTenantDefaults(w) \/ UpdateTenant(w) \/ CreateTenant(w)
  \/ UpdateTenantAPIKey(w) \/ DeleteTenant(w)
  \/ AddAdmin(w) \/ RemoveAdmin(w) \/ UpsertZoomCredentials(w)
  \/ CreateFilter(w) \/ UpdateFilter(w) \/ DeleteFilter(w)
  \/ CreateSubscription(w) \/ UpdateSubscription(w) \/ DeleteSubscription(w)

LEMMA WritesAtomic ==
  ASSUME Typed, NEW w \in Workers, Fresh(w), Writes(w)
  PROVE  Footprint(Req(w)) /\ (Atomic!Do(Req(w)) \/ UNCHANGED rows)
<1>1. CASE UpdateTenantDefaults(w) \/ UpdateTenant(w) \/ CreateTenant(w) \/ UpdateTenantAPIKey(w) \/ DeleteTenant(w)
  BY <1>1, DefaultsAtomic, UpdateTenantAtomic, CreateTenantAtomic, UpdateTenantAPIKeyAtomic, DeleteTenantAtomic
<1>2. CASE AddAdmin(w) \/ RemoveAdmin(w) \/ UpsertZoomCredentials(w)
  BY <1>2, AddAdminAtomic, RemoveAdminAtomic, UpsertZoomCredentialsAtomic
<1>3. CASE CreateFilter(w) \/ UpdateFilter(w) \/ DeleteFilter(w)
  BY <1>3, CreateFilterAtomic, UpdateFilterAtomic, DeleteFilterAtomic
<1>4. CASE CreateSubscription(w) \/ UpdateSubscription(w) \/ DeleteSubscription(w)
  BY <1>4, CreateSubscriptionAtomic, UpdateSubscriptionAtomic, DeleteSubscriptionAtomic
<1> QED
  BY <1>1, <1>2, <1>3, <1>4 DEF Writes

-----------------------------------------------------------------------------
(* The invariant *)

LEMMA AtomicInit ==
  Init => AtomicInv
<1> SUFFICES ASSUME Init PROVE AtomicInv
  OBVIOUS
<1>1. \A w \in Workers : Req(w) = None
  BY DEF Init, Idle, Req
<1> QED
  BY <1>1 DEF AtomicInv, Undisturbed, Busy, Req

(* A request that begins alone, or disturbs nobody and is disturbed by nobody. *)
LEMMA AtomicBegin ==
  ASSUME Typed, AtomicInv, NEW w \in Workers, NEW r \in Requests, Begin(w, r)
  PROVE  AtomicInv'
<1> SUFFICES ASSUME ~ clash' PROVE Undisturbed' /\ \A v \in Workers : Busy(v)' => Fresh(v)'
  BY DEF AtomicInv
<1> DEFINE first == IF ReadFirst(r) THEN "read" ELSE "write"
           kept  == IF r.op = "setup" THEN tenant ELSE None
<1>1. /\ worker'[w] = [req |-> r, at |-> first, row |-> kept]
      /\ \A v \in Workers : v # w => worker'[v] = worker[v]
  BY DEF Begin, Typed, TypeOK
<1>2. UNCHANGED <<tenant, admins, filters, subs, creds, lastFilter, lastSub>>
  BY DEF Begin, rows
<1>3. \A q, p \in Requests : Disturbs(q, p)' <=> Disturbs(q, p)
  BY <1>2, SameDisturbance
<1>4. Req(w)' = r /\ Row(w)' = kept /\ \A v \in Workers : v # w => Req(v)' = Req(v)
  BY <1>1 DEF Req, Row
<1>5. \A v \in Workers \ {w} : Busy(v) => ~ clash /\ ~ Disturbs(r, Req(v)) /\ ~ Disturbs(Req(v), r)
  BY DEF Begin
<1>6. \A v \in Workers : Req(v) \in Requests => Busy(v)
  BY DEF Busy, Req
<1>7. Undisturbed'
  <2> SUFFICES ASSUME NEW u \in Workers, NEW v \in Workers, u # v,
                      NEW q \in Requests, NEW p \in Requests, Req(u)' = q, Req(v)' = p
               PROVE  ~ Disturbs(q, p)
    BY <1>3 DEF Undisturbed
  <2>1. CASE u = w
    BY <1>4, <1>5, <1>6, <2>1
  <2>2. CASE v = w
    BY <1>4, <1>5, <1>6, <2>2
  <2>3. CASE u # w /\ v # w
    <3>1. ~ clash /\ Req(u) = q /\ Req(v) = p
      BY <1>4, <1>5, <1>6, <2>3
    <3> QED
      BY <3>1 DEF AtomicInv, Undisturbed
  <2> QED
    BY <2>1, <2>2, <2>3
<1>8. ASSUME NEW v \in Workers, v # w, Busy(v)' PROVE Fresh(v)'
  <2>1. worker'[v] = worker[v] /\ Busy(v)
    BY <1>1, <1>8 DEF Busy
  <2>2. Fresh(v)
    BY <1>5, <1>8, <2>1 DEF AtomicInv
  <2> QED
    BY <1>2, <2>1, <2>2 DEF Fresh, Entitled, SameDefaults, SameTenant, SameFilter, SameSubs, NotOneself,
                            At, Row, Req
<1>9. Fresh(w)'
  <2>1. Entitled(w)'
    <3>1. Authorised(r) /\ NotOneself(r)
      BY DEF Begin
    <3>2. r.who \in Users => r.who \in admins
      BY <3>1 DEF Authorised
    <3>3. r.who \in Keys => tenant # None /\ tenant.key = r.who
      BY <3>1 DEF Authorised
    <3> QED
      BY <1>2, <1>4, <3>1, <3>2, <3>3 DEF Entitled, NotOneself
  <2>2. At(w, "write", {"setup"})' => r.op = "setup" /\ Row(w)' = tenant'
    BY <1>1, <1>2, <1>4 DEF At
  <2>3. \A op \in {"defaults", "install", "override", "patch", "subscribe", "unsubscribe", "updateSubscription"} :
          ~ At(w, "write", {op})'
    BY <1>1 DEF At, ReadFirst
  <2>4. SameDefaults(w)' /\ SameFilter(w)' /\ SameSubs(w)'
    BY <2>3 DEF SameDefaults, SameFilter, SameSubs
  <2>5. SameTenant(w)'
    BY <2>2, <2>3 DEF SameTenant
  <2> QED
    BY <2>1, <2>4, <2>5 DEF Fresh
<1> QED
  BY <1>7, <1>8, <1>9

(* A request under way that goes on, if what it has then is fresh. *)
LEMMA AtomicKept ==
  ASSUME Typed, AtomicInv, NEW w \in Workers, Busy(w), clash' = clash,
         \A v \in Workers : v # w => worker'[v] = worker[v],
         ~ clash => Footprint(Req(w)),
         ~ clash => \/ worker'[w] = Idle
                    \/ worker'[w].req = worker[w].req /\ Fresh(w)'
  PROVE  AtomicInv'
<1> SUFFICES ASSUME ~ clash PROVE Undisturbed' /\ \A v \in Workers : Busy(v)' => Fresh(v)'
  BY DEF AtomicInv
<1>1. Req(w) \in Requests
  BY DEF Typed, TypeOK, WorkerState, Busy, Idle, Req
<1>2. Undisturbed'
  BY UndisturbedKept DEF AtomicInv
<1>3. ASSUME NEW v \in Workers, v # w, Busy(v)' PROVE Fresh(v)'
  <2>1. worker'[v] = worker[v] /\ Busy(v)
    BY <1>3 DEF Busy
  <2> QED
    BY <1>1, <1>3, <2>1, FreshKept DEF AtomicInv
<1>4. Busy(w)' => Fresh(w)'
  BY DEF Busy, Idle
<1> QED
  BY <1>2, <1>3, <1>4

(* What is read is fresh. *)
LEMMA FreshRead ==
  ASSUME Typed, NEW w \in Workers, Fresh(w), Reads(w), NEW row, Goes(w, "write", row)
  PROVE  Fresh(w)'
<1>1. UNCHANGED <<tenant, admins, filters, subs, creds, lastFilter, lastSub>>
  BY DEF Reads, GetTenant, FindFilter, CheckDuplicate, FindSubscription, rows
<1>2. worker'[w] = [req |-> Req(w), at |-> "write", row |-> row]
  BY DEF Goes, Typed, TypeOK
<1>3. /\ Req(w)' = Req(w) /\ Row(w)' = row
      /\ \A op : At(w, "write", {op})' => Req(w).op = op
  BY <1>2 DEF Req, Row, At
<1>4. Entitled(w)'
  BY <1>1, <1>3 DEF Fresh, Entitled, NotOneself
<1>5. worker' # [worker EXCEPT ![w] = Idle]
  BY <1>2 DEF Typed, TypeOK, Idle
<1>6. CASE GetTenant(w)
  <2>1. row = tenant /\ Req(w).op \in {"defaults", "install", "deleteTenant"}
    BY <1>2, <1>5, <1>6 DEF GetTenant, Goes, Ends, At, Req, Typed, TypeOK
  <2> QED
    BY <1>1, <1>3, <1>4, <2>1 DEF Fresh, SameDefaults, SameTenant, SameFilter, SameSubs
<1>7. CASE FindFilter(w)
  <2>1. row \in filters /\ Req(w).op \in {"override", "patch", "deleteFilter"}
    BY <1>2, <1>5, <1>7 DEF FindFilter, Goes, Ends, At, Req, Selected, Typed, TypeOK
  <2>2. \A f \in filters : f.id = row.id => f = row
    BY <2>1 DEF Typed, TypeOK, Consistent
  <2> QED
    BY <1>1, <1>3, <1>4, <2>1, <2>2 DEF Fresh, SameDefaults, SameTenant, SameFilter, SameSubs
<1>8. CASE CheckDuplicate(w)
  <2>1. SlackOn(subs, Req(w).target) = {} /\ Req(w).op = "subscribe"
    BY <1>5, <1>8 DEF CheckDuplicate, Ends, At, Req
  <2> QED
    BY <1>1, <1>3, <1>4, <2>1 DEF Fresh, SameDefaults, SameTenant, SameFilter, SameSubs
<1>9. CASE FindSubscription(w)
  <2>1. /\ row \in subs /\ Req(w).op \in {"unsubscribe", "updateSubscription", "deleteSubscription"}
        /\ Req(w).op = "unsubscribe" => row \in SlackOn(subs, Req(w).target)
    BY <1>2, <1>5, <1>9 DEF FindSubscription, Goes, Ends, At, Req, SlackOn, Typed, TypeOK
  <2>2. \A s \in subs : s.id = row.id => s = row
    BY <2>1 DEF Typed, TypeOK, Consistent
  <2> QED
    BY <1>1, <1>3, <1>4, <2>1, <2>2 DEF Fresh, SameDefaults, SameTenant, SameFilter, SameSubs, SlackOn
<1> QED
  BY <1>6, <1>7, <1>8, <1>9 DEF Reads

LEMMA AtomicRead ==
  ASSUME Typed, AtomicInv, NEW w \in Workers, Reads(w)
  PROVE  AtomicInv' /\ UNCHANGED rows
<1>1. UNCHANGED rows
  BY DEF Reads, GetTenant, FindFilter, CheckDuplicate, FindSubscription
<1>2. Busy(w)
  BY AtWork DEF Reads, GetTenant, FindFilter, CheckDuplicate, FindSubscription, At, Typed
<1>3. Ends(w) \/ \E row : Goes(w, "write", row)
  BY DEF Reads, GetTenant, FindFilter, CheckDuplicate, FindSubscription
<1>4. clash' = clash /\ \A v \in Workers : v # w => worker'[v] = worker[v]
  BY <1>3 DEF Ends, Goes, Typed, TypeOK
<1>5. Footprint(Req(w))
  BY <1>1, NoFootprint DEF rows, Footprint
<1>6. ~ clash => \/ worker'[w] = Idle
                 \/ worker'[w].req = worker[w].req /\ Fresh(w)'
  <2>1. CASE Ends(w)
    BY <2>1 DEF Ends, Typed, TypeOK
  <2>2. ASSUME NEW row, Goes(w, "write", row), ~ clash
        PROVE  worker'[w].req = worker[w].req /\ Fresh(w)'
    <3>1. Fresh(w)
      BY <1>2, <2>2 DEF AtomicInv
    <3>2. worker'[w].req = worker[w].req
      BY <2>2 DEF Goes, Req, Typed, TypeOK
    <3> QED
      BY <2>2, <3>1, <3>2, FreshRead
  <2> QED
    BY <1>3, <2>1, <2>2
<1> QED
  BY <1>1, <1>2, <1>4, <1>5, <1>6, AtomicKept

(* The setup page and the callback go on to their second write with the key as *)
(* it was.                                                                     *)
LEMMA FreshThen ==
  ASSUME Typed, NEW w \in Workers, Fresh(w), UpdateTenant(w) \/ CreateTenant(w), Goes(w, "then", None)
  PROVE  Fresh(w)'
<1>1. worker'[w] = [req |-> Req(w), at |-> "then", row |-> None]
  BY DEF Goes, Typed, TypeOK
<1>2. Req(w)' = Req(w) /\ \A ops : ~ At(w, "write", ops)'
  BY <1>1 DEF Req, At
<1>3. Req(w) \in Requests /\ admins' = admins
  BY AtWork DEF Typed, UpdateTenant, CreateTenant, At, Req
<1>4. Entitled(w)'
  <2>1. CASE UpdateTenant(w)
    <3>1. Row(w) \in Tenant /\ Req(w).op \in {"setup", "install"}
      BY <2>1 DEF UpdateTenant, Typed, RowFits, At, Req
    <3>2. Changed(w) \in [suffix : Suffixes, link : Links, account : {Changed(w).account},
                          token : {Changed(w).token}, key : Keys]
      BY <3>1 DEF Changed, Tenant
    <3>3. Updated(w).key = tenant.key
      BY <3>2 DEF Updated
    <3>4. tenant # None => tenant' = Updated(w)
      BY <2>1 DEF UpdateTenant
    <3>5. Req(w).who \in Keys => tenant' # None /\ tenant'.key = Req(w).who
      <4> SUFFICES ASSUME Req(w).who \in Keys PROVE tenant' # None /\ tenant'.key = Req(w).who
        OBVIOUS
      <4>1. tenant # None /\ tenant.key = Req(w).who
        BY DEF Fresh, Entitled
      <4>2. Req(w).op = "setup"
        BY <1>3, <3>1, RequestMaker
      <4>3. Req(w).account \in Accounts
        BY <1>3, <4>2, RequestFields
      <4>4. tenant \in Tenant
        BY <4>1 DEF Typed, TypeOK, Consistent
      <4>5. Updated(w) \in Tenant
        BY <3>1, <4>2, <4>3, <4>4 DEF Updated, Changed, Tenant, Opt
      <4> QED
        BY <3>3, <3>4, <4>1, <4>5
    <3> QED
      BY <1>2, <1>3, <3>5 DEF Fresh, Entitled, NotOneself
  <2>2. CASE CreateTenant(w)
    <3>1. Req(w).who = None
      BY <1>3, <2>2, RequestMaker DEF CreateTenant, At, Req
    <3> QED
      BY <1>2, <1>3, <3>1 DEF Fresh, Entitled, NotOneself
  <2> QED
    BY <2>1, <2>2
<1> QED
  BY <1>2, <1>4 DEF Fresh, SameDefaults, SameTenant, SameFilter, SameSubs

LEMMA AtomicWrite ==
  ASSUME Typed, AtomicInv, NEW w \in Workers, Writes(w)
  PROVE  AtomicInv' /\ (clash \/ Atomic!Next \/ UNCHANGED rows)
<1>1. Busy(w) /\ Req(w) \in Requests
  BY AtWork DEF Writes, UpdateTenantDefaults, UpdateTenant, CreateTenant, UpdateTenantAPIKey, DeleteTenant,
       AddAdmin, RemoveAdmin, UpsertZoomCredentials, CreateFilter, UpdateFilter, DeleteFilter,
       CreateSubscription, UpdateSubscription, DeleteSubscription, At, Typed
<1>2. Ends(w) \/ (Goes(w, "then", None) /\ (UpdateTenant(w) \/ CreateTenant(w)))
  BY DEF Writes, UpdateTenantDefaults, UpdateTenant, CreateTenant, UpdateTenantAPIKey, DeleteTenant,
       AddAdmin, RemoveAdmin, UpsertZoomCredentials, CreateFilter, UpdateFilter, DeleteFilter,
       CreateSubscription, UpdateSubscription, DeleteSubscription
<1>3. clash' = clash /\ \A v \in Workers : v # w => worker'[v] = worker[v]
  BY <1>2 DEF Ends, Goes, Typed, TypeOK
<1>4. ~ clash => Footprint(Req(w)) /\ (Atomic!Do(Req(w)) \/ UNCHANGED rows)
  BY <1>1, WritesAtomic DEF AtomicInv
<1>5. ~ clash => \/ worker'[w] = Idle
                 \/ worker'[w].req = worker[w].req /\ Fresh(w)'
  <2>1. CASE Ends(w)
    BY <2>1 DEF Ends, Typed, TypeOK
  <2>2. CASE Goes(w, "then", None) /\ (UpdateTenant(w) \/ CreateTenant(w))
    <3>1. worker'[w].req = worker[w].req
      BY <2>2 DEF Goes, Req, Typed, TypeOK
    <3> QED
      BY <1>1, <2>2, <3>1, FreshThen DEF AtomicInv
  <2> QED
    BY <1>2, <2>1, <2>2
<1> QED
  BY <1>1, <1>3, <1>4, <1>5, AtomicKept DEF Atomic!Next

LEMMA AtomicStep ==
  Typed /\ AtomicInv /\ [Next]_vars => AtomicInv' /\ (clash \/ Atomic!Next \/ UNCHANGED rows)
<1> SUFFICES ASSUME Typed, AtomicInv, [Next]_vars
             PROVE  AtomicInv' /\ (clash \/ Atomic!Next \/ UNCHANGED rows)
  OBVIOUS
<1>1. CASE UNCHANGED vars
  <2>1. UNCHANGED <<tenant, admins, filters, subs, creds, lastFilter, lastSub, worker, clash>>
    BY <1>1 DEF vars
  <2>2. \A r, q \in Requests : Disturbs(r, q)' <=> Disturbs(r, q)
    BY <2>1, SameDisturbance
  <2>3. Undisturbed => Undisturbed'
    BY <2>1, <2>2 DEF Undisturbed, Req
  <2>4. \A w \in Workers : (Busy(w)' => Busy(w)) /\ (Fresh(w) => Fresh(w)')
    BY <2>1 DEF Busy, Fresh, Entitled, SameDefaults, SameTenant, SameFilter, SameSubs, NotOneself, At, Row, Req
  <2> QED
    BY <2>1, <2>3, <2>4 DEF AtomicInv, rows
<1>2. CASE Next
  <2>1. PICK w \in Workers : Step(w)
    BY <1>2 DEF Next
  <2>2. CASE \E r \in Requests : Begin(w, r)
    BY <2>2, AtomicBegin DEF Begin
  <2>3. CASE Reads(w)
    BY <2>3, AtomicRead
  <2>4. CASE Writes(w)
    BY <2>4, AtomicWrite
  <2>5. CASE StatementFails(w)
    <3>1. UNCHANGED rows /\ Busy(w) /\ clash' = clash /\ worker'[w] = Idle
          /\ \A v \in Workers : v # w => worker'[v] = worker[v]
      BY <2>5 DEF StatementFails, Typed, TypeOK
    <3>2. Footprint(Req(w))
      BY <3>1, NoFootprint DEF rows, Footprint
    <3> QED
      BY <3>1, <3>2, AtomicKept
  <2> QED
    BY <2>1, <2>2, <2>3, <2>4, <2>5, Zenon DEF Step, Reads, Writes
<1> QED
  BY <1>1, <1>2

LEMMA AlwaysAtomic ==
  Spec => []AtomicInv
<1> QED
  BY AtomicInit, AtomicStep, AlwaysTyped, PTL DEF Spec

(* As long as no two requests that disturb each other have overlapped, every *)
(* statement is a step of Settings: the rows that are read, kept and written *)
(* back whole lose nothing, and nobody acts on a right they no longer have.  *)
THEOREM Atomicity ==
  Spec => AtomicUnlessClash
<1>1. Typed /\ AtomicInv /\ [Next]_vars => [clash \/ Atomic!Next]_rows
  BY AtomicStep
<1> QED
  BY <1>1, AlwaysTyped, AlwaysAtomic, PTL DEF Spec, AtomicUnlessClash

-----------------------------------------------------------------------------
(* Admins *)

LEMMA AdminsStep ==
  ASSUME Typed, AtomicInv, [Next]_vars, ~ clash, admins # {}, admins' = {}, tenant' # None
  PROVE  \E w \in Workers : At(w, "write", {"removeAdmin"}) /\ Req(w).who \in Keys /\ ~ Busy(w)'
<1>1. PICK w \in Workers : RemoveAdmin(w)
  BY ZenonT(60) DEF Next, Step, vars, rows, Begin, GetTenant, FindFilter, CheckDuplicate, FindSubscription,
       UpdateTenantDefaults, UpdateTenant, CreateTenant, UpdateTenantAPIKey, DeleteTenant,
       AddAdmin, UpsertZoomCredentials, CreateFilter, UpdateFilter, DeleteFilter,
       CreateSubscription, UpdateSubscription, DeleteSubscription, StatementFails
<1>2. Busy(w) /\ Req(w) \in Requests /\ Req(w).op = "removeAdmin"
  BY <1>1, AtWork DEF Typed, RemoveAdmin, At, Req
<1>3. Entitled(w)
  BY <1>2 DEF AtomicInv, Fresh
<1>4. Req(w).who \notin Users
  BY <1>1, <1>2, <1>3 DEF Entitled, NotOneself, RemoveAdmin
<1>5. ~ Busy(w)'
  BY <1>1 DEF RemoveAdmin, Ends, Busy, Idle, Typed, TypeOK
<1> QED
  BY <1>1, <1>2, <1>4, <1>5, RequestMaker DEF RemoveAdmin

(* A workspace that has admins keeps one as long as no two requests that disturb *)
(* each other overlap: whoever removes an admin by command is one, and is not    *)
(* the one who is removed.                                                       *)
THEOREM AdminsRemain ==
  Spec => AnAdminRemains
<1>1. Typed /\ AtomicInv /\ [Next]_vars =>
        [\/ clash \/ admins = {} \/ admins' # {} \/ tenant' = None
         \/ \E w \in Workers : At(w, "write", {"removeAdmin"}) /\ Req(w).who \in Keys /\ ~ Busy(w)']_vars
  BY AdminsStep
<1> QED
  BY <1>1, AlwaysTyped, AlwaysAtomic, PTL DEF Spec, AnAdminRemains
=============================================================================
