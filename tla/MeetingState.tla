----------------------------- MODULE MeetingState -----------------------------
(***************************************************************************)
(* Live meeting state: the Zoom webhook handler (internal/zoom/handler.go) *)
(* over the SQLite tables tenants, active_meetings and participants        *)
(* (internal/store/sqlite).                                                *)
(*                                                                         *)
(* Every webhook runs in an HTTP goroutine of its own (a Handler here).    *)
(* ProcessWebhook reads the tenants of the Zoom account once, then runs    *)
(* the event's statements for each of them.  A statement is one atomic     *)
(* autocommit of SQLite; no transaction spans two of them, so handlers,    *)
(* tenant administration and crashes interleave between any two.  A        *)
(* statement that fails is logged and the handler goes on.                 *)
(*                                                                         *)
(* Zoom is the environment: people really join and leave, each change is   *)
(* appended to "log", and each entry of it is delivered to the service up  *)
(* to MaxDeliveries times.  One Zoom account is modelled; "linked" are the *)
(* tenants whose zoom_account_id names it.                                 *)
(***************************************************************************)
EXTENDS Integers, Sequences

CONSTANTS
  Tenants,         \* Slack workspaces that may be installed
  Meetings,        \* Zoom meeting ids; an id is reused by a recurring meeting
  Persons,         \* people who attend
  Names,           \* display names
  NameOf,          \* the display name of each person; two people may share one
  Handlers,        \* webhook goroutines that can run at the same time
  NoTenant,        \* sentinel: no such row
  InitTenants,     \* tenants installed and linked when the service comes up
  InitRunning,     \* meetings already running when the service comes up
  InOrder,         \* TRUE: Zoom waits for the answer before the meeting's next event
  MaxEvents,       \* bound on the length of log
  MaxDeliveries,   \* bound on the deliveries of one event
  MaxStoreErrors,  \* bound on the statements that fail
  MaxCrashes,      \* bound on the process restarts
  MaxTenantOps     \* bound on the tenant administration requests

ASSUME MeetingStateAssumption ==
  /\ NoTenant \notin Tenants
  /\ Names # {} /\ NameOf \in [Persons -> Names]
  /\ InitTenants \subseteq Tenants
  /\ InitRunning \subseteq Meetings
  /\ InOrder \in BOOLEAN
  /\ {MaxEvents, MaxDeliveries, MaxStoreErrors, MaxCrashes, MaxTenantOps} \subseteq Nat

VARIABLES
  running,       \* Zoom: the meetings in progress
  inRoom,        \* Zoom: inRoom[m], the people in meeting m
  log,           \* Zoom: the events produced so far
  delivered,     \* Zoom: delivered[i], how often log[i] was sent to the service
  acked,         \* Zoom: the events answered 200 at least once
  tenants,       \* table tenants: the ids present
  linked,        \* table tenants: those whose zoom_account_id is the account
  owner,         \* table active_meetings: owner[m], its tenant_id, or NoTenant
  participants,  \* table participants: the set of rows
  lastId,        \* table participants: the AUTOINCREMENT sequence
  handler,       \* handler[h]: what the goroutine is doing
  calls,         \* calls[<<t, i, k>>]: Dispatcher calls for delivery k of log[i]
  storeErrors, crashes, tenantOps   \* counters, for the bounds

zoomVars   == <<running, inRoom, log>>
tenantVars == <<tenants, linked, tenantOps>>
tableVars  == <<owner, participants, lastId>>
vars == <<zoomVars, delivered, acked, tenantVars, tableVars, handler, calls,
          storeErrors, crashes>>

-----------------------------------------------------------------------------
(* Types *)

Kinds      == {"started", "ended", "joined", "left"}
Event      == [kind : Kinds, meeting : Meetings, name : Names]
EventIds   == 1..MaxEvents
NullTime   == 0                      \* leave_time IS NULL
Row        == [id : Nat, meeting : Meetings, name : Names, left : {NullTime} \cup EventIds]
StoreSteps == {"upsert", "add", "mark", "clear", "delete"}
Steps      == {"idle", "next", "dispatch"} \cup StoreSteps

HandlerState ==
  [step : Steps, event : 0..MaxEvents, try : 0..MaxDeliveries,
   todo : SUBSET Tenants, tenant : Tenants \cup {NoTenant}]

(* Working on delivery k of event i, between two iterations of the tenant loop. *)
AtLoop(i, k, ts) ==
  [step |-> "next", event |-> i, try |-> k, todo |-> ts, tenant |-> NoTenant]

Idle == [AtLoop(0, 0, {}) EXCEPT !.step = "idle"]

Busy(h)     == handler[h].step # "idle"
EventOf(h)  == log[handler[h].event]

Init ==
  /\ running = InitRunning
  /\ inRoom = [m \in Meetings |-> {}]
  /\ log = <<>>
  /\ delivered = [i \in EventIds |-> 0]
  /\ acked = {}
  /\ tenants = InitTenants
  /\ linked = InitTenants
  /\ owner = [m \in Meetings |-> NoTenant]
  /\ participants = {}
  /\ lastId = 0
  /\ handler = [h \in Handlers |-> Idle]
  /\ calls = [c \in Tenants \X EventIds \X (1..MaxDeliveries) |-> 0]
  /\ storeErrors = 0
  /\ crashes = 0
  /\ tenantOps = 0

-----------------------------------------------------------------------------
(* Zoom: meetings run and people come and go; each change is one event. *)

Emit(kind, m, n) ==
  /\ Len(log) < MaxEvents
  /\ log' = Append(log, [kind |-> kind, meeting |-> m, name |-> n])
  /\ UNCHANGED <<delivered, acked, tenantVars, tableVars, handler, calls,
                 storeErrors, crashes>>

(* The payload of a start or an end names nobody; any name stands for that. *)
Nobody == CHOOSE n \in Names : TRUE

StartMeeting(m) ==
  /\ m \notin running
  /\ running' = running \cup {m}
  /\ UNCHANGED inRoom
  /\ Emit("started", m, Nobody)

EndMeeting(m) ==
  /\ m \in running
  /\ running' = running \ {m}
  /\ inRoom' = [inRoom EXCEPT ![m] = {}]
  /\ Emit("ended", m, Nobody)

Join(p, m) ==
  /\ m \in running /\ p \notin inRoom[m]
  /\ inRoom' = [inRoom EXCEPT ![m] = @ \cup {p}]
  /\ UNCHANGED running
  /\ Emit("joined", m, NameOf[p])

Leave(p, m) ==
  /\ p \in inRoom[m]
  /\ inRoom' = [inRoom EXCEPT ![m] = @ \ {p}]
  /\ UNCHANGED running
  /\ Emit("left", m, NameOf[p])

(* Under InOrder, event i is sent only when the earlier events of its       *)
(* meeting were answered, none of its later ones was sent, and no goroutine *)
(* still works on another event of the meeting.                             *)
MayDeliver(i) ==
  InOrder =>
    /\ \A j \in 1..Len(log) : log[j].meeting = log[i].meeting =>
         /\ j < i => j \in acked
         /\ j > i => delivered[j] = 0
    /\ \A h \in Handlers : Busy(h) /\ EventOf(h).meeting = log[i].meeting
                             => handler[h].event = i

-----------------------------------------------------------------------------
(* The webhook handler *)

(* GetTenantByZoomAccount, the statement every event starts with. *)
GetTenantByZoomAccount == linked

(* One more statement of SQLite fails (a lock, the disk, a cancelled request). *)
StoreError ==
  /\ storeErrors < MaxStoreErrors
  /\ storeErrors' = storeErrors + 1

(* Variant: a repeated webhook is recognised and answered at once. *)
DeliverOnce(h, i) ==
  /\ ~Busy(h)
  /\ i <= Len(log) /\ delivered[i] < MaxDeliveries
  /\ MayDeliver(i)
  /\ delivered' = [delivered EXCEPT ![i] = @ + 1]
  /\ \/ /\ GetTenantByZoomAccount # {} /\ delivered[i] = 0
        /\ handler' = [handler EXCEPT ![h] = AtLoop(i, 1, GetTenantByZoomAccount)]
        /\ UNCHANGED <<acked, storeErrors>>
     \/ /\ \/ (GetTenantByZoomAccount = {} \/ delivered[i] > 0) /\ UNCHANGED storeErrors
           \/ StoreError
        /\ acked' = acked \cup {i}
        /\ UNCHANGED handler
  /\ UNCHANGED <<zoomVars, tenantVars, tableVars, calls, crashes>>

(* ServeHTTP decodes delivery k of log[i] and looks the tenants up.  On an  *)
(* error, or when the account belongs to nobody, it answers 200 at once.    *)
Deliver(h, i) ==
  /\ ~Busy(h)
  /\ i <= Len(log) /\ delivered[i] < MaxDeliveries
  /\ MayDeliver(i)
  /\ delivered' = [delivered EXCEPT ![i] = @ + 1]
  /\ \/ /\ GetTenantByZoomAccount # {}
        /\ handler' = [handler EXCEPT ![h] =
                         AtLoop(i, delivered[i] + 1, GetTenantByZoomAccount)]
        /\ UNCHANGED <<acked, storeErrors>>
     \/ /\ \/ GetTenantByZoomAccount = {} /\ UNCHANGED storeErrors
           \/ StoreError
        /\ acked' = acked \cup {i}
        /\ UNCHANGED handler
  /\ UNCHANGED <<zoomVars, tenantVars, tableVars, calls, crashes>>

(* The first statement of each case of the event switch. *)
FirstStep(kind) ==
  CASE kind \in {"started", "joined"} -> "upsert"
    [] kind = "ended"                 -> "clear"
    [] kind = "left"                  -> "mark"

NextTenant(h) ==
  /\ handler[h].step = "next"
  /\ \E t \in handler[h].todo :
       handler' = [handler EXCEPT ![h].todo = @ \ {t}, ![h].tenant = t,
                                  ![h].step = FirstStep(EventOf(h).kind)]
  /\ UNCHANGED <<zoomVars, delivered, acked, tenantVars, tableVars, calls,
                 storeErrors, crashes>>

(* The loop is over: 200 is written. *)
Return(h) ==
  /\ handler[h].step = "next" /\ handler[h].todo = {}
  /\ handler' = [handler EXCEPT ![h] = Idle]
  /\ acked' = acked \cup {handler[h].event}
  /\ UNCHANGED <<zoomVars, delivered, tenantVars, tableVars, calls,
                 storeErrors, crashes>>

(* Goroutine h runs a statement: it takes effect or fails, and either way   *)
(* the handler continues with step s.                                       *)
Statement(h, step, effect, s) ==
  /\ handler[h].step = step
  /\ \/ effect /\ UNCHANGED storeErrors
     \/ StoreError /\ UNCHANGED tableVars
  /\ handler' = [handler EXCEPT ![h].step = s]
  /\ UNCHANGED <<zoomVars, delivered, acked, tenantVars, calls, crashes>>

(* Variant: the conflict clause also writes tenant_id. *)
InsertOrTakeOver(m, t) ==
  /\ owner' = [owner EXCEPT ![m] = IF t \in tenants THEN t ELSE @]
  /\ UNCHANGED <<participants, lastId>>

(* INSERT ... ON CONFLICT(meeting_id) DO UPDATE.  A present row keeps its   *)
(* tenant_id; a new one needs its tenant, or the foreign key refuses it.    *)
InsertOrUpdate(m, t) ==
  /\ owner' = [owner EXCEPT ![m] = IF @ = NoTenant /\ t \in tenants THEN t ELSE @]
  /\ UNCHANGED <<participants, lastId>>

(* Variant: the case of a started meeting falls through to the join. *)
UpsertMeetingThenAdd(h) ==
  Statement(h, "upsert", InsertOrUpdate(EventOf(h).meeting, handler[h].tenant), "add")

UpsertMeeting(h) ==
  Statement(h, "upsert", InsertOrUpdate(EventOf(h).meeting, handler[h].tenant),
            IF EventOf(h).kind = "joined" THEN "add" ELSE "next")

(* Variant: an upsert by name, which opens a closed row again. *)
InsertOrReopen(m, n) ==
  LET known == {r \in participants : r.meeting = m /\ r.name = n}
  IN  /\ IF owner[m] = NoTenant
         THEN UNCHANGED <<participants, lastId>>
         ELSE /\ lastId' = lastId + 1
              /\ participants' = (participants \ known) \cup
                   (IF known = {}
                    THEN {[id |-> lastId + 1, meeting |-> m, name |-> n, left |-> NullTime]}
                    ELSE {[r EXCEPT !.left = NullTime] : r \in known})
      /\ UNCHANGED owner

(* A plain INSERT: no row is looked for first.  Without the meeting the     *)
(* foreign key refuses it.                                                  *)
InsertRow(m, n) ==
  /\ IF owner[m] = NoTenant
     THEN UNCHANGED <<participants, lastId>>
     ELSE /\ lastId' = lastId + 1
          /\ participants' = participants \cup
               {[id |-> lastId + 1, meeting |-> m, name |-> n, left |-> NullTime]}
  /\ UNCHANGED owner

(* Variant: a failed statement ends the iteration, as "return err" would. *)
AddParticipantOrStop(h) ==
  \/ /\ Statement(h, "add", InsertRow(EventOf(h).meeting, EventOf(h).name), "dispatch")
     /\ storeErrors' = storeErrors
  \/ /\ Statement(h, "add", InsertRow(EventOf(h).meeting, EventOf(h).name), "next")
     /\ storeErrors' # storeErrors

AddParticipant(h) ==
  Statement(h, "add", InsertRow(EventOf(h).meeting, EventOf(h).name), "dispatch")

(* Variant: the UPDATE stops at one row. *)
MarkOneRow(r, m, n, i) ==
  IF /\ r.meeting = m /\ r.name = n /\ r.left = NullTime
     /\ \A q \in participants :
          q.meeting = m /\ q.name = n /\ q.left = NullTime => r.id <= q.id
  THEN [r EXCEPT !.left = i] ELSE r

(* UPDATE ... WHERE meeting_id = ? AND user_name = ? AND leave_time IS NULL: *)
(* every open row of that name.                                             *)
MarkRow(r, m, n, i) ==
  IF r.meeting = m /\ r.name = n /\ r.left = NullTime
  THEN [r EXCEPT !.left = i] ELSE r

MarkRows(m, n, i) ==
  /\ participants' = {MarkRow(r, m, n, i) : r \in participants}
  /\ UNCHANGED <<owner, lastId>>

SetParticipantLeft(h) ==
  Statement(h, "mark",
            MarkRows(EventOf(h).meeting, EventOf(h).name, handler[h].event),
            "dispatch")

RowsOf(ms) == {r \in participants : r.meeting \in ms}

DeleteRows(m) ==
  /\ participants' = participants \ RowsOf({m})
  /\ UNCHANGED <<owner, lastId>>

DeleteParticipantsForMeeting(h) ==
  Statement(h, "clear", DeleteRows(EventOf(h).meeting), "delete")

(* Variant: foreign_keys is off, nothing cascades. *)
DeleteOnly(ms) ==
  /\ owner' = [m \in Meetings |-> IF m \in ms THEN NoTenant ELSE owner[m]]
  /\ UNCHANGED <<participants, lastId>>

(* DELETE FROM active_meetings, whichever tenant owns the row; ON DELETE    *)
(* CASCADE takes the meeting's participants with it.                        *)
DeleteCascade(ms) ==
  /\ owner' = [m \in Meetings |-> IF m \in ms THEN NoTenant ELSE owner[m]]
  /\ participants' = participants \ RowsOf(ms)
  /\ UNCHANGED lastId

DeleteMeeting(h) ==
  Statement(h, "delete", DeleteCascade({EventOf(h).meeting}), "next")

(* h.dispatch(tenant.ID, ...): called for joins and leaves, whatever became *)
(* of the statements before it.                                             *)
Dispatch(h) ==
  /\ handler[h].step = "dispatch"
  /\ calls' = [calls EXCEPT ![<<handler[h].tenant, handler[h].event, handler[h].try>>] = @ + 1]
  /\ handler' = [handler EXCEPT ![h].step = "next"]
  /\ UNCHANGED <<zoomVars, delivered, acked, tenantVars, tableVars,
                 storeErrors, crashes>>

(* The process stops and starts again: the goroutines are gone, the tables stay. *)
Crash ==
  /\ crashes < MaxCrashes /\ \E h \in Handlers : Busy(h)
  /\ crashes' = crashes + 1
  /\ handler' = [h \in Handlers |-> Idle]
  /\ UNCHANGED <<zoomVars, delivered, acked, tenantVars, tableVars, calls, storeErrors>>

-----------------------------------------------------------------------------
(* Tenant administration, from other requests *)

TenantOp ==
  /\ tenantOps < MaxTenantOps
  /\ tenantOps' = tenantOps + 1
  /\ UNCHANGED <<zoomVars, delivered, acked, handler, calls, storeErrors, crashes>>

CreateTenant(t) ==
  /\ t \notin tenants
  /\ tenants' = tenants \cup {t}
  /\ linked' = linked \cup {t}
  /\ UNCHANGED tableVars
  /\ TenantOp

(* ON DELETE CASCADE: the tenant's meetings, and through them their rows. *)
DeleteTenant(t) ==
  /\ t \in tenants
  /\ tenants' = tenants \ {t}
  /\ linked' = linked \ {t}
  /\ DeleteCascade({m \in Meetings : owner[m] = t})
  /\ TenantOp

(* Variant: the update of a missing row inserts it. *)
UpdateOrLink(t) ==
  /\ linked' = IF t \in linked THEN linked \ {t} ELSE linked \cup {t}
  /\ UNCHANGED <<tenants, tableVars>>
  /\ TenantOp

(* UpdateTenant moves the tenant to this Zoom account, or away from it. *)
UpdateTenant(t) ==
  /\ t \in tenants
  /\ linked' = IF t \in linked THEN linked \ {t} ELSE linked \cup {t}
  /\ UNCHANGED <<tenants, tableVars>>
  /\ TenantOp

-----------------------------------------------------------------------------
ZoomStep ==
  \E m \in Meetings :
    \/ StartMeeting(m)
    \/ EndMeeting(m)
    \/ \E p \in Persons : Join(p, m) \/ Leave(p, m)

HandlerStep(h) ==
  \/ NextTenant(h)
  \/ Return(h)
  \/ UpsertMeeting(h)
  \/ AddParticipant(h)
  \/ SetParticipantLeft(h)
  \/ DeleteParticipantsForMeeting(h)
  \/ DeleteMeeting(h)
  \/ Dispatch(h)

TenantStep ==
  \E t \in Tenants : CreateTenant(t) \/ DeleteTenant(t) \/ UpdateTenant(t)

Next ==
  \/ ZoomStep
  \/ \E h \in Handlers, i \in EventIds : Deliver(h, i)
  \/ \E h \in Handlers : HandlerStep(h)
  \/ Crash
  \/ TenantStep

Spec == Init /\ [][Next]_vars

(* A goroutine that has a request runs it to its end; nothing obliges Zoom, *)
(* the administrators or the scheduler to start another one.                *)
FairSpec == Spec /\ \A h \in Handlers : WF_vars(HandlerStep(h))

-----------------------------------------------------------------------------
(* Properties *)

(* Every variable has its type, and only an installed tenant is linked. *)
TypeOK ==
  /\ running \subseteq Meetings
  /\ inRoom \in [Meetings -> SUBSET Persons]
  /\ log \in Seq(Event) /\ Len(log) <= MaxEvents
  /\ delivered \in [EventIds -> 0..MaxDeliveries]
  /\ acked \subseteq EventIds
  /\ tenants \subseteq Tenants
  /\ linked \subseteq tenants
  /\ owner \in [Meetings -> Tenants \cup {NoTenant}]
  /\ participants \subseteq Row
  /\ lastId \in Nat
  /\ handler \in [Handlers -> HandlerState]
  /\ calls \in [Tenants \X EventIds \X (1..MaxDeliveries) -> Nat]
  /\ storeErrors \in Nat /\ crashes \in Nat /\ tenantOps \in Nat

(* Whatever webhooks, tenant deletions, failed statements and restarts      *)
(* interleave, an active meeting belongs to an installed tenant and a       *)
(* participant row to an active meeting: nothing the status command or the  *)
(* meetings API could never reach is left behind.                           *)
NoOrphans ==
  /\ \A m \in Meetings : owner[m] # NoTenant => owner[m] \in tenants
  /\ \A r \in participants : owner[r.meeting] # NoTenant

(* Every participant row comes from a join that Zoom sent for that meeting  *)
(* and name, and every leave_time from a leave it sent for them.            *)
RowsHaveCause ==
  \A r \in participants :
    /\ \E i \in 1..Len(log) :
         /\ delivered[i] > 0
         /\ log[i] = [kind |-> "joined", meeting |-> r.meeting, name |-> r.name]
    /\ r.left # NullTime =>
         /\ r.left <= Len(log) /\ delivered[r.left] > 0
         /\ log[r.left] = [kind |-> "left", meeting |-> r.meeting, name |-> r.name]

(* The tenants event i was announced to, for one of its deliveries or more. *)
Told(i) == {t \in Tenants : \E k \in 1..MaxDeliveries : calls[<<t, i, k>>] > 0}

Announced == {"joined", "left"}

(* While no statement fails and the tenants stay: a join or leave that was  *)
(* answered, and so will not come again, was announced to every tenant,     *)
(* though a restart may have ended the handlers of all deliveries of it but *)
(* the last.  (A tenant told before the restart is told again.)             *)
AnsweredMeansTold ==
  storeErrors = 0 /\ tenantOps = 0 =>
    \A i \in acked : log[i].kind \in Announced => InitTenants \subseteq Told(i)

(* A leave_time, once written, stays: neither a repeated leave nor the      *)
(* leave after a second stay of the same name rewrites a closed row.        *)
LeaveWrittenOnce ==
  [][\A r \in participants, q \in participants' :
       r.id = q.id => /\ q.meeting = r.meeting /\ q.name = r.name
                      /\ r.left # NullTime => q.left = r.left]_vars

(* While a meeting's row exists it belongs to the tenant that created it,   *)
(* although the webhooks of every tenant of the account upsert it.          *)
OwnerStable ==
  [][\A m \in Meetings :
       owner[m] # NoTenant /\ owner'[m] # NoTenant => owner'[m] = owner[m]]_vars

(* Nothing about meeting m is on its way: every event of it was answered    *)
(* and no goroutine works on one.                                           *)
Settled(m) ==
  /\ \A i \in 1..Len(log) : log[i].meeting = m => i \in acked
  /\ \A h \in Handlers : Busy(h) => EventOf(h).meeting # m

(* The events that were sent to the service at least once. *)
Sent == {i \in 1..Len(log) : delivered[i] > 0}

OpenNames(m) == {r.name : r \in {q \in participants : q.meeting = m /\ q.left = NullTime}}

(* When Zoom keeps a meeting's events in order and repeats those that were  *)
(* not answered, the tables show the meeting as it is: active exactly       *)
(* while it runs, with the names of exactly the people in it, also after a  *)
(* restart in the middle of a handler, and while the handlers of other      *)
(* meetings run.                                                            *)
ShowsWhoIsIn ==
  \A m \in Meetings : Settled(m) =>
    /\ owner[m] # NoTenant <=> m \in running
    /\ OpenNames(m) = {NameOf[p] : p \in inRoom[m]}

(* While Zoom keeps the order, nothing fails and the tenants stay, the      *)
(* tables, seen without tenants and rows, only ever move towards the event  *)
(* that is being worked on, and show it before it is answered: the loop     *)
(* over the tenants, repeated and concurrent deliveries and restarts, which *)
(* run the same statements again and again, never take a step back.         *)
Board == INSTANCE Attendance WITH
  news     <- log,
  reported <- Sent,
  answered <- acked,
  active   <- {m \in Meetings : owner[m] # NoTenant},
  present  <- [m \in Meetings |-> OpenNames(m)]

KeepsAttendance == Board!Spec

(* Every tenant a delivered join or leave was looked up for has it          *)
(* dispatched in the end, even when the statements before the call failed.  *)
EveryTenantIsTold ==
  \A h \in Handlers, t \in Tenants, i \in EventIds, k \in 1..MaxDeliveries :
    (/\ Busy(h) /\ handler[h].event = i /\ handler[h].try = k
     /\ EventOf(h).kind \in Announced /\ t \in handler[h].todo)
      ~> calls[<<t, i, k>>] = 1
=============================================================================
