-------------------------- MODULE MeetingStateProofs --------------------------
(***************************************************************************)
(* Theorems about MeetingState and MeetingQueries, for every set of        *)
(* tenants, meetings, people, goroutines and every bound.                  *)
(*                                                                         *)
(* Everything rests on Typed: the types, and what a busy goroutine may     *)
(* rely on (HandlersOK).  Every step changes the tables in one of few ways *)
(* (TableEffect); a property of the tables is proved once per way, not     *)
(* once per action.  IdsFresh is what LeaveWrittenOnce needs to be         *)
(* inductive, AnnouncedOK what AnsweredMeansTold needs.                    *)
(*                                                                         *)
(* Faithful says what the tables show when a meeting's events come in      *)
(* order and nothing disturbs them.  With LogTellsAll, which relates the   *)
(* log to Zoom's meetings, it gives ShowsWhoIsIn, and with QueriesOK,      *)
(* which says what a request knows, AnswersAreCurrent.  It also makes      *)
(* every step one of Attendance, or none (NextOnBoard).                    *)
(***************************************************************************)
EXTENDS MeetingQueries, TLAPS

(* A goroutine past its lookup works on an event Zoom sent, for a tenant,   *)
(* and with a step that fits the event.                                     *)
HandlersOK ==
  \A h \in Handlers : Busy(h) =>
    /\ handler[h].event \in 1..Len(log)
    /\ handler[h].try \in 1..delivered[handler[h].event]
    /\ handler[h].step # "next" => handler[h].tenant \in Tenants
    /\ handler[h].step = "add" => EventOf(h).kind = "joined"
    /\ handler[h].step = "mark" => EventOf(h).kind = "left"

(* AUTOINCREMENT: ids are never reused, so an id names one row for ever. *)
IdsFresh ==
  /\ \A r \in participants : r.id <= lastId
  /\ \A r, q \in participants : r.id = q.id => r = q

Typed == TypeOK /\ HandlersOK

-----------------------------------------------------------------------------
(* Initially, and at every step, the state is typed. *)

LEMMA InitTyped == Init => Typed
<1> SUFFICES ASSUME Init PROVE Typed
  OBVIOUS
<1>1. HandlersOK
  BY DEF Init, HandlersOK, Busy, Idle, AtLoop
<1>2. handler \in [Handlers -> HandlerState]
  BY MeetingStateAssumption DEF Init, Idle, AtLoop, HandlerState, Steps, StoreSteps
<1>3. log \in Seq(Event) /\ Len(log) <= MaxEvents
  BY MeetingStateAssumption DEF Init
<1>4. TypeOK
  BY <1>2, <1>3, MeetingStateAssumption DEF Init, TypeOK, EventIds
<1> QED
  BY <1>1, <1>4 DEF Typed

(* What Zoom does: one more event, nothing else the service keeps changes. *)
LEMMA EmitTyped ==
  ASSUME Typed, NEW kind \in Kinds, NEW m \in Meetings, NEW n \in Names,
         Emit(kind, m, n),
         running' \subseteq Meetings, inRoom' \in [Meetings -> SUBSET Persons]
  PROVE  Typed'
<1> DEFINE e == [kind |-> kind, meeting |-> m, name |-> n]
<1>1. e \in Event /\ log' = Append(log, e) /\ Len(log) < MaxEvents
  BY DEF Emit, Event
<1>2. /\ log' \in Seq(Event) /\ Len(log') = Len(log) + 1
      /\ \A i \in 1..Len(log) : log'[i] = log[i]
  BY <1>1 DEF Typed, TypeOK
<1>3. TypeOK'
  BY <1>1, <1>2, MeetingStateAssumption DEF Emit, Typed, TypeOK, tenantVars, tableVars
<1>4. HandlersOK'
  <2> SUFFICES ASSUME NEW h \in Handlers, Busy(h)'
               PROVE  /\ handler[h].event \in 1..Len(log')
                      /\ handler[h].try \in 1..delivered[handler[h].event]
                      /\ handler[h].step # "next" => handler[h].tenant \in Tenants
                      /\ handler[h].step = "add" => EventOf(h)'.kind = "joined"
                      /\ handler[h].step = "mark" => EventOf(h)'.kind = "left"
    BY DEF Emit, HandlersOK
  <2>1. Busy(h)
    BY DEF Emit, Busy
  <2>2. handler[h].event \in 1..Len(log)
    BY <2>1 DEF Typed, HandlersOK
  <2>3. EventOf(h)' = EventOf(h)
    BY <1>2, <2>2 DEF EventOf, Emit
  <2> QED
    BY <1>2, <2>1, <2>2, <2>3 DEF Typed, TypeOK, HandlersOK
<1> QED
  BY <1>3, <1>4 DEF Typed

LEMMA ZoomTyped == Typed /\ ZoomStep => Typed'
<1> SUFFICES ASSUME Typed, NEW m \in Meetings,
                    \/ StartMeeting(m)
                    \/ EndMeeting(m)
                    \/ \E p \in Persons : Join(p, m) \/ Leave(p, m)
             PROVE  Typed'
  BY DEF ZoomStep
<1>1. CASE StartMeeting(m)
  <2>1. Nobody \in Names
    BY MeetingStateAssumption DEF Nobody
  <2>2. running' \subseteq Meetings /\ inRoom' \in [Meetings -> SUBSET Persons]
    BY <1>1 DEF StartMeeting, Typed, TypeOK
  <2> QED
    BY <1>1, <2>1, <2>2, EmitTyped DEF StartMeeting, Kinds
<1>2. CASE EndMeeting(m)
  <2>1. Nobody \in Names
    BY MeetingStateAssumption DEF Nobody
  <2>2. running' \subseteq Meetings /\ inRoom' \in [Meetings -> SUBSET Persons]
    BY <1>2 DEF EndMeeting, Typed, TypeOK
  <2> QED
    BY <1>2, <2>1, <2>2, EmitTyped DEF EndMeeting, Kinds
<1>3. ASSUME NEW p \in Persons, Join(p, m) \/ Leave(p, m)
      PROVE  Typed'
  <2>1. NameOf[p] \in Names
    BY MeetingStateAssumption
  <2>2. running' \subseteq Meetings
    BY <1>3 DEF Join, Leave, Typed, TypeOK
  <2>3. inRoom \in [Meetings -> SUBSET Persons]
    BY DEF Typed, TypeOK
  <2>4. inRoom' = [inRoom EXCEPT ![m] = @ \cup {p}] \/ inRoom' = [inRoom EXCEPT ![m] = @ \ {p}]
    BY <1>3 DEF Join, Leave
  <2>5. inRoom' \in [Meetings -> SUBSET Persons]
    BY <2>3, <2>4
  <2> QED
    BY <1>3, <2>1, <2>2, <2>5, EmitTyped DEF Join, Leave, Kinds
<1> QED
  BY <1>1, <1>2, <1>3

-----------------------------------------------------------------------------
(* The ways a step changes the tables.  In each of them a new row gets a    *)
(* fresh id and the row set stays typed.                                    *)

TablesTyped ==
  /\ owner \in [Meetings -> Tenants \cup {NoTenant}]
  /\ participants \subseteq Row
  /\ lastId \in Nat

LEMMA EffectsTyped ==
  ASSUME TablesTyped, NEW m \in Meetings, NEW n \in Names, NEW i \in EventIds,
         NEW t \in Tenants, NEW ms \in SUBSET Meetings,
         \/ InsertOrUpdate(m, t)
         \/ InsertRow(m, n)
         \/ MarkRows(m, n, i)
         \/ DeleteRows(m)
         \/ DeleteCascade(ms)
         \/ UNCHANGED tableVars
  PROVE  TablesTyped'
<1>1. CASE InsertOrUpdate(m, t)
  BY <1>1 DEF InsertOrUpdate, TablesTyped
<1>2. CASE InsertRow(m, n)
  <2> DEFINE r == [id |-> lastId + 1, meeting |-> m, name |-> n, left |-> NullTime]
  <2>1. r \in Row
    BY DEF TablesTyped, Row, NullTime
  <2>2. participants' \subseteq participants \cup {r} /\ lastId' \in Nat /\ owner' = owner
    BY <1>2 DEF InsertRow, TablesTyped
  <2> QED
    BY <2>1, <2>2 DEF TablesTyped
<1>3. CASE MarkRows(m, n, i)
  <2>1. \A r \in Row : MarkRow(r, m, n, i) \in Row
    BY DEF MarkRow, Row
  <2> QED
    BY <1>3, <2>1 DEF MarkRows, TablesTyped
<1>4. CASE DeleteRows(m)
  BY <1>4 DEF DeleteRows, TablesTyped
<1>5. CASE DeleteCascade(ms)
  BY <1>5 DEF DeleteCascade, TablesTyped
<1>6. CASE UNCHANGED tableVars
  BY <1>6 DEF tableVars, TablesTyped
<1> QED
  BY <1>1, <1>2, <1>3, <1>4, <1>5, <1>6

(* A statement of goroutine h leaves the types as they are when its effect  *)
(* on the tables is one of the above and its next step fits the event.      *)
LEMMA StatementTyped ==
  ASSUME Typed, TablesTyped', NEW h \in Handlers, Busy(h), NEW s \in Steps,
         handler[h].step # "next",
         s = "add" => EventOf(h).kind = "joined",
         s # "mark",
         handler' = [handler EXCEPT ![h].step = s],
         UNCHANGED <<zoomVars, delivered, acked, tenantVars, calls, crashes>>,
         storeErrors' \in Nat
  PROVE  Typed'
<1>1. /\ handler \in [Handlers -> HandlerState]
      /\ handler[h] \in HandlerState
  BY DEF Typed, TypeOK
<1>2. [handler[h] EXCEPT !.step = s] \in HandlerState
  BY <1>1 DEF HandlerState
<1>3. handler' \in [Handlers -> HandlerState]
  BY <1>1, <1>2
<1>4. TypeOK'
  BY <1>3 DEF Typed, TypeOK, TablesTyped, zoomVars, tenantVars
<1>5. HandlersOK'
  <2>1. \A g \in Handlers : g # h => handler'[g] = handler[g]
    BY <1>1
  <2>2. /\ handler'[h].step = s
        /\ handler'[h].event = handler[h].event
        /\ handler'[h].try = handler[h].try
        /\ handler'[h].tenant = handler[h].tenant
    BY <1>1 DEF HandlerState
  <2>3. log' = log /\ delivered' = delivered
    BY DEF zoomVars
  <2> QED
    BY <2>1, <2>2, <2>3 DEF Typed, HandlersOK, Busy, EventOf
<1> QED
  BY <1>4, <1>5 DEF Typed

(* The tables a typed state holds, and the meeting, the name and the number *)
(* of the event a busy goroutine works on.                                  *)
LEMMA BusyFacts ==
  ASSUME Typed, NEW h \in Handlers, Busy(h)
  PROVE  /\ TablesTyped
         /\ handler[h] \in HandlerState
         /\ handler[h].event \in EventIds /\ handler[h].event \in 1..Len(log)
         /\ handler[h].try \in 1..MaxDeliveries
         /\ EventOf(h) \in Event
         /\ EventOf(h).kind \in Kinds
         /\ EventOf(h).meeting \in Meetings
         /\ EventOf(h).name \in Names
<1>1. TablesTyped /\ handler[h] \in HandlerState
  BY DEF Typed, TypeOK, TablesTyped
<1>2. handler[h].event \in 1..Len(log) /\ handler[h].try \in 1..delivered[handler[h].event]
  BY DEF Typed, HandlersOK
<1>3. handler[h].event \in EventIds /\ delivered[handler[h].event] \in 0..MaxDeliveries
  BY <1>2, MeetingStateAssumption DEF Typed, TypeOK, EventIds
<1>4. handler[h].try \in 1..MaxDeliveries
  BY <1>2, <1>3, MeetingStateAssumption
<1>5. EventOf(h) \in Event
  BY <1>2 DEF Typed, TypeOK, EventOf
<1> QED
  BY <1>1, <1>2, <1>3, <1>4, <1>5 DEF Event

(* The effect of each statement, for the goroutine that runs it. *)
LEMMA StatementEffect ==
  ASSUME Typed, NEW h \in Handlers,
         \/ UpsertMeeting(h)
         \/ AddParticipant(h)
         \/ SetParticipantLeft(h)
         \/ DeleteParticipantsForMeeting(h)
         \/ DeleteMeeting(h)
  PROVE  /\ Busy(h)
         /\ \/ InsertOrUpdate(EventOf(h).meeting, handler[h].tenant)
            \/ /\ EventOf(h).kind = "joined"
               /\ InsertRow(EventOf(h).meeting, EventOf(h).name)
            \/ /\ EventOf(h).kind = "left"
               /\ MarkRows(EventOf(h).meeting, EventOf(h).name, handler[h].event)
            \/ DeleteRows(EventOf(h).meeting)
            \/ DeleteCascade({EventOf(h).meeting})
            \/ UNCHANGED tableVars
         /\ handler[h].tenant \in Tenants
         /\ UNCHANGED <<zoomVars, delivered, acked, tenantVars, calls, crashes>>
<1>1. Busy(h) /\ handler[h].step # "next"
  BY DEF UpsertMeeting, AddParticipant, SetParticipantLeft,
         DeleteParticipantsForMeeting, DeleteMeeting, Statement, Busy
<1>2. handler[h].tenant \in Tenants
  BY <1>1 DEF Typed, HandlersOK
<1>3. handler[h].step = "add" => EventOf(h).kind = "joined"
  BY <1>1 DEF Typed, HandlersOK
<1>4. handler[h].step = "mark" => EventOf(h).kind = "left"
  BY <1>1 DEF Typed, HandlersOK
<1> QED
  BY <1>1, <1>2, <1>3, <1>4
  DEF UpsertMeeting, AddParticipant, SetParticipantLeft,
      DeleteParticipantsForMeeting, DeleteMeeting, Statement

LEMMA StatementsTyped ==
  ASSUME Typed, NEW h \in Handlers,
         \/ UpsertMeeting(h)
         \/ AddParticipant(h)
         \/ SetParticipantLeft(h)
         \/ DeleteParticipantsForMeeting(h)
         \/ DeleteMeeting(h)
  PROVE  Typed'
<1>1. Busy(h) /\ handler[h].tenant \in Tenants
  BY StatementEffect
<1>2. TablesTyped'
  <2>1. {EventOf(h).meeting} \in SUBSET Meetings
    BY <1>1, BusyFacts
  <2> QED
    BY <1>1, <2>1, BusyFacts, StatementEffect, EffectsTyped
<1>3. storeErrors' \in Nat
  BY DEF UpsertMeeting, AddParticipant, SetParticipantLeft,
         DeleteParticipantsForMeeting, DeleteMeeting, Statement, StoreError, Typed, TypeOK
<1>4. UNCHANGED <<zoomVars, delivered, acked, tenantVars, calls, crashes>>
  BY StatementEffect
<1>5. PICK s \in Steps :
        /\ handler' = [handler EXCEPT ![h].step = s]
        /\ s = "add" => EventOf(h).kind = "joined"
        /\ s # "mark"
  <2>1. CASE UpsertMeeting(h)
    BY <2>1 DEF UpsertMeeting, Statement, Steps, StoreSteps
  <2>2. CASE AddParticipant(h)
    BY <2>2 DEF AddParticipant, Statement, Steps
  <2>3. CASE SetParticipantLeft(h)
    BY <2>3 DEF SetParticipantLeft, Statement, Steps
  <2>4. CASE DeleteParticipantsForMeeting(h)
    BY <2>4 DEF DeleteParticipantsForMeeting, Statement, Steps, StoreSteps
  <2>5. CASE DeleteMeeting(h)
    BY <2>5 DEF DeleteMeeting, Statement, Steps
  <2> QED
    BY <2>1, <2>2, <2>3, <2>4, <2>5
<1>6. handler[h].step # "next"
  BY DEF UpsertMeeting, AddParticipant, SetParticipantLeft,
         DeleteParticipantsForMeeting, DeleteMeeting, Statement
<1> QED
  BY <1>1, <1>2, <1>3, <1>4, <1>5, <1>6, StatementTyped

-----------------------------------------------------------------------------
(* The steps of a goroutine that touch no table. *)

LEMMA IdleTyped == Idle \in HandlerState /\ Idle.step = "idle"
BY MeetingStateAssumption DEF Idle, AtLoop, HandlerState, Steps, StoreSteps

LEMMA DeliverTyped ==
  ASSUME Typed, NEW h \in Handlers, NEW i \in EventIds, Deliver(h, i)
  PROVE  Typed'
<1> DEFINE k == delivered[i] + 1
           x == AtLoop(i, k, linked)
<1>1. /\ i \in 1..Len(log)
      /\ delivered[i] \in 0..MaxDeliveries /\ k \in 1..MaxDeliveries
      /\ delivered' = [delivered EXCEPT ![i] = k]
      /\ delivered' \in [EventIds -> 0..MaxDeliveries]
  <2>1. i <= Len(log) /\ delivered[i] < MaxDeliveries /\ delivered' = [delivered EXCEPT ![i] = k]
    BY DEF Deliver
  <2>2. delivered \in [EventIds -> 0..MaxDeliveries] /\ Len(log) \in Nat
    BY DEF Typed, TypeOK
  <2>3. k \in 1..MaxDeliveries /\ k \in 0..MaxDeliveries
    BY <2>1, <2>2, MeetingStateAssumption
  <2> QED
    BY <2>1, <2>2, <2>3, MeetingStateAssumption DEF EventIds
<1>2. \A j \in EventIds : delivered'[j] >= delivered[j]
  BY <1>1, MeetingStateAssumption DEF Typed, TypeOK
<1>3. acked' \subseteq EventIds /\ storeErrors' \in Nat
  BY DEF Deliver, StoreError, Typed, TypeOK
<1>4. \/ handler' = handler
      \/ handler' = [handler EXCEPT ![h] = x]
  BY DEF Deliver, GetTenantByZoomAccount
<1>5. x \in HandlerState
  <2>1. i \in 0..MaxEvents /\ k \in 0..MaxDeliveries /\ linked \in SUBSET Tenants
    BY <1>1, MeetingStateAssumption DEF EventIds, Typed, TypeOK
  <2> QED
    BY <2>1 DEF AtLoop, HandlerState, Steps
<1>6. handler' \in [Handlers -> HandlerState]
  BY <1>4, <1>5 DEF Typed, TypeOK
<1>7. TypeOK'
  BY <1>1, <1>3, <1>6 DEF Deliver, Typed, TypeOK, zoomVars, tenantVars, tableVars
<1>8. HandlersOK'
  <2> SUFFICES ASSUME NEW g \in Handlers, Busy(g)'
               PROVE  /\ handler'[g].event \in 1..Len(log)
                      /\ handler'[g].try \in 1..delivered'[handler'[g].event]
                      /\ handler'[g].step # "next" => handler'[g].tenant \in Tenants
                      /\ handler'[g].step = "add" => log[handler'[g].event].kind = "joined"
                      /\ handler'[g].step = "mark" => log[handler'[g].event].kind = "left"
    BY DEF HandlersOK, EventOf, Deliver, zoomVars
  <2>1. CASE handler'[g] = handler[g]
    <3>1. Busy(g)
      BY <2>1 DEF Busy
    <3>2. handler[g].event \in EventIds
      BY <3>1, BusyFacts
    <3> QED
      BY <1>1, <1>2, <2>1, <3>1, <3>2, MeetingStateAssumption DEF Typed, TypeOK, HandlersOK, EventOf
  <2>2. CASE handler'[g] = x
    BY <1>1, <2>2 DEF AtLoop, Typed, TypeOK
  <2> QED
    BY <1>4, <2>1, <2>2 DEF Typed, TypeOK
<1> QED
  BY <1>7, <1>8 DEF Typed

(* A goroutine moves to state x, which is idle or keeps its event. *)
LEMMA MoveTyped ==
  ASSUME Typed, NEW h \in Handlers, Busy(h), NEW x \in HandlerState,
         handler' = [handler EXCEPT ![h] = x],
         \/ x.step = "idle"
         \/ /\ x.event = handler[h].event /\ x.try = handler[h].try
            /\ x.step # "next" => x.tenant \in Tenants
            /\ x.step = "add" => EventOf(h).kind = "joined"
            /\ x.step = "mark" => EventOf(h).kind = "left",
         UNCHANGED <<zoomVars, delivered, tenantVars, tableVars, storeErrors, crashes>>,
         acked' \subseteq EventIds,
         calls' \in [Tenants \X EventIds \X (1..MaxDeliveries) -> Nat]
  PROVE  Typed'
<1>1. handler' \in [Handlers -> HandlerState]
  BY DEF Typed, TypeOK
<1>2. TypeOK'
  BY <1>1 DEF Typed, TypeOK, zoomVars, tenantVars, tableVars
<1>3. \A g \in Handlers : handler'[g] = IF g = h THEN x ELSE handler[g]
  BY DEF Typed, TypeOK
<1>4. HandlersOK'
  BY <1>3 DEF Typed, HandlersOK, Busy, EventOf, zoomVars
<1> QED
  BY <1>2, <1>4 DEF Typed

LEMMA NextTenantTyped ==
  ASSUME Typed, NEW h \in Handlers, NextTenant(h)
  PROVE  Typed'
<1>1. Busy(h)
  BY DEF NextTenant, Busy
<1>2. PICK t \in handler[h].todo :
        handler' = [handler EXCEPT ![h].todo = @ \ {t}, ![h].tenant = t,
                                   ![h].step = FirstStep(EventOf(h).kind)]
  BY DEF NextTenant
<1> DEFINE x == [handler[h] EXCEPT !.todo = @ \ {t}, !.tenant = t,
                                   !.step = FirstStep(EventOf(h).kind)]
<1>3. handler[h] \in HandlerState /\ t \in Tenants
  BY <1>1, BusyFacts DEF HandlerState
<1>4. /\ FirstStep(EventOf(h).kind) \in {"upsert", "clear", "mark"}
      /\ FirstStep(EventOf(h).kind) = "mark" => EventOf(h).kind = "left"
  BY <1>1, BusyFacts DEF FirstStep, Kinds
<1>5. x \in HandlerState
  BY <1>3, <1>4 DEF HandlerState, Steps, StoreSteps
<1>6. handler' = [handler EXCEPT ![h] = x]
  BY <1>2
<1>7. /\ x.event = handler[h].event /\ x.try = handler[h].try
      /\ x.tenant \in Tenants /\ x.step = FirstStep(EventOf(h).kind)
  BY <1>3 DEF HandlerState
<1> QED
  BY <1>1, <1>4, <1>5, <1>6, <1>7, MoveTyped DEF NextTenant, Typed, TypeOK

LEMMA ReturnTyped ==
  ASSUME Typed, NEW h \in Handlers, Return(h)
  PROVE  Typed'
<1>1. Busy(h)
  BY DEF Return, Busy
<1>2. acked' \subseteq EventIds
  BY <1>1, BusyFacts DEF Return, Typed, TypeOK
<1> QED
  BY <1>1, <1>2, IdleTyped, MoveTyped DEF Return, Typed, TypeOK

LEMMA DispatchTyped ==
  ASSUME Typed, NEW h \in Handlers, Dispatch(h)
  PROVE  Typed'
<1> DEFINE c == <<handler[h].tenant, handler[h].event, handler[h].try>>
           x == [handler[h] EXCEPT !.step = "next"]
<1>1. Busy(h)
  BY DEF Dispatch, Busy
<1>2. c \in Tenants \X EventIds \X (1..MaxDeliveries)
  BY <1>1, BusyFacts DEF Dispatch, Typed, HandlersOK
<1>3. calls' \in [Tenants \X EventIds \X (1..MaxDeliveries) -> Nat]
  BY <1>2 DEF Dispatch, Typed, TypeOK
<1>4. handler[h] \in HandlerState
  BY <1>1, BusyFacts
<1>5. /\ x \in HandlerState /\ x.step = "next"
      /\ x.event = handler[h].event /\ x.try = handler[h].try
  BY <1>4 DEF HandlerState, Steps
<1>6. handler' = [handler EXCEPT ![h] = x]
  BY DEF Dispatch
<1> QED
  BY <1>1, <1>3, <1>5, <1>6, MoveTyped DEF Dispatch, Typed, TypeOK

LEMMA CrashTyped == Typed /\ Crash => Typed'
<1> SUFFICES ASSUME Typed, Crash PROVE Typed'
  OBVIOUS
<1>1. handler' \in [Handlers -> HandlerState] /\ \A h \in Handlers : handler'[h].step = "idle"
  BY IdleTyped DEF Crash
<1>2. TypeOK'
  BY <1>1 DEF Crash, Typed, TypeOK, zoomVars, tenantVars, tableVars
<1> QED
  BY <1>1, <1>2 DEF Typed, HandlersOK, Busy

LEMMA TenantTyped ==
  ASSUME Typed, NEW t \in Tenants, CreateTenant(t) \/ DeleteTenant(t) \/ UpdateTenant(t)
  PROVE  Typed'
<1>1. UNCHANGED <<zoomVars, delivered, acked, handler, calls, storeErrors, crashes>>
      /\ tenantOps' = tenantOps + 1
  BY DEF CreateTenant, DeleteTenant, UpdateTenant, TenantOp
<1>2. tenants' \subseteq Tenants /\ linked' \subseteq tenants'
  BY DEF CreateTenant, DeleteTenant, UpdateTenant, Typed, TypeOK
<1>3. TablesTyped'
  BY DEF CreateTenant, DeleteTenant, UpdateTenant, DeleteCascade, tableVars,
         TablesTyped, Typed, TypeOK
<1>4. TypeOK'
  BY <1>1, <1>2, <1>3 DEF Typed, TypeOK, TablesTyped, zoomVars
<1>5. HandlersOK'
  BY <1>1 DEF Typed, HandlersOK, Busy, EventOf, zoomVars
<1> QED
  BY <1>4, <1>5 DEF Typed

LEMMA NextTyped == Typed /\ [Next]_vars => Typed'
<1> SUFFICES ASSUME Typed, [Next]_vars PROVE Typed'
  OBVIOUS
<1>1. CASE ZoomStep
  BY <1>1, ZoomTyped
<1>2. CASE \E h \in Handlers, i \in EventIds : Deliver(h, i)
  BY <1>2, DeliverTyped
<1>3. CASE \E h \in Handlers : HandlerStep(h)
  BY <1>3, StatementsTyped, NextTenantTyped, ReturnTyped, DispatchTyped DEF HandlerStep
<1>4. CASE Crash
  BY <1>4, CrashTyped
<1>5. CASE TenantStep
  BY <1>5, TenantTyped DEF TenantStep
<1>6. CASE UNCHANGED vars
  BY <1>6 DEF vars, zoomVars, tenantVars, tableVars, Typed, TypeOK, HandlersOK, Busy, EventOf
<1> QED
  BY <1>1, <1>2, <1>3, <1>4, <1>5, <1>6 DEF Next

LEMMA AlwaysTyped == Spec => []Typed
<1>1. Init => Typed
  BY InitTyped
<1>2. Typed /\ [Next]_vars => Typed'
  BY NextTyped
<1> QED
  BY <1>1, <1>2, PTL DEF Spec

(* The state is always typed, and a busy goroutine always works on an event *)
(* Zoom sent and for a tenant, whatever interleaves.                        *)
THEOREM TypeCorrect == Spec => [](TypeOK /\ HandlersOK)
<1>1. Typed => TypeOK /\ HandlersOK
  BY DEF Typed
<1> QED
  BY <1>1, AlwaysTyped, PTL

-----------------------------------------------------------------------------
(* How a step changes the tables. *)

TableEffect ==
  \/ UNCHANGED tableVars /\ tenants \subseteq tenants'
  \/ \E m \in Meetings, t \in Tenants : InsertOrUpdate(m, t) /\ UNCHANGED tenants
  \/ \E i \in 1..Len(log) :
       /\ log[i].kind = "joined" /\ delivered[i] > 0
       /\ InsertRow(log[i].meeting, log[i].name) /\ UNCHANGED tenants
  \/ \E i \in 1..Len(log) :
       /\ log[i].kind = "left" /\ delivered[i] > 0
       /\ MarkRows(log[i].meeting, log[i].name, i) /\ UNCHANGED tenants
  \/ \E m \in Meetings : DeleteRows(m) /\ UNCHANGED tenants
  \/ \E m \in Meetings : DeleteCascade({m}) /\ UNCHANGED tenants
  \/ \E t \in Tenants :
       /\ DeleteCascade({m \in Meetings : owner[m] = t})
       /\ tenants' = tenants \ {t}

LEMMA NextEffect == Typed /\ [Next]_vars => TableEffect
<1> SUFFICES ASSUME Typed, [Next]_vars PROVE TableEffect
  OBVIOUS
<1>1. CASE ZoomStep
  BY <1>1 DEF ZoomStep, StartMeeting, EndMeeting, Join, Leave, Emit, tenantVars, TableEffect
<1>2. CASE \E h \in Handlers, i \in EventIds : Deliver(h, i)
  <2>1. UNCHANGED <<tenantVars, tableVars>>
    BY <1>2 DEF Deliver
  <2> QED
    BY <2>1 DEF tenantVars, TableEffect
<1>3. ASSUME NEW h \in Handlers, HandlerStep(h)
      PROVE  TableEffect
  <2>1. CASE NextTenant(h) \/ Return(h) \/ Dispatch(h)
    BY <2>1 DEF NextTenant, Return, Dispatch, tenantVars, TableEffect
  <2>2. CASE \/ UpsertMeeting(h)
             \/ AddParticipant(h)
             \/ SetParticipantLeft(h)
             \/ DeleteParticipantsForMeeting(h)
             \/ DeleteMeeting(h)
    <3>1. Busy(h) /\ handler[h].tenant \in Tenants
      BY <2>2, StatementEffect
    <3>2. handler[h].event \in 1..Len(log) /\ EventOf(h).meeting \in Meetings
      BY <3>1, BusyFacts
    <3>3. delivered[handler[h].event] > 0
      <4>1. delivered[handler[h].event] \in 0..MaxDeliveries
        BY <3>1, BusyFacts DEF Typed, TypeOK
      <4>2. handler[h].try \in 1..delivered[handler[h].event]
        BY <3>1 DEF Typed, HandlersOK
      <4> QED
        BY <4>1, <4>2, MeetingStateAssumption
    <3>4. UNCHANGED tenants
      BY <2>2, StatementEffect DEF tenantVars
    <3> QED
      BY <2>2, <3>1, <3>2, <3>3, <3>4, StatementEffect DEF EventOf, TableEffect
  <2> QED
    BY <1>3, <2>1, <2>2 DEF HandlerStep
<1>4. CASE Crash
  BY <1>4 DEF Crash, tenantVars, TableEffect
<1>5. CASE TenantStep
  BY <1>5 DEF TenantStep, CreateTenant, DeleteTenant, UpdateTenant, tableVars, TableEffect
<1>6. CASE UNCHANGED vars
  BY <1>6 DEF vars, tenantVars, TableEffect
<1> QED
  BY <1>1, <1>2, <1>3, <1>4, <1>5, <1>6 DEF Next

-----------------------------------------------------------------------------
(* Referential integrity *)

LEMMA NextNoOrphans == Typed /\ NoOrphans /\ [Next]_vars => NoOrphans'
<1> SUFFICES ASSUME Typed, NoOrphans, TableEffect PROVE NoOrphans'
  BY NextEffect
<1>0. TablesTyped /\ tenants \subseteq Tenants /\ NoTenant \notin Tenants
  BY MeetingStateAssumption DEF Typed, TypeOK, TablesTyped
<1>1. CASE UNCHANGED tableVars /\ tenants \subseteq tenants'
  BY <1>1 DEF tableVars, NoOrphans
<1>2. ASSUME NEW m \in Meetings, NEW t \in Tenants, InsertOrUpdate(m, t), UNCHANGED tenants
      PROVE  NoOrphans'
  <2>1. owner' = [owner EXCEPT ![m] = IF @ = NoTenant /\ t \in tenants THEN t ELSE @]
        /\ participants' = participants
    BY <1>2 DEF InsertOrUpdate
  <2>2. \A w \in Meetings : owner'[w] = owner[w] \/ owner'[w] \in tenants
    BY <1>0, <2>1 DEF TablesTyped
  <2>3. \A r \in participants : r.meeting \in Meetings
    BY <1>0 DEF TablesTyped, Row
  <2> QED
    BY <1>0, <1>2, <2>1, <2>2, <2>3 DEF NoOrphans
<1>3. ASSUME NEW m, NEW n, InsertRow(m, n), UNCHANGED tenants
      PROVE  NoOrphans'
  BY <1>3 DEF InsertRow, NoOrphans
<1>4. ASSUME NEW m, NEW n, NEW i, MarkRows(m, n, i), UNCHANGED tenants
      PROVE  NoOrphans'
  <2>1. \A r \in participants : MarkRow(r, m, n, i).meeting = r.meeting
    BY <1>0 DEF MarkRow, TablesTyped, Row
  <2> QED
    BY <1>4, <2>1 DEF MarkRows, NoOrphans
<1>5. ASSUME NEW m \in Meetings, DeleteRows(m), UNCHANGED tenants
      PROVE  NoOrphans'
  BY <1>5 DEF DeleteRows, NoOrphans
<1>6. ASSUME NEW ms \in SUBSET Meetings, DeleteCascade(ms),
             \/ UNCHANGED tenants
             \/ \E t \in Tenants :
                  ms = {m \in Meetings : owner[m] = t} /\ tenants' = tenants \ {t}
      PROVE  NoOrphans'
  <2>1. /\ \A m \in Meetings : owner'[m] = IF m \in ms THEN NoTenant ELSE owner[m]
        /\ \A r \in participants' : r \in participants /\ r.meeting \notin ms
    BY <1>6 DEF DeleteCascade, RowsOf
  <2>2. \A r \in participants : r.meeting \in Meetings
    BY <1>0 DEF TablesTyped, Row
  <2>3. \A m \in Meetings : owner'[m] # NoTenant => owner[m] \in tenants' /\ owner'[m] = owner[m]
    BY <1>6, <2>1 DEF NoOrphans
  <2> QED
    BY <2>1, <2>2, <2>3 DEF NoOrphans
<1>7. \A m \in Meetings : {m} \in SUBSET Meetings
  OBVIOUS
<1>8. \A t : {m \in Meetings : owner[m] = t} \in SUBSET Meetings
  OBVIOUS
<1> QED
  BY <1>1, <1>2, <1>3, <1>4, <1>5, <1>6, <1>7, <1>8 DEF TableEffect

(* No meeting without its tenant, no participant row without its meeting,   *)
(* for any interleaving of webhooks, tenant requests, failures and restarts.*)
THEOREM ReferentialIntegrity == Spec => []NoOrphans
<1>1. Init => NoOrphans
  BY DEF Init, NoOrphans
<1>2. Typed /\ NoOrphans /\ [Next]_vars => NoOrphans'
  BY NextNoOrphans
<1> QED
  BY <1>1, <1>2, AlwaysTyped, PTL DEF Spec

-----------------------------------------------------------------------------
(* What a step may never do to a row *)

LEMMA NextIdsFresh == Typed /\ IdsFresh /\ [Next]_vars => IdsFresh'
<1> SUFFICES ASSUME Typed, IdsFresh, TableEffect PROVE IdsFresh'
  BY NextEffect
<1>0. participants \subseteq Row /\ lastId \in Nat
  BY DEF Typed, TypeOK
<1>1. CASE participants' \subseteq participants /\ lastId' = lastId
  BY <1>1 DEF IdsFresh
<1>2. ASSUME NEW m, NEW n, InsertRow(m, n)
      PROVE  IdsFresh'
  <2> DEFINE r == [id |-> lastId + 1, meeting |-> m, name |-> n, left |-> NullTime]
  <2>1. CASE owner[m] = NoTenant
    BY <2>1, <1>2 DEF InsertRow, IdsFresh
  <2>2. CASE owner[m] # NoTenant
    <3>1. participants' = participants \cup {r} /\ lastId' = lastId + 1
      BY <2>2, <1>2 DEF InsertRow
    <3>2. \A q \in participants : q.id \in Nat /\ q.id <= lastId
      BY <1>0 DEF IdsFresh, Row
    <3>3. r.id = lastId + 1
      OBVIOUS
    <3> HIDE DEF r
    <3> QED
      BY <1>0, <3>1, <3>2, <3>3 DEF IdsFresh
  <2> QED
    BY <2>1, <2>2
<1>3. ASSUME NEW m, NEW n, NEW i, MarkRows(m, n, i)
      PROVE  IdsFresh'
  <2>1. \A r \in participants : MarkRow(r, m, n, i).id = r.id
    BY <1>0 DEF MarkRow, Row
  <2>2. participants' = {MarkRow(r, m, n, i) : r \in participants} /\ lastId' = lastId
    BY <1>3 DEF MarkRows
  <2> QED
    BY <2>1, <2>2 DEF IdsFresh
<1> QED
  BY <1>1, <1>2, <1>3
  DEF TableEffect, tableVars, InsertOrUpdate, DeleteRows, DeleteCascade

LEMMA IdsAlwaysFresh == Spec => []IdsFresh
<1>1. Init => IdsFresh
  BY DEF Init, IdsFresh
<1>2. Typed /\ IdsFresh /\ [Next]_vars => IdsFresh'
  BY NextIdsFresh
<1> QED
  BY <1>1, <1>2, AlwaysTyped, PTL DEF Spec

(* No step reopens a closed row, rewrites its leave_time, or moves it to    *)
(* another meeting or name.                                                 *)
THEOREM LeaveIsFinal == Spec => LeaveWrittenOnce
<1> DEFINE Kept == \A r \in participants, q \in participants' :
                     r.id = q.id => /\ q.meeting = r.meeting /\ q.name = r.name
                                    /\ r.left # NullTime => q.left = r.left
<1>1. Typed /\ IdsFresh /\ [Next]_vars => Kept
  <2> SUFFICES ASSUME Typed, IdsFresh, TableEffect PROVE Kept
    BY NextEffect
  <2>0. participants \subseteq Row /\ lastId \in Nat
    BY DEF Typed, TypeOK
  <2>1. CASE participants' \subseteq participants
    BY <2>1 DEF IdsFresh
  <2>2. ASSUME NEW m, NEW n, InsertRow(m, n)
        PROVE  Kept
    <3> DEFINE x == [id |-> lastId + 1, meeting |-> m, name |-> n, left |-> NullTime]
    <3>1. participants' \subseteq participants \cup {x}
      BY <2>2 DEF InsertRow
    <3>2. \A r \in participants : r.id # x.id
      BY <2>0 DEF IdsFresh, Row
    <3> HIDE DEF x
    <3> QED
      BY <3>1, <3>2 DEF IdsFresh
  <2>3. ASSUME NEW m, NEW n, NEW i, MarkRows(m, n, i)
        PROVE  Kept
    <3>1. \A r \in participants :
            LET q == MarkRow(r, m, n, i)
            IN  /\ q.id = r.id /\ q.meeting = r.meeting /\ q.name = r.name
                /\ r.left # NullTime => q.left = r.left
      BY <2>0 DEF MarkRow, Row
    <3>2. participants' = {MarkRow(r, m, n, i) : r \in participants}
      BY <2>3 DEF MarkRows
    <3> QED
      BY <3>1, <3>2 DEF IdsFresh
  <2> QED
    BY <2>1, <2>2, <2>3
    DEF TableEffect, tableVars, InsertOrUpdate, DeleteRows, DeleteCascade
<1>2. Typed /\ IdsFresh /\ [Next]_vars => [Kept]_vars
  BY <1>1
<1> QED
  BY <1>2, AlwaysTyped, IdsAlwaysFresh, PTL DEF Spec, LeaveWrittenOnce

(* A meeting's row never passes from one tenant to another.                 *)
THEOREM OwnerIsFinal == Spec => OwnerStable
<1> DEFINE Kept == \A m \in Meetings :
                     owner[m] # NoTenant /\ owner'[m] # NoTenant => owner'[m] = owner[m]
<1>1. Typed /\ [Next]_vars => Kept
  <2> SUFFICES ASSUME Typed, TableEffect PROVE Kept
    BY NextEffect
  <2>0. owner \in [Meetings -> Tenants \cup {NoTenant}]
    BY DEF Typed, TypeOK
  <2>1. ASSUME NEW m \in Meetings, NEW t \in Tenants, InsertOrUpdate(m, t)
        PROVE  Kept
    BY <2>0, <2>1 DEF InsertOrUpdate
  <2>2. ASSUME NEW ms \in SUBSET Meetings, DeleteCascade(ms)
        PROVE  Kept
    BY <2>2 DEF DeleteCascade
  <2>3. CASE owner' = owner
    BY <2>3
  <2>4. \A m \in Meetings : {m} \in SUBSET Meetings
    OBVIOUS
  <2>5. \A t : {m \in Meetings : owner[m] = t} \in SUBSET Meetings
    OBVIOUS
  <2> QED
    BY <2>1, <2>2, <2>3, <2>4, <2>5
    DEF TableEffect, tableVars, InsertRow, MarkRows, DeleteRows
<1>2. Typed /\ [Next]_vars => [Kept]_vars
  BY <1>1
<1> QED
  BY <1>2, AlwaysTyped, PTL DEF Spec, OwnerStable

-----------------------------------------------------------------------------
(* Where rows come from *)

LEMMA HistoryGrows ==
  ASSUME Typed, [Next]_vars
  PROVE  /\ Len(log) <= Len(log')
         /\ \A i \in 1..Len(log) : log'[i] = log[i]
         /\ \A i \in EventIds : delivered'[i] >= delivered[i]
<1>0. /\ log \in Seq(Event) /\ Len(log) \in Nat
      /\ delivered \in [EventIds -> 0..MaxDeliveries]
  BY DEF Typed, TypeOK
<1>1. CASE ZoomStep
  <2>1. PICK kind, m, n : Emit(kind, m, n)
    BY <1>1 DEF ZoomStep, StartMeeting, EndMeeting, Join, Leave
  <2>2. log' = Append(log, [kind |-> kind, meeting |-> m, name |-> n]) /\ delivered' = delivered
    BY <2>1 DEF Emit
  <2> QED
    BY <1>0, <2>2, MeetingStateAssumption
<1>2. ASSUME NEW h \in Handlers, NEW i \in EventIds, Deliver(h, i)
      PROVE  \A j \in EventIds : delivered'[j] >= delivered[j]
  <2>1. delivered' = [delivered EXCEPT ![i] = delivered[i] + 1]
    BY <1>2 DEF Deliver
  <2> QED
    BY <1>0, <2>1, MeetingStateAssumption
<1>3. CASE \E h \in Handlers, i \in EventIds : Deliver(h, i)
  BY <1>0, <1>2, <1>3 DEF Deliver, zoomVars
<1>4. ASSUME UNCHANGED <<log, delivered>>
      PROVE  /\ Len(log) <= Len(log')
             /\ \A i \in 1..Len(log) : log'[i] = log[i]
             /\ \A i \in EventIds : delivered'[i] >= delivered[i]
  BY <1>0, <1>4, MeetingStateAssumption
<1>5. CASE \E h \in Handlers : HandlerStep(h)
  BY <1>4, <1>5
  DEF HandlerStep, NextTenant, Return, UpsertMeeting, AddParticipant, SetParticipantLeft,
      DeleteParticipantsForMeeting, DeleteMeeting, Statement, Dispatch, zoomVars
<1>6. CASE Crash \/ TenantStep \/ UNCHANGED vars
  BY <1>4, <1>6
  DEF Crash, TenantStep, CreateTenant, DeleteTenant, UpdateTenant, TenantOp, vars, zoomVars
<1> QED
  BY <1>1, <1>3, <1>5, <1>6 DEF Next

(* Why row r may be in the table, as the log stands. *)
HasCause(r) ==
  /\ \E i \in 1..Len(log) :
       /\ delivered[i] > 0
       /\ log[i] = [kind |-> "joined", meeting |-> r.meeting, name |-> r.name]
  /\ r.left # NullTime =>
       /\ r.left <= Len(log) /\ delivered[r.left] > 0
       /\ log[r.left] = [kind |-> "left", meeting |-> r.meeting, name |-> r.name]

(* The log and the deliveries only grow, so a cause stays one. *)
LEMMA CauseStays ==
  ASSUME Typed, [Next]_vars, NEW r \in Row, HasCause(r)
  PROVE  HasCause(r)'
<1>0. /\ Len(log) \in Nat /\ Len(log) <= MaxEvents /\ Len(log') \in Nat
      /\ delivered \in [EventIds -> 0..MaxDeliveries]
      /\ delivered' \in [EventIds -> 0..MaxDeliveries]
  BY NextTyped DEF Typed, TypeOK
<1>1. /\ Len(log) <= Len(log')
      /\ \A i \in 1..Len(log) : i \in EventIds /\ log'[i] = log[i] /\ delivered'[i] >= delivered[i]
  BY <1>0, HistoryGrows, MeetingStateAssumption DEF EventIds
<1>2. \A i \in 1..Len(log) : i \in 1..Len(log') /\ (delivered[i] > 0 => delivered'[i] > 0)
  BY <1>0, <1>1, MeetingStateAssumption
<1>3. r.left # NullTime => r.left \in 1..Len(log)
  BY <1>0, MeetingStateAssumption DEF HasCause, Row, EventIds, NullTime
<1>4. \E i \in 1..Len(log') :
        /\ delivered'[i] > 0
        /\ log'[i] = [kind |-> "joined", meeting |-> r.meeting, name |-> r.name]
  BY <1>1, <1>2 DEF HasCause
<1>5. r.left # NullTime =>
        /\ r.left <= Len(log') /\ delivered'[r.left] > 0
        /\ log'[r.left] = [kind |-> "left", meeting |-> r.meeting, name |-> r.name]
  BY <1>0, <1>1, <1>2, <1>3 DEF HasCause
<1> QED
  BY <1>4, <1>5 DEF HasCause

LEMMA EventIs ==
  ASSUME NEW e \in Event
  PROVE  e = [kind |-> e.kind, meeting |-> e.meeting, name |-> e.name]
BY DEF Event

LEMMA NextRowsHaveCause == Typed /\ RowsHaveCause /\ [Next]_vars => RowsHaveCause'
<1> SUFFICES ASSUME Typed, RowsHaveCause, [Next]_vars,
                    NEW r \in participants'
             PROVE  HasCause(r)'
  BY DEF RowsHaveCause, HasCause
<1>0. /\ participants \subseteq Row /\ log \in Seq(Event) /\ Len(log) \in Nat
      /\ Len(log) <= MaxEvents
  BY DEF Typed, TypeOK
<1>1. \A q \in participants : HasCause(q)
  BY DEF RowsHaveCause, HasCause
<1>2. CASE r \in participants
  BY <1>0, <1>1, <1>2, CauseStays
<1>3. ASSUME NEW i \in 1..Len(log), log[i].kind = "joined", delivered[i] > 0,
             InsertRow(log[i].meeting, log[i].name)
      PROVE  HasCause(r)'
  <2> DEFINE m == log[i].meeting
             n == log[i].name
             x == [id |-> lastId + 1, meeting |-> m, name |-> n, left |-> NullTime]
  <2>1. participants' \subseteq participants \cup {x}
    BY <1>3 DEF InsertRow
  <2>2. CASE r = x
    <3>1. r \in Row
      BY NextTyped DEF Typed, TypeOK
    <3>2. log[i] = [kind |-> "joined", meeting |-> r.meeting, name |-> r.name] /\ r.left = NullTime
      BY <1>0, <1>3, <2>2, EventIs
    <3> QED
      BY <1>3, <3>1, <3>2, CauseStays DEF HasCause
  <2> QED
    BY <1>2, <2>1, <2>2
<1>4. ASSUME NEW i \in 1..Len(log), log[i].kind = "left", delivered[i] > 0,
             MarkRows(log[i].meeting, log[i].name, i)
      PROVE  HasCause(r)'
  <2>1. PICK q \in participants : r = MarkRow(q, log[i].meeting, log[i].name, i)
    BY <1>4 DEF MarkRows
  <2>2. CASE r = q
    BY <1>2, <2>1, <2>2
  <2>3. CASE r # q
    <3>1. /\ q.meeting = log[i].meeting /\ q.name = log[i].name
          /\ r = [q EXCEPT !.left = i]
      BY <2>1, <2>3 DEF MarkRow
    <3>2. r.meeting = q.meeting /\ r.name = q.name /\ r.left = i
      BY <1>0, <3>1 DEF Row
    <3>3. log[i] = [kind |-> "left", meeting |-> r.meeting, name |-> r.name]
      BY <1>0, <1>4, <3>1, <3>2, EventIs
    <3>4. HasCause(q)
      BY <1>1
    <3>5. r \in Row
      BY NextTyped DEF Typed, TypeOK
    <3> QED
      BY <1>0, <1>4, <3>2, <3>3, <3>4, <3>5, CauseStays DEF HasCause
  <2> QED
    BY <2>2, <2>3
<1>5. CASE participants' \subseteq participants
  BY <1>2, <1>5
<1> QED
  BY <1>3, <1>4, <1>5, NextEffect
  DEF TableEffect, tableVars, InsertOrUpdate, DeleteRows, DeleteCascade

(* A row never appears, and is never closed, without a webhook that says so *)
(* about its own meeting and name.                                          *)
THEOREM RowsAreCaused == Spec => []RowsHaveCause
<1>1. Init => RowsHaveCause
  BY DEF Init, RowsHaveCause
<1>2. Typed /\ RowsHaveCause /\ [Next]_vars => RowsHaveCause'
  BY NextRowsHaveCause
<1> QED
  BY <1>1, <1>2, AlwaysTyped, PTL DEF Spec

-----------------------------------------------------------------------------
(* Who has been told *)

Smooth == storeErrors = 0 /\ tenantOps = 0

(* The tenants goroutine h still has to tell of its event. *)
Untold(h) ==
  handler[h].todo \cup (IF handler[h].step = "next" THEN {} ELSE {handler[h].tenant})

(* Goroutine h, at event i: it is at a statement of it, and has told whoever *)
(* is behind it in the loop.                                                 *)
Telling(h, i) ==
  /\ handler[h].step \in {"clear", "delete"} => log[i].kind = "ended"
  /\ handler[h].step = "upsert" => log[i].kind # "left"
  /\ log[i].kind \in Announced => InitTenants \ Untold(h) \subseteq Told(i)

(* The tenants are those of the start, an answered event was announced to   *)
(* all of them, and a goroutine tells them one by one.                      *)
AnnouncedOK ==
  Smooth =>
    /\ linked = InitTenants
    /\ \A i \in acked : /\ i \in 1..Len(log)
                        /\ log[i].kind \in Announced => InitTenants \subseteq Told(i)
    /\ \A h \in Handlers, i \in 1..Len(log) :
         Busy(h) /\ handler[h].event = i => Telling(h, i)

(* Calls are only added. *)
LEMMA ToldStays ==
  ASSUME Typed, [Next]_vars, NEW i \in EventIds
  PROVE  Told(i) \subseteq Told(i)'
<1>0. calls \in [Tenants \X EventIds \X (1..MaxDeliveries) -> Nat]
  BY DEF Typed, TypeOK
<1>1. CASE calls' = calls
  BY <1>1 DEF Told
<1>2. ASSUME NEW h \in Handlers, Dispatch(h)
      PROVE  Told(i) \subseteq Told(i)'
  <2>1. PICK c : calls' = [calls EXCEPT ![c] = calls[c] + 1]
    BY <1>2 DEF Dispatch
  <2>2. \A d \in Tenants \X EventIds \X (1..MaxDeliveries) :
          calls[d] \in Nat /\ (calls'[d] = calls[d] \/ calls'[d] = calls[d] + 1)
    BY <1>0, <2>1
  <2>3. \A t \in Tenants, k \in 1..MaxDeliveries :
          calls[<<t, i, k>>] > 0 => calls'[<<t, i, k>>] > 0
    BY <2>2
  <2> QED
    BY <2>3 DEF Told
<1> QED
  BY <1>1, <1>2
  DEF Next, ZoomStep, StartMeeting, EndMeeting, Join, Leave, Emit, Deliver, HandlerStep,
      NextTenant, Return, UpsertMeeting, AddParticipant, SetParticipantLeft,
      DeleteParticipantsForMeeting, DeleteMeeting, Statement, Crash, TenantStep, CreateTenant,
      DeleteTenant, UpdateTenant, TenantOp, vars

(* A step that answers nothing and begins nothing: each goroutine stops, or *)
(* stays with its event and tells whom it leaves behind.                    *)
LEMMA AnnouncedKept ==
  ASSUME Typed, AnnouncedOK, [Next]_vars, Smooth' => Smooth, UNCHANGED <<linked, acked>>,
         \A h \in Handlers : Busy(h)' => Busy(h) /\ handler'[h].event = handler[h].event,
         \A h \in Handlers, i \in 1..Len(log) :
           Busy(h)' /\ handler[h].event = i /\ Telling(h, i) =>
             /\ handler'[h].step \in {"clear", "delete"} => log[i].kind = "ended"
             /\ handler'[h].step = "upsert" => log[i].kind # "left"
             /\ log[i].kind \in Announced =>
                  Untold(h) \cap InitTenants \subseteq Untold(h)' \cup Told(i)'
  PROVE  AnnouncedOK'
<1> SUFFICES ASSUME Smooth' PROVE AnnouncedOK'
  BY DEF AnnouncedOK
<1>0. /\ Len(log) \in Nat /\ Len(log) <= MaxEvents
      /\ InitTenants \subseteq Tenants
  BY MeetingStateAssumption DEF Typed, TypeOK
<1>1. /\ Len(log) <= Len(log') /\ Len(log') \in Nat
      /\ \A i \in 1..Len(log) : log'[i] = log[i] /\ i \in EventIds
  <2>1. Len(log') \in Nat
    BY NextTyped DEF Typed, TypeOK
  <2> QED
    BY <1>0, <2>1, HistoryGrows, MeetingStateAssumption DEF EventIds
<1>2. \A i \in 1..Len(log) : Told(i) \subseteq Told(i)'
  BY <1>0, <1>1, ToldStays
<1>3. \A i \in acked' : /\ i \in 1..Len(log')
                        /\ log'[i].kind \in Announced => InitTenants \subseteq Told(i)'
  BY <1>0, <1>1, <1>2 DEF AnnouncedOK
<1>4. ASSUME NEW h \in Handlers, NEW i \in 1..Len(log'), Busy(h)', handler'[h].event = i
      PROVE  Telling(h, i)'
  <2>1. Busy(h) /\ handler[h].event = i /\ i \in 1..Len(log)
    BY <1>4, BusyFacts
  <2>2. Telling(h, i)
    BY <2>1 DEF AnnouncedOK
  <2>3. /\ handler'[h].step \in {"clear", "delete"} => log[i].kind = "ended"
        /\ handler'[h].step = "upsert" => log[i].kind # "left"
        /\ log[i].kind \in Announced =>
             Untold(h) \cap InitTenants \subseteq Untold(h)' \cup Told(i)'
    BY <1>4, <2>1, <2>2
  <2>4. log[i].kind \in Announced => InitTenants \subseteq Untold(h)' \cup Told(i)'
    BY <1>2, <2>1, <2>2, <2>3 DEF Telling
  <2> QED
    BY <1>1, <2>1, <2>3, <2>4 DEF Telling
<1> QED
  BY <1>3, <1>4 DEF AnnouncedOK

(* A new delivery has everybody to tell; one that finds no tenant, nobody.   *)
LEMMA DeliverAnnounced ==
  ASSUME Typed, AnnouncedOK, NEW h \in Handlers, NEW j \in EventIds, Deliver(h, j)
  PROVE  AnnouncedOK'
<1> DEFINE x == AtLoop(j, delivered[j] + 1, linked)
<1> SUFFICES ASSUME Smooth' PROVE AnnouncedOK'
  BY DEF AnnouncedOK
<1>0. handler \in [Handlers -> HandlerState]
  BY DEF Typed, TypeOK
<1>1. UNCHANGED <<log, linked, calls>> /\ j \in 1..Len(log)
  BY MeetingStateAssumption DEF Deliver, zoomVars, tenantVars, EventIds, Typed, TypeOK
<1>2. Smooth /\ linked = InitTenants
  <2>1. storeErrors \in Nat /\ (storeErrors' = storeErrors \/ storeErrors' = storeErrors + 1)
    BY DEF Deliver, StoreError, Typed, TypeOK
  <2>2. Smooth
    BY <2>1 DEF Smooth, Deliver, tenantVars
  <2> QED
    BY <2>2 DEF AnnouncedOK
<1>3. CASE handler' = [handler EXCEPT ![h] = x] /\ UNCHANGED acked
  <2>1. /\ handler'[h] = x
        /\ \A g \in Handlers : g # h => handler'[g] = handler[g]
    BY <1>0, <1>3
  <2>2. x.step = "next" /\ x.event = j /\ x.todo = InitTenants
    BY <1>2 DEF AtLoop
  <2>3. ASSUME NEW g \in Handlers, NEW i \in 1..Len(log), Busy(g)', handler'[g].event = i
        PROVE  Telling(g, i)'
    <3>1. CASE g = h
      BY <1>1, <2>1, <2>2, <3>1 DEF Telling, Untold
    <3>2. CASE g # h
      BY <1>1, <1>2, <2>1, <2>3, <3>2 DEF AnnouncedOK, Busy, Telling, Untold, Told
    <3> QED
      BY <3>1, <3>2
  <2> QED
    BY <1>1, <1>2, <1>3, <2>3 DEF AnnouncedOK, Told
<1>4. CASE handler' = handler /\ acked' = acked \cup {j} /\ InitTenants = {}
  BY <1>1, <1>2, <1>4 DEF AnnouncedOK, Busy, Telling, Untold, Told
<1>5. CASE StoreError
  BY <1>2, <1>5 DEF StoreError, Smooth
<1> QED
  BY <1>2, <1>3, <1>4, <1>5 DEF Deliver, GetTenantByZoomAccount

(* Whoever answers has nobody left to tell.  *)
LEMMA ReturnAnnounced ==
  ASSUME Typed, AnnouncedOK, NEW h \in Handlers, Return(h)
  PROVE  AnnouncedOK'
<1> SUFFICES ASSUME Smooth PROVE AnnouncedOK'
  BY DEF AnnouncedOK, Smooth, Return, tenantVars
<1>0. handler \in [Handlers -> HandlerState]
  BY DEF Typed, TypeOK
<1>1. /\ UNCHANGED <<log, linked, calls>> /\ Busy(h)
      /\ handler' = [handler EXCEPT ![h] = Idle]
      /\ handler[h].step = "next" /\ handler[h].todo = {}
  BY DEF Return, zoomVars, tenantVars, Busy
<1>2. PICK e \in 1..Len(log) : handler[h].event = e
  BY <1>1, BusyFacts
<1>3. acked' = acked \cup {e}
  BY <1>2 DEF Return
<1>4. log[e].kind \in Announced => InitTenants \subseteq Told(e)
  BY <1>1, <1>2 DEF AnnouncedOK, Telling, Untold
<1>5. \A g \in Handlers : Busy(g)' => Busy(g) /\ handler'[g] = handler[g]
  BY <1>0, <1>1, IdleTyped DEF Busy
<1>6. ASSUME NEW g \in Handlers, NEW i \in 1..Len(log), Busy(g)', handler'[g].event = i
      PROVE  Telling(g, i)'
  BY <1>1, <1>5, <1>6 DEF AnnouncedOK, Telling, Untold, Told
<1> QED
  BY <1>1, <1>3, <1>4, <1>6 DEF AnnouncedOK, Told

(* The tenant that a goroutine leaves behind has been told, or its event is  *)
(* not announced.                                                            *)
LEMMA MoveAnnounced ==
  ASSUME Typed, AnnouncedOK, [Next]_vars, NEW h \in Handlers,
         NextTenant(h) \/ UpsertMeeting(h) \/ AddParticipant(h) \/ SetParticipantLeft(h)
           \/ DeleteParticipantsForMeeting(h) \/ DeleteMeeting(h) \/ Dispatch(h)
  PROVE  AnnouncedOK'
<1>0. handler \in [Handlers -> HandlerState]
  BY DEF Typed, TypeOK
<1>1. Busy(h) /\ UNCHANGED <<log, linked, acked>>
  BY DEF NextTenant, UpsertMeeting, AddParticipant, SetParticipantLeft, Dispatch,
         DeleteParticipantsForMeeting, DeleteMeeting, Statement, Busy, zoomVars, tenantVars
<1>2. Smooth' => Smooth
  <2>1. storeErrors \in Nat
    BY DEF Typed, TypeOK
  <2>2. tenantOps' = tenantOps /\ (storeErrors' = storeErrors \/ storeErrors' = storeErrors + 1)
    BY DEF NextTenant, UpsertMeeting, AddParticipant, SetParticipantLeft, Dispatch,
           DeleteParticipantsForMeeting, DeleteMeeting, Statement, StoreError, tenantVars
  <2> QED
    BY <2>1, <2>2 DEF Smooth
<1>3. PICK e \in 1..Len(log) : handler[h].event = e
  BY <1>1, BusyFacts
<1>4. EventOf(h) = log[e] /\ log[e].kind \in Kinds
  BY <1>1, <1>3, BusyFacts DEF EventOf
<1>5. ASSUME NEW y, handler' = [handler EXCEPT ![h] = y], y.event = e,
             Telling(h, e) =>
               /\ y.step \in {"clear", "delete"} => log[e].kind = "ended"
               /\ y.step = "upsert" => log[e].kind # "left"
               /\ log[e].kind \in Announced =>
                    Untold(h) \cap InitTenants \subseteq
                      y.todo \cup (IF y.step = "next" THEN {} ELSE {y.tenant}) \cup Told(e)'
      PROVE  AnnouncedOK'
  <2>1. /\ handler'[h] = y
        /\ \A g \in Handlers : g # h => handler'[g] = handler[g]
    BY <1>0, <1>5
  <2>2. \A g \in Handlers : Busy(g)' => Busy(g) /\ handler'[g].event = handler[g].event
    BY <1>1, <1>3, <1>5, <2>1 DEF Busy
  <2>3. ASSUME NEW g \in Handlers, NEW i \in 1..Len(log), Busy(g)', handler[g].event = i,
               Telling(g, i)
        PROVE  /\ handler'[g].step \in {"clear", "delete"} => log[i].kind = "ended"
               /\ handler'[g].step = "upsert" => log[i].kind # "left"
               /\ log[i].kind \in Announced =>
                    Untold(g) \cap InitTenants \subseteq Untold(g)' \cup Told(i)'
    <3>1. CASE g = h
      BY <1>3, <1>5, <2>1, <2>3, <3>1 DEF Untold
    <3>2. CASE g # h
      BY <2>1, <2>3, <3>2 DEF Telling, Untold
    <3> QED
      BY <3>1, <3>2
  <2> QED
    BY <1>1, <1>2, <2>2, <2>3, AnnouncedKept
<1>6. CASE NextTenant(h)
  <2>1. PICK t \in handler[h].todo :
          handler' = [handler EXCEPT ![h].todo = handler[h].todo \ {t}, ![h].tenant = t,
                                     ![h].step = FirstStep(log[e].kind)]
    BY <1>4, <1>6 DEF NextTenant
  <2> DEFINE y == [handler[h] EXCEPT !.todo = handler[h].todo \ {t}, !.tenant = t,
                                     !.step = FirstStep(log[e].kind)]
  <2>2. handler' = [handler EXCEPT ![h] = y]
    BY <1>0, <2>1
  <2>3. /\ y.event = e /\ y.todo = handler[h].todo \ {t} /\ y.tenant = t
        /\ y.step = FirstStep(log[e].kind)
    BY <1>0, <1>3 DEF HandlerState
  <2>4. /\ y.step # "next"
        /\ y.step \in {"clear", "delete"} => log[e].kind = "ended"
        /\ y.step = "upsert" => log[e].kind # "left"
    BY <1>4, <2>3 DEF FirstStep, Kinds
  <2>5. Untold(h) = handler[h].todo
    BY <1>6 DEF NextTenant, Untold
  <2>6. Untold(h) \subseteq y.todo \cup {y.tenant}
    BY <2>3, <2>5
  <2> HIDE DEF y
  <2> QED
    BY <1>5, <2>2, <2>3, <2>4, <2>6
<1>7. ASSUME NEW s, handler' = [handler EXCEPT ![h].step = s],
             Telling(h, e) =>
               /\ s \in {"clear", "delete"} => log[e].kind = "ended"
               /\ s # "upsert"
               /\ s = "next" /\ log[e].kind \in Announced /\ handler[h].tenant \in InitTenants
                  => handler[h].tenant \in Told(e)'
      PROVE  AnnouncedOK'
  <2> DEFINE y == [handler[h] EXCEPT !.step = s]
  <2>1. handler' = [handler EXCEPT ![h] = y]
    BY <1>0, <1>7
  <2>2. /\ y.event = e /\ y.todo = handler[h].todo /\ y.tenant = handler[h].tenant
        /\ y.step = s
    BY <1>0, <1>3 DEF HandlerState
  <2>3. Untold(h) \subseteq handler[h].todo \cup {handler[h].tenant}
    BY DEF Untold
  <2> HIDE DEF y
  <2> QED
    BY <1>5, <1>7, <2>1, <2>2, <2>3
<1>8. CASE UpsertMeeting(h)
  <2>1. /\ handler[h].step = "upsert"
        /\ handler' = [handler EXCEPT ![h].step = IF log[e].kind = "joined" THEN "add" ELSE "next"]
    BY <1>4, <1>8 DEF UpsertMeeting, Statement
  <2>2. Telling(h, e) => (log[e].kind \in Announced => log[e].kind = "joined")
    BY <2>1 DEF Telling, Announced
  <2>3. CASE log[e].kind = "joined"
    <3>1. handler' = [handler EXCEPT ![h].step = "add"]
      BY <2>1, <2>3
    <3> QED
      BY <1>7, <3>1
  <2>4. CASE log[e].kind # "joined"
    <3>1. handler' = [handler EXCEPT ![h].step = "next"]
      BY <2>1, <2>4
    <3> QED
      BY <1>7, <2>2, <2>4, <3>1
  <2> QED
    BY <2>3, <2>4
<1>9. CASE AddParticipant(h) \/ SetParticipantLeft(h)
  <2>1. handler' = [handler EXCEPT ![h].step = "dispatch"]
    BY <1>9 DEF AddParticipant, SetParticipantLeft, Statement
  <2> QED
    BY <1>7, <2>1
<1>10. CASE DeleteParticipantsForMeeting(h)
  <2>1. handler[h].step = "clear" /\ handler' = [handler EXCEPT ![h].step = "delete"]
    BY <1>10 DEF DeleteParticipantsForMeeting, Statement
  <2> QED
    BY <1>7, <2>1 DEF Telling
<1>11. CASE DeleteMeeting(h)
  <2>1. handler[h].step = "delete" /\ handler' = [handler EXCEPT ![h].step = "next"]
    BY <1>11 DEF DeleteMeeting, Statement
  <2> QED
    BY <1>7, <2>1 DEF Telling, Announced
<1>12. CASE Dispatch(h)
  <2>1. PICK u, k : u = handler[h].tenant /\ k = handler[h].try
    OBVIOUS
  <2>2. /\ u \in Tenants /\ k \in 1..MaxDeliveries /\ e \in EventIds
        /\ calls' = [calls EXCEPT ![<<u, e, k>>] = calls[<<u, e, k>>] + 1]
        /\ handler' = [handler EXCEPT ![h].step = "next"]
    BY <1>1, <1>3, <1>12, <2>1, BusyFacts DEF Dispatch, Typed, HandlersOK
  <2>3. calls \in [Tenants \X EventIds \X (1..MaxDeliveries) -> Nat]
    BY DEF Typed, TypeOK
  <2>4. calls'[<<u, e, k>>] > 0
    BY <2>2, <2>3
  <2>5. u \in Told(e)'
    BY <2>2, <2>4 DEF Told
  <2> QED
    BY <1>7, <2>1, <2>2, <2>5
<1> QED
  BY <1>6, <1>8, <1>9, <1>10, <1>11, <1>12

LEMMA NextAnnounced == Typed /\ AnnouncedOK /\ [Next]_vars => AnnouncedOK'
<1> SUFFICES ASSUME Typed, AnnouncedOK, [Next]_vars PROVE AnnouncedOK'
  OBVIOUS
<1>1. CASE ZoomStep \/ UNCHANGED vars
  <2>1. UNCHANGED <<linked, acked, handler, storeErrors, tenantOps>>
    BY <1>1 DEF ZoomStep, StartMeeting, EndMeeting, Join, Leave, Emit, vars, tenantVars
  <2> QED
    BY <2>1, AnnouncedKept DEF Smooth, Busy, Untold, Telling
<1>2. CASE \E h \in Handlers, i \in EventIds : Deliver(h, i)
  BY <1>2, DeliverAnnounced
<1>3. CASE \E h \in Handlers : HandlerStep(h)
  BY <1>3, ReturnAnnounced, MoveAnnounced DEF HandlerStep
<1>4. CASE Crash
  <2>1. /\ UNCHANGED <<linked, acked, storeErrors, tenantOps>>
        /\ \A h \in Handlers : ~Busy(h)'
    BY <1>4, IdleTyped DEF Crash, Busy, tenantVars
  <2> QED
    BY <2>1, AnnouncedKept DEF Smooth
<1>5. CASE TenantStep
  <2>1. tenantOps \in Nat /\ tenantOps' = tenantOps + 1
    BY <1>5 DEF TenantStep, CreateTenant, DeleteTenant, UpdateTenant, TenantOp, Typed, TypeOK
  <2> QED
    BY <2>1 DEF AnnouncedOK, Smooth
<1> QED
  BY <1>1, <1>2, <1>3, <1>4, <1>5 DEF Next

(* In whatever order webhooks come, and however often the service is        *)
(* restarted: what it has answered it has announced to every tenant.        *)
THEOREM NobodyIsForgotten == Spec => []AnsweredMeansTold
<1>1. Init => AnnouncedOK
  BY MeetingStateAssumption DEF Init, AnnouncedOK, Busy, Idle, AtLoop
<1>2. Typed /\ AnnouncedOK /\ [Next]_vars => AnnouncedOK'
  BY NextAnnounced
<1>3. AnnouncedOK => AnsweredMeansTold
  BY DEF AnnouncedOK, Smooth, AnsweredMeansTold
<1> QED
  BY <1>1, <1>2, <1>3, AlwaysTyped, PTL DEF Spec

-----------------------------------------------------------------------------
(* What the tables show while nothing disturbs them: Zoom keeps each        *)
(* meeting's events in order, no statement fails, and the tenants stay.     *)
(* Restarts, repeated and concurrent deliveries of an event, the handlers   *)
(* of other meetings and the number of tenants remain arbitrary.            *)

Undisturbed ==
  /\ InOrder
  /\ MaxStoreErrors = 0 /\ MaxTenantOps = 0
  /\ InitTenants # {}

Quiet ==
  /\ storeErrors = 0 /\ tenantOps = 0
  /\ tenants = InitTenants /\ linked = InitTenants

AtItsLast(h) ==
  \A j \in Sent : log[j].meeting = EventOf(h).meeting => j <= handler[h].event

(* Of each meeting at most the last event sent is still open, and only on   *)
(* that one goroutines work.                                                *)
EventsInOrder ==
  /\ acked \subseteq Sent
  /\ \A i \in EventIds : delivered[i] > 0 => i <= Len(log)
  /\ \A i, j \in Sent : log[i].meeting = log[j].meeting /\ i < j => i \in acked
  /\ \A h \in Handlers : Busy(h) => AtItsLast(h)

(* The tables show event e. *)
Reflects(e) ==
  /\ e.kind \in {"started", "joined"} => owner[e.meeting] # NoTenant
  /\ e.kind = "joined" => e.name \in OpenNames(e.meeting)
  /\ e.kind = "left" => e.name \notin OpenNames(e.meeting)
  /\ e.kind = "ended" => owner[e.meeting] = NoTenant

StepsOf(kind) ==
  CASE kind = "started" -> {"next", "upsert"}
    [] kind = "joined"  -> {"next", "upsert", "add", "dispatch"}
    [] kind = "left"    -> {"next", "mark", "dispatch"}
    [] kind = "ended"   -> {"next", "clear", "delete"}

(* Goroutine h has run the statements of at least one tenant. *)
ServedOne(h) ==
  \/ handler[h].step = "dispatch"
  \/ handler[h].step = "next" /\ handler[h].todo # InitTenants

(* One tenant's statements bring the event into the tables, and those of    *)
(* the other tenants, or of another delivery, leave it there.               *)
Progress(h) ==
  /\ handler[h].step \in StepsOf(EventOf(h).kind)
  /\ handler[h].todo \subseteq InitTenants
  /\ handler[h].step # "next" =>
       handler[h].tenant \in InitTenants /\ handler[h].todo # InitTenants
  /\ handler[h].step = "add" => owner[EventOf(h).meeting] # NoTenant
  /\ ServedOne(h) => Reflects(EventOf(h))

Latest(L, is, kinds) == \E i \in is : L[i].kind \in kinds /\ \A j \in is : j <= i

(* Where all that was sent about a name, or about the start and the end of  *)
(* a meeting, was answered, the tables show the last of it.                 *)
NamesShown ==
  \A m \in Meetings, n \in Names :
    Deciding(m, n) \subseteq acked =>
      (n \in OpenNames(m) <=> Latest(log, Deciding(m, n), {"joined"}))

Opening(m) ==
  {i \in Sent : log[i].meeting = m /\ log[i].kind \in {"started", "joined", "ended"}}

ActiveShown ==
  \A m \in Meetings :
    Opening(m) \subseteq acked =>
      (owner[m] # NoTenant <=> Latest(log, Opening(m), {"started", "joined"}))

Faithful ==
  /\ Quiet
  /\ EventsInOrder
  /\ \A h \in Handlers : Busy(h) => Progress(h)
  /\ NamesShown
  /\ ActiveShown

(* The events that decide whether name n is in meeting m. *)
Touches(e, m, n) ==
  e.meeting = m /\ (e.kind = "ended" \/ (e.kind \in {"joined", "left"} /\ e.name = n))

LEMMA DecidingIs ==
  /\ \A m, n : Deciding(m, n) = {i \in Sent : Touches(log[i], m, n)}
  /\ \A m, n : Deciding(m, n)' = {i \in Sent' : Touches(log'[i], m, n)}
BY DEF Deciding, Sent, Touches

LEMMA OpenIff ==
  /\ \A m, n : n \in OpenNames(m) <=>
       \E r \in participants : r.meeting = m /\ r.left = NullTime /\ r.name = n
  /\ \A m, n : n \in OpenNames(m)' <=>
       \E r \in participants' : r.meeting = m /\ r.left = NullTime /\ r.name = n
BY DEF OpenNames

LEMMA LatestIs ==
  ASSUME NEW L, NEW is \in SUBSET Nat, NEW i \in is, \A j \in is : j <= i, NEW kinds
  PROVE  Latest(L, is, kinds) <=> L[i].kind \in kinds
BY DEF Latest

LEMMA SameLatest ==
  ASSUME NEW K, NEW L, NEW is, \A i \in is : K[i] = L[i], NEW kinds
  PROVE  Latest(K, is, kinds) <=> Latest(L, is, kinds)
BY DEF Latest

LEMMA SentIsNat == Typed => Sent \subseteq Nat /\ Sent \subseteq EventIds
BY MeetingStateAssumption DEF Typed, TypeOK, Sent, EventIds

(* Nothing fails, and nobody touches the tenants. *)
LEMMA NothingFails ==
  ASSUME Undisturbed, Quiet
  PROVE  ~StoreError /\ ~TenantStep
BY DEF Undisturbed, Quiet, StoreError, TenantStep, CreateTenant, DeleteTenant, UpdateTenant, TenantOp

LEMMA QuietStays ==
  ASSUME Undisturbed, Quiet, [Next]_vars
  PROVE  Quiet'
<1>1. UNCHANGED <<tenants, linked, tenantOps>>
  BY NothingFails
  DEF Next, ZoomStep, StartMeeting, EndMeeting, Join, Leave, Emit, Deliver, HandlerStep, NextTenant,
      Return, UpsertMeeting, AddParticipant, SetParticipantLeft, DeleteParticipantsForMeeting,
      DeleteMeeting, Statement, Dispatch, Crash, vars, tenantVars
<1>2. UNCHANGED storeErrors
  BY NothingFails
  DEF Next, ZoomStep, StartMeeting, EndMeeting, Join, Leave, Emit, Deliver, HandlerStep, NextTenant,
      Return, UpsertMeeting, AddParticipant, SetParticipantLeft, DeleteParticipantsForMeeting,
      DeleteMeeting, Statement, Dispatch, Crash, vars
<1> QED
  BY <1>1, <1>2 DEF Quiet

LEMMA InitFaithful == Init => Faithful
<1> SUFFICES ASSUME Init PROVE Faithful
  OBVIOUS
<1>1. Quiet
  BY DEF Init, Quiet
<1>2. Sent = {} /\ \A h \in Handlers : ~Busy(h)
  BY DEF Init, Sent, Busy, Idle, AtLoop
<1>3. EventsInOrder
  BY <1>2 DEF Init, EventsInOrder
<1>4. \A m \in Meetings, n \in Names : OpenNames(m) = {} /\ Deciding(m, n) = {}
  BY <1>2, DecidingIs DEF Init, OpenNames
<1>5. NamesShown
  BY <1>4 DEF NamesShown, Latest
<1>6. \A m \in Meetings : owner[m] = NoTenant /\ Opening(m) = {}
  BY <1>2 DEF Init, Opening
<1>7. ActiveShown
  BY <1>6 DEF ActiveShown, Latest
<1> QED
  BY <1>1, <1>2, <1>3, <1>5, <1>7 DEF Faithful

-----------------------------------------------------------------------------
(* Steps that leave the tables alone *)

(* Events that were not answered yet may be new. *)
LEMMA ShownStays ==
  ASSUME Faithful, UNCHANGED <<owner, participants, acked>>,
         Sent \subseteq Sent', \A i \in Sent : log'[i] = log[i]
  PROVE  NamesShown' /\ ActiveShown'
<1>0. acked \subseteq Sent
  BY DEF Faithful, EventsInOrder
<1>1. ASSUME NEW m \in Meetings, NEW n \in Names, Deciding(m, n)' \subseteq acked
      PROVE  n \in OpenNames(m)' <=> Latest(log', Deciding(m, n)', {"joined"})
  <2>1. Deciding(m, n)' = Deciding(m, n)
    BY <1>0, <1>1, DecidingIs
  <2>2. \A i \in Deciding(m, n) : log'[i] = log[i]
    BY DecidingIs
  <2>3. OpenNames(m)' = OpenNames(m)
    BY DEF OpenNames
  <2>4. n \in OpenNames(m) <=> Latest(log, Deciding(m, n), {"joined"})
    BY <1>1, <2>1 DEF Faithful, NamesShown
  <2> QED
    BY <2>1, <2>2, <2>3, <2>4, SameLatest
<1>2. ASSUME NEW m \in Meetings, Opening(m)' \subseteq acked
      PROVE  owner'[m] # NoTenant <=> Latest(log', Opening(m)', {"started", "joined"})
  <2>1. Opening(m)' = Opening(m)
    BY <1>0, <1>2 DEF Opening
  <2>2. \A i \in Opening(m) : log'[i] = log[i]
    BY DEF Opening
  <2>3. owner[m] # NoTenant <=> Latest(log, Opening(m), {"started", "joined"})
    BY <1>2, <2>1 DEF Faithful, ActiveShown
  <2> QED
    BY <2>1, <2>2, <2>3, SameLatest
<1> QED
  BY <1>1, <1>2 DEF NamesShown, ActiveShown

LEMMA ProgressStays ==
  ASSUME NEW h \in Handlers, Progress(h), handler'[h] = handler[h], EventOf(h)' = EventOf(h),
         UNCHANGED <<owner, participants>>
  PROVE  Progress(h)'
BY DEF Progress, ServedOne, Reflects, OpenNames

(* Every busy goroutine's event was sent. *)
LEMMA BusySent ==
  ASSUME Typed, NEW h \in Handlers, Busy(h)
  PROVE  handler[h].event \in Sent /\ handler[h].event \in 1..Len(log) /\ EventOf(h) \in Event
<1>1. handler[h].event \in 1..Len(log) /\ handler[h].try \in 1..delivered[handler[h].event]
  BY DEF Typed, HandlersOK
<1>2. delivered[handler[h].event] \in 0..MaxDeliveries
  BY BusyFacts DEF Typed, TypeOK
<1>3. delivered[handler[h].event] > 0
  BY <1>1, <1>2, MeetingStateAssumption
<1> QED
  BY <1>1, <1>3, BusyFacts DEF Sent

LEMMA EmitFaithful ==
  ASSUME Typed, Faithful, Quiet', NEW kind, NEW w, NEW x, Emit(kind, w, x)
  PROVE  Faithful'
<1>1. /\ UNCHANGED <<delivered, acked, owner, participants, handler>>
      /\ Len(log') = Len(log) + 1 /\ Len(log) \in Nat
      /\ \A i \in 1..Len(log) : log'[i] = log[i]
      /\ Len(log) < MaxEvents
  BY DEF Emit, tableVars, Typed, TypeOK
<1>2. Sent' = Sent
  <2>1. \A i \in EventIds : delivered[i] > 0 => i <= Len(log)
    BY DEF Faithful, EventsInOrder
  <2>2. \A i : i \in 1..Len(log') /\ delivered[i] > 0 => i \in 1..Len(log)
    BY <1>1, <2>1, MeetingStateAssumption DEF EventIds
  <2> QED
    BY <1>1, <2>2 DEF Sent
<1>3. \A i \in Sent : log'[i] = log[i]
  BY <1>1 DEF Sent
<1>4. \A h \in Handlers : Busy(h)' => Busy(h) /\ EventOf(h)' = EventOf(h)
  BY <1>1, <1>3, BusySent DEF Busy, EventOf
<1>5. EventsInOrder'
  <2>1. \A h \in Handlers : Busy(h)' => AtItsLast(h)'
    BY <1>1, <1>2, <1>3, <1>4 DEF Faithful, EventsInOrder, AtItsLast
  <2>2. \A i \in EventIds : delivered'[i] > 0 => i <= Len(log')
    BY <1>1, MeetingStateAssumption DEF Faithful, EventsInOrder, EventIds
  <2> QED
    BY <1>1, <1>2, <1>3, <2>1, <2>2 DEF Faithful, EventsInOrder
<1>6. \A h \in Handlers : Busy(h)' => Progress(h)'
  BY <1>1, <1>4, ProgressStays DEF Faithful
<1> QED
  BY <1>1, <1>2, <1>3, <1>5, <1>6, ShownStays DEF Faithful

(* A goroutine starts on the next event of its meeting, or on one sent before. *)
LEMMA DeliverFaithful ==
  ASSUME Undisturbed, Typed, Faithful, Quiet', NEW h \in Handlers, NEW i \in EventIds, Deliver(h, i)
  PROVE  Faithful'
<1> DEFINE x == AtLoop(i, delivered[i] + 1, InitTenants)
<1>1. /\ ~Busy(h) /\ i \in 1..Len(log)
      /\ delivered' = [delivered EXCEPT ![i] = @ + 1]
      /\ handler' = [handler EXCEPT ![h] = x]
      /\ UNCHANGED <<log, acked, owner, participants>>
  BY NothingFails, MeetingStateAssumption
  DEF Deliver, GetTenantByZoomAccount, Faithful, Quiet, Undisturbed, zoomVars, tableVars, EventIds,
      Typed, TypeOK
<1>2. /\ delivered \in [EventIds -> 0..MaxDeliveries] /\ handler \in [Handlers -> HandlerState]
      /\ Len(log) \in Nat /\ Len(log) <= MaxEvents
  BY DEF Typed, TypeOK
<1>3. /\ delivered'[i] > 0
      /\ \A j \in EventIds : j # i => delivered'[j] = delivered[j]
      /\ 1..Len(log) \subseteq EventIds
  BY <1>1, <1>2, MeetingStateAssumption DEF EventIds
<1>4. Sent' = Sent \cup {i}
  BY <1>1, <1>3 DEF Sent
<1>5. /\ \A j \in Sent : log[j].meeting = log[i].meeting => (j < i => j \in acked) /\ j <= i
      /\ \A g \in Handlers : Busy(g) /\ EventOf(g).meeting = log[i].meeting => handler[g].event = i
  <2>1. MayDeliver(i)
    BY DEF Deliver
  <2>2. \A j \in 1..Len(log) : log[j].meeting = log[i].meeting =>
          (j < i => j \in acked) /\ (j > i => delivered[j] = 0)
    BY <2>1 DEF MayDeliver, Undisturbed
  <2> QED
    BY <1>1, <1>2, <2>1, <2>2 DEF MayDeliver, Undisturbed, Sent
<1>6. /\ handler'[h] = x /\ x.event = i /\ x.step = "next" /\ x.todo = InitTenants
      /\ \A g \in Handlers : g # h => handler'[g] = handler[g]
  BY <1>1, <1>2 DEF AtLoop
<1> HIDE DEF x
<1>7. \A g \in Handlers : Busy(g)' /\ g # h => Busy(g) /\ EventOf(g)' = EventOf(g)
  BY <1>1, <1>6 DEF Busy, EventOf
<1>8. EventsInOrder'
  <2>1. \A j, k \in Sent' : log[j].meeting = log[k].meeting /\ j < k => j \in acked
    <3> SUFFICES ASSUME NEW j \in Sent', NEW k \in Sent', log[j].meeting = log[k].meeting, j < k
                 PROVE  j \in acked
      OBVIOUS
    <3>1. j \in Nat /\ k \in Nat
      BY <1>1, <1>2, <1>4 DEF Sent
    <3>2. CASE j \in Sent /\ k \in Sent
      BY <3>2 DEF Faithful, EventsInOrder
    <3>3. CASE k = i
      BY <1>4, <1>5, <3>1, <3>3
    <3>4. CASE j = i
      BY <1>4, <1>5, <3>1, <3>4
    <3> QED
      BY <1>4, <3>2, <3>3, <3>4
  <2>2. ASSUME NEW g \in Handlers, Busy(g)'
        PROVE  AtItsLast(g)'
    <3>1. CASE handler'[g].event = i
      <4>1. \A j \in Sent' : log[j].meeting = log[i].meeting => j <= i
        BY <1>1, <1>4, <1>5
      <4> QED
        BY <1>1, <3>1, <4>1 DEF AtItsLast, EventOf
    <3>2. CASE handler'[g].event # i
      <4>1. g # h /\ handler'[g] = handler[g] /\ Busy(g)
        BY <1>6, <1>7, <2>2, <3>2
      <4>2. EventOf(g).meeting # log[i].meeting /\ AtItsLast(g)
        BY <1>5, <3>2, <4>1 DEF Faithful, EventsInOrder
      <4> QED
        BY <1>1, <1>4, <4>1, <4>2 DEF AtItsLast, EventOf
    <3> QED
      BY <3>1, <3>2
  <2>3. \A j \in EventIds : delivered'[j] > 0 => j <= Len(log')
    <3> SUFFICES ASSUME NEW j \in EventIds, delivered'[j] > 0 PROVE j <= Len(log)
      BY <1>1
    <3>1. CASE j = i
      BY <1>1, <3>1
    <3>2. CASE j # i
      BY <1>3, <3>2 DEF Faithful, EventsInOrder
    <3> QED
      BY <3>1, <3>2
  <2> QED
    BY <1>1, <1>4, <2>1, <2>2, <2>3 DEF Faithful, EventsInOrder
<1>9. \A g \in Handlers : Busy(g)' => Progress(g)'
  <2> SUFFICES ASSUME NEW g \in Handlers, Busy(g)' PROVE Progress(g)'
    OBVIOUS
  <2>1. CASE g = h
    <3>0. log[i] \in Event
      BY <1>1 DEF Typed, TypeOK
    <3>1. log[i].kind \in Kinds /\ EventOf(g)' = log[i]
      BY <1>1, <1>6, <2>1, <3>0 DEF Event, EventOf
    <3>2. "next" \in StepsOf(log[i].kind)
      BY <3>1 DEF Kinds, StepsOf
    <3>3. ~ServedOne(g)'
      BY <1>6, <2>1 DEF ServedOne
    <3> QED
      BY <1>6, <2>1, <3>1, <3>2, <3>3 DEF Progress
  <2>2. CASE g # h
    BY <1>1, <1>6, <1>7, <2>2, ProgressStays DEF Faithful
  <2> QED
    BY <2>1, <2>2
<1> QED
  BY <1>1, <1>4, <1>8, <1>9, ShownStays DEF Faithful

(* A goroutine takes the next tenant, or has told one: it gets no further   *)
(* with the tables.                                                         *)
LEMMA MoveFaithful ==
  ASSUME Typed, Faithful, Quiet', NEW h \in Handlers, NextTenant(h) \/ Dispatch(h)
  PROVE  Faithful'
<1>1. /\ Busy(h) /\ UNCHANGED <<log, delivered, acked, owner, participants>>
      /\ \A g \in Handlers : g # h => handler'[g] = handler[g]
      /\ handler'[h].event = handler[h].event
  <2>1. handler \in [Handlers -> HandlerState]
    BY DEF Typed, TypeOK
  <2>2. CASE NextTenant(h)
    <3>1. \E t : handler' = [handler EXCEPT ![h].todo = @ \ {t}, ![h].tenant = t,
                                           ![h].step = FirstStep(EventOf(h).kind)]
      BY <2>2 DEF NextTenant
    <3> HIDE DEF FirstStep, EventOf
    <3>2. /\ handler'[h].event = handler[h].event
          /\ \A g \in Handlers : g # h => handler'[g] = handler[g]
      BY <2>1, <3>1 DEF HandlerState
    <3> QED
      BY <2>2, <3>2 DEF NextTenant, Busy, zoomVars, tableVars
  <2>3. CASE Dispatch(h)
    BY <2>1, <2>3 DEF Dispatch, Busy, zoomVars, tableVars, HandlerState
  <2> QED
    BY <2>2, <2>3
<1>2. Sent' = Sent
  BY <1>1 DEF Sent
<1>3. \A g \in Handlers : EventOf(g)' = EventOf(g) /\ (Busy(g)' => Busy(g))
  BY <1>1 DEF EventOf, Busy
<1>4. EventsInOrder'
  <2>1. \A g \in Handlers : handler'[g].event = handler[g].event
    BY <1>1
  <2> QED
    BY <1>1, <1>2, <1>3, <2>1 DEF Faithful, EventsInOrder, AtItsLast
<1>5. Progress(h)'
  <2>0. Progress(h) /\ handler \in [Handlers -> HandlerState] /\ EventOf(h).kind \in Kinds
    BY <1>1, BusyFacts DEF Faithful, Typed, TypeOK
  <2>1. CASE NextTenant(h)
    <3>1. PICK t \in handler[h].todo :
            /\ handler'[h].todo = handler[h].todo \ {t} /\ handler'[h].tenant = t
            /\ handler'[h].step = FirstStep(EventOf(h).kind)
      <4>1. PICK t \in handler[h].todo :
              handler' = [handler EXCEPT ![h].todo = @ \ {t}, ![h].tenant = t,
                                         ![h].step = FirstStep(EventOf(h).kind)]
        BY <2>1 DEF NextTenant
      <4>2. handler[h] \in HandlerState
        BY <2>0
      <4> QED
        BY <2>0, <4>1, <4>2 DEF HandlerState
    <3>2. t \in InitTenants /\ handler'[h].todo \subseteq InitTenants /\ handler'[h].todo # InitTenants
      BY <2>0, <3>1 DEF Progress
    <3>3. /\ handler'[h].step \in StepsOf(EventOf(h).kind)
          /\ handler'[h].step \notin {"next", "dispatch", "add"}
      BY <2>0, <3>1 DEF FirstStep, StepsOf, Kinds
    <3> QED
      BY <1>3, <3>1, <3>2, <3>3 DEF Progress, ServedOne
  <2>2. CASE Dispatch(h)
    <3>1. /\ handler[h].step = "dispatch" /\ handler'[h].step = "next"
          /\ handler'[h].todo = handler[h].todo
      BY <2>0, <2>2 DEF Dispatch, HandlerState
    <3>2. Reflects(EventOf(h))
      BY <2>0, <3>1 DEF Progress, ServedOne
    <3>3. Reflects(EventOf(h))'
      BY <1>1, <1>3, <3>2 DEF Reflects, OpenNames
    <3>4. "next" \in StepsOf(EventOf(h).kind)
      BY <2>0 DEF StepsOf, Kinds
    <3> QED
      BY <1>3, <2>0, <3>1, <3>3, <3>4 DEF Progress
  <2> QED
    BY <2>1, <2>2
<1>6. \A g \in Handlers : Busy(g)' => Progress(g)'
  BY <1>1, <1>3, <1>5, ProgressStays DEF Faithful
<1> QED
  BY <1>1, <1>2, <1>4, <1>6, ShownStays DEF Faithful

(* The goroutines that were working are gone; what they had not finished    *)
(* was not answered.                                                        *)
LEMMA CrashFaithful ==
  ASSUME Faithful, Quiet', Crash
  PROVE  Faithful'
<1>1. UNCHANGED <<log, delivered, acked, owner, participants>> /\ \A h \in Handlers : ~Busy(h)'
  BY IdleTyped DEF Crash, zoomVars, tableVars, Busy
<1>2. Sent' = Sent
  BY <1>1 DEF Sent
<1>3. EventsInOrder'
  BY <1>1, <1>2 DEF Faithful, EventsInOrder
<1> QED
  BY <1>1, <1>2, <1>3, ShownStays DEF Faithful

(* The event is answered when it is in the tables, and it is the last one   *)
(* sent of its meeting.                                                     *)
LEMMA ReturnFaithful ==
  ASSUME Undisturbed, Typed, NoOrphans, Faithful, Quiet', NEW h \in Handlers, Return(h)
  PROVE  Faithful'
<1> DEFINE i == handler[h].event
           e == EventOf(h)
<1>1. /\ Busy(h) /\ handler[h].step = "next" /\ handler[h].todo = {}
      /\ UNCHANGED <<log, delivered, owner, participants>> /\ acked' = acked \cup {i}
      /\ \A g \in Handlers : Busy(g)' => Busy(g) /\ handler'[g] = handler[g] /\ EventOf(g)' = EventOf(g)
  BY IdleTyped DEF Return, Busy, EventOf, zoomVars, tableVars, Typed, TypeOK
<1>2. i \in Sent /\ e \in Event /\ e = log[i]
  BY <1>1, BusySent DEF EventOf
<1>3. /\ AtItsLast(h) /\ Reflects(e)
  BY <1>1 DEF Faithful, EventsInOrder, Progress, ServedOne, Undisturbed
<1>4. Sent' = Sent
  BY <1>1 DEF Sent
<1>5. EventsInOrder'
  BY <1>1, <1>2, <1>4 DEF Faithful, EventsInOrder, AtItsLast
<1>6. ASSUME NEW m \in Meetings, NEW n \in Names, Deciding(m, n) \subseteq acked'
      PROVE  n \in OpenNames(m) <=> Latest(log, Deciding(m, n), {"joined"})
  <2>1. CASE i \in Deciding(m, n)
    <3>1. Touches(e, m, n)
      BY <1>2, <2>1, DecidingIs
    <3>2. \A j \in Deciding(m, n) : j <= i
      BY <1>3, <3>1, DecidingIs DEF AtItsLast, Touches
    <3>3. Latest(log, Deciding(m, n), {"joined"}) <=> e.kind = "joined"
      <4>1. Deciding(m, n) \in SUBSET Nat
        BY SentIsNat, DecidingIs
      <4>2. Latest(log, Deciding(m, n), {"joined"}) <=> log[i].kind \in {"joined"}
        BY <2>1, <3>2, <4>1, LatestIs
      <4> QED
        BY <1>2, <4>2
    <3>4. e.kind = "ended" => n \notin OpenNames(m)
      BY <1>3, <3>1, OpenIff DEF Reflects, NoOrphans, Touches
    <3>5. e.kind = "joined" => n \in OpenNames(m)
      BY <1>3, <3>1 DEF Reflects, Touches
    <3>6. e.kind = "left" => n \notin OpenNames(m)
      BY <1>3, <3>1 DEF Reflects, Touches
    <3> QED
      BY <3>1, <3>3, <3>4, <3>5, <3>6 DEF Touches
  <2>2. CASE i \notin Deciding(m, n)
    BY <1>1, <1>6, <2>2 DEF Faithful, NamesShown
  <2> QED
    BY <2>1, <2>2
<1>7. ASSUME NEW m \in Meetings, Opening(m) \subseteq acked'
      PROVE  owner[m] # NoTenant <=> Latest(log, Opening(m), {"started", "joined"})
  <2>1. CASE i \in Opening(m)
    <3>1. e.meeting = m /\ e.kind \in {"started", "joined", "ended"}
      BY <1>2, <2>1 DEF Opening
    <3>2. \A j \in Opening(m) : j <= i
      BY <1>3, <3>1 DEF AtItsLast, Opening
    <3>3. Latest(log, Opening(m), {"started", "joined"}) <=> e.kind \in {"started", "joined"}
      <4>1. Opening(m) \in SUBSET Nat
        BY SentIsNat DEF Opening
      <4>2. Latest(log, Opening(m), {"started", "joined"}) <=> log[i].kind \in {"started", "joined"}
        BY <2>1, <3>2, <4>1, LatestIs
      <4> QED
        BY <1>2, <4>2
    <3> QED
      BY <1>3, <3>1, <3>3 DEF Reflects
  <2>2. CASE i \notin Opening(m)
    BY <1>1, <1>7, <2>2 DEF Faithful, ActiveShown
  <2> QED
    BY <2>1, <2>2
<1>8. NamesShown' /\ ActiveShown'
  <2>1. \A m : OpenNames(m)' = OpenNames(m) /\ Opening(m)' = Opening(m)
    BY <1>1, <1>4 DEF OpenNames, Opening
  <2>2. \A m, n : Deciding(m, n)' = Deciding(m, n)
    BY <1>1, <1>4, DecidingIs
  <2> QED
    BY <1>1, <1>6, <1>7, <2>1, <2>2 DEF NamesShown, ActiveShown
<1>9. \A g \in Handlers : Busy(g)' => Progress(g)'
  BY <1>1, ProgressStays DEF Faithful
<1> QED
  BY <1>5, <1>8, <1>9 DEF Faithful

-----------------------------------------------------------------------------
(* The statements *)

(* What the statements of event e do to the tables. *)
Moves(e) ==
  /\ \A m \in Meetings \ {e.meeting} : owner'[m] = owner[m]
  /\ e.kind \in {"started", "joined"} /\ owner[e.meeting] # NoTenant => owner'[e.meeting] # NoTenant
  /\ e.kind = "left" => owner' = owner
  /\ e.kind = "ended" /\ owner[e.meeting] = NoTenant => owner'[e.meeting] = NoTenant
  /\ \A m \in Meetings, n \in Names :
       /\ ~Touches(e, m, n) => (n \in OpenNames(m)' <=> n \in OpenNames(m))
       /\ Touches(e, m, n) /\ e.kind = "joined" => (n \in OpenNames(m) => n \in OpenNames(m)')
       /\ Touches(e, m, n) /\ e.kind # "joined" => (n \in OpenNames(m)' => n \in OpenNames(m))

(* Such a step keeps what was shown: the event is the last of its meeting,  *)
(* and every goroutine at the meeting works on it.                          *)
LEMMA MovesKeep ==
  ASSUME Typed, Faithful, Quiet', NEW h \in Handlers, Busy(h), Moves(EventOf(h)), Progress(h)',
         UNCHANGED <<log, delivered, acked>>,
         handler'[h].event = handler[h].event,
         \A g \in Handlers : g # h => handler'[g] = handler[g]
  PROVE  Faithful'
<1> DEFINE i == handler[h].event
           e == EventOf(h)
<1>1. i \in Sent /\ e \in Event /\ e = log[i] /\ AtItsLast(h)
  BY BusySent DEF EventOf, Faithful, EventsInOrder
<1>2. Sent' = Sent
  BY DEF Sent
<1>3. \A g \in Handlers : EventOf(g)' = EventOf(g) /\ (Busy(g)' => Busy(g))
  BY DEF EventOf, Busy
<1>4. EventsInOrder'
  <2>1. \A g \in Handlers : handler'[g].event = handler[g].event
    OBVIOUS
  <2> QED
    BY <1>2, <1>3, <2>1 DEF Faithful, EventsInOrder, AtItsLast
<1>5. ASSUME NEW m \in Meetings, NEW n \in Names, Deciding(m, n) \subseteq acked
      PROVE  n \in OpenNames(m)' <=> Latest(log, Deciding(m, n), {"joined"})
  <2>0. n \in OpenNames(m) <=> Latest(log, Deciding(m, n), {"joined"})
    BY <1>5 DEF Faithful, NamesShown
  <2>1. CASE Touches(e, m, n)
    <3>1. i \in Deciding(m, n) /\ \A j \in Deciding(m, n) : j <= i
      BY <1>1, <2>1, DecidingIs DEF AtItsLast, Touches
    <3>2. Latest(log, Deciding(m, n), {"joined"}) <=> e.kind = "joined"
      <4>1. Deciding(m, n) \in SUBSET Nat
        BY SentIsNat, DecidingIs
      <4>2. Latest(log, Deciding(m, n), {"joined"}) <=> log[i].kind \in {"joined"}
        BY <3>1, <4>1, LatestIs
      <4> QED
        BY <1>1, <4>2
    <3> QED
      BY <2>0, <2>1, <3>2 DEF Moves
  <2>2. CASE ~Touches(e, m, n)
    BY <2>0, <2>2 DEF Moves
  <2> QED
    BY <2>1, <2>2
<1>6. ASSUME NEW m \in Meetings, Opening(m) \subseteq acked
      PROVE  owner'[m] # NoTenant <=> Latest(log, Opening(m), {"started", "joined"})
  <2>0. owner[m] # NoTenant <=> Latest(log, Opening(m), {"started", "joined"})
    BY <1>6 DEF Faithful, ActiveShown
  <2>1. CASE e.meeting = m /\ e.kind # "left"
    <3>1. e.kind \in {"started", "joined", "ended"}
      BY <1>1, <2>1 DEF Event, Kinds
    <3>2. i \in Opening(m) /\ \A j \in Opening(m) : j <= i
      BY <1>1, <2>1, <3>1 DEF AtItsLast, Opening
    <3>3. Latest(log, Opening(m), {"started", "joined"}) <=> e.kind \in {"started", "joined"}
      <4>1. Opening(m) \in SUBSET Nat
        BY SentIsNat DEF Opening
      <4>2. Latest(log, Opening(m), {"started", "joined"}) <=> log[i].kind \in {"started", "joined"}
        BY <3>2, <4>1, LatestIs
      <4> QED
        BY <1>1, <4>2
    <3> QED
      BY <2>0, <2>1, <3>1, <3>3 DEF Moves
  <2>2. CASE e.meeting # m \/ e.kind = "left"
    BY <2>0, <2>2 DEF Moves
  <2> QED
    BY <2>1, <2>2
<1>7. NamesShown' /\ ActiveShown'
  <2>1. \A m : Opening(m)' = Opening(m)
    BY <1>2 DEF Opening
  <2>2. \A m, n : Deciding(m, n)' = Deciding(m, n)
    BY <1>2, DecidingIs
  <2> QED
    BY <1>5, <1>6, <2>1, <2>2 DEF NamesShown, ActiveShown
<1>8. ASSUME NEW g \in Handlers, Busy(g), g # h
      PROVE  Progress(g)'
  <2>1. Progress(g) /\ handler'[g] = handler[g] /\ EventOf(g)' = EventOf(g) /\ EventOf(g) \in Event
    BY <1>3, <1>8, BusySent DEF Faithful
  <2>2. /\ handler'[g].step \in StepsOf(EventOf(g)'.kind)
        /\ handler'[g].todo \subseteq InitTenants
        /\ handler'[g].step # "next" =>
             handler'[g].tenant \in InitTenants /\ handler'[g].todo # InitTenants
    BY <2>1 DEF Progress
  <2>3. ServedOne(g)' <=> ServedOne(g)
    BY <2>1 DEF ServedOne
  <2>4. CASE EventOf(g).meeting = e.meeting
    <3>1. EventOf(g) = e
      <4>1. handler[g].event \in Sent /\ AtItsLast(g) /\ log[handler[g].event] = EventOf(g)
        BY <1>8, BusySent DEF Faithful, EventsInOrder, EventOf
      <4>2. handler[g].event <= i /\ i <= handler[g].event
        BY <1>1, <2>4, <4>1 DEF AtItsLast
      <4> QED
        BY <1>1, <4>1, <4>2, SentIsNat
    <3>2. Touches(e, e.meeting, e.name) <=> e.kind # "started"
      BY <1>1 DEF Touches, Event, Kinds
    <3>3. Reflects(e) => Reflects(e)'
      BY <1>1, <1>3, <3>2 DEF Reflects, Moves, Event
    <3>4. owner[e.meeting] # NoTenant /\ e.kind = "joined" => owner'[e.meeting] # NoTenant
      BY DEF Moves
    <3>5. handler[g].step = "add" => e.kind = "joined"
      BY <1>8, <3>1 DEF Typed, HandlersOK
    <3>6. handler'[g].step = "add" => owner'[EventOf(g)'.meeting] # NoTenant
      BY <2>1, <3>1, <3>4, <3>5 DEF Progress
    <3>7. Reflects(EventOf(g)) => Reflects(EventOf(g))'
      BY <1>3, <3>1, <3>3 DEF Reflects
    <3>8. ServedOne(g)' => Reflects(EventOf(g))'
      BY <2>1, <2>3, <3>7 DEF Progress
    <3> QED
      BY <2>2, <3>6, <3>8 DEF Progress
  <2>5. CASE EventOf(g).meeting # e.meeting
    <3>1. /\ EventOf(g).meeting \in Meetings /\ EventOf(g).name \in Names
          /\ ~Touches(e, EventOf(g).meeting, EventOf(g).name)
      BY <2>1, <2>5 DEF Event, Touches
    <3>2. Reflects(EventOf(g)) => Reflects(EventOf(g))'
      BY <2>1, <2>5, <3>1 DEF Reflects, Moves
    <3>3. owner'[EventOf(g).meeting] = owner[EventOf(g).meeting]
      BY <2>5, <3>1 DEF Moves
    <3>4. handler'[g].step = "add" => owner'[EventOf(g)'.meeting] # NoTenant
      BY <2>1, <3>3 DEF Progress
    <3>5. ServedOne(g)' => Reflects(EventOf(g))'
      BY <2>1, <2>3, <3>2 DEF Progress
    <3> QED
      BY <2>2, <3>4, <3>5 DEF Progress
  <2> QED
    BY <2>4, <2>5
<1> QED
  BY <1>3, <1>4, <1>7, <1>8 DEF Faithful

(* The goroutine that runs a statement, and the step it takes next. *)
LEMMA StatementRuns ==
  ASSUME Undisturbed, Typed, Faithful, NEW h \in Handlers, Busy(h), NEW s,
         handler' = [handler EXCEPT ![h].step = s]
  PROVE  /\ handler'[h].event = handler[h].event /\ handler'[h].step = s
         /\ handler'[h].tenant = handler[h].tenant /\ handler'[h].todo = handler[h].todo
         /\ \A g \in Handlers : g # h => handler'[g] = handler[g]
<1>1. handler \in [Handlers -> HandlerState] /\ handler[h] \in HandlerState
  BY DEF Typed, TypeOK
<1> QED
  BY <1>1 DEF HandlerState

(* It comes to a step where the event is shown, or has further to go. *)
LEMMA Progresses ==
  ASSUME Typed, NEW h \in Handlers, Progress(h), handler[h].step # "next",
         log' = log, handler'[h].event = handler[h].event,
         handler'[h].tenant = handler[h].tenant, handler'[h].todo = handler[h].todo,
         handler'[h].step \in StepsOf(EventOf(h).kind),
         handler'[h].step = "add" => owner'[EventOf(h).meeting] # NoTenant,
         handler'[h].step \in {"next", "dispatch"} => Reflects(EventOf(h))'
  PROVE  Progress(h)'
<1>1. EventOf(h)' = EventOf(h)
  BY DEF EventOf
<1>2. /\ handler'[h].step \in StepsOf(EventOf(h)'.kind)
      /\ handler'[h].todo \subseteq InitTenants
      /\ handler'[h].tenant \in InitTenants /\ handler'[h].todo # InitTenants
      /\ handler'[h].step = "add" => owner'[EventOf(h)'.meeting] # NoTenant
  BY <1>1 DEF Progress
<1>3. ServedOne(h)' => Reflects(EventOf(h))'
  BY DEF ServedOne
<1> QED
  BY <1>2, <1>3 DEF Progress

(* Each statement, without its tenant and its rows. *)
Opens(e) ==
  /\ e.kind \in {"started", "joined"}
  /\ owner'[e.meeting] # NoTenant
  /\ \A m \in Meetings \ {e.meeting} : owner'[m] = owner[m]
  /\ \A m : OpenNames(m)' = OpenNames(m)

Enters(e) ==
  /\ e.kind = "joined" /\ owner[e.meeting] # NoTenant
  /\ owner' = owner
  /\ \A m, n : n \in OpenNames(m)' <=> n \in OpenNames(m) \/ (m = e.meeting /\ n = e.name)

Quits(e) ==
  /\ e.kind = "left"
  /\ owner' = owner
  /\ \A m, n : n \in OpenNames(m)' <=> n \in OpenNames(m) /\ ~(m = e.meeting /\ n = e.name)

Ends(e) ==
  /\ e.kind = "ended"
  /\ owner' = owner \/ owner'[e.meeting] = NoTenant
  /\ \A m \in Meetings \ {e.meeting} : owner'[m] = owner[m]
  /\ \A m, n : n \in OpenNames(m)' <=> n \in OpenNames(m) /\ m # e.meeting

LEMMA UpsertEffect ==
  ASSUME Undisturbed, Typed, Faithful, NEW h \in Handlers, UpsertMeeting(h)
  PROVE  Busy(h) /\ Opens(EventOf(h)) /\ UNCHANGED <<log, delivered, acked>>
<1> DEFINE e == EventOf(h)
<1>1. /\ Busy(h) /\ handler[h].step = "upsert"
      /\ UNCHANGED <<log, delivered, acked>>
  BY DEF UpsertMeeting, Statement, Busy, zoomVars
<1>2. /\ Progress(h) /\ e \in Event /\ ~StoreError
      /\ tenants = InitTenants /\ InitTenants \subseteq Tenants
  BY <1>1, BusySent, NothingFails, MeetingStateAssumption DEF Faithful, Quiet
<1>3. e.kind \in {"started", "joined"} /\ handler[h].tenant \in InitTenants
  BY <1>1, <1>2 DEF Progress, StepsOf, Event, Kinds
<1>4. InsertOrUpdate(e.meeting, handler[h].tenant)
  BY <1>2 DEF UpsertMeeting, Statement
<1>5. /\ participants' = participants /\ owner'[e.meeting] # NoTenant
      /\ \A m \in Meetings \ {e.meeting} : owner'[m] = owner[m]
  BY <1>2, <1>3, <1>4, MeetingStateAssumption DEF InsertOrUpdate, Typed, TypeOK, Event
<1> QED
  BY <1>1, <1>3, <1>5 DEF Opens, OpenNames

LEMMA AddEffect ==
  ASSUME Undisturbed, Typed, Faithful, NEW h \in Handlers, AddParticipant(h)
  PROVE  Busy(h) /\ Enters(EventOf(h)) /\ UNCHANGED <<log, delivered, acked>>
<1> DEFINE e == EventOf(h)
           r == [id |-> lastId + 1, meeting |-> e.meeting, name |-> e.name, left |-> NullTime]
<1>1. /\ Busy(h) /\ handler[h].step = "add"
      /\ UNCHANGED <<log, delivered, acked>>
  BY DEF AddParticipant, Statement, Busy, zoomVars
<1>2. e.kind = "joined" /\ owner[e.meeting] # NoTenant
  BY <1>1 DEF Faithful, Progress, Typed, HandlersOK
<1>3. InsertRow(e.meeting, e.name)
  BY NothingFails DEF AddParticipant, Statement, Faithful
<1>4. owner' = owner /\ participants' = participants \cup {r}
  BY <1>2, <1>3 DEF InsertRow
<1>5. r.meeting = e.meeting /\ r.name = e.name /\ r.left = NullTime
  OBVIOUS
<1> HIDE DEF r
<1>6. \A m, n : n \in OpenNames(m)' <=> n \in OpenNames(m) \/ (m = e.meeting /\ n = e.name)
  BY <1>4, <1>5, OpenIff
<1> QED
  BY <1>1, <1>2, <1>4, <1>6 DEF Enters

LEMMA MarkEffect ==
  ASSUME Undisturbed, Typed, Faithful, NEW h \in Handlers, SetParticipantLeft(h)
  PROVE  Busy(h) /\ Quits(EventOf(h)) /\ UNCHANGED <<log, delivered, acked>>
<1> DEFINE e == EventOf(h)
           i == handler[h].event
<1>1. /\ Busy(h) /\ handler[h].step = "mark"
      /\ UNCHANGED <<log, delivered, acked>>
  BY DEF SetParticipantLeft, Statement, Busy, zoomVars
<1>2. e.kind = "left" /\ i # NullTime
  BY <1>1, BusySent DEF Typed, HandlersOK, NullTime
<1>3. MarkRows(e.meeting, e.name, i)
  BY NothingFails DEF SetParticipantLeft, Statement, Faithful
<1>4. \A m, n : n \in OpenNames(m)' <=> n \in OpenNames(m) /\ ~(m = e.meeting /\ n = e.name)
  <2>1. \A q \in participants :
          LET r == MarkRow(q, e.meeting, e.name, i)
          IN  /\ r.meeting = q.meeting /\ r.name = q.name
              /\ r.left = NullTime <=>
                   q.left = NullTime /\ ~(q.meeting = e.meeting /\ q.name = e.name)
    BY <1>2 DEF MarkRow, Typed, TypeOK, Row
  <2>2. participants' = {MarkRow(q, e.meeting, e.name, i) : q \in participants}
    BY <1>3 DEF MarkRows
  <2> HIDE DEF e, i
  <2>3. ASSUME NEW m, NEW n
        PROVE  (\E r \in participants' : r.meeting = m /\ r.left = NullTime /\ r.name = n) <=>
               (\E q \in participants : /\ q.meeting = m /\ q.left = NullTime /\ q.name = n
                                        /\ ~(q.meeting = e.meeting /\ q.name = e.name))
    BY <2>1, <2>2
  <2> QED
    BY <2>3, OpenIff
<1> QED
  BY <1>1, <1>2, <1>3, <1>4 DEF MarkRows, Quits

(* Both statements of an end: the participants, then the meeting. *)
LEMMA EndEffect ==
  ASSUME Undisturbed, Typed, Faithful, NEW h \in Handlers,
         DeleteParticipantsForMeeting(h) \/ DeleteMeeting(h)
  PROVE  /\ Busy(h) /\ Ends(EventOf(h)) /\ UNCHANGED <<log, delivered, acked>>
         /\ DeleteMeeting(h) => owner'[EventOf(h).meeting] = NoTenant
<1> DEFINE e == EventOf(h)
<1>1. /\ Busy(h) /\ handler[h].step \in {"clear", "delete"}
      /\ UNCHANGED <<log, delivered, acked>>
  BY DEF DeleteParticipantsForMeeting, DeleteMeeting, Statement, Busy, zoomVars
<1>2. Progress(h) /\ e \in Event /\ ~StoreError
  BY <1>1, BusySent, NothingFails DEF Faithful
<1>3. e.kind = "ended"
  BY <1>1, <1>2 DEF Progress, StepsOf, Event, Kinds
<1>4. /\ participants' = participants \ RowsOf({e.meeting})
      /\ \/ DeleteParticipantsForMeeting(h) /\ owner' = owner
         \/ owner' = [m \in Meetings |-> IF m \in {e.meeting} THEN NoTenant ELSE owner[m]]
  BY <1>2 DEF DeleteParticipantsForMeeting, DeleteMeeting, Statement, DeleteRows, DeleteCascade
<1>5. DeleteMeeting(h) => ~DeleteParticipantsForMeeting(h)
  BY DEF DeleteParticipantsForMeeting, DeleteMeeting, Statement
<1>6. \A m, n : n \in OpenNames(m)' <=> n \in OpenNames(m) /\ m # e.meeting
  BY <1>4, OpenIff DEF RowsOf
<1>7. /\ owner' = owner \/ owner'[e.meeting] = NoTenant
      /\ \A m \in Meetings \ {e.meeting} : owner'[m] = owner[m]
      /\ DeleteMeeting(h) => owner'[e.meeting] = NoTenant
  BY <1>2, <1>4, <1>5 DEF Event
<1> QED
  BY <1>1, <1>3, <1>6, <1>7 DEF Ends

LEMMA EffectMoves ==
  ASSUME NEW e, Opens(e) \/ Enters(e) \/ Quits(e) \/ Ends(e)
  PROVE  Moves(e)
<1>1. CASE Opens(e)
  BY <1>1 DEF Opens, Moves
<1>2. CASE Enters(e)
  BY <1>2 DEF Enters, Moves, Touches
<1>3. CASE Quits(e)
  BY <1>3 DEF Quits, Moves, Touches
<1>4. CASE Ends(e)
  BY <1>4 DEF Ends, Moves, Touches
<1> QED
  BY <1>1, <1>2, <1>3, <1>4

LEMMA UpsertFaithful ==
  ASSUME Undisturbed, Typed, Faithful, Quiet', NEW h \in Handlers, UpsertMeeting(h)
  PROVE  Faithful'
<1> DEFINE e == EventOf(h)
           s == IF e.kind = "joined" THEN "add" ELSE "next"
<1>1. /\ Busy(h) /\ handler[h].step = "upsert" /\ handler' = [handler EXCEPT ![h].step = s]
      /\ UNCHANGED <<log, delivered, acked>> /\ Progress(h)
  BY DEF UpsertMeeting, Statement, Busy, zoomVars, Faithful
<1>2. /\ handler'[h].event = handler[h].event /\ handler'[h].step = s
      /\ handler'[h].tenant = handler[h].tenant /\ handler'[h].todo = handler[h].todo
      /\ \A g \in Handlers : g # h => handler'[g] = handler[g]
  <2> HIDE DEF s
  <2> QED
    BY <1>1, StatementRuns
<1>3. Opens(e) /\ Moves(e)
  BY UpsertEffect, EffectMoves
<1>4. Progress(h)'
  <2>1. s = "next" => e.kind = "started"
    BY <1>3 DEF Opens
  <2>2. s \in StepsOf(e.kind) /\ s \in {"next", "add"}
    BY <1>3 DEF StepsOf, Opens
  <2>3. e.kind = "started" => Reflects(e)'
    BY <1>1, <1>2, <1>3 DEF Reflects, EventOf, Opens
  <2>4. owner'[e.meeting] # NoTenant
    BY <1>3 DEF Opens
  <2> HIDE DEF s, e
  <2>5. handler'[h].step \in {"next", "dispatch"} => Reflects(e)'
    BY <1>2, <2>1, <2>2, <2>3
  <2> QED
    BY <1>1, <1>2, <2>2, <2>4, <2>5, Progresses DEF e
<1> QED
  BY <1>1, <1>2, <1>3, <1>4, MovesKeep

LEMMA AddFaithful ==
  ASSUME Undisturbed, Typed, Faithful, Quiet', NEW h \in Handlers, AddParticipant(h)
  PROVE  Faithful'
<1> DEFINE e == EventOf(h)
<1>1. /\ Busy(h) /\ handler[h].step = "add" /\ handler' = [handler EXCEPT ![h].step = "dispatch"]
      /\ UNCHANGED <<log, delivered, acked>> /\ Progress(h)
  BY DEF AddParticipant, Statement, Busy, zoomVars, Faithful
<1>2. /\ handler'[h].event = handler[h].event /\ handler'[h].step = "dispatch"
      /\ handler'[h].tenant = handler[h].tenant /\ handler'[h].todo = handler[h].todo
      /\ \A g \in Handlers : g # h => handler'[g] = handler[g]
  BY <1>1, StatementRuns
<1>3. Enters(e) /\ Moves(e)
  BY AddEffect, EffectMoves
<1>4. Reflects(e)' /\ "dispatch" \in StepsOf(e.kind)
  BY <1>1, <1>2, <1>3 DEF Reflects, EventOf, Enters, StepsOf
<1>5. Progress(h)'
  <2> HIDE DEF e
  <2> QED
    BY <1>1, <1>2, <1>4, Progresses DEF e
<1> QED
  BY <1>1, <1>2, <1>3, <1>5, MovesKeep

LEMMA MarkFaithful ==
  ASSUME Undisturbed, Typed, Faithful, Quiet', NEW h \in Handlers, SetParticipantLeft(h)
  PROVE  Faithful'
<1> DEFINE e == EventOf(h)
<1>1. /\ Busy(h) /\ handler[h].step = "mark" /\ handler' = [handler EXCEPT ![h].step = "dispatch"]
      /\ UNCHANGED <<log, delivered, acked>> /\ Progress(h)
  BY DEF SetParticipantLeft, Statement, Busy, zoomVars, Faithful
<1>2. /\ handler'[h].event = handler[h].event /\ handler'[h].step = "dispatch"
      /\ handler'[h].tenant = handler[h].tenant /\ handler'[h].todo = handler[h].todo
      /\ \A g \in Handlers : g # h => handler'[g] = handler[g]
  BY <1>1, StatementRuns
<1>3. Quits(e) /\ Moves(e)
  BY MarkEffect, EffectMoves
<1>4. Reflects(e)' /\ "dispatch" \in StepsOf(e.kind)
  BY <1>1, <1>2, <1>3 DEF Reflects, EventOf, Quits, StepsOf
<1>5. Progress(h)'
  <2> HIDE DEF e
  <2> QED
    BY <1>1, <1>2, <1>4, Progresses DEF e
<1> QED
  BY <1>1, <1>2, <1>3, <1>5, MovesKeep

LEMMA EndFaithful ==
  ASSUME Undisturbed, Typed, Faithful, Quiet', NEW h \in Handlers,
         DeleteParticipantsForMeeting(h) \/ DeleteMeeting(h)
  PROVE  Faithful'
<1> DEFINE e == EventOf(h)
           s == IF handler[h].step = "clear" THEN "delete" ELSE "next"
<1>1. /\ Busy(h) /\ handler[h].step \in {"clear", "delete"}
      /\ handler' = [handler EXCEPT ![h].step = s]
      /\ UNCHANGED <<log, delivered, acked>> /\ Progress(h)
      /\ s = "next" => DeleteMeeting(h)
  BY DEF DeleteParticipantsForMeeting, DeleteMeeting, Statement, Busy, zoomVars, Faithful
<1>2. /\ handler'[h].event = handler[h].event /\ handler'[h].step = s
      /\ handler'[h].tenant = handler[h].tenant /\ handler'[h].todo = handler[h].todo
      /\ \A g \in Handlers : g # h => handler'[g] = handler[g]
  <2> HIDE DEF s
  <2> QED
    BY <1>1, StatementRuns
<1>3. Ends(e) /\ Moves(e) /\ (s = "next" => owner'[e.meeting] = NoTenant)
  BY <1>1, EndEffect, EffectMoves
<1>4. Progress(h)'
  <2>1. s \in StepsOf(e.kind) /\ s \in {"next", "delete"}
    BY <1>3 DEF StepsOf, Ends
  <2>2. s = "next" => Reflects(e)'
    BY <1>1, <1>2, <1>3 DEF Reflects, EventOf, Ends
  <2> HIDE DEF s, e
  <2>3. handler'[h].step \in {"next", "dispatch"} => Reflects(e)'
    BY <1>2, <2>1, <2>2
  <2> QED
    BY <1>1, <1>2, <2>1, <2>3, Progresses DEF e
<1> QED
  BY <1>1, <1>2, <1>3, <1>4, MovesKeep

LEMMA NextFaithful ==
  ASSUME Undisturbed
  PROVE  Typed /\ NoOrphans /\ Faithful /\ [Next]_vars => Faithful'
<1> SUFFICES ASSUME Typed, NoOrphans, Faithful, [Next]_vars PROVE Faithful'
  OBVIOUS
<1>0. Quiet' /\ ~TenantStep
  BY QuietStays, NothingFails DEF Faithful
<1>1. CASE ZoomStep
  <2>1. \E kind, w, x : Emit(kind, w, x)
    BY <1>1 DEF ZoomStep, StartMeeting, EndMeeting, Join, Leave
  <2> QED
    BY <1>0, <2>1, EmitFaithful
<1>2. CASE \E h \in Handlers, i \in EventIds : Deliver(h, i)
  BY <1>0, <1>2, DeliverFaithful
<1>3. CASE \E h \in Handlers : HandlerStep(h)
  BY <1>0, <1>3, MoveFaithful, ReturnFaithful, UpsertFaithful, AddFaithful, MarkFaithful, EndFaithful
  DEF HandlerStep
<1>4. CASE Crash
  BY <1>0, <1>4, CrashFaithful
<1>5. CASE UNCHANGED vars
  <2>1. UNCHANGED <<log, delivered, acked, owner, participants, handler>>
    BY <1>5 DEF vars, zoomVars, tableVars
  <2>2. Sent' = Sent
    BY <2>1 DEF Sent
  <2>3. EventsInOrder'
    BY <2>1, <2>2 DEF Faithful, EventsInOrder, AtItsLast, Busy, EventOf
  <2>4. \A h \in Handlers : Busy(h)' => Progress(h)'
    BY <2>1, ProgressStays DEF Faithful, Busy, EventOf
  <2> QED
    BY <1>0, <2>1, <2>2, <2>3, <2>4, ShownStays DEF Faithful
<1> QED
  BY <1>0, <1>1, <1>2, <1>3, <1>4, <1>5 DEF Next

(* Undisturbed, the tables always show the last of what was answered about  *)
(* each name and each meeting; only what is still being worked on may be    *)
(* missing.                                                                 *)
THEOREM TablesAreFaithful ==
  ASSUME Undisturbed
  PROVE  Spec => []Faithful
<1>1. Init => Faithful
  BY InitFaithful
<1>2. Typed /\ NoOrphans /\ Faithful /\ [Next]_vars => Faithful'
  BY NextFaithful
<1> QED
  BY <1>1, <1>2, AlwaysTyped, ReferentialIntegrity, PTL DEF Spec

-----------------------------------------------------------------------------
(* What the log says of Zoom, when no meeting was running before it began   *)
(* and each person has a name of their own.                                 *)

NoneBefore == InitRunning = {}

NamesDiffer == \A p, q \in Persons : NameOf[p] = NameOf[q] => p = q

AboutName(L, m, n) == {i \in 1..Len(L) : Touches(L[i], m, n)}

AboutMeeting(L, m) ==
  {i \in 1..Len(L) : L[i].meeting = m /\ L[i].kind \in {"started", "joined", "ended"}}

(* The last event of a person in a meeting says whether they are in it, and *)
(* the last start, join or end of a meeting whether it runs.                *)
LogTellsAll ==
  /\ \A m \in Meetings :
       m \in running <=> Latest(log, AboutMeeting(log, m), {"started", "joined"})
  /\ \A m \in Meetings, p \in Persons :
       p \in inRoom[m] <=> Latest(log, AboutName(log, m, NameOf[p]), {"joined"})
  /\ \A i \in 1..Len(log) : log[i].kind = "joined" => \E p \in Persons : log[i].name = NameOf[p]

LEMMA AppendFacts ==
  ASSUME NEW L \in Seq(Event), NEW e \in Event
  PROVE  /\ Len(L) \in Nat /\ Len(Append(L, e)) = Len(L) + 1
         /\ \A i \in 1..Len(L) : Append(L, e)[i] = L[i] /\ i < Len(L) + 1
         /\ Append(L, e)[Len(L) + 1] = e
         /\ 1..(Len(L) + 1) = (1..Len(L)) \cup {Len(L) + 1}
OBVIOUS

LEMMA LatestAboutName ==
  ASSUME NEW L \in Seq(Event), NEW e \in Event, NEW m, NEW n, NEW kinds
  PROVE  Latest(Append(L, e), AboutName(Append(L, e), m, n), kinds) <=>
           IF Touches(e, m, n) THEN e.kind \in kinds ELSE Latest(L, AboutName(L, m, n), kinds)
<1> DEFINE K == Append(L, e)
           is == AboutName(L, m, n)
           k == Len(L) + 1
<1>1. /\ k \in Nat /\ Len(K) = k /\ K[k] = e
      /\ \A i \in 1..Len(L) : K[i] = L[i] /\ i < k
      /\ 1..Len(K) = (1..Len(L)) \cup {k}
  BY AppendFacts
<1>2. is \subseteq 1..Len(L) /\ 1..Len(L) \subseteq Nat
  BY DEF AboutName
<1> HIDE DEF K, k
<1>3. CASE Touches(e, m, n)
  <2>1. AboutName(K, m, n) = is \cup {k}
    BY <1>1, <1>3 DEF AboutName
  <2> HIDE DEF is
  <2>2. \A j \in is \cup {k} : j <= k
    BY <1>1, <1>2
  <2>3. is \cup {k} \in SUBSET Nat
    BY <1>1, <1>2
  <2>4. Latest(K, is \cup {k}, kinds) <=> K[k].kind \in kinds
    BY <2>2, <2>3, LatestIs
  <2> QED
    BY <1>1, <1>3, <2>1, <2>4 DEF K
<1>4. CASE ~Touches(e, m, n)
  <2>1. AboutName(K, m, n) = is
    BY <1>1, <1>4 DEF AboutName
  <2>2. \A i \in is : K[i] = L[i]
    BY <1>1, <1>2
  <2> HIDE DEF is
  <2>3. Latest(K, is, kinds) <=> Latest(L, is, kinds)
    BY <2>2, SameLatest
  <2> QED
    BY <1>4, <2>1, <2>3 DEF K, is
<1> QED
  BY <1>3, <1>4

LEMMA LatestAboutMeeting ==
  ASSUME NEW L \in Seq(Event), NEW e \in Event, NEW m, NEW kinds
  PROVE  Latest(Append(L, e), AboutMeeting(Append(L, e), m), kinds) <=>
           IF e.meeting = m /\ e.kind # "left"
           THEN e.kind \in kinds ELSE Latest(L, AboutMeeting(L, m), kinds)
<1> DEFINE K == Append(L, e)
           is == AboutMeeting(L, m)
           k == Len(L) + 1
<1>0. e.kind # "left" <=> e.kind \in {"started", "joined", "ended"}
  BY DEF Event, Kinds
<1>1. /\ k \in Nat /\ Len(K) = k /\ K[k] = e
      /\ \A i \in 1..Len(L) : K[i] = L[i] /\ i < k
      /\ 1..Len(K) = (1..Len(L)) \cup {k}
  BY AppendFacts
<1>2. is \subseteq 1..Len(L) /\ 1..Len(L) \subseteq Nat
  BY DEF AboutMeeting
<1> HIDE DEF K, k
<1>3. CASE e.meeting = m /\ e.kind # "left"
  <2>1. AboutMeeting(K, m) = is \cup {k}
    BY <1>0, <1>1, <1>3 DEF AboutMeeting
  <2> HIDE DEF is
  <2>2. \A j \in is \cup {k} : j <= k
    BY <1>1, <1>2
  <2>3. is \cup {k} \in SUBSET Nat
    BY <1>1, <1>2
  <2>4. Latest(K, is \cup {k}, kinds) <=> K[k].kind \in kinds
    BY <2>2, <2>3, LatestIs
  <2> QED
    BY <1>1, <1>3, <2>1, <2>4 DEF K
<1>4. CASE ~(e.meeting = m /\ e.kind # "left")
  <2>1. AboutMeeting(K, m) = is
    BY <1>0, <1>1, <1>4 DEF AboutMeeting
  <2>2. \A i \in is : K[i] = L[i]
    BY <1>1, <1>2
  <2> HIDE DEF is
  <2>3. Latest(K, is, kinds) <=> Latest(L, is, kinds)
    BY <2>2, SameLatest
  <2> QED
    BY <1>4, <2>1, <2>3 DEF K, is
<1> QED
  BY <1>3, <1>4

LEMMA InitLogTellsAll == NoneBefore /\ Init => LogTellsAll
<1> SUFFICES ASSUME NoneBefore, Init PROVE LogTellsAll
  OBVIOUS
<1>1. running = {} /\ Len(log) = 0 /\ \A m \in Meetings : inRoom[m] = {}
  BY DEF Init, NoneBefore
<1>2. \A m, n, kinds : /\ ~Latest(log, AboutMeeting(log, m), kinds)
                       /\ ~Latest(log, AboutName(log, m, n), kinds)
  BY <1>1 DEF Latest, AboutMeeting, AboutName
<1> QED
  BY <1>1, <1>2 DEF LogTellsAll

LEMMA ZoomLogTellsAll ==
  ASSUME NamesDiffer, Typed, LogTellsAll, ZoomStep
  PROVE  LogTellsAll'
<1>0. log \in Seq(Event) /\ inRoom \in [Meetings -> SUBSET Persons]
  BY DEF Typed, TypeOK
<1> DEFINE AsLogged(e) ==
      /\ log' = Append(log, e) /\ e \in Event
      /\ \A m \in Meetings :
           m \in running' <=> IF e.meeting = m /\ e.kind # "left"
                              THEN e.kind \in {"started", "joined"} ELSE m \in running
      /\ \A m \in Meetings, p \in Persons :
           p \in inRoom'[m] <=> IF Touches(e, m, NameOf[p])
                                THEN e.kind = "joined" ELSE p \in inRoom[m]
      /\ e.kind = "joined" => \E p \in Persons : e.name = NameOf[p]
<1>1. \E e : AsLogged(e)
  <2>1. Nobody \in Names /\ \A p \in Persons : NameOf[p] \in Names
    BY MeetingStateAssumption DEF Nobody
  <2>2. ASSUME NEW w \in Meetings, StartMeeting(w)
        PROVE  \E e : AsLogged(e)
    <3> DEFINE e == [kind |-> "started", meeting |-> w, name |-> Nobody]
    <3>1. e \in Event /\ e.kind = "started" /\ e.meeting = w
      BY <2>1 DEF Event, Kinds
    <3>2. log' = Append(log, e) /\ running' = running \cup {w} /\ inRoom' = inRoom
      BY <2>2 DEF StartMeeting, Emit
    <3> HIDE DEF e
    <3>3. AsLogged(e)
      BY <3>1, <3>2 DEF Touches
    <3> QED
      BY <3>3
  <2>3. ASSUME NEW w \in Meetings, EndMeeting(w)
        PROVE  \E e : AsLogged(e)
    <3> DEFINE e == [kind |-> "ended", meeting |-> w, name |-> Nobody]
    <3>1. e \in Event /\ e.kind = "ended" /\ e.meeting = w
      BY <2>1 DEF Event, Kinds
    <3>2. log' = Append(log, e) /\ running' = running \ {w} /\ inRoom' = [inRoom EXCEPT ![w] = {}]
      BY <2>3 DEF EndMeeting, Emit
    <3> HIDE DEF e
    <3>3. AsLogged(e)
      BY <1>0, <3>1, <3>2 DEF Touches
    <3> QED
      BY <3>3
  <2>4. ASSUME NEW w \in Meetings, NEW q \in Persons, Join(q, w)
        PROVE  \E e : AsLogged(e)
    <3> DEFINE e == [kind |-> "joined", meeting |-> w, name |-> NameOf[q]]
    <3>1. e \in Event /\ e.kind = "joined" /\ e.meeting = w /\ e.name = NameOf[q]
      BY <2>1 DEF Event, Kinds
    <3>2. /\ log' = Append(log, e) /\ running' = running /\ w \in running
          /\ inRoom' = [inRoom EXCEPT ![w] = @ \cup {q}]
      BY <2>4 DEF Join, Emit
    <3> HIDE DEF e
    <3>3. \A p \in Persons : NameOf[q] = NameOf[p] <=> p = q
      BY DEF NamesDiffer
    <3>4. AsLogged(e)
      BY <1>0, <3>1, <3>2, <3>3 DEF Touches
    <3> QED
      BY <3>4
  <2>5. ASSUME NEW w \in Meetings, NEW q \in Persons, Leave(q, w)
        PROVE  \E e : AsLogged(e)
    <3> DEFINE e == [kind |-> "left", meeting |-> w, name |-> NameOf[q]]
    <3>1. e \in Event /\ e.kind = "left" /\ e.meeting = w /\ e.name = NameOf[q]
      BY <2>1 DEF Event, Kinds
    <3>2. /\ log' = Append(log, e) /\ running' = running
          /\ inRoom' = [inRoom EXCEPT ![w] = @ \ {q}]
      BY <2>5 DEF Leave, Emit
    <3> HIDE DEF e
    <3>3. \A p \in Persons : NameOf[q] = NameOf[p] <=> p = q
      BY DEF NamesDiffer
    <3>4. AsLogged(e)
      BY <1>0, <3>1, <3>2, <3>3 DEF Touches
    <3> QED
      BY <3>4
  <2> QED
    BY <2>2, <2>3, <2>4, <2>5 DEF ZoomStep
<1>2. PICK e : AsLogged(e)
  BY <1>1
<1>3. \A m \in Meetings :
        m \in running' <=> Latest(log', AboutMeeting(log', m), {"started", "joined"})
  BY <1>0, <1>2, LatestAboutMeeting DEF LogTellsAll
<1>4. \A m \in Meetings, p \in Persons :
        p \in inRoom'[m] <=> Latest(log', AboutName(log', m, NameOf[p]), {"joined"})
  BY <1>0, <1>2, LatestAboutName DEF LogTellsAll
<1>5. \A i \in 1..Len(log') : log'[i].kind = "joined" => \E p \in Persons : log'[i].name = NameOf[p]
  BY <1>0, <1>2, AppendFacts DEF LogTellsAll
<1> QED
  BY <1>3, <1>4, <1>5 DEF LogTellsAll

LEMMA NextLogTellsAll ==
  ASSUME NamesDiffer
  PROVE  Typed /\ LogTellsAll /\ [Next]_vars => LogTellsAll'
<1> SUFFICES ASSUME Typed, LogTellsAll, [Next]_vars PROVE LogTellsAll'
  OBVIOUS
<1>1. CASE ZoomStep
  BY <1>1, ZoomLogTellsAll
<1>2. CASE ~ZoomStep
  <2>1. UNCHANGED zoomVars
    BY <1>2 DEF Next, Deliver, HandlerStep, NextTenant, Return, UpsertMeeting, AddParticipant,
                SetParticipantLeft, DeleteParticipantsForMeeting, DeleteMeeting, Statement, Dispatch,
                Crash, TenantStep, CreateTenant, DeleteTenant, UpdateTenant, TenantOp, vars
  <2> QED
    BY <2>1 DEF zoomVars, LogTellsAll
<1> QED
  BY <1>1, <1>2

(* Once everything about a meeting was answered, what was sent is what      *)
(* Zoom has to say, and the tables show it.                                 *)
LEMMA FaithfulShowsWhoIsIn ==
  ASSUME NamesDiffer, Typed, NoOrphans, Faithful, LogTellsAll
  PROVE  ShowsWhoIsIn
<1> SUFFICES ASSUME NEW m \in Meetings, Settled(m)
             PROVE  /\ owner[m] # NoTenant <=> m \in running
                    /\ OpenNames(m) = {NameOf[p] : p \in inRoom[m]}
  BY DEF ShowsWhoIsIn
<1>1. \A i \in 1..Len(log) : log[i].meeting = m => i \in acked /\ i \in Sent
  BY DEF Settled, Faithful, EventsInOrder
<1>2. Opening(m) = AboutMeeting(log, m) /\ Opening(m) \subseteq acked
  BY <1>1 DEF Opening, AboutMeeting, Sent
<1>3. \A n : Deciding(m, n) = AboutName(log, m, n) /\ Deciding(m, n) \subseteq acked
  BY <1>1, DecidingIs DEF AboutName, Sent, Touches
<1>4. owner[m] # NoTenant <=> m \in running
  BY <1>2 DEF Faithful, ActiveShown, LogTellsAll
<1>5. \A n \in Names : n \in OpenNames(m) <=> Latest(log, AboutName(log, m, n), {"joined"})
  BY <1>3 DEF Faithful, NamesShown
<1>6. ASSUME NEW n \in OpenNames(m)
      PROVE  \E p \in inRoom[m] : n = NameOf[p]
  <2>1. n \in Names
    BY OpenIff DEF Typed, TypeOK, Row
  <2>2. PICK i \in AboutName(log, m, n) :
          log[i].kind \in {"joined"} /\ \A j \in AboutName(log, m, n) : j <= i
    BY <1>5, <2>1 DEF Latest
  <2>3. PICK p \in Persons : log[i].name = NameOf[p]
    BY <2>2 DEF AboutName, LogTellsAll
  <2>4. n = NameOf[p]
    BY <2>2, <2>3 DEF AboutName, Touches
  <2>5. p \in inRoom[m]
    BY <1>5, <2>1, <2>4 DEF LogTellsAll
  <2> QED
    BY <2>4, <2>5
<1>7. ASSUME NEW p \in inRoom[m]
      PROVE  NameOf[p] \in OpenNames(m)
  <2>1. p \in Persons /\ NameOf[p] \in Names
    BY MeetingStateAssumption DEF Typed, TypeOK
  <2> QED
    BY <1>5, <2>1 DEF LogTellsAll
<1> QED
  BY <1>4, <1>6, <1>7

(* In order and undisturbed, a meeting whose events were all answered is    *)
(* active exactly while it runs, with the names of exactly the people in    *)
(* it, whatever restarts and repeated deliveries there were on the way.     *)
THEOREM WhoIsInIsShown ==
  ASSUME Undisturbed, NoneBefore, NamesDiffer
  PROVE  Spec => []ShowsWhoIsIn
<1>1. Init => LogTellsAll
  BY InitLogTellsAll
<1>2. Typed /\ LogTellsAll /\ [Next]_vars => LogTellsAll'
  BY NextLogTellsAll
<1>3. Typed /\ NoOrphans /\ Faithful /\ LogTellsAll => ShowsWhoIsIn
  BY FaithfulShowsWhoIsIn
<1>4. Spec => []Faithful
  BY TablesAreFaithful
<1> QED
  BY <1>1, <1>2, <1>3, <1>4, AlwaysTyped, ReferentialIntegrity, PTL DEF Spec

-----------------------------------------------------------------------------
(* The requests that show who is in a meeting *)

(* What a request knows was answered; where it found no meeting, the last   *)
(* of what it knows about a name is not a join.                             *)
QueriesOK ==
  /\ query \in [Queries -> Query]
  /\ \A q \in Queries : query[q].step = "found" =>
       /\ query[q].known \subseteq acked
       /\ \A m \in query[q].about \ query[q].found, n \in Names :
            Deciding(m, n) \subseteq query[q].known =>
              ~Latest(log, Deciding(m, n), {"joined"})

LEMMA InitQueriesOK == InitQueries => QueriesOK
BY DEF InitQueries, QueriesOK, NoQuery, Query

LEMMA QueriesOnlyRead == SpecQueries => Spec
<1>1. InitQueries => Init
  BY DEF InitQueries
<1>2. [NextQueries]_queryVars => [Next]_vars
  BY DEF NextQueries, queryVars, QueryStep, Status, Whois, ListParticipants, Answer, Found
<1> QED
  BY <1>1, <1>2, PTL DEF SpecQueries, Spec

(* While the webhooks go on, what is sent anew is nothing a request knew.   *)
LEMMA WebhookQueriesOK ==
  ASSUME Typed, Faithful, QueriesOK, [Next]_vars,
         query' = query \/ query' = [q \in Queries |-> NoQuery]
  PROVE  QueriesOK'
<1>1. CASE query' = [q \in Queries |-> NoQuery]
  BY <1>1 DEF QueriesOK, NoQuery, Query
<1>2. CASE query' = query
  <2>1. /\ \A i \in Sent : log'[i] = log[i]
        /\ Sent \subseteq Sent'
    <3>1. /\ Len(log) <= Len(log') /\ Len(log) \in Nat /\ Len(log') \in Nat
          /\ \A i \in 1..Len(log) : log'[i] = log[i]
      BY HistoryGrows, NextTyped DEF Typed, TypeOK
    <3>2. \A i \in EventIds : /\ delivered'[i] >= delivered[i]
                              /\ delivered'[i] \in Int /\ delivered[i] \in Int
      <4>1. /\ delivered \in [EventIds -> 0..MaxDeliveries]
            /\ delivered' \in [EventIds -> 0..MaxDeliveries]
        BY NextTyped DEF Typed, TypeOK
      <4> QED
        BY <4>1, HistoryGrows, MeetingStateAssumption
    <3>3. Sent \subseteq EventIds
      BY SentIsNat
    <3>4. ASSUME NEW i \in Sent PROVE i \in Sent'
      <4>1. delivered[i] > 0 /\ i \in 1..Len(log) /\ i \in EventIds
        BY <3>3 DEF Sent
      <4>2. delivered'[i] > 0 /\ i \in 1..Len(log')
        BY <3>1, <3>2, <4>1
      <4> QED
        BY <4>2 DEF Sent
    <3> QED
      BY <3>1, <3>4 DEF Sent
  <2>2. acked \subseteq acked' /\ acked \subseteq Sent
    <3>1. acked \subseteq acked'
      BY DEF Next, ZoomStep, StartMeeting, EndMeeting, Join, Leave, Emit, Deliver, HandlerStep,
             NextTenant, Return, UpsertMeeting, AddParticipant, SetParticipantLeft,
             DeleteParticipantsForMeeting, DeleteMeeting, Statement, Dispatch, Crash,
             TenantStep, CreateTenant, DeleteTenant, UpdateTenant, TenantOp, vars
    <3> QED
      BY <3>1 DEF Faithful, EventsInOrder
  <2>3. ASSUME NEW q \in Queries, query[q].step = "found",
               NEW m \in query[q].about \ query[q].found, NEW n \in Names,
               Deciding(m, n)' \subseteq query[q].known
        PROVE  ~Latest(log', Deciding(m, n)', {"joined"})
    <3>1. query[q].known \subseteq Sent
      BY <2>2, <2>3 DEF QueriesOK
    <3>2. Deciding(m, n)' = Deciding(m, n)
      BY <2>1, <2>3, <3>1, DecidingIs
    <3>3. ~Latest(log, Deciding(m, n), {"joined"})
      BY <2>3, <3>2 DEF QueriesOK
    <3>4. \A i \in Deciding(m, n) : log'[i] = log[i]
      BY <2>1, DecidingIs
    <3> QED
      BY <3>2, <3>3, <3>4, SameLatest
  <2> QED
    BY <1>2, <2>2, <2>3 DEF QueriesOK
<1> QED
  BY <1>1, <1>2

(* A request finds no meeting only where nobody is in it, as far as the     *)
(* webhooks were answered.                                                  *)
LEMMA FoundQueriesOK ==
  ASSUME Typed, NoOrphans, Faithful, QueriesOK, NEW q \in Queries,
         NEW about \in SUBSET Meetings, NEW found \in SUBSET about, Found(q, about, found),
         \A m \in about \ found : owner[m] = NoTenant
  PROVE  QueriesOK'
<1> DEFINE known == {i \in acked : log[i].meeting \in about}
           x == [step |-> "found", about |-> about, found |-> found, known |-> known]
<1>1. /\ x \in Query /\ x.step = "found" /\ x.about = about /\ x.found = found /\ x.known = known
      /\ query' = [query EXCEPT ![q] = x]
      /\ UNCHANGED vars
  BY DEF Found, Query, Typed, TypeOK
<1>2. /\ query' \in [Queries -> Query]
      /\ \A p \in Queries : query'[p] = IF p = q THEN x ELSE query[p]
  BY <1>1 DEF QueriesOK
<1>3. ASSUME NEW m \in about \ found, NEW n \in Names, Deciding(m, n) \subseteq known
      PROVE  ~Latest(log, Deciding(m, n), {"joined"})
  <2>1. n \notin OpenNames(m)
    BY OpenIff DEF NoOrphans
  <2> QED
    BY <1>3, <2>1 DEF Faithful, NamesShown
<1>4. known \subseteq acked
  OBVIOUS
<1>5. /\ UNCHANGED <<log, acked>> /\ \A m, n : Deciding(m, n)' = Deciding(m, n)
  BY <1>1 DEF vars, zoomVars, Deciding
<1> HIDE DEF x, known
<1> QED
  BY <1>1, <1>2, <1>3, <1>4, <1>5 DEF QueriesOK

LEMMA NextQueriesOK ==
  Typed /\ NoOrphans /\ Faithful /\ QueriesOK /\ [NextQueries]_queryVars => QueriesOK'
<1> SUFFICES ASSUME Typed, NoOrphans, Faithful, QueriesOK, [NextQueries]_queryVars
             PROVE  QueriesOK'
  OBVIOUS
<1>1. ASSUME NEW q \in Queries, NEW t \in Tenants, Status(q, t)
      PROVE  QueriesOK'
  BY <1>1, FoundQueriesOK DEF Status, ListActiveMeetings
<1>2. ASSUME NEW q \in Queries, NEW t \in Tenants, Whois(q, t)
      PROVE  QueriesOK'
  BY <1>2, FoundQueriesOK DEF Whois, ListActiveMeetings
<1>3. ASSUME NEW q \in Queries, NEW m \in Meetings, ListParticipants(q, m)
      PROVE  QueriesOK'
  BY <1>3, FoundQueriesOK DEF ListParticipants
<1>4. ASSUME NEW q \in Queries, Answer(q)
      PROVE  QueriesOK'
  <2>1. /\ NoQuery \in Query /\ NoQuery.step = "idle"
        /\ query' = [query EXCEPT ![q] = NoQuery] /\ UNCHANGED vars
    BY <1>4 DEF Answer, NoQuery, Query
  <2>2. /\ UNCHANGED <<log, acked>> /\ \A m, n : Deciding(m, n)' = Deciding(m, n)
    BY <2>1 DEF vars, zoomVars, Deciding
  <2>3. /\ query' \in [Queries -> Query]
        /\ \A p \in Queries : query'[p] = query[p] \/ query'[p].step = "idle"
    BY <2>1 DEF QueriesOK
  <2> QED
    BY <2>2, <2>3 DEF QueriesOK
<1>5. CASE Next /\ query' = IF crashes' = crashes THEN query ELSE [q \in Queries |-> NoQuery]
  BY <1>5, WebhookQueriesOK
<1>6. CASE UNCHANGED queryVars
  BY <1>6, WebhookQueriesOK DEF queryVars
<1> QED
  BY <1>1, <1>2, <1>3, <1>4, <1>5, <1>6 DEF NextQueries, QueryStep

(* The answer of one request. *)
LEMMA AnswerIsCurrent ==
  ASSUME Faithful, QueriesOK, NEW q \in Queries, query[q].step = "found",
         NEW m \in query[q].about, NEW n \in Names, Deciding(m, n) \subseteq query[q].known
  PROVE  n \in Shown(q, m) <=> Latest(log, Deciding(m, n), {"joined"})
<1>0. query[q] \in Query /\ m \in Meetings
  BY DEF QueriesOK, Query
<1>1. CASE m \in query[q].found
  <2>1. Shown(q, m) = OpenNames(m)
    BY <1>1 DEF Shown, GetActiveParticipants
  <2>2. Deciding(m, n) \subseteq acked
    BY DEF QueriesOK
  <2> QED
    BY <1>0, <2>1, <2>2 DEF Faithful, NamesShown
<1>2. CASE m \notin query[q].found
  BY <1>2 DEF Shown, QueriesOK
<1> QED
  BY <1>1, <1>2

(* In order and undisturbed, an answer made of two statements shows whoever *)
(* has come and nobody who has gone, as far as the webhooks were answered   *)
(* before the request, for any number of requests at the same time.         *)
THEOREM AnswersShowWhoIsIn ==
  ASSUME Undisturbed
  PROVE  SpecQueries => AnswersAreCurrent
<1> DEFINE Current ==
      \A q \in Queries : query[q].step = "found" /\ query'[q].step = "idle" /\ crashes' = crashes =>
       \A m \in query[q].about, n \in Names :
         LET is == Deciding(m, n)
         IN  is \subseteq query[q].known =>
               (n \in Shown(q, m) <=>
                  \E i \in is : log[i].kind = "joined" /\ \A j \in is : j <= i)
<1>1. Faithful /\ QueriesOK => Current
  <2> SUFFICES ASSUME Faithful, QueriesOK, NEW q \in Queries, query[q].step = "found",
                      NEW m \in query[q].about, NEW n \in Names,
                      Deciding(m, n) \subseteq query[q].known
               PROVE  n \in Shown(q, m) <=>
                        \E i \in Deciding(m, n) :
                          log[i].kind = "joined" /\ \A j \in Deciding(m, n) : j <= i
    BY Zenon
  <2>1. n \in Shown(q, m) <=> Latest(log, Deciding(m, n), {"joined"})
    BY AnswerIsCurrent
  <2> QED
    BY <2>1 DEF Latest
<1>2. Faithful /\ QueriesOK => [Current]_queryVars
  BY <1>1
<1>3. InitQueries => QueriesOK
  BY InitQueriesOK
<1>4. Typed /\ NoOrphans /\ Faithful /\ QueriesOK /\ [NextQueries]_queryVars => QueriesOK'
  BY NextQueriesOK
<1>5. Spec => []Faithful
  BY TablesAreFaithful
<1> HIDE DEF Current
<1>6. SpecQueries => [][Current]_queryVars
  BY <1>2, <1>3, <1>4, <1>5, QueriesOnlyRead, AlwaysTyped, ReferentialIntegrity, PTL DEF SpecQueries
<1> QED
  BY <1>6 DEF AnswersAreCurrent, Current

-----------------------------------------------------------------------------
(* Without tenants, goroutines and rows: the tables implement Attendance. *)

Active  == {m \in Meetings : owner[m] # NoTenant}
Present == [m \in Meetings |-> OpenNames(m)]

SameBoard == UNCHANGED <<log, Sent, acked, Active, Present>>

LEMMA BoardIs ==
  /\ \A m \in Meetings : (m \in Active <=> owner[m] # NoTenant) /\ Present[m] = OpenNames(m)
  /\ \A m \in Meetings : (m \in Active' <=> owner'[m] # NoTenant) /\ Present'[m] = OpenNames(m)'
BY DEF Active, Present

(* Each statement is a step towards its event. *)
LEMMA EffectIsToward ==
  ASSUME NEW e \in Event, Opens(e) \/ Enters(e) \/ Quits(e) \/ Ends(e)
  PROVE  Board!Toward(e)
<1>0. e.meeting \in Meetings
  BY DEF Event
<1>1. CASE Opens(e)
  <2>1. Active' = Active \cup {e.meeting}
    BY <1>0, <1>1 DEF Opens, Active
  <2>2. Present' = Present
    BY <1>1 DEF Opens, Present
  <2> QED
    BY <1>1, <2>1, <2>2 DEF Board!Toward, Active, Present, Opens
<1>2. CASE Enters(e)
  <2>1. Active' = Active /\ e.meeting \in Active
    BY <1>0, <1>2 DEF Enters, Active
  <2>2. \A m \in Meetings :
          OpenNames(m)' = IF m = e.meeting THEN OpenNames(m) \cup {e.name} ELSE OpenNames(m)
    BY <1>2 DEF Enters
  <2>3. Present' = [Present EXCEPT ![e.meeting] = @ \cup {e.name}]
    BY <1>0, <2>2 DEF Present
  <2> QED
    BY <1>2, <2>1, <2>3 DEF Board!Toward, Active, Present, Enters
<1>3. CASE Quits(e)
  <2>1. Active' = Active
    BY <1>3 DEF Quits, Active
  <2>2. \A m \in Meetings :
          OpenNames(m)' = IF m = e.meeting THEN OpenNames(m) \ {e.name} ELSE OpenNames(m)
    <3>1. \A m, n : n \in OpenNames(m)' <=> n \in OpenNames(m) /\ ~(m = e.meeting /\ n = e.name)
      BY <1>3 DEF Quits
    <3>2. ASSUME NEW m, m # e.meeting
          PROVE  OpenNames(m)' = OpenNames(m)
      BY <3>1, <3>2
    <3>3. ASSUME NEW m, m = e.meeting
          PROVE  OpenNames(m)' = OpenNames(m) \ {e.name}
      BY <3>1, <3>3
    <3> QED
      BY <3>2, <3>3
  <2>3. Present' = [Present EXCEPT ![e.meeting] = @ \ {e.name}]
    BY <1>0, <2>2 DEF Present
  <2> QED
    BY <1>3, <2>1, <2>3 DEF Board!Toward, Active, Present, Quits
<1>4. CASE Ends(e)
  <2>1. Active' = Active \/ Active' = Active \ {e.meeting}
    BY <1>0, <1>4 DEF Ends, Active
  <2>2. \A m \in Meetings : OpenNames(m)' = IF m = e.meeting THEN {} ELSE OpenNames(m)
    BY <1>4 DEF Ends
  <2>3. Present' = [Present EXCEPT ![e.meeting] = {}]
    BY <1>0, <2>2 DEF Present
  <2> QED
    BY <1>4, <2>1, <2>3 DEF Board!Toward, Active, Present, Ends
<1> QED
  BY <1>1, <1>2, <1>3, <1>4

(* What the tables reflect, the board shows, and a step towards it changes  *)
(* nothing.                                                                 *)
LEMMA ReflectsShows ==
  ASSUME NoOrphans, NEW e \in Event, Reflects(e)
  PROVE  Board!Shows(e)
<1>1. e.meeting \in Meetings
  BY DEF Event
<1>2. \A m \in Meetings : owner[m] = NoTenant => OpenNames(m) = {}
  BY OpenIff DEF NoOrphans
<1>3. e.kind = "ended" => OpenNames(e.meeting) = {}
  BY <1>1, <1>2 DEF Reflects
<1> QED
  BY <1>1, <1>3 DEF Reflects, Board!Shows

LEMMA ShownRests ==
  ASSUME NEW e \in Event, Board!Shows(e), Board!Toward(e)
  PROVE  Active' = Active /\ Present' = Present
<1>0. e.meeting \in Meetings
  BY DEF Event
<1>1. /\ e.kind \in {"started", "joined"} => e.meeting \in Active
      /\ e.kind = "joined" => e.name \in Present[e.meeting]
      /\ e.kind = "left" => e.name \notin Present[e.meeting]
      /\ e.kind = "ended" => e.meeting \notin Active /\ Present[e.meeting] = {}
  BY DEF Board!Shows, Active, Present
<1>2. \/ /\ e.kind \in {"started", "joined"}
         /\ Active' = Active \cup {e.meeting} /\ Present' = Present
      \/ /\ e.kind = "joined" /\ Active' = Active
         /\ Present' = [Present EXCEPT ![e.meeting] = @ \cup {e.name}]
      \/ /\ e.kind = "left" /\ Active' = Active
         /\ Present' = [Present EXCEPT ![e.meeting] = @ \ {e.name}]
      \/ /\ e.kind = "ended" /\ Active' \in {Active, Active \ {e.meeting}}
         /\ Present' = [Present EXCEPT ![e.meeting] = {}]
  BY DEF Board!Toward, Active, Present
<1>3. Present = [m \in Meetings |-> Present[m]]
  BY DEF Present
<1>4. \A S : S = Present[e.meeting] => [Present EXCEPT ![e.meeting] = S] = Present
  BY <1>0, <1>3
<1> QED
  BY <1>1, <1>2, <1>4

(* An event that was answered stays in the tables while it is the last of   *)
(* its meeting.                                                             *)
LEMMA AnsweredIsReflected ==
  ASSUME Typed, NoOrphans, Faithful, NEW h \in Handlers, Busy(h), handler[h].event \in acked
  PROVE  Reflects(EventOf(h))
<1> DEFINE i == handler[h].event
           e == EventOf(h)
<1>1. /\ i \in Sent /\ e \in Event /\ e = log[i] /\ AtItsLast(h)
      /\ e.meeting \in Meetings /\ e.name \in Names /\ e.kind \in Kinds
  BY BusySent, BusyFacts DEF EventOf, Faithful, EventsInOrder
<1>2. \A j \in Sent : log[j].meeting = e.meeting => j \in acked /\ j <= i
  BY <1>1, SentIsNat DEF AtItsLast, Faithful, EventsInOrder
<1>3. \A n \in Names : n \in OpenNames(e.meeting) <=> Latest(log, Deciding(e.meeting, n), {"joined"})
  BY <1>1, <1>2, DecidingIs DEF Faithful, NamesShown, Touches
<1>4. owner[e.meeting] # NoTenant <=> Latest(log, Opening(e.meeting), {"started", "joined"})
  BY <1>1, <1>2 DEF Faithful, ActiveShown, Opening
<1>5. ASSUME e.kind \in {"joined", "left"}
      PROVE  e.name \in OpenNames(e.meeting) <=> e.kind = "joined"
  <2>1. i \in Deciding(e.meeting, e.name) /\ \A j \in Deciding(e.meeting, e.name) : j <= i
    BY <1>1, <1>2, <1>5, DecidingIs DEF Touches
  <2>2. Deciding(e.meeting, e.name) \in SUBSET Nat
    BY SentIsNat, DecidingIs
  <2>3. Latest(log, Deciding(e.meeting, e.name), {"joined"}) <=> log[i].kind \in {"joined"}
    BY <2>1, <2>2, LatestIs
  <2> QED
    BY <1>1, <1>3, <2>3
<1>6. ASSUME e.kind # "left"
      PROVE  owner[e.meeting] # NoTenant <=> e.kind \in {"started", "joined"}
  <2>1. i \in Opening(e.meeting) /\ \A j \in Opening(e.meeting) : j <= i
    BY <1>1, <1>2, <1>6 DEF Opening, Kinds
  <2>2. Opening(e.meeting) \in SUBSET Nat
    BY SentIsNat DEF Opening
  <2>3. Latest(log, Opening(e.meeting), {"started", "joined"}) <=> log[i].kind \in {"started", "joined"}
    BY <2>1, <2>2, LatestIs
  <2> QED
    BY <1>1, <1>4, <2>3
<1> QED
  BY <1>5, <1>6 DEF Reflects

LEMMA StatementOnBoard ==
  ASSUME Typed, NoOrphans, Faithful, NEW h \in Handlers, Busy(h),
         UNCHANGED <<log, delivered, acked>>,
         NEW e, e = EventOf(h), Opens(e) \/ Enters(e) \/ Quits(e) \/ Ends(e)
  PROVE  Board!Next \/ SameBoard
<1>1. PICK i : i = handler[h].event
  OBVIOUS
<1>2. i \in Sent /\ i \in 1..Len(log) /\ e \in Event /\ e = log[i]
  BY <1>1, BusySent DEF EventOf
<1>3. Sent' = Sent
  BY DEF Sent
<1>4. Board!Toward(e)
  BY <1>2, EffectIsToward
<1>5. CASE i \notin acked
  <2>1. Board!Toward(log[i])
    BY <1>2, <1>4 DEF Board!Toward
  <2>2. Board!Work(i)
    BY <1>2, <1>3, <1>5, <2>1 DEF Board!Work
  <2> QED
    BY <1>2, <2>2 DEF Board!Next
<1>6. CASE i \in acked
  <2>1. Reflects(e)
    BY <1>1, <1>6, AnsweredIsReflected
  <2> QED
    BY <1>2, <1>3, <1>4, <2>1, ReflectsShows, ShownRests DEF SameBoard
<1> QED
  BY <1>5, <1>6

LEMMA SameTables ==
  ASSUME UNCHANGED <<owner, participants>>
  PROVE  UNCHANGED <<Active, Present>>
BY DEF Active, Present, OpenNames

(* What happens in Zoom is news that has not come in. *)
LEMMA EmitOnBoard ==
  ASSUME Typed, Typed', Faithful, NEW kind, NEW w, NEW x, Emit(kind, w, x)
  PROVE  Board!Next
<1> DEFINE e == [kind |-> kind, meeting |-> w, name |-> x]
<1>1. /\ log' = Append(log, e) /\ Len(log) < MaxEvents
      /\ UNCHANGED <<delivered, acked, owner, participants>>
  BY DEF Emit, tableVars
<1> HIDE DEF e
<1>2. /\ Len(log') = Len(log) + 1 /\ Len(log) \in Nat /\ log'[Len(log')] = e
      /\ \A i \in 1..Len(log) : log'[i] = log[i]
  BY <1>1 DEF Typed, TypeOK
<1>3. e \in Event
  BY <1>2 DEF Typed, TypeOK
<1>4. Sent' = Sent
  <2>1. \A i \in EventIds : delivered[i] > 0 => i <= Len(log)
    BY DEF Faithful, EventsInOrder
  <2>2. \A i : i \in 1..Len(log') /\ delivered[i] > 0 => i \in 1..Len(log)
    BY <1>1, <1>2, <2>1, MeetingStateAssumption DEF EventIds
  <2> QED
    BY <1>1, <1>2, <2>2 DEF Sent
<1>5. e \in Board!Event
  BY <1>3 DEF Event, Kinds, Board!Event, Board!Kinds
<1>6. Board!Happen
  BY <1>1, <1>4, <1>5, SameTables DEF Board!Happen, Active, Present
<1> QED
  BY <1>6 DEF Board!Next

(* The first delivery of an event reports it; another one changes nothing. *)
LEMMA DeliverOnBoard ==
  ASSUME Undisturbed, Typed, Faithful, NEW h \in Handlers, NEW i \in EventIds, Deliver(h, i)
  PROVE  Board!Next \/ SameBoard
<1>1. /\ i \in 1..Len(log) /\ MayDeliver(i)
      /\ delivered' = [delivered EXCEPT ![i] = @ + 1]
      /\ UNCHANGED <<log, acked, owner, participants>>
  BY NothingFails, MeetingStateAssumption
  DEF Deliver, GetTenantByZoomAccount, Faithful, Quiet, Undisturbed, zoomVars, tableVars, EventIds,
      Typed, TypeOK
<1>2. /\ delivered \in [EventIds -> 0..MaxDeliveries] /\ Len(log) \in Nat /\ Len(log) <= MaxEvents
  BY DEF Typed, TypeOK
<1>3. /\ delivered'[i] > 0
      /\ \A j \in EventIds : j # i => delivered'[j] = delivered[j]
      /\ 1..Len(log) \subseteq EventIds
  BY <1>1, <1>2, MeetingStateAssumption DEF EventIds
<1>4. Sent' = Sent \cup {i}
  BY <1>1, <1>3 DEF Sent
<1>5. UNCHANGED <<Active, Present>>
  BY <1>1, SameTables
<1>6. CASE i \in Sent
  BY <1>1, <1>4, <1>5, <1>6 DEF SameBoard
<1>7. CASE i \notin Sent
  <2>1. \A j \in 1..Len(log) : log[j].meeting = log[i].meeting =>
          (j < i => j \in acked) /\ (j > i => j \notin Sent)
    BY <1>1, <1>2, <1>3 DEF MayDeliver, Undisturbed, Sent
  <2>2. Board!Report(i)
    BY <1>1, <1>4, <1>5, <1>7, <2>1 DEF Board!Report, Active, Present
  <2> QED
    BY <1>1, <2>2 DEF Board!Next
<1> QED
  BY <1>6, <1>7

(* What is answered is shown. *)
LEMMA ReturnOnBoard ==
  ASSUME Undisturbed, Typed, NoOrphans, Faithful, NEW h \in Handlers, Return(h)
  PROVE  Board!Next
<1> DEFINE i == handler[h].event
<1>1. /\ Busy(h) /\ handler[h].step = "next" /\ handler[h].todo = {}
      /\ UNCHANGED <<log, delivered, owner, participants>> /\ acked' = acked \cup {i}
  BY DEF Return, Busy, zoomVars, tableVars
<1>2. i \in Sent /\ i \in 1..Len(log) /\ log[i] \in Event /\ EventOf(h) = log[i]
  BY <1>1, BusySent DEF EventOf
<1>3. Reflects(log[i])
  BY <1>1, <1>2 DEF Faithful, Progress, ServedOne, Undisturbed
<1>4. Sent' = Sent
  BY <1>1 DEF Sent
<1>5. Board!Shows(log[i])
  BY <1>2, <1>3, ReflectsShows
<1>6. Board!Answer(i)
  BY <1>1, <1>2, <1>4, <1>5, SameTables DEF Board!Answer, Active, Present
<1> QED
  BY <1>2, <1>6 DEF Board!Next

LEMMA NextOnBoard ==
  ASSUME Undisturbed
  PROVE  Typed /\ Typed' /\ NoOrphans /\ Faithful /\ [Next]_vars => Board!Next \/ SameBoard
<1> SUFFICES ASSUME Typed, Typed', NoOrphans, Faithful, [Next]_vars
             PROVE  Board!Next \/ SameBoard
  OBVIOUS
<1>1. ASSUME UNCHANGED <<log, delivered, acked, owner, participants>>
      PROVE  SameBoard
  BY <1>1, SameTables DEF SameBoard, Sent
<1>2. CASE ZoomStep
  <2>1. \E kind, w, x : Emit(kind, w, x)
    BY <1>2 DEF ZoomStep, StartMeeting, EndMeeting, Join, Leave
  <2> QED
    BY <2>1, EmitOnBoard
<1>3. CASE \E h \in Handlers, i \in EventIds : Deliver(h, i)
  BY <1>3, DeliverOnBoard
<1>4. ASSUME NEW h \in Handlers, HandlerStep(h)
      PROVE  Board!Next \/ SameBoard
  <2>1. CASE NextTenant(h) \/ Dispatch(h)
    BY <1>1, <2>1 DEF NextTenant, Dispatch, zoomVars, tableVars
  <2>2. CASE Return(h)
    BY <2>2, ReturnOnBoard
  <2>3. CASE UpsertMeeting(h)
    BY <2>3, UpsertEffect, StatementOnBoard
  <2>4. CASE AddParticipant(h)
    BY <2>4, AddEffect, StatementOnBoard
  <2>5. CASE SetParticipantLeft(h)
    BY <2>5, MarkEffect, StatementOnBoard
  <2>6. CASE DeleteParticipantsForMeeting(h) \/ DeleteMeeting(h)
    BY <2>6, EndEffect, StatementOnBoard
  <2> QED
    BY <1>4, <2>1, <2>2, <2>3, <2>4, <2>5, <2>6 DEF HandlerStep
<1>5. CASE Crash \/ UNCHANGED vars
  BY <1>1, <1>5 DEF Crash, vars, zoomVars, tableVars
<1>6. ~TenantStep
  BY NothingFails DEF Faithful
<1> QED
  BY <1>2, <1>3, <1>4, <1>5, <1>6 DEF Next

(* In order and undisturbed, the tables, seen without tenants and rows,     *)
(* move only towards the event that is being worked on, and show it before  *)
(* it is answered, whatever restarts, repeated and concurrent deliveries    *)
(* and loops over tenants there are.                                        *)
THEOREM ImplementsAttendance ==
  ASSUME Undisturbed
  PROVE  Spec => KeepsAttendance
<1>1. Init => Board!Init
  <2> SUFFICES ASSUME Init PROVE Board!Init
    OBVIOUS
  <2>1. /\ log = <<>> /\ Sent = {} /\ acked = {}
        /\ \A m \in Meetings : owner[m] = NoTenant /\ OpenNames(m) = {}
    BY DEF Init, Sent, OpenNames
  <2> QED
    BY <2>1 DEF Board!Init
<1>2. Typed /\ Typed' /\ NoOrphans /\ Faithful /\ [Next]_vars =>
        [Board!Next]_<<log, Sent, acked, Active, Present>>
  BY NextOnBoard DEF SameBoard
<1>3. [Board!Next]_<<log, Sent, acked, Active, Present>>
        <=> [Board!Next]_<<log, Sent, acked, {m \in Meetings : owner[m] # NoTenant},
                           [m \in Meetings |-> OpenNames(m)]>>
  BY DEF Active, Present
<1>4. Typed /\ Typed' /\ NoOrphans /\ Faithful /\ [Next]_vars =>
        [Board!Next]_<<log, Sent, acked, {m \in Meetings : owner[m] # NoTenant},
                       [m \in Meetings |-> OpenNames(m)]>>
  BY <1>2, <1>3
<1>5. Spec => []Faithful
  BY TablesAreFaithful
<1> QED
  BY <1>1, <1>4, <1>5, AlwaysTyped, ReferentialIntegrity, PTL
  DEF Spec, KeepsAttendance, Board!Spec, Board!vars
=============================================================================
