---------------------------- MODULE MeetingQueries ----------------------------
(* The requests that show who is in a meeting: the status and whois commands   *)
(* (internal/slack/commands.go) and the participants of the API                *)
(* (internal/api/server.go).  Each looks for the meetings in one statement and *)
(* for the people in another, while the webhooks of MeetingState go on.        *)
EXTENDS MeetingState

CONSTANT Queries   \* goroutines that answer such requests

VARIABLE query     \* query[q]: what the goroutine found, and what was answered before it came

queryVars == <<vars, query>>

(* about: the meetings the answer speaks of; found: those of the first         *)
(* statement; known (history): the events answered when the request came.      *)
Query == [step : {"idle", "found"}, about : SUBSET Meetings, found : SUBSET Meetings,
          known : SUBSET EventIds]

NoQuery == [step |-> "idle", about |-> {}, found |-> {}, known |-> {}]

InitQueries == Init /\ query = [q \in Queries |-> NoQuery]

-----------------------------------------------------------------------------
ListActiveMeetings(t) == {m \in Meetings : owner[m] = t}

(* The first statement; an answer of nothing, or an error, ends the request.   *)
Found(q, about, found) ==
  /\ query[q].step = "idle"
  /\ query' = [query EXCEPT ![q] =
                 [step |-> "found", about |-> about, found |-> found,
                  known |-> {i \in acked : log[i].meeting \in about}]]
  /\ UNCHANGED vars

(* Every meeting, but for those of other tenants.                              *)
Status(q, t) ==
  Found(q, {m \in Meetings : owner[m] \in {t, NoTenant}}, ListActiveMeetings(t))

(* A part of the id or the topic selects the meetings.                         *)
Whois(q, t) ==
  \E matched \in SUBSET ListActiveMeetings(t) : matched # {} /\ Found(q, matched, matched)

(* The row, whichever tenant's it is.                                          *)
GetMeeting(m) == owner[m]

(* 404 when there is none.                                                     *)
ListParticipants(q, m) == GetMeeting(m) # NoTenant /\ Found(q, {m}, {m})

(* Variant: without "leave_time IS NULL".  *)
GetParticipants(ms) == [m \in ms |-> {r.name : r \in RowsOf({m})}]

GetActiveParticipants(ms) == [m \in ms |-> OpenNames(m)]

(* The people an answer given now shows in a meeting.                          *)
Shown(q, m) ==
  IF m \in query[q].found THEN GetActiveParticipants(query[q].found)[m] ELSE {}

(* The second statement, which answers or fails.                               *)
Answer(q) ==
  /\ query[q].step = "found"
  /\ query' = [query EXCEPT ![q] = NoQuery]
  /\ UNCHANGED vars

QueryStep(q) ==
  \/ \E t \in Tenants : Status(q, t) \/ Whois(q, t)
  \/ \E m \in Meetings : ListParticipants(q, m)
  \/ Answer(q)

NextQueries ==
  \/ \E q \in Queries : QueryStep(q)
  \/ Next /\ query' = IF crashes' = crashes THEN query ELSE [q \in Queries |-> NoQuery]

SpecQueries == InitQueries /\ [][NextQueries]_queryVars

-----------------------------------------------------------------------------
(* Properties.                                                                 *)

(* The deliveries so far that decide whether a name is in a meeting.           *)
Deciding(m, n) ==
  {i \in 1..Len(log) :
     /\ delivered[i] > 0 /\ log[i].meeting = m
     /\ log[i].kind = "ended" \/ (log[i].kind \in {"joined", "left"} /\ log[i].name = n)}

(* Although an answer is made of two statements, it shows whoever has come and *)
(* nobody who has gone, as far as the webhooks were answered before the        *)
(* request: only those that arrived later may be seen or missed.               *)
AnswersAreCurrent ==
  [][\A q \in Queries : query[q].step = "found" /\ query'[q].step = "idle" /\ crashes' = crashes =>
       \A m \in query[q].about, n \in Names :
         LET is == Deciding(m, n)
         IN  is \subseteq query[q].known =>
               (n \in Shown(q, m) <=>
                  \E i \in is : log[i].kind = "joined" /\ \A j \in is : j <= i)]_queryVars
=============================================================================
