------------------------------ MODULE Attendance ------------------------------
(***************************************************************************)
(* What the live meeting state promises while nothing fails: it moves only *)
(* towards the event that came in last of its meeting and was not answered *)
(* yet, and shows it by the time it is answered.  There are no tenants, no *)
(* goroutines and no rows.                                                 *)
(***************************************************************************)
EXTENDS Naturals, Sequences

CONSTANTS Meetings, Names

VARIABLES news,      \* what happened, in the order it happened
          reported,  \* the news that have come in
          answered,  \* those of them that were answered
          active,    \* shown: the meetings that are on
          present    \* shown: present[m], the names in meeting m

vars == <<news, reported, answered, active, present>>

Kinds == {"started", "ended", "joined", "left"}
Event == [kind : Kinds, meeting : Meetings, name : Names]

Init ==
  /\ news = <<>>
  /\ reported = {} /\ answered = {}
  /\ active = {}
  /\ present = [m \in Meetings |-> {}]

(* A step of what is shown towards event e. *)
Toward(e) ==
  \/ /\ e.kind \in {"started", "joined"}
     /\ active' = active \cup {e.meeting}
     /\ UNCHANGED present
  \/ /\ e.kind = "joined" /\ e.meeting \in active
     /\ present' = [present EXCEPT ![e.meeting] = @ \cup {e.name}]
     /\ UNCHANGED active
  \/ /\ e.kind = "left"
     /\ present' = [present EXCEPT ![e.meeting] = @ \ {e.name}]
     /\ UNCHANGED active
  \/ /\ e.kind = "ended"
     /\ present' = [present EXCEPT ![e.meeting] = {}]
     /\ active' \in {active, active \ {e.meeting}}

(* Event e is shown. *)
Shows(e) ==
  /\ e.kind \in {"started", "joined"} => e.meeting \in active
  /\ e.kind = "joined" => e.name \in present[e.meeting]
  /\ e.kind = "left" => e.name \notin present[e.meeting]
  /\ e.kind = "ended" => e.meeting \notin active /\ present[e.meeting] = {}

Happen ==
  /\ \E e \in Event : news' = Append(news, e)
  /\ UNCHANGED <<reported, answered, active, present>>

(* The news of a meeting come in one at a time. *)
Report(i) ==
  /\ i \notin reported
  /\ \A j \in 1..Len(news) : news[j].meeting = news[i].meeting =>
       (j < i => j \in answered) /\ (j > i => j \notin reported)
  /\ reported' = reported \cup {i}
  /\ UNCHANGED <<news, answered, active, present>>

Work(i) ==
  /\ i \in reported \ answered
  /\ Toward(news[i])
  /\ UNCHANGED <<news, reported, answered>>

Answer(i) ==
  /\ i \in reported
  /\ Shows(news[i])
  /\ answered' = answered \cup {i}
  /\ UNCHANGED <<news, reported, active, present>>

Next == Happen \/ \E i \in 1..Len(news) : Report(i) \/ Work(i) \/ Answer(i)

Spec == Init /\ [][Next]_vars
=============================================================================
