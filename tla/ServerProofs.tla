------------------------------ MODULE ServerProofs ------------------------------
(* Theorems about Server and IrcRelay, for any number of deliveries and sends. *)
(* The invariant ties what Send's goroutine has done, and what became of the   *)
(* connection, to where the call is.                                           *)
EXTENDS Server, TLAPS

(* Where the call is, and what its goroutine and the channel have seen by then. *)
Begun(s)  == call[s] \in {"none", "connecting", "error"} =>
               watcher[s] = "none" /\ conn[s] = "down" /\ ~quit[s]
Made(s)   == call[s] = "connected" => watcher[s] = "none" /\ ~quit[s]
Loops(s)  == call[s] \in InLoop => watcher[s] # "none" /\ (quit[s] <=> watcher[s] = "done")
Closed(s) == call[s] = "nil" => watcher[s] = "done" /\ quit[s]
Silent(s) == /\ watcher[s] \in {"none", "waiting", "told"} => heard[s] = 0
             /\ heard[s] <= 1

(* A connection is down before Quit, dialed again, or up after Quit, only when *)
(* it was lost; QUIT is on its way only after Quit.                            *)
Lost(s) ==
  /\ /\ process # "stopped" /\ call[s] \in {"connected"} \cup InLoop
     /\ conn[s] = "down" /\ ~quit[s]
     => drops[s] > 0
  /\ call[s] = "redialing" => drops[s] > 0
  /\ conn[s] \in Up /\ quit[s] => drops[s] > 0
  /\ conn[s] = "leaving" => quit[s]

Course(s) == Begun(s) /\ Made(s) /\ Loops(s) /\ Closed(s) /\ Silent(s) /\ Lost(s)

Courses == \A s \in Sends : Course(s)

IInv == TypeOK /\ Courses

-----------------------------------------------------------------------------
(* Type correctness.                                                           *)

(* The initial states are typed.  *)
LEMMA TypeInit == Init => TypeOK
  BY RelayAssumption, ServerAssumption DEF Init, RelayInit, TypeOK, RelayTypeOK, InLoop, Over, Up

(* A step of a call or of the network keeps the types of its variables.  *)
LEMMA RelayTyped ==
  ASSUME TypeOK, NEW s \in Sends, SendStep(s) \/ WatcherStep(s) \/ NetworkStep(s)
  PROVE  RelayTypeOK'
<1> USE DEF TypeOK, RelayTypeOK, InLoop, Over, Up
<1>1. CASE SendStep(s)
  <2>1. CASE Connect(s)
    BY <2>1 DEF Connect
  <2>2. CASE StartWatcher(s)
    BY <2>2 DEF StartWatcher
  <2>3. CASE LoopAsks(s) \/ LoopWakes(s)
    BY <2>3 DEF LoopAsks, LoopWakes
  <2>4. CASE Reconnect(s)
    BY <2>4 DEF Reconnect
  <2>5. QED
    BY <1>1, <2>1, <2>2, <2>3, <2>4 DEF SendStep
<1>2. CASE WatcherStep(s)
  <2>1. CASE ReceiveJoined(s)
    BY <2>1 DEF ReceiveJoined
  <2>2. CASE Privmsg(s)
    <3>1. heard \in [Sends -> Nat] /\ heard[s] + 1 \in Nat
      OBVIOUS
    <3>2. heard' = heard \/ heard' = [heard EXCEPT ![s] = heard[s] + 1]
      BY <2>2 DEF Privmsg
    <3>3. heard' \in [Sends -> Nat]
      BY <3>1, <3>2
    <3>4. QED
      BY <2>2, <3>3 DEF Privmsg
  <2>3. CASE QuitAfterMessage(s) \/ GiveUp(s)
    <3>1. AfterQuit(conn[s]) \in {"down", "leaving"} \cup Up
      BY DEF AfterQuit
    <3>2. Quit(s)
      BY <2>3 DEF QuitAfterMessage, GiveUp
    <3>3. QED
      BY <2>3, <3>1, <3>2 DEF QuitAfterMessage, GiveUp, Quit
  <2>4. QED
    BY <1>2, <2>1, <2>2, <2>3 DEF WatcherStep
<1>3. CASE NetworkStep(s)
  <2>1. CASE Welcome(s)
    BY <2>1 DEF Welcome
  <2>2. CASE Join(s)
    BY <2>2 DEF Join
  <2>3. CASE CloseAfterQuit(s)
    BY <2>3 DEF CloseAfterQuit
  <2>4. CASE Drop(s)
    <3>1. drops[s] + 1 \in 0..MaxDrops
      BY <2>4, RelayAssumption DEF Drop
    <3>2. QED
      BY <2>4, <3>1 DEF Drop
  <2>5. QED
    BY <1>3, <2>1, <2>2, <2>3, <2>4 DEF NetworkStep
<1>4. QED
  BY <1>1, <1>2, <1>3

(* A call that has no goroutine yet takes no step that would start one; the    *)
(* one that starts it has connected.                                           *)
LEMMA WatcherStarts ==
  ASSUME TypeOK, NEW s \in Sends, SendStep(s) \/ WatcherStep(s) \/ NetworkStep(s),
         NEW o \in Sends, call'[o] \in {"none", "connecting", "error"}
  PROVE  watcher'[o] = "none"
<1> USE DEF TypeOK, RelayTypeOK
<1>1. CASE SendStep(s)
  BY <1>1 DEF SendStep, Connect, StartWatcher, LoopAsks, LoopWakes, Reconnect
<1>2. CASE WatcherStep(s)
  BY <1>2 DEF WatcherStep, ReceiveJoined, Privmsg, QuitAfterMessage, GiveUp, Quit
<1>3. CASE NetworkStep(s)
  BY <1>3 DEF NetworkStep, Welcome, Join, Drop, CloseAfterQuit
<1>4. QED
  BY <1>1, <1>2, <1>3

(* So it keeps all types.  *)
LEMMA TypeRelay ==
  ASSUME TypeOK, NEW s \in Sends,
         Relaying(SendStep(s)) \/ Relaying(WatcherStep(s)) \/ Relaying(NetworkStep(s))
  PROVE  TypeOK'
<1>1. /\ SendStep(s) \/ WatcherStep(s) \/ NetworkStep(s)
      /\ UNCHANGED serverVars
  BY DEF Relaying
<1>2. RelayTypeOK'
  BY <1>1, RelayTyped
<1>3. \A o \in Sends : call'[o] \in {"none", "connecting", "error"} => watcher'[o] = "none"
  BY <1>1, WatcherStarts
<1>4. QED
  BY <1>1, <1>2, <1>3 DEF TypeOK, serverVars

(* What a handler sends next is one of the sends.  *)
LEMMA NextCall ==
  ASSUME TypeOK, NEW d \in Deliveries, NextSend(d)
  PROVE  SendsOf[d][turn[d] + 1] \in Sends
<1>1. turn[d] \in Nat /\ turn[d] < Len(SendsOf[d]) /\ SendsOf[d] \in Seq(Sends)
  BY ServerAssumption DEF NextSend, TypeOK
<1>2. QED
  BY <1>1

(* A step of the server keeps them.  *)
LEMMA TypeServer ==
  ASSUME TypeOK,
         Signal \/ Exit \/ \E d \in Deliveries : Accept(d) \/ Refuse(d) \/ NextSend(d) \/ Answer(d)
  PROVE  TypeOK'
<1> USE ServerAssumption
<1>1. CASE Signal
  BY <1>1 DEF TypeOK, RelayTypeOK, Signal, relayVars
<1>2. CASE Exit
  BY <1>2 DEF TypeOK, RelayTypeOK, Exit
<1>3. ASSUME NEW d \in Deliveries, Accept(d) \/ Refuse(d) \/ Answer(d) PROVE TypeOK'
  <2>1. UNCHANGED relayVars /\ UNCHANGED <<process, turn>>
    BY <1>3 DEF Accept, Refuse, Answer
  <2>2. handler' \in [Deliveries -> {"none", "running", "answered", "refused"}]
    BY <1>3 DEF TypeOK, Accept, Refuse, Answer
  <2>3. QED
    BY <2>1, <2>2 DEF TypeOK, RelayTypeOK, relayVars
<1>4. ASSUME NEW d \in Deliveries, NextSend(d) PROVE TypeOK'
  <2>1. PICK s \in Sends : Send(s)
    BY <1>4, NextCall DEF NextSend
  <2>2. RelayTypeOK'
    BY <2>1 DEF Send, TypeOK, RelayTypeOK, Over
  <2>3. \A o \in Sends : call'[o] \in {"none", "connecting", "error"} => watcher'[o] = "none"
    BY <2>1 DEF Send, TypeOK, RelayTypeOK
  <2>4. turn[d] + 1 \in Nat /\ turn[d] + 1 <= Len(SendsOf[d])
    BY <1>4 DEF NextSend, TypeOK
  <2>5. turn' \in [Deliveries -> Nat] /\ \A e \in Deliveries : turn'[e] <= Len(SendsOf[e])
    BY <1>4, <2>4 DEF NextSend, TypeOK
  <2>6. QED
    BY <1>4, <2>2, <2>3, <2>5 DEF NextSend, TypeOK
<1>5. QED
  BY <1>1, <1>2, <1>3, <1>4

(* Type correctness: every variable keeps its type, and a call has a goroutine *)
(* only when it has connected.                                                 *)
THEOREM TypeCorrect == Spec => []TypeOK
<1>1. TypeOK /\ [Next]_vars => TypeOK'
  <2>1. CASE UNCHANGED vars
    BY <2>1 DEF vars, relayVars, serverVars, TypeOK, RelayTypeOK
  <2>2. QED
    BY <2>1, TypeRelay, TypeServer DEF Next
<1>2. QED
  BY <1>1, TypeInit, PTL DEF Spec

-----------------------------------------------------------------------------
(* The course of a call.                                                       *)

(* A step of another call, or of the server alone, leaves a call as it is.  *)
LEMMA CourseKept ==
  ASSUME NEW s \in Sends, Course(s), process' = "stopped" \/ UNCHANGED process,
         call'[s] = call[s], conn'[s] = conn[s], watcher'[s] = watcher[s],
         quit'[s] = quit[s], heard'[s] = heard[s], drops'[s] = drops[s]
  PROVE  Course(s)'
  BY DEF Course, Begun, Made, Loops, Closed, Silent, Lost

(* Each step of a call, its goroutine and its connection keeps its course.  *)
LEMMA CourseStep ==
  ASSUME TypeOK, NEW s \in Sends, Course(s), process # "stopped", UNCHANGED process,
         Send(s) \/ SendStep(s) \/ WatcherStep(s) \/ NetworkStep(s)
  PROVE  Course(s)'
<1> USE DEF TypeOK, RelayTypeOK, Course, Begun, Made, Loops, Closed, Silent, Lost, InLoop, Over, Up
<1>1. CASE Send(s) \/ SendStep(s)
  <2>1. CASE Send(s)
    BY <2>1 DEF Send
  <2>2. CASE Connect(s)
    BY <2>2 DEF Connect
  <2>3. CASE StartWatcher(s)
    BY <2>3 DEF StartWatcher
  <2>4. CASE LoopAsks(s)
    BY <2>4 DEF LoopAsks
  <2>5. CASE LoopWakes(s)
    BY <2>5 DEF LoopWakes
  <2>6. CASE Reconnect(s)
    BY <2>6 DEF Reconnect
  <2>7. QED
    BY <1>1, <2>1, <2>2, <2>3, <2>4, <2>5, <2>6 DEF SendStep
<1>2. CASE WatcherStep(s)
  <2>1. CASE ReceiveJoined(s)
    BY <2>1 DEF ReceiveJoined
  <2>2. CASE Privmsg(s)
    BY <2>2 DEF Privmsg
  <2>3. CASE QuitAfterMessage(s)
    BY <2>3 DEF QuitAfterMessage, Quit, AfterQuit
  <2>4. CASE GiveUp(s)
    BY <2>4 DEF GiveUp, Quit, AfterQuit
  <2>5. QED
    BY <1>2, <2>1, <2>2, <2>3, <2>4 DEF WatcherStep
<1>3. CASE NetworkStep(s)
  <2>1. CASE Welcome(s)
    BY <2>1 DEF Welcome
  <2>2. CASE Join(s)
    BY <2>2 DEF Join
  <2>3. CASE Drop(s)
    BY <2>3 DEF Drop
  <2>4. CASE CloseAfterQuit(s)
    BY <2>4 DEF CloseAfterQuit
  <2>5. QED
    BY <1>3, <2>1, <2>2, <2>3, <2>4 DEF NetworkStep
<1>4. QED
  BY <1>1, <1>2, <1>3

(* The steps of one call do not touch another.  *)
LEMMA CourseApart ==
  ASSUME TypeOK, NEW s \in Sends, NEW o \in Sends \ {s}, Course(o), UNCHANGED process,
         Send(s) \/ SendStep(s) \/ WatcherStep(s) \/ NetworkStep(s)
  PROVE  Course(o)'
<1> USE DEF TypeOK, RelayTypeOK
<1>1. call'[o] = call[o] /\ conn'[o] = conn[o] /\ drops'[o] = drops[o]
  BY DEF Send, SendStep, Connect, StartWatcher, LoopAsks, LoopWakes, Reconnect, WatcherStep,
         ReceiveJoined, Privmsg, QuitAfterMessage, GiveUp, Quit, NetworkStep, Welcome, Join,
         Drop, CloseAfterQuit
<1>2. watcher'[o] = watcher[o] /\ quit'[o] = quit[o] /\ heard'[o] = heard[o]
  BY DEF Send, SendStep, Connect, StartWatcher, LoopAsks, LoopWakes, Reconnect, WatcherStep,
         ReceiveJoined, Privmsg, QuitAfterMessage, GiveUp, Quit, NetworkStep, Welcome, Join,
         Drop, CloseAfterQuit
<1>3. QED
  BY <1>1, <1>2, CourseKept

(* Every step of the system keeps the course of every call.  *)
LEMMA CoursesStep == TypeOK /\ Courses /\ [Next]_vars => Courses'
<1> SUFFICES ASSUME TypeOK, Courses, [Next]_vars PROVE Courses'
  OBVIOUS
<1>1. ASSUME NEW s \in Sends, process # "stopped", UNCHANGED process,
             Send(s) \/ SendStep(s) \/ WatcherStep(s) \/ NetworkStep(s)
      PROVE  Courses'
  BY <1>1, CourseStep, CourseApart DEF Courses
<1>2. ASSUME UNCHANGED <<relayVars, process>> PROVE Courses'
  BY <1>2, CourseKept DEF Courses, relayVars
<1>3. CASE Exit
  BY <1>3 DEF Exit, Courses, Course, Begun, Made, Loops, Closed, Silent, Lost, Up, TypeOK, RelayTypeOK
<1>4. CASE Signal
  BY <1>4 DEF Signal, relayVars, Courses, Course, Begun, Made, Loops, Closed, Silent, Lost
<1>5. ASSUME NEW d \in Deliveries, NextSend(d) PROVE Courses'
  <2>1. SendsOf[d][turn[d] + 1] \in Sends
    BY <1>5, NextCall
  <2>2. QED
    BY <1>1, <1>5, <2>1 DEF NextSend
<1>6. QED
  BY <1>1, <1>2, <1>3, <1>4, <1>5
     DEF Next, Accept, Refuse, Answer, Relaying, serverVars, vars

-----------------------------------------------------------------------------
(* The invariant, and what follows from it.                                    *)

(* The initial states satisfy the invariant.  *)
LEMMA Initially == Init => IInv
<1> SUFFICES ASSUME Init PROVE IInv
  OBVIOUS
<1>1. ASSUME NEW s \in Sends PROVE Course(s)
  <2>1. call[s] = "none" /\ watcher[s] = "none" /\ conn[s] = "down"
    BY DEF Init, RelayInit
  <2>2. quit[s] = FALSE /\ heard[s] = 0
    BY DEF Init, RelayInit
  <2>3. QED
    BY <2>1, <2>2 DEF Course, Begun, Made, Loops, Closed, Silent, Lost, InLoop, Up
<1>2. QED
  BY <1>1, TypeInit DEF IInv, Courses

(* The invariant holds in every reachable state.  *)
LEMMA Inductive == Spec => []IInv
<1>1. QED
  BY CoursesStep, Initially, TypeCorrect, PTL DEF Spec, IInv

(* However often the relay joins, a channel hears a message at most once.  *)
THEOREM SpeaksOnce == Spec => []HeardOnce
<1>1. IInv => HeardOnce
  BY DEF IInv, Courses, Course, Silent, HeardOnce
<1>2. QED
  BY <1>1, Inductive, PTL

(* When Send has returned, nothing of it is heard any more, and a connection   *)
(* it leaves behind is one made again after a loss.                            *)
THEOREM SilentAfterReturn == Spec => []ReturnedMeansSilent
<1>1. IInv => ReturnedMeansSilent
  BY DEF IInv, Courses, Course, Begun, Closed, Lost, ReturnedMeansSilent, Over, Up
<1>2. QED
  BY <1>1, Inductive, PTL
=============================================================================
