--------------------------------- MODULE Server ---------------------------------
(* The serving process: webhooks pass the rate limiter or not, their handlers  *)
(* send to IRC one message after the other and answer when all is sent, and a  *)
(* signal ends the process (the second half of main).                          *)
EXTENDS IrcRelay, Sequences

CONSTANTS Deliveries,
          SendsOf       \* the calls a delivery's dispatch makes, in order

ASSUME ServerAssumption ==
  /\ SendsOf \in [Deliveries -> Seq(Sends)]
  /\ \A d, e \in Deliveries : \A i \in 1..Len(SendsOf[d]), j \in 1..Len(SendsOf[e]) :
       SendsOf[d][i] = SendsOf[e][j] => d = e /\ i = j

VARIABLES
  process,   \* "serving", "closing" (Shutdown was called) or "stopped"
  handler,   \* of a delivery: "none", "running", "answered" (200) or "refused" (429)
  turn       \* the number of sends a handler has begun

serverVars == <<process, handler, turn>>
vars == <<relayVars, serverVars>>

Init ==
  /\ RelayInit
  /\ process = "serving"
  /\ handler = [d \in Deliveries |-> "none"]
  /\ turn = [d \in Deliveries |-> 0]

-----------------------------------------------------------------------------
(* The limiter (external) lets a request pass, or answers 429.  *)
Accept(d) ==
  /\ process = "serving" /\ handler[d] = "none"
  /\ handler' = [handler EXCEPT ![d] = "running"]
  /\ UNCHANGED <<relayVars, process, turn>>

Refuse(d) ==
  /\ process = "serving" /\ handler[d] = "none"
  /\ handler' = [handler EXCEPT ![d] = "refused"]
  /\ UNCHANGED <<relayVars, process, turn>>

(* The send before, if there was one, has returned; its error is only logged.  *)
PreviousOver(d) == turn[d] > 0 => call[SendsOf[d][turn[d]]] \in Over

NextSend(d) ==
  /\ process # "stopped" /\ handler[d] = "running"
  /\ PreviousOver(d) /\ turn[d] < Len(SendsOf[d])
  /\ Send(SendsOf[d][turn[d] + 1])
  /\ turn' = [turn EXCEPT ![d] = @ + 1]
  /\ UNCHANGED <<process, handler>>

Answer(d) ==
  /\ process # "stopped" /\ handler[d] = "running"
  /\ PreviousOver(d) /\ turn[d] = Len(SendsOf[d])
  /\ handler' = [handler EXCEPT ![d] = "answered"]
  /\ UNCHANGED <<relayVars, process, turn>>

(* SIGINT or SIGTERM: Shutdown closes the listener and waits for the handlers. *)
Signal ==
  /\ process = "serving"
  /\ process' = "closing"
  /\ UNCHANGED <<relayVars, handler, turn>>

(* ListenAndServe has returned at once, and main does: the database is closed, *)
(* and what runs is cut.                                                       *)
Exit ==
  /\ process = "closing"
  /\ process' = "stopped"
  /\ conn' = [s \in Sends |-> "down"]
  /\ UNCHANGED <<call, joined, watcher, quit, heard, drops, handler, turn>>

Relaying(A) == process # "stopped" /\ A /\ UNCHANGED serverVars

Next ==
  \/ \E d \in Deliveries : Accept(d) \/ Refuse(d) \/ NextSend(d) \/ Answer(d)
  \/ Signal
  \/ Exit
  \/ \E s \in Sends :
       Relaying(SendStep(s)) \/ Relaying(WatcherStep(s)) \/ Relaying(NetworkStep(s))

(* The handlers and goroutines run, timers fire, a dial ends, a server closes  *)
(* the connection after QUIT, and main returns.  Nothing obliges a server to   *)
(* welcome or to let join.                                                     *)
Fairness ==
  /\ \A d \in Deliveries : WF_vars(NextSend(d)) /\ WF_vars(Answer(d))
  /\ \A s \in Sends :
       /\ WF_vars(Relaying(SendStep(s)))
       /\ WF_vars(Relaying(WatcherStep(s)))
       /\ WF_vars(Relaying(CloseAfterQuit(s)))
  /\ WF_vars(Exit)

Spec == Init /\ [][Next]_vars /\ Fairness

-----------------------------------------------------------------------------
(* Properties.                                                                 *)

(* Every variable has its type, and a call that has not connected, or could    *)
(* not, has no goroutine.                                                      *)
TypeOK ==
  /\ RelayTypeOK
  /\ process \in {"serving", "closing", "stopped"}
  /\ handler \in [Deliveries -> {"none", "running", "answered", "refused"}]
  /\ turn \in [Deliveries -> Nat]
  /\ \A d \in Deliveries : turn[d] <= Len(SendsOf[d])
  /\ \A s \in Sends : call[s] \in {"none", "connecting", "error"} => watcher[s] = "none"

(* A channel hears a message at most once, although the relay joins again      *)
(* after every reconnection and sees the joins of others.                      *)
HeardOnce == \A s \in Sends : heard[s] <= 1

(* When Send has returned, its goroutine and its timer are through: nothing of *)
(* it speaks later.  It may leave a connection behind, but only one that the   *)
(* library made when the first was lost.                                       *)
ReturnedMeansSilent ==
  \A s \in Sends : call[s] \in Over =>
    /\ watcher[s] \in {"none", "done"}
    /\ conn[s] \in Up => drops[s] > 0

(* A webhook is answered, or its process ends, whatever the IRC servers do: a  *)
(* channel that is never joined delays the answer and does not keep it.        *)
HandlersEnd ==
  \A d \in Deliveries : handler[d] = "running" ~> handler[d] = "answered" \/ process = "stopped"
=============================================================================
