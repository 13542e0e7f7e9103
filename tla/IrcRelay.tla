-------------------------------- MODULE IrcRelay --------------------------------
(* Relay.Send (internal/irc): one connection for each message.  The call, its  *)
(* goroutine that waits for the channel, and the callbacks of the IRC library  *)
(* run at once.  The library (external) reconnects until it is told to quit,   *)
(* and registers and joins again whenever it has reconnected.  It does not ask *)
(* whether to quit while it dials.                                             *)
EXTENDS Naturals

CONSTANTS Sends,      \* the calls, each with its configuration, channel and message
          Complete,   \* those with a server, a nick, a channel and a text
          MaxDrops    \* bound on the connections lost without QUIT, for each call

ASSUME RelayAssumption == Complete \subseteq Sends /\ MaxDrops \in Nat

VARIABLES
  call,     \* where Send is: "none", "connecting", "connected", in Loop, or its result
  conn,     \* the connection: "down", "open", "welcomed" (JOIN sent), "joined",
            \* or "leaving" (QUIT sent)
  joined,   \* the channel of capacity one that the JOIN callback fills
  watcher,  \* the goroutine: "none", "waiting", "told", "spoken" or "done"
  quit,     \* Quit was called
  heard,    \* messages the server took
  drops

relayVars == <<call, conn, joined, watcher, quit, heard, drops>>

(* Loop is about to ask whether to quit, waits for its connection to end, or   *)
(* dials.                                                                      *)
InLoop == {"looping", "reading", "redialing"}

Over == {"nil", "error"}

Up == {"open", "welcomed", "joined"}

RelayInit ==
  /\ call = [s \in Sends |-> "none"]
  /\ conn = [s \in Sends |-> "down"]
  /\ joined = [s \in Sends |-> FALSE]
  /\ watcher = [s \in Sends |-> "none"]
  /\ quit = [s \in Sends |-> FALSE]
  /\ heard = [s \in Sends |-> 0]
  /\ drops = [s \in Sends |-> 0]

-----------------------------------------------------------------------------
(* Send.                                                                       *)

(* Variant: the goroutine, and its ten seconds, start before the dial.  *)
SendAndWatch(s) ==
  /\ call[s] = "none"
  /\ call' = [call EXCEPT ![s] = IF s \in Complete THEN "connecting" ELSE "error"]
  /\ watcher' = [watcher EXCEPT ![s] = IF s \in Complete THEN "waiting" ELSE @]
  /\ UNCHANGED <<conn, joined, quit, heard, drops>>

Send(s) ==
  /\ call[s] = "none"
  /\ call' = [call EXCEPT ![s] = IF s \in Complete THEN "connecting" ELSE "error"]
  /\ UNCHANGED <<conn, joined, watcher, quit, heard, drops>>

Connect(s) ==
  /\ call[s] = "connecting"
  /\ \/ call' = [call EXCEPT ![s] = "connected"] /\ conn' = [conn EXCEPT ![s] = "open"]
     \/ call' = [call EXCEPT ![s] = "error"] /\ UNCHANGED conn
  /\ UNCHANGED <<joined, watcher, quit, heard, drops>>

(* The goroutine starts, and Send goes on to the library's Loop.  *)
StartWatcher(s) ==
  /\ call[s] = "connected"
  /\ call' = [call EXCEPT ![s] = "looping"]
  /\ watcher' = [watcher EXCEPT ![s] = "waiting"]
  /\ UNCHANGED <<conn, joined, quit, heard, drops>>

(* Loop, and Send with it, returns when it finds that Quit was called.  *)
LoopAsks(s) ==
  /\ call[s] = "looping"
  /\ call' = [call EXCEPT ![s] = IF quit[s] THEN "nil" ELSE "reading"]
  /\ UNCHANGED <<conn, joined, watcher, quit, heard, drops>>

(* The connection has ended.  *)
LoopWakes(s) ==
  /\ call[s] = "reading" /\ conn[s] = "down"
  /\ call' = [call EXCEPT ![s] = IF quit[s] THEN "nil" ELSE "redialing"]
  /\ UNCHANGED <<conn, joined, watcher, quit, heard, drops>>

(* A dial ends, whether or not Quit was called since it began.  One that fails *)
(* before Quit is tried again.                                                 *)
Reconnect(s) ==
  /\ call[s] = "redialing"
  /\ \/ call' = [call EXCEPT ![s] = "looping"] /\ conn' = [conn EXCEPT ![s] = "open"]
     \/ quit[s] /\ call' = [call EXCEPT ![s] = "nil"] /\ UNCHANGED conn
  /\ UNCHANGED <<joined, watcher, quit, heard, drops>>

-----------------------------------------------------------------------------
(* The callbacks, and what the server and the network do.                      *)

(* 001: the callback joins the channel.  *)
Welcome(s) ==
  /\ conn[s] = "open"
  /\ conn' = [conn EXCEPT ![s] = "welcomed"]
  /\ UNCHANGED <<call, joined, watcher, quit, heard, drops>>

(* Variant: the callback sends the message.  *)
SendOnJoin(s) ==
  /\ conn[s] \in {"welcomed", "joined"}
  /\ conn' = [conn EXCEPT ![s] = "joined"]
  /\ joined' = [joined EXCEPT ![s] = TRUE]
  /\ heard' = [heard EXCEPT ![s] = IF @ < 2 THEN @ + 1 ELSE @]
  /\ UNCHANGED <<call, watcher, quit, drops>>

(* JOIN: of the relay itself, and then of anybody who joins the channel.  The  *)
(* callback does not wait when the channel is full.                            *)
Join(s) ==
  /\ conn[s] \in {"welcomed", "joined"}
  /\ conn' = [conn EXCEPT ![s] = "joined"]
  /\ joined' = [joined EXCEPT ![s] = TRUE]
  /\ UNCHANGED <<call, watcher, quit, heard, drops>>

(* Also of a connection that was left behind when Send returned.  *)
Drop(s) ==
  /\ conn[s] \in Up /\ drops[s] < MaxDrops
  /\ conn' = [conn EXCEPT ![s] = "down"]
  /\ drops' = [drops EXCEPT ![s] = @ + 1]
  /\ UNCHANGED <<call, joined, watcher, quit, heard>>

(* The server answers QUIT by closing the connection.  *)
CloseAfterQuit(s) ==
  /\ conn[s] = "leaving"
  /\ conn' = [conn EXCEPT ![s] = "down"]
  /\ UNCHANGED <<call, joined, watcher, quit, heard, drops>>

-----------------------------------------------------------------------------
(* The goroutine: select, and what follows.                                    *)

(* Where a QUIT leaves the connection: on one that is lost or being dialed it  *)
(* is lost too.                                                                *)
AfterQuit(c) == IF c \in Up THEN "leaving" ELSE c

(* Variant: leave first, speak then.  *)
QuitThenSpeak(s) ==
  /\ watcher[s] = "waiting" /\ joined[s]
  /\ joined' = [joined EXCEPT ![s] = FALSE]
  /\ watcher' = [watcher EXCEPT ![s] = "told"]
  /\ quit' = [quit EXCEPT ![s] = TRUE]
  /\ conn' = [conn EXCEPT ![s] = AfterQuit(@)]
  /\ UNCHANGED <<call, heard, drops>>

ReceiveJoined(s) ==
  /\ watcher[s] = "waiting" /\ joined[s]
  /\ joined' = [joined EXCEPT ![s] = FALSE]
  /\ watcher' = [watcher EXCEPT ![s] = "told"]
  /\ UNCHANGED <<call, conn, quit, heard, drops>>

(* The connection may have been lost since, and made again: the channel may    *)
(* take a message from outside or not.                                         *)
Privmsg(s) ==
  /\ watcher[s] = "told"
  /\ watcher' = [watcher EXCEPT ![s] = "spoken"]
  /\ \/ conn[s] \in Up /\ heard' = [heard EXCEPT ![s] = @ + 1]
     \/ UNCHANGED heard
  /\ UNCHANGED <<call, conn, joined, quit, drops>>

Quit(s) ==
  /\ watcher' = [watcher EXCEPT ![s] = "done"]
  /\ quit' = [quit EXCEPT ![s] = TRUE]
  /\ conn' = [conn EXCEPT ![s] = AfterQuit(@)]
  /\ UNCHANGED <<call, joined, heard, drops>>

(* AfterFunc, one second after the message.  *)
QuitAfterMessage(s) == watcher[s] = "spoken" /\ Quit(s)

(* Variant: the timeout is only logged.  *)
GiveUpQuietly(s) ==
  /\ watcher[s] = "waiting"
  /\ watcher' = [watcher EXCEPT ![s] = "done"]
  /\ UNCHANGED <<call, conn, joined, quit, heard, drops>>

(* Ten seconds; select may prefer it to a join that has come in time.  *)
GiveUp(s) == watcher[s] = "waiting" /\ Quit(s)

-----------------------------------------------------------------------------
SendStep(s) ==
  Connect(s) \/ StartWatcher(s) \/ LoopAsks(s) \/ LoopWakes(s) \/ Reconnect(s)

WatcherStep(s) == ReceiveJoined(s) \/ Privmsg(s) \/ QuitAfterMessage(s) \/ GiveUp(s)

NetworkStep(s) == Welcome(s) \/ Join(s) \/ Drop(s) \/ CloseAfterQuit(s)

RelayTypeOK ==
  /\ call \in [Sends -> {"none", "connecting", "connected"} \cup InLoop \cup Over]
  /\ conn \in [Sends -> {"down", "leaving"} \cup Up]
  /\ joined \in [Sends -> BOOLEAN]
  /\ watcher \in [Sends -> {"none", "waiting", "told", "spoken", "done"}]
  /\ quit \in [Sends -> BOOLEAN]
  /\ heard \in [Sends -> Nat]
  /\ drops \in [Sends -> 0..MaxDrops]
=============================================================================
