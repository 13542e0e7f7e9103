------------------------------ MODULE ZoomClient ------------------------------
(***************************************************************************)
(* One zoom.APIClient (internal/zoom/api_client.go), shared by the         *)
(* dispatches of a tenant: GetAccessToken caches the OAuth token under a   *)
(* mutex that stays locked over the token request, and GetMeetingJoinLink  *)
(* uses the token after the mutex was released.                            *)
(*                                                                         *)
(* "now" is the one clock; Zoom issues a token at some moment of the token *)
(* request and stops accepting it its lifetime later, while the client     *)
(* counts that lifetime from the moment the answer was decoded.  An HTTP   *)
(* client ends its request at its timeout.                                 *)
(***************************************************************************)
EXTENDS Integers

CONSTANTS
  Callers,       \* goroutines that may fetch a link at the same time
  NoOne,         \* sentinel: the mutex is free
  OauthTimeout,  \* oauthTimeout
  ApiTimeout,    \* apiTimeout
  Buffer,        \* the 60 seconds that a cached token must have left
  Lifetimes,     \* values of expires_in
  MaxTime        \* bound on the clock

(* The source has 30, 10 and 60 seconds; Zoom's tokens live for an hour.    *)
ASSUME ZoomClientAssumption ==
  /\ NoOne \notin Callers
  /\ OauthTimeout \in Nat /\ ApiTimeout \in Nat
  /\ Buffer \in Nat /\ Buffer >= OauthTimeout + ApiTimeout
  /\ Lifetimes \subseteq Nat
  /\ \A l \in Lifetimes : l > OauthTimeout + ApiTimeout
  /\ MaxTime \in Nat

VARIABLES
  now,          \* the clock
  mu,           \* the goroutine that holds the mutex, or NoOne
  cached,       \* whether cachedToken is set
  dies,         \* when Zoom stops accepting cachedToken
  tokenExpiry,  \* when the client believes it does
  caller        \* caller[c]: what the goroutine is doing

vars == <<now, mu, cached, dies, tokenExpiry, caller>>

Steps == {"idle", "lock", "check", "token", "link"}

(* "since" is when the request on its way was sent, "dies" when Zoom stops  *)
(* accepting the token it carries.                                          *)
CallerState == [step : Steps, since : Nat, dies : Nat]

Idle == [step |-> "idle", since |-> 0, dies |-> 0]

Init ==
  /\ now = 0
  /\ mu = NoOne
  /\ cached = FALSE
  /\ dies = 0
  /\ tokenExpiry = 0
  /\ caller = [c \in Callers |-> Idle]

-----------------------------------------------------------------------------
(* GetMeetingJoinLink begins with GetAccessToken. *)
Call(c) ==
  /\ caller[c].step = "idle"
  /\ caller' = [caller EXCEPT ![c].step = "lock"]
  /\ UNCHANGED <<now, mu, cached, dies, tokenExpiry>>

Lock(c) ==
  /\ caller[c].step = "lock" /\ mu = NoOne
  /\ mu' = c
  /\ caller' = [caller EXCEPT ![c].step = "check"]
  /\ UNCHANGED <<now, cached, dies, tokenExpiry>>

(* Variant: without the buffer. *)
NotExpiredYet == cached /\ now < tokenExpiry

StillValid == cached /\ now < tokenExpiry - Buffer

(* The meeting request is sent with a token that dies at t. *)
UseToken(c, t) ==
  caller' = [caller EXCEPT ![c] = [step |-> "link", since |-> now, dies |-> t]]

ReturnCached(c) ==
  /\ caller[c].step = "check" /\ StillValid
  /\ mu' = NoOne
  /\ UseToken(c, dies)
  /\ UNCHANGED <<now, cached, dies, tokenExpiry>>

(* Variant: the mutex is not held over the request. *)
RequestUnlocked(c) ==
  /\ caller[c].step = "check" /\ ~StillValid
  /\ mu' = NoOne
  /\ caller' = [caller EXCEPT ![c] = [Idle EXCEPT !.step = "token", !.since = now]]
  /\ UNCHANGED <<now, cached, dies, tokenExpiry>>

RequestToken(c) ==
  /\ caller[c].step = "check" /\ ~StillValid
  /\ caller' = [caller EXCEPT ![c] = [Idle EXCEPT !.step = "token", !.since = now]]
  /\ UNCHANGED <<now, mu, cached, dies, tokenExpiry>>

(* The answer: a token issued at some moment since the request was sent.    *)
TokenReceived(c) ==
  /\ caller[c].step = "token"
  /\ \E issued \in caller[c].since..now, l \in Lifetimes :
       /\ cached' = TRUE
       /\ dies' = issued + l
       /\ tokenExpiry' = now + l
       /\ UseToken(c, issued + l)
  /\ mu' = NoOne
  /\ UNCHANGED now

(* A timeout, a status other than 200 or an unreadable body: the call fails *)
(* and the token that was cached stays.                                     *)
TokenFailed(c) ==
  /\ caller[c].step = "token"
  /\ mu' = NoOne
  /\ caller' = [caller EXCEPT ![c] = Idle]
  /\ UNCHANGED <<now, cached, dies, tokenExpiry>>

(* The meeting request is answered or fails; the token cache is untouched.  *)
LinkDone(c) ==
  /\ caller[c].step = "link"
  /\ caller' = [caller EXCEPT ![c] = Idle]
  /\ UNCHANGED <<now, mu, cached, dies, tokenExpiry>>

(* Time passes, but no request outlives its timeout. *)
Tick ==
  /\ now < MaxTime
  /\ \A c \in Callers :
       /\ caller[c].step = "token" => now < caller[c].since + OauthTimeout
       /\ caller[c].step = "link" => now < caller[c].since + ApiTimeout
  /\ now' = now + 1
  /\ UNCHANGED <<mu, cached, dies, tokenExpiry, caller>>

CallerStep(c) ==
  \/ Call(c)
  \/ Lock(c)
  \/ ReturnCached(c)
  \/ RequestToken(c)
  \/ TokenReceived(c)
  \/ TokenFailed(c)
  \/ LinkDone(c)

Next == Tick \/ \E c \in Callers : CallerStep(c)

Spec == Init /\ [][Next]_vars

-----------------------------------------------------------------------------
(* Properties *)

(* Every variable has its type, and the mutex has the one goroutine that    *)
(* checks the cache or waits for a token.                                   *)
TypeOK ==
  /\ now \in Nat
  /\ mu \in Callers \cup {NoOne}
  /\ cached \in BOOLEAN
  /\ dies \in Nat
  /\ tokenExpiry \in Nat
  /\ caller \in [Callers -> CallerState]
  /\ \A c \in Callers : caller[c].step \in {"check", "token"} => mu = c

(* As long as a meeting request is on its way, up to its timeout, Zoom      *)
(* accepts the token it carries: the buffer covers both the latency of the  *)
(* token request, which the expiry does not account for, and the meeting    *)
(* request itself.                                                          *)
TokenOutlivesRequest ==
  \A c \in Callers : caller[c].step = "link" => now < caller[c].dies

(* A token is only replaced when it is in its last Buffer seconds, however  *)
(* many goroutines found it stale together: the first one fetches, and the  *)
(* others, who waited for the mutex, use what it got.                       *)
OneRefreshPerToken ==
  [][cached /\ tokenExpiry' # tokenExpiry => now >= tokenExpiry - Buffer]_vars
=============================================================================
