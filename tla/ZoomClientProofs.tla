--------------------------- MODULE ZoomClientProofs ---------------------------
(***************************************************************************)
(* The token cache of ZoomClient is right for every number of goroutines   *)
(* and all timeouts, buffers and lifetimes that ZoomClientAssumption       *)
(* admits.                                                                 *)
(***************************************************************************)
EXTENDS ZoomClient, TLAPS

USE ZoomClientAssumption

(* The client overestimates a token by at most the latency of the request   *)
(* that brought it; no request is older than its timeout; and a token that  *)
(* is on its way to Zoom outlives the request's timeout.                    *)
TimesOK ==
  /\ cached => tokenExpiry <= dies + OauthTimeout
  /\ \A c \in Callers :
       /\ caller[c].step = "token" =>
            caller[c].since <= now /\ now <= caller[c].since + OauthTimeout
       /\ caller[c].step = "link" =>
            /\ now <= caller[c].since + ApiTimeout
            /\ caller[c].since + ApiTimeout < caller[c].dies

LEMMA IdleTyped == Idle \in CallerState /\ Idle.step = "idle"
BY DEF Idle, CallerState, Steps

LEMMA InitTyped == Init => TypeOK /\ TimesOK
<1> SUFFICES ASSUME Init PROVE TypeOK /\ TimesOK
  OBVIOUS
<1>1. \A c \in Callers : caller[c] = Idle
  BY DEF Init
<1>2. caller \in [Callers -> CallerState]
  BY IdleTyped DEF Init
<1> QED
  BY <1>1, <1>2, IdleTyped DEF Init, TypeOK, TimesOK

(* TypeOK is inductive: whoever checks or waits for a token came through    *)
(* the mutex and has not given it back.                                     *)
LEMMA NextTyped == TypeOK /\ TimesOK /\ [Next]_vars => TypeOK'
<1> SUFFICES ASSUME TypeOK, TimesOK, [Next]_vars PROVE TypeOK'
  OBVIOUS
<1>1. ASSUME NEW c \in Callers, Call(c) PROVE TypeOK'
  BY <1>1 DEF TypeOK, Call, CallerState, Steps
<1>2. ASSUME NEW c \in Callers, Lock(c) PROVE TypeOK'
  BY <1>2 DEF TypeOK, Lock, CallerState, Steps
<1>3. ASSUME NEW c \in Callers, ReturnCached(c) PROVE TypeOK'
  BY <1>3 DEF TypeOK, ReturnCached, UseToken, CallerState, Steps
<1>4. ASSUME NEW c \in Callers, RequestToken(c) PROVE TypeOK'
  BY <1>4 DEF TypeOK, RequestToken, Idle, CallerState, Steps
<1>5. ASSUME NEW c \in Callers, TokenReceived(c) PROVE TypeOK'
  <2> PICK issued \in caller[c].since..now, l \in Lifetimes :
        /\ cached' = TRUE
        /\ dies' = issued + l
        /\ tokenExpiry' = now + l
        /\ UseToken(c, issued + l)
    BY <1>5 DEF TokenReceived
  <2>1. caller[c].since \in Nat /\ now \in Nat /\ l \in Nat
    BY DEF TypeOK, CallerState
  <2>2. issued + l \in Nat /\ now + l \in Nat
    BY <2>1
  <2> QED
    BY <1>5, <2>1, <2>2 DEF TypeOK, TokenReceived, UseToken, CallerState, Steps
<1>6. ASSUME NEW c \in Callers, TokenFailed(c) PROVE TypeOK'
  BY <1>6 DEF TypeOK, TokenFailed, Idle, CallerState, Steps
<1>7. ASSUME NEW c \in Callers, LinkDone(c) PROVE TypeOK'
  BY <1>7 DEF TypeOK, LinkDone, Idle, CallerState, Steps
<1>8. CASE Tick
  BY <1>8 DEF TypeOK, Tick
<1>9. CASE UNCHANGED vars
  BY <1>9 DEF TypeOK, vars
<1> QED
  BY <1>1, <1>2, <1>3, <1>4, <1>5, <1>6, <1>7, <1>8, <1>9 DEF Next, CallerStep

(* The arithmetic of the buffer: a cached token that passes the check has   *)
(* more than ApiTimeout left, and a new one was issued at most OauthTimeout *)
(* ago.                                                                     *)
LEMMA NextTimes == TypeOK /\ TimesOK /\ [Next]_vars => TimesOK'
<1> SUFFICES ASSUME TypeOK, TimesOK, [Next]_vars PROVE TimesOK'
  OBVIOUS
<1> \A c \in Callers : caller[c].since \in Nat /\ caller[c].dies \in Nat
  BY DEF TypeOK, CallerState
<1> now \in Nat /\ dies \in Nat /\ tokenExpiry \in Nat
  BY DEF TypeOK
<1>1. ASSUME NEW c \in Callers, Call(c) PROVE TimesOK'
  BY <1>1 DEF TypeOK, TimesOK, Call
<1>2. ASSUME NEW c \in Callers, Lock(c) PROVE TimesOK'
  BY <1>2 DEF TypeOK, TimesOK, Lock
<1>3. ASSUME NEW c \in Callers, ReturnCached(c) PROVE TimesOK'
  <2>1. now + ApiTimeout < dies
    BY <1>3 DEF ReturnCached, StillValid, TimesOK
  <2> QED
    BY <1>3, <2>1 DEF TypeOK, TimesOK, ReturnCached, UseToken
<1>4. ASSUME NEW c \in Callers, RequestToken(c) PROVE TimesOK'
  BY <1>4 DEF TypeOK, TimesOK, RequestToken, Idle
<1>5. ASSUME NEW c \in Callers, TokenReceived(c) PROVE TimesOK'
  <2> PICK issued \in caller[c].since..now, l \in Lifetimes :
        /\ cached' = TRUE
        /\ dies' = issued + l
        /\ tokenExpiry' = now + l
        /\ UseToken(c, issued + l)
    BY <1>5 DEF TokenReceived
  <2>1. now <= issued + OauthTimeout
    BY <1>5 DEF TokenReceived, TimesOK
  <2>2. now + ApiTimeout < issued + l /\ now + l <= issued + l + OauthTimeout
    BY <2>1
  <2> QED
    BY <1>5, <2>2 DEF TypeOK, TimesOK, TokenReceived, UseToken
<1>6. ASSUME NEW c \in Callers, TokenFailed(c) PROVE TimesOK'
  BY <1>6 DEF TypeOK, TimesOK, TokenFailed, Idle
<1>7. ASSUME NEW c \in Callers, LinkDone(c) PROVE TimesOK'
  BY <1>7 DEF TypeOK, TimesOK, LinkDone, Idle
<1>8. CASE Tick
  BY <1>8 DEF TimesOK, Tick
<1>9. CASE UNCHANGED vars
  BY <1>9 DEF TimesOK, vars
<1> QED
  BY <1>1, <1>2, <1>3, <1>4, <1>5, <1>6, <1>7, <1>8, <1>9 DEF Next, CallerStep

LEMMA AlwaysTimed == Spec => [](TypeOK /\ TimesOK)
BY InitTyped, NextTyped, NextTimes, PTL DEF Spec

(* The mutex is held by the goroutine that checks the cache or waits for a  *)
(* token, and by nobody else.                                               *)
THEOREM MutexHeld == Spec => []TypeOK
BY AlwaysTimed, PTL

(* A meeting request never carries a token that Zoom has stopped accepting. *)
THEOREM TokenLasts == Spec => []TokenOutlivesRequest
<1>1. TypeOK /\ TimesOK => TokenOutlivesRequest
  BY DEF TypeOK, TimesOK, TokenOutlivesRequest, CallerState
<1> QED
  BY <1>1, AlwaysTimed, PTL

(* While a goroutine waits for a token, the cached one is in its buffer:    *)
(* nobody else can have replaced it.                                        *)
StaleWhileAsking ==
  \A c \in Callers : caller[c].step = "token" /\ cached => now >= tokenExpiry - Buffer

LEMMA NextStale == TypeOK /\ StaleWhileAsking /\ [Next]_vars => StaleWhileAsking'
<1> SUFFICES ASSUME TypeOK, StaleWhileAsking, [Next]_vars PROVE StaleWhileAsking'
  OBVIOUS
<1> now \in Nat /\ tokenExpiry \in Nat
  BY DEF TypeOK
<1>1. ASSUME NEW c \in Callers, Call(c) PROVE StaleWhileAsking'
  BY <1>1 DEF TypeOK, StaleWhileAsking, Call
<1>2. ASSUME NEW c \in Callers, Lock(c) PROVE StaleWhileAsking'
  BY <1>2 DEF TypeOK, StaleWhileAsking, Lock
<1>3. ASSUME NEW c \in Callers, ReturnCached(c) PROVE StaleWhileAsking'
  BY <1>3 DEF TypeOK, StaleWhileAsking, ReturnCached, UseToken
<1>4. ASSUME NEW c \in Callers, RequestToken(c) PROVE StaleWhileAsking'
  BY <1>4 DEF TypeOK, StaleWhileAsking, RequestToken, StillValid, Idle
<1>5. ASSUME NEW c \in Callers, TokenReceived(c) PROVE StaleWhileAsking'
  <2>1. \A d \in Callers : caller'[d].step # "token"
    BY <1>5 DEF TypeOK, TokenReceived, UseToken
  <2> QED
    BY <2>1 DEF StaleWhileAsking
<1>6. ASSUME NEW c \in Callers, TokenFailed(c) PROVE StaleWhileAsking'
  BY <1>6 DEF TypeOK, StaleWhileAsking, TokenFailed, Idle
<1>7. ASSUME NEW c \in Callers, LinkDone(c) PROVE StaleWhileAsking'
  BY <1>7 DEF TypeOK, StaleWhileAsking, LinkDone, Idle
<1>8. CASE Tick
  BY <1>8 DEF StaleWhileAsking, Tick
<1>9. CASE UNCHANGED vars
  BY <1>9 DEF StaleWhileAsking, vars
<1> QED
  BY <1>1, <1>2, <1>3, <1>4, <1>5, <1>6, <1>7, <1>8, <1>9 DEF Next, CallerStep

(* A token that has more than Buffer left is never replaced.                *)
THEOREM SingleFlight == Spec => OneRefreshPerToken
<1>1. Init => StaleWhileAsking
  BY DEF Init, StaleWhileAsking, Idle
<1>2. TypeOK /\ StaleWhileAsking /\ [Next]_vars =>
        [cached /\ tokenExpiry' # tokenExpiry => now >= tokenExpiry - Buffer]_vars
  BY DEF StaleWhileAsking, Next, CallerStep, vars, Tick, Call, Lock, ReturnCached,
         RequestToken, TokenReceived, TokenFailed, LinkDone
<1> QED
  BY <1>1, <1>2, NextStale, MutexHeld, PTL DEF Spec, OneRefreshPerToken
=============================================================================
