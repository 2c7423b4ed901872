----------------------------- MODULE AntiReplay -----------------------------
(***************************************************************************)
(* AntiReplayMiddleware: the window around X-Timestamp and the X-Nonce key *)
(* in Redis.  A message (one timestamp, one nonce, one signature) may be   *)
(* delivered any number of times; the check of the timestamp and the SETNX *)
(* of the nonce are steps, and time may pass in between.                   *)
(***************************************************************************)
EXTENDS Integers, Requests

CONSTANTS
    Msg,        \* messages, each with a nonce of its own
    NoMsg,      \* none of the messages
    Skew,       \* maxSkew, in ticks (60 seconds on every route)
    Floor,      \* the least time to live of a nonce, in ticks (2 minutes)
    Ahead,      \* bound: how far in the future a timestamp can lie at first
    MaxNonceFaults \* bound on failed SETNX and restarts of Redis

ASSUME MsgAssumption == NoMsg \notin Msg
ASSUME SkewAssumption == Skew \in Nat \ {0} /\ Floor \in Nat
ASSUME ReplayBoundAssumption == Ahead \in Nat /\ MaxNonceFaults \in Nat

VARIABLES
    age,         \* server clock minus timestamp, until it is past the window
    nonce,       \* ticks the nonce key has to live, 0 when it is not there
    delivery,    \* the message a delivery has checked the timestamp of
    used,        \* history: deliveries that got past the nonce
    nonceFaults

replayVars == <<age, nonce, delivery, used, nonceFaults>>

NonceTTL == IF 2 * Skew < Floor THEN Floor ELSE 2 * Skew

InWindow(m) == -Skew <= age[m] /\ age[m] <= Skew

ReplayTypeOK ==
    /\ age \in [Msg -> -Ahead .. Skew + 1]
    /\ nonce \in [Msg -> 0 .. NonceTTL]
    /\ delivery \in [Req -> Msg \union {NoMsg}]
    /\ used \in [Msg -> Nat]
    /\ nonceFaults \in 0 .. MaxNonceFaults

\* A timestamp in the future: the client's clock is ahead, or the message is
\* still to be sent.
ReplayInit ==
    /\ age \in [Msg -> -Ahead .. Skew]
    /\ nonce = [m \in Msg |-> 0]
    /\ delivery = [r \in Req |-> NoMsg]
    /\ used = [m \in Msg |-> 0]
    /\ nonceFaults = 0

NonceFault == nonceFaults < MaxNonceFaults /\ nonceFaults' = nonceFaults + 1

Deliver(r, m) == delivery[r] = NoMsg /\ delivery' = [delivery EXCEPT ![r] = m]

\* The SETNX of delivery r ends.
Finish(r) == delivery[r] # NoMsg /\ delivery' = [delivery EXCEPT ![r] = NoMsg]

PastNonce(m) == used' = [used EXCEPT ![m] = @ + 1]

\* A faulty variant of the definition below it: a time to live that is added to
\* the one left.
RememberLonger(m) == nonce' = [nonce EXCEPT ![m] = @ + NonceTTL]

Remember(m) ==
    nonce' = [nonce EXCEPT ![m] = IF @ = 0 THEN NonceTTL ELSE @]

-----------------------------------------------------------------------------
(* Faulty variants of the steps below; each breaks one property.           *)

\* The difference without math.Abs: only old timestamps are refused.
CheckOnlyOld(r, m) ==
    /\ Deliver(r, m)
    /\ age[m] <= Skew
    /\ UNCHANGED <<age, nonce, used, nonceFaults>>

\* The nonce is taken before the timestamp is looked at.
CheckAfterNonce(r, m) ==
    /\ nonce[m] = 0
    /\ Remember(m)
    /\ UNCHANGED <<age, delivery, used, nonceFaults>>

-----------------------------------------------------------------------------
(* The middleware                                                          *)

\* A timestamp outside the window is answered 401 without a trace.
CheckTimestamp(r, m) ==
    /\ Deliver(r, m)
    /\ InWindow(m)
    /\ UNCHANGED <<age, nonce, used, nonceFaults>>

\* SetNX makes the key: the message goes on to the check of its signature.
TakeNonce(r) ==
    /\ Finish(r)
    /\ nonce[delivery[r]] = 0
    /\ Remember(delivery[r])
    /\ PastNonce(delivery[r])
    /\ UNCHANGED <<age, nonceFaults>>

\* SetNX fails, before or after its effect, and the message goes on.
NonceUnknown(r) ==
    /\ Finish(r)
    /\ NonceFault
    /\ Remember(delivery[r]) \/ UNCHANGED nonce
    /\ PastNonce(delivery[r])
    /\ UNCHANGED age

\* The key is there: 409.
Replayed(r) ==
    /\ Finish(r)
    /\ nonce[delivery[r]] > 0
    /\ UNCHANGED <<age, nonce, used, nonceFaults>>

\* The client library sends a SETNX again whose answer was lost, and finds the
\* key it has made itself: 409 to a message that went nowhere.
NonceRetried(r) ==
    /\ Finish(r)
    /\ NonceFault
    /\ Remember(delivery[r])
    /\ UNCHANGED <<age, used>>

\* The server ends; the keys stay in Redis.
ServerLost ==
    /\ delivery' = [r \in Req |-> NoMsg]
    /\ UNCHANGED <<age, nonce, used, nonceFaults>>

\* Redis restarts; it is configured without persistence.
NoncesLost ==
    /\ NonceFault
    /\ nonce' = [m \in Msg |-> 0]
    /\ UNCHANGED <<age, delivery, used>>

ReplayTick ==
    /\ age' = [m \in Msg |-> IF age[m] <= Skew THEN age[m] + 1 ELSE age[m]]
    /\ nonce' = [m \in Msg |-> IF nonce[m] > 0 THEN nonce[m] - 1 ELSE 0]
    /\ UNCHANGED <<delivery, used, nonceFaults>>

ReplayNext ==
    \/ \E r \in Req :
          \/ \E m \in Msg : CheckTimestamp(r, m)
          \/ TakeNonce(r) \/ NonceUnknown(r) \/ Replayed(r) \/ NonceRetried(r)
    \/ ServerLost \/ NoncesLost \/ ReplayTick

ReplaySpec == ReplayInit /\ [][ReplayNext]_replayVars

-----------------------------------------------------------------------------
(* Properties                                                              *)

\* However often a message is delivered, it gets past the nonce once, and once
\* more for each fault of Redis, until the very end of the window: the key lives
\* as long as its timestamp is accepted. (At the end itself and, for a delivery
\* whose timestamp was checked before it, afterwards the key can be gone.)
ReplayPaid == \A m \in Msg : age[m] < Skew => used[m] <= 1 + nonceFaults

\* Without a fault of Redis a nonce is remembered only of a message that went
\* on: what was refused for its timestamp may be sent again when its time comes.
NonceMeansUsed ==
    nonceFaults = 0 => \A m \in Msg : nonce[m] > 0 => used[m] > 0
=============================================================================
