----------------------------- MODULE StageProofs -----------------------------
(***************************************************************************)
(* What two of the stages of POST /accounts/open guarantee on their own:   *)
(* the anti-replay middleware for any number of messages and deliveries,   *)
(* any skew, any least time to live and any faults; the opening of an      *)
(* account for any number of requests and any lives of the two tokens.     *)
(***************************************************************************)
EXTENDS AntiReplay, AccountOpening, TLAPS

-----------------------------------------------------------------------------
(* Anti-replay                                                             *)

USE MsgAssumption, SkewAssumption, ReplayBoundAssumption

\* A delivery is under way only of a message whose time has come.
CheckedInv ==
    \A r \in Req : delivery[r] # NoMsg => age[delivery[r]] >= -Skew

\* Every use is paid by a fault; or one is not, and then the key is there for
\* the rest of the window; or the window is at its end.
Paid(m) ==
    \/ used[m] <= nonceFaults
    \/ used[m] = nonceFaults + 1 /\ age[m] + nonce[m] >= Skew
    \/ age[m] >= Skew

LifeInv == \A m \in Msg : Paid(m)

ReplayIInv ==
    /\ ReplayTypeOK
    /\ CheckedInv
    /\ LifeInv
    /\ NonceMeansUsed

\* A nonce lives for the whole width of the window.
LEMMA NonceTTLType == NonceTTL \in Nat /\ NonceTTL >= 2 * Skew /\ NonceTTL > 0
BY DEF NonceTTL

\* Nothing was delivered.
LEMMA InitReplayIInv == ReplayInit => ReplayIInv
<1> SUFFICES ASSUME ReplayInit PROVE ReplayIInv
  OBVIOUS
<1>1. ReplayTypeOK
  BY NonceTTLType DEF ReplayInit, ReplayTypeOK
<1>2. CheckedInv /\ LifeInv /\ NonceMeansUsed
  BY DEF ReplayInit, CheckedInv, LifeInv, Paid, NonceMeansUsed
<1> QED BY <1>1, <1>2 DEF ReplayIInv

\* A delivery begins within the window.
LEMMA CheckTimestampStep ==
  ASSUME ReplayIInv, NEW r \in Req, NEW m \in Msg, CheckTimestamp(r, m)
  PROVE  ReplayIInv'
<1> USE DEF ReplayIInv, CheckTimestamp, Deliver
<1>1. ReplayTypeOK'
  BY DEF ReplayTypeOK
<1>2. CheckedInv'
  BY DEF ReplayTypeOK, CheckedInv, InWindow
<1>3. LifeInv' /\ NonceMeansUsed'
  BY DEF LifeInv, Paid, NonceMeansUsed
<1> QED BY <1>1, <1>2, <1>3

\* The key is made, with the whole window's width to live.
LEMMA TakeNonceStep ==
  ASSUME ReplayIInv, NEW r \in Req, TakeNonce(r)
  PROVE  ReplayIInv'
<1> USE DEF ReplayIInv, TakeNonce, Finish, Remember, PastNonce
<1>0. /\ delivery[r] \in Msg
      /\ age[delivery[r]] >= -Skew
  BY DEF ReplayTypeOK, CheckedInv
<1>1. ReplayTypeOK'
  <2>1. nonce' \in [Msg -> 0 .. NonceTTL]
    BY <1>0, NonceTTLType DEF ReplayTypeOK
  <2>2. used' \in [Msg -> Nat]
    BY <1>0 DEF ReplayTypeOK
  <2>3. delivery' \in [Req -> Msg \union {NoMsg}]
    BY DEF ReplayTypeOK
  <2> QED BY <2>1, <2>2, <2>3 DEF ReplayTypeOK
<1>2. CheckedInv'
  BY DEF ReplayTypeOK, CheckedInv
<1>3. LifeInv'
  <2> SUFFICES ASSUME NEW m \in Msg PROVE Paid(m)'
    BY DEF LifeInv
  <2> USE DEF Paid
  <2>1. CASE m = delivery[r]
    <3>1. used'[m] = used[m] + 1 /\ nonce'[m] = NonceTTL /\ nonce[m] = 0
      BY <2>1, <1>0 DEF ReplayTypeOK
    <3>2. used[m] <= nonceFaults \/ age[m] >= Skew
      BY <3>1 DEF LifeInv, ReplayTypeOK
    <3> QED BY <3>1, <3>2, <2>1, <1>0, NonceTTLType DEF ReplayTypeOK
  <2>2. CASE m # delivery[r]
    BY <2>2, <1>0 DEF LifeInv, ReplayTypeOK
  <2> QED BY <2>1, <2>2
<1>4. NonceMeansUsed'
  BY <1>0 DEF NonceMeansUsed, ReplayTypeOK
<1> QED BY <1>1, <1>2, <1>3, <1>4

\* Redis fails; the use is paid by the fault.
LEMMA NonceUnknownStep ==
  ASSUME ReplayIInv, NEW r \in Req, NonceUnknown(r)
  PROVE  ReplayIInv'
<1> USE DEF ReplayIInv, NonceUnknown, Finish, NonceFault, Remember, PastNonce
<1>0. delivery[r] \in Msg
  BY DEF ReplayTypeOK
<1>1. ReplayTypeOK'
  <2>1. nonce' \in [Msg -> 0 .. NonceTTL]
    BY <1>0, NonceTTLType DEF ReplayTypeOK
  <2>2. used' \in [Msg -> Nat]
    BY <1>0 DEF ReplayTypeOK
  <2>3. delivery' \in [Req -> Msg \union {NoMsg}]
    BY DEF ReplayTypeOK
  <2> QED BY <2>1, <2>2, <2>3 DEF ReplayTypeOK
<1>2. CheckedInv'
  BY DEF ReplayTypeOK, CheckedInv
<1>3. LifeInv'
  <2> SUFFICES ASSUME NEW m \in Msg PROVE Paid(m)'
    BY DEF LifeInv
  <2> USE DEF Paid
  <2>1. used'[m] <= used[m] + 1 /\ nonceFaults' = nonceFaults + 1
    BY <1>0 DEF ReplayTypeOK
  <2>2. nonce'[m] >= nonce[m] /\ age'[m] = age[m]
    BY <1>0, NonceTTLType DEF ReplayTypeOK
  <2>3. used'[m] \in Nat /\ nonce'[m] \in Nat
    BY <1>1 DEF ReplayTypeOK
  <2> QED BY <2>1, <2>2, <2>3 DEF LifeInv, ReplayTypeOK
<1>4. NonceMeansUsed'
  BY DEF NonceMeansUsed, ReplayTypeOK
<1> QED BY <1>1, <1>2, <1>3, <1>4

\* A delivery ends, and nothing else changes.
LEMMA ReplayedStep ==
  ASSUME ReplayIInv, NEW r \in Req, Replayed(r)
  PROVE  ReplayIInv'
<1> USE DEF ReplayIInv, Replayed, Finish
<1>1. ReplayTypeOK'
  BY DEF ReplayTypeOK
<1>2. CheckedInv'
  BY DEF ReplayTypeOK, CheckedInv
<1>3. LifeInv' /\ NonceMeansUsed'
  BY DEF LifeInv, Paid, NonceMeansUsed
<1> QED BY <1>1, <1>2, <1>3

\* The key is made by a fault, of a message that goes nowhere.
LEMMA NonceRetriedStep ==
  ASSUME ReplayIInv, NEW r \in Req, NonceRetried(r)
  PROVE  ReplayIInv'
<1> USE DEF ReplayIInv, NonceRetried, Finish, NonceFault, Remember
<1>0. delivery[r] \in Msg
  BY DEF ReplayTypeOK
<1>1. ReplayTypeOK'
  BY <1>0, NonceTTLType DEF ReplayTypeOK
<1>2. CheckedInv'
  BY DEF ReplayTypeOK, CheckedInv
<1>3. LifeInv' /\ NonceMeansUsed'
  BY DEF LifeInv, Paid, NonceMeansUsed, ReplayTypeOK
<1> QED BY <1>1, <1>2, <1>3

\* No delivery is left.
LEMMA ServerLostStep ==
  ASSUME ReplayIInv, ServerLost
  PROVE  ReplayIInv'
<1> USE DEF ReplayIInv, ServerLost
<1>1. ReplayTypeOK'
  BY DEF ReplayTypeOK
<1>2. CheckedInv' /\ LifeInv' /\ NonceMeansUsed'
  BY DEF CheckedInv, LifeInv, Paid, NonceMeansUsed
<1> QED BY <1>1, <1>2

\* Every key is lost to one fault, which pays one more use of each message.
LEMMA NoncesLostStep ==
  ASSUME ReplayIInv, NoncesLost
  PROVE  ReplayIInv'
<1> USE DEF ReplayIInv, NoncesLost, NonceFault
<1>1. ReplayTypeOK'
  BY NonceTTLType DEF ReplayTypeOK
<1>2. CheckedInv'
  BY DEF CheckedInv
<1>3. LifeInv' /\ NonceMeansUsed'
  BY DEF LifeInv, Paid, NonceMeansUsed, ReplayTypeOK
<1> QED BY <1>1, <1>2, <1>3

\* Ages rise as fast as keys expire.
LEMMA ReplayTickStep ==
  ASSUME ReplayIInv, ReplayTick
  PROVE  ReplayIInv'
<1> USE DEF ReplayIInv, ReplayTick
<1>1. ReplayTypeOK'
  <2>1. age' \in [Msg -> -Ahead .. Skew + 1]
    BY DEF ReplayTypeOK
  <2>2. nonce' \in [Msg -> 0 .. NonceTTL]
    BY NonceTTLType DEF ReplayTypeOK
  <2> QED BY <2>1, <2>2 DEF ReplayTypeOK
<1>2. CheckedInv'
  BY DEF CheckedInv, ReplayTypeOK
<1>3. LifeInv'
  <2> SUFFICES ASSUME NEW m \in Msg PROVE Paid(m)'
    BY DEF LifeInv
  <2> USE DEF Paid
  <2>1. age[m] \in Int /\ nonce[m] \in Nat /\ used[m] \in Nat /\ nonceFaults \in Nat
    BY DEF ReplayTypeOK
  <2>2. /\ age'[m] = IF age[m] <= Skew THEN age[m] + 1 ELSE age[m]
        /\ nonce'[m] = IF nonce[m] > 0 THEN nonce[m] - 1 ELSE 0
    OBVIOUS
  <2> QED BY <2>1, <2>2 DEF LifeInv
<1>4. NonceMeansUsed'
  BY DEF NonceMeansUsed, ReplayTypeOK
<1> QED BY <1>1, <1>2, <1>3, <1>4

\* The invariant is inductive.
LEMMA ReplayIInvStep ==
  ASSUME ReplayIInv, [ReplayNext]_replayVars
  PROVE  ReplayIInv'
<1>1. CASE ReplayNext
  BY <1>1, CheckTimestampStep, TakeNonceStep, NonceUnknownStep, ReplayedStep,
     NonceRetriedStep, ServerLostStep, NoncesLostStep, ReplayTickStep DEF ReplayNext
<1>2. CASE UNCHANGED replayVars
  BY <1>2 DEF replayVars, ReplayIInv, ReplayTypeOK, CheckedInv, LifeInv, Paid, NonceMeansUsed
<1> QED BY <1>1, <1>2

LEMMA ReplayInvariance == ReplaySpec => []ReplayIInv
<1>1. ReplayIInv /\ [ReplayNext]_replayVars => ReplayIInv'
  BY ReplayIInvStep
<1> QED BY <1>1, InitReplayIInv, PTL DEF ReplaySpec

\* Every variable keeps its type.
THEOREM ReplayTypeCorrect == ReplaySpec => []ReplayTypeOK
<1>1. ReplayIInv => ReplayTypeOK
  BY DEF ReplayIInv
<1> QED BY <1>1, ReplayInvariance, PTL

\* Within its window a message gets past the nonce once, and once more per
\* fault of Redis, whatever the skew and the least time to live.
THEOREM ReplayIsPaid == ReplaySpec => []ReplayPaid
<1>1. ReplayIInv => ReplayPaid
  BY DEF ReplayIInv, ReplayTypeOK, LifeInv, Paid, ReplayPaid
<1> QED BY <1>1, ReplayInvariance, PTL

\* A message that was refused for its timestamp has left no nonce behind.
THEOREM ReplayNonceMeansUsed == ReplaySpec => []NonceMeansUsed
<1>1. ReplayIInv => NonceMeansUsed
  BY DEF ReplayIInv
<1> QED BY <1>1, ReplayInvariance, PTL

-----------------------------------------------------------------------------
(* The opening of an account                                               *)

USE TokenAssumption, OpeningBoundAssumption

\* Nothing has happened.
LEMMA InitOpeningType == OpeningInit => OpeningTypeOK
<1> SUFFICES ASSUME OpeningInit PROVE OpeningTypeOK
  OBVIOUS
<1>1. granted \in {"none", "signed", "given"}
  BY DEF OpeningInit
<1> QED BY <1>1 DEF OpeningInit, OpeningTypeOK

\* A step that moves one request, and may count an account or a failure or set
\* the status, leaves the sessions alone.
LEMMA RequestStep ==
  ASSUME OpeningTypeOK, NEW r \in Req,
         NEW from, NEW next \in {"idle", "check", "insert", "status", "token", "answer"},
         To(r, from, next),
         status' \in {"ACTIVE", "SUSPENDED"},
         accounts' \in 0 .. MaxAccounts, signed' \in 0 .. ElevatedTTL,
         granted' \in {"none", "signed", "given"},
         dbFaults' \in 0 .. MaxDbFaults,
         UNCHANGED sessionVars
  PROVE  OpeningTypeOK'
<1>1. step' \in [Req -> {"idle", "check", "insert", "status", "token", "answer"}]
  BY DEF OpeningTypeOK, To
<1> QED BY <1>1 DEF OpeningTypeOK, sessionVars

\* The request is admitted, checked, refused or loses its answer, the status is
\* set or its UPDATE fails.
LEMMA MoveStep ==
  ASSUME OpeningTypeOK, NEW r \in Req,
         \/ AdmitOpening(r) \/ HasNoAccount(r) \/ RefuseOpening(r)
         \/ SetCustomerActive(r) \/ StatusNotSet(r) \/ AnswerLost(r)
  PROVE  OpeningTypeOK'
<1>1. /\ status' \in {"ACTIVE", "SUSPENDED"}
      /\ accounts' \in 0 .. MaxAccounts
      /\ signed' \in 0 .. ElevatedTTL
      /\ granted' \in {"none", "signed", "given"}
      /\ dbFaults' \in 0 .. MaxDbFaults
      /\ UNCHANGED sessionVars
  BY DEF tokenVars, OpeningTypeOK, AdmitOpening, HasNoAccount, RefuseOpening,
         SetCustomerActive, StatusNotSet, AnswerLost
<1>2. \/ To(r, "idle", "check") \/ To(r, "check", "insert") \/ To(r, "check", "idle")
      \/ To(r, "status", "token") \/ To(r, "answer", "idle")
  BY DEF AdmitOpening, HasNoAccount, RefuseOpening, SetCustomerActive, StatusNotSet,
         AnswerLost
<1> QED BY <1>1, <1>2, RequestStep

\* A row more, with or without the answer to the INSERT.
LEMMA InsertStep ==
  ASSUME OpeningTypeOK, NEW r \in Req, CreateAccount(r) \/ CreateFails(r)
  PROVE  OpeningTypeOK'
<1>1. accounts' \in 0 .. MaxAccounts /\ dbFaults' \in 0 .. MaxDbFaults
  BY DEF OpeningTypeOK, CreateAccount, CreateFails, DbFault
<1>2. /\ status' \in {"ACTIVE", "SUSPENDED"}
      /\ signed' \in 0 .. ElevatedTTL
      /\ granted' \in {"none", "signed", "given"}
      /\ UNCHANGED sessionVars
  BY DEF tokenVars, OpeningTypeOK, CreateAccount, CreateFails
<1>3. To(r, "insert", "status") \/ To(r, "insert", "idle")
  BY DEF CreateAccount, CreateFails
<1> QED BY <1>1, <1>2, <1>3, RequestStep

\* A token is signed, or cannot be.
LEMMA ElevateStep ==
  ASSUME OpeningTypeOK, NEW r \in Req, Elevate(r) \/ ElevateFails(r)
  PROVE  OpeningTypeOK'
<1>1. /\ signed' \in 0 .. ElevatedTTL /\ dbFaults' \in 0 .. MaxDbFaults
      /\ granted' \in {"none", "signed", "given"}
  BY DEF tokenVars, OpeningTypeOK, Elevate, ElevateFails, DbFault
<1>2. /\ status' \in {"ACTIVE", "SUSPENDED"}
      /\ accounts' \in 0 .. MaxAccounts /\ UNCHANGED sessionVars
  BY DEF OpeningTypeOK, Elevate, ElevateFails
<1>3. To(r, "token", "answer") \/ To(r, "token", "idle")
  BY DEF Elevate, ElevateFails
<1> QED BY <1>1, <1>2, <1>3, RequestStep

\* The elevated token reaches the customer.
LEMMA GetElevatedStep ==
  ASSUME OpeningTypeOK, GetElevated,
         step' \in [Req -> {"idle", "check", "insert", "status", "token", "answer"}]
  PROVE  OpeningTypeOK'
<1>1. granted' \in {"none", "signed", "given"}
  BY DEF GetElevated
<1> QED BY <1>1 DEF OpeningTypeOK, GetElevated

LEMMA AnswerStep ==
  ASSUME OpeningTypeOK, NEW r \in Req, Answer(r)
  PROVE  OpeningTypeOK'
BY GetElevatedStep DEF OpeningTypeOK, Answer, To

LEMMA AnsweredAgainStep ==
  ASSUME OpeningTypeOK, AnsweredAgain
  PROVE  OpeningTypeOK'
BY GetElevatedStep DEF OpeningTypeOK, AnsweredAgain

\* No request and no login is under way any more.
LEMMA OpeningCrashStep ==
  ASSUME OpeningTypeOK, OpeningCrash
  PROVE  OpeningTypeOK'
<1> USE DEF OpeningCrash, tokenVars
<1>1. granted' \in {"none", "signed", "given"}
  BY DEF OpeningTypeOK
<1> QED BY <1>1 DEF OpeningTypeOK

\* A login begins or ends, with a token or without, or the bank suspends the
\* customer.
LEMMA LoginOrSuspendStep ==
  ASSUME OpeningTypeOK, Suspend \/ \E l \in LoginReq : LoginStep(l)
  PROVE  OpeningTypeOK'
<1> USE DEF Suspend, LoginStep, ReadActive, SignAccess, LoginFails, tokenVars, sessionVars
<1>1. granted' \in {"none", "signed", "given"}
  BY DEF OpeningTypeOK
<1>2. /\ status' \in {"ACTIVE", "SUSPENDED"} /\ seen' \subseteq LoginReq
      /\ access' \in 0 .. AccessTTL
  BY DEF OpeningTypeOK
<1>3. UNCHANGED <<accounts, step, signed, elevated, dbFaults>>
  OBVIOUS
<1> QED BY <1>1, <1>2, <1>3 DEF OpeningTypeOK

\* Every token ages to 0 and no further.
LEMMA OpeningTickStep ==
  ASSUME OpeningTypeOK, OpeningTick
  PROVE  OpeningTypeOK'
<1> USE DEF OpeningTick, Less
<1>1. granted' \in {"none", "signed", "given"}
  BY DEF OpeningTypeOK
<1>2. access' \in 0 .. AccessTTL /\ signed' \in 0 .. ElevatedTTL
      /\ elevated' \in 0 .. ElevatedTTL
  BY DEF OpeningTypeOK
<1> QED BY <1>1, <1>2 DEF OpeningTypeOK

\* The types are inductive.
LEMMA OpeningTypeStep ==
  ASSUME OpeningTypeOK, [OpeningNext]_openingVars
  PROVE  OpeningTypeOK'
<1>1. ASSUME NEW r \in Req, OpeningStep(r) PROVE OpeningTypeOK'
  BY <1>1, MoveStep, InsertStep, ElevateStep, AnswerStep DEF OpeningStep
<1>2. CASE UNCHANGED openingVars
  <2>1. granted' \in {"none", "signed", "given"}
    BY <1>2 DEF openingVars, OpeningTypeOK
  <2> QED BY <1>2, <2>1 DEF openingVars, OpeningTypeOK
<1> QED BY <1>1, <1>2, AnsweredAgainStep, OpeningCrashStep, LoginOrSuspendStep,
           OpeningTickStep DEF OpeningNext

\* Every variable of an opening keeps its type.
THEOREM OpeningTypeCorrect == OpeningSpec => []OpeningTypeOK
<1>1. OpeningTypeOK /\ [OpeningNext]_openingVars => OpeningTypeOK'
  BY OpeningTypeStep
<1> QED BY <1>1, InitOpeningType, PTL DEF OpeningSpec

\* A request in front of the status UPDATE was admitted with an access token, so
\* none comes there once the suspension is settled.
LEMMA RequestKeepsSettled ==
  ASSUME OpeningTypeOK, Settled, NEW r \in Req, OpeningStep(r)
  PROVE  Settled'
<1>1. step \in [Req -> {"idle", "check", "insert", "status", "token", "answer"}]
  BY DEF OpeningTypeOK
<1>2. ~AdmitOpening(r)
  <2>1. \A role \in Roles : ~MayOpen(role)
    BY DEF Settled, Roles, MayOpen
  <2> QED BY <2>1 DEF AdmitOpening
<1>3. step[r] \notin {"check", "insert", "status"}
  BY DEF Settled
<1>4. Elevate(r) \/ ElevateFails(r) \/ Answer(r) \/ AnswerLost(r)
  BY <1>2, <1>3 DEF OpeningStep, HasNoAccount, RefuseOpening, CreateAccount, CreateFails,
     SetCustomerActive, StatusNotSet, To
<1>5. /\ UNCHANGED <<status, seen, access>>
      /\ \E next \in {"idle", "answer"} : step' = [step EXCEPT ![r] = next]
  BY <1>4 DEF Elevate, ElevateFails, Answer, AnswerLost, GetElevated, To, sessionVars
<1> QED BY <1>1, <1>5 DEF Settled

\* Whatever lives the tokens have, and however many requests and logins there
\* are, a suspension that is settled is undone by no step of the service and of
\* the customer, and nothing comes back that could undo it.
THEOREM OpeningSuspensionStands == OpeningSpec => SuspensionStands
<1>1. OpeningTypeOK /\ [OpeningNext]_openingVars => [Settled => Settled']_openingVars
  <2> SUFFICES ASSUME OpeningTypeOK, Settled, OpeningNext PROVE Settled'
    OBVIOUS
  <2>1. CASE \E r \in Req : OpeningStep(r)
    BY <2>1, RequestKeepsSettled
  <2>2. CASE \E l \in LoginReq : LoginStep(l)
    BY <2>2 DEF Settled, LoginStep, ReadActive, SignAccess, LoginFails
  <2>3. CASE AnsweredAgain
    BY <2>3 DEF Settled, AnsweredAgain, GetElevated
  <2>4. CASE OpeningCrash
    BY <2>4 DEF Settled, OpeningCrash
  <2>5. CASE Suspend
    BY <2>5 DEF Settled, Suspend
  <2>6. CASE OpeningTick
    BY <2>6 DEF Settled, OpeningTick, Less
  <2> QED BY <2>1, <2>2, <2>3, <2>4, <2>5, <2>6 DEF OpeningNext
<1> QED BY <1>1, OpeningTypeCorrect, PTL DEF OpeningSpec, SuspensionStands
=============================================================================
