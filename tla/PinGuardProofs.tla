--------------------------- MODULE PinGuardProofs ---------------------------
(***************************************************************************)
(* What the PIN guard keeps for any number of concurrent handlers, and     *)
(* what it keeps only when they come one by one.                           *)
(***************************************************************************)
EXTENDS PinGuard, TLAPS

USE AttemptsAssumption, LockoutAssumption, BoundAssumption, NilAssumption

\* A lock, on the row or computed by a handler, goes with a full count and
\* ends at most Lockout from now.
GoodLock(until_, attempts) ==
    /\ until_ # Nil <=> attempts >= MaxPINAttempts
    /\ until_ # Nil => until_ <= now + Lockout

\* A handler never holds a larger count than there were wrong PINs.
Holds(s) ==
    /\ seen[s] <= misses
    /\ pc[s] = "miss" => seen[s] + 1 <= misses /\ GoodLock(until[s], seen[s] + 1)

IInv ==
    /\ TypeOK
    /\ acct.attempts <= misses /\ sinceReset <= misses
    /\ GoodLock(acct.lockedUntil, acct.attempts)
    /\ \A s \in Slot : Holds(s)

\* A new account is unlocked and no handler is at work.
LEMMA InitIInv == Init => IInv
<1> SUFFICES ASSUME Init PROVE IInv
  OBVIOUS
<1>1. overlapped \in BOOLEAN
  BY DEF Init
<1>2. TypeOK
  BY <1>1 DEF Init, TypeOK, Time
<1> QED BY <1>2 DEF Init, IInv, GoodLock, Holds

\* The count read is the one of the row.
LEMMA ReadAccountStep ==
  ASSUME IInv, NEW s \in Slot, ReadAccount(s)
  PROVE  IInv'
<1>1. TypeOK'
  BY DEF IInv, TypeOK, Time, Holds, ReadAccount, Go
<1>2. (acct.attempts <= misses /\ sinceReset <= misses)' /\ GoodLock(acct.lockedUntil, acct.attempts)'
  BY DEF IInv, TypeOK, Time, Holds, GoodLock, ReadAccount, Go
<1>3. ASSUME NEW t \in Slot
      PROVE  Holds(t)'
  BY DEF IInv, TypeOK, Time, Holds, GoodLock, ReadAccount, Go
<1> QED BY <1>1, <1>2, <1>3 DEF IInv

\* The handler forgets what it read.
LEMMA ResolveFailsStep ==
  ASSUME IInv, NEW s \in Slot, ResolveFails(s)
  PROVE  IInv'
<1>1. TypeOK'
  BY DEF IInv, TypeOK, Time, Holds, ResolveFails, Go
<1>2. (acct.attempts <= misses /\ sinceReset <= misses)' /\ GoodLock(acct.lockedUntil, acct.attempts)'
  BY DEF IInv, TypeOK, Time, Holds, GoodLock, ResolveFails, Go
<1>3. ASSUME NEW t \in Slot
      PROVE  Holds(t)'
  BY DEF IInv, TypeOK, Time, Holds, GoodLock, ResolveFails, Go
<1> QED BY <1>1, <1>2, <1>3 DEF IInv

\* The wrong PIN is counted by the handler and in misses.
LEMMA WrongPINStep ==
  ASSUME IInv, NEW s \in Slot, WrongPIN(s)
  PROVE  IInv'
<1>1. TypeOK'
  BY DEF IInv, TypeOK, Time, Holds, WrongPIN, Go
<1>2. (acct.attempts <= misses /\ sinceReset <= misses)' /\ GoodLock(acct.lockedUntil, acct.attempts)'
  BY DEF IInv, TypeOK, Time, Holds, GoodLock, WrongPIN, Go
<1>3. ASSUME NEW t \in Slot
      PROVE  Holds(t)'
  BY DEF IInv, TypeOK, Time, Holds, GoodLock, WrongPIN, Go
<1> QED BY <1>1, <1>2, <1>3 DEF IInv

\* Nothing but the control state of the handler changes.
LEMMA RightPINStep ==
  ASSUME IInv, NEW s \in Slot, RightPIN(s)
  PROVE  IInv'
<1>1. TypeOK'
  BY DEF IInv, TypeOK, Time, Holds, RightPIN, Go
<1>2. (acct.attempts <= misses /\ sinceReset <= misses)' /\ GoodLock(acct.lockedUntil, acct.attempts)'
  BY DEF IInv, TypeOK, Time, Holds, GoodLock, RightPIN, Go
<1>3. ASSUME NEW t \in Slot
      PROVE  Holds(t)'
  BY DEF IInv, TypeOK, Time, Holds, GoodLock, RightPIN, Go
<1> QED BY <1>1, <1>2, <1>3 DEF IInv

\* The row takes over what the handler holds.
LEMMA UpdatePINAttemptsStep ==
  ASSUME IInv, NEW s \in Slot, UpdatePINAttempts(s)
  PROVE  IInv'
<1>1. TypeOK'
  BY DEF IInv, TypeOK, Time, Holds, UpdatePINAttempts, Forget, Go
<1>2. (acct.attempts <= misses /\ sinceReset <= misses)' /\ GoodLock(acct.lockedUntil, acct.attempts)'
  BY DEF IInv, TypeOK, Time, Holds, GoodLock, UpdatePINAttempts, Forget, Go
<1>3. ASSUME NEW t \in Slot
      PROVE  Holds(t)'
  BY DEF IInv, TypeOK, Time, Holds, GoodLock, UpdatePINAttempts, Forget, Go
<1> QED BY <1>1, <1>2, <1>3 DEF IInv

\* The row becomes that of a new account.
LEMMA ResetPINAttemptsStep ==
  ASSUME IInv, NEW s \in Slot, ResetPINAttempts(s)
  PROVE  IInv'
<1>1. TypeOK'
  BY DEF IInv, TypeOK, Time, Holds, ResetPINAttempts, Forget, Go
<1>2. (acct.attempts <= misses /\ sinceReset <= misses)' /\ GoodLock(acct.lockedUntil, acct.attempts)'
  BY DEF IInv, TypeOK, Time, Holds, GoodLock, ResetPINAttempts, Forget, Go
<1>3. ASSUME NEW t \in Slot
      PROVE  Holds(t)'
  BY DEF IInv, TypeOK, Time, Holds, GoodLock, ResetPINAttempts, Forget, Go
<1> QED BY <1>1, <1>2, <1>3 DEF IInv

\* The handler forgets, the row stays.
LEMMA WriteLostStep ==
  ASSUME IInv, NEW s \in Slot, WriteLost(s)
  PROVE  IInv'
<1>1. TypeOK'
  BY DEF IInv, TypeOK, Time, Holds, WriteLost, Forget, Go
<1>2. (acct.attempts <= misses /\ sinceReset <= misses)' /\ GoodLock(acct.lockedUntil, acct.attempts)'
  BY DEF IInv, TypeOK, Time, Holds, GoodLock, WriteLost, Forget, Go
<1>3. ASSUME NEW t \in Slot
      PROVE  Holds(t)'
  BY DEF IInv, TypeOK, Time, Holds, GoodLock, WriteLost, Forget, Go
<1> QED BY <1>1, <1>2, <1>3 DEF IInv

\* The invariant is inductive for every number of handlers.
LEMMA IInvStep ==
  ASSUME IInv, [Next]_vars
  PROVE  IInv'
<1>1. CASE \E s \in Slot : Handle(s)
  BY <1>1, ReadAccountStep, ResolveFailsStep, WrongPINStep, RightPINStep,
     UpdatePINAttemptsStep, ResetPINAttemptsStep, WriteLostStep DEF Handle
<1>2. CASE Crash
  BY <1>2 DEF Crash, IInv, TypeOK, Time, Holds, GoodLock
<1>3. CASE Tick
  BY <1>3 DEF Tick, IInv, TypeOK, Time, Holds, GoodLock
<1>4. CASE UNCHANGED vars
  BY <1>4 DEF vars, IInv, TypeOK, Time, Holds, GoodLock
<1> QED BY <1>1, <1>2, <1>3, <1>4 DEF Next

LEMMA Invariance == Spec => []IInv
<1>1. IInv /\ [Next]_vars => IInv'
  BY IInvStep
<1> QED BY <1>1, InitIInv, PTL DEF Spec

\* Every variable keeps its type; in particular pin_attempts never exceeds the
\* number of wrong PINs.
THEOREM PinTypeCorrect == Spec => []TypeOK
<1>1. IInv => TypeOK
  BY DEF IInv
<1> QED BY <1>1, Invariance, PTL

\* Count and lock agree however the blind writes of UpdatePINAttempts and
\* ResetPINAttempts interleave.
THEOREM PinLockMatchesAttempts == Spec => []LockMatchesAttempts
<1>1. IInv => LockMatchesAttempts
  BY DEF IInv, GoodLock, LockMatchesAttempts
<1> QED BY <1>1, Invariance, PTL

\* Nobody is locked out without MaxPINAttempts wrong PINs, or for longer than
\* the lockout.
THEOREM PinNoSpuriousLock == Spec => []NoSpuriousLock
<1>1. IInv => NoSpuriousLock
  BY DEF IInv, TypeOK, GoodLock, NoSpuriousLock
<1> QED BY <1>1, Invariance, PTL

-----------------------------------------------------------------------------
(* Requests that do not overlap.                                           *)

\* A handler at work saw the row as it is, and saw it unlocked.
Fresh(s) == pc[s] # "idle" => seen[s] = acct.attempts /\ ~IsAccountLocked

Alone ==
    \A s, t \in Slot : pc[s] # "idle" /\ pc[t] # "idle" => s = t

Counted ==
    ~overlapped =>
        /\ Alone
        /\ EveryMissCounted
        /\ \A s \in Slot : /\ Fresh(s)
                           /\ pc[s] = "miss" => sinceReset <= acct.attempts + faults + 1

\* Initially there are no requests and no wrong PINs.
LEMMA InitCounted == Init => Counted
  BY DEF Init, Counted, EveryMissCounted, Fresh, Alone

\* Nothing changes the row between the read and the write of a lone handler.
LEMMA CountedStep ==
  ASSUME IInv, Counted, [Next]_vars
  PROVE  Counted'
<1> SUFFICES ASSUME ~overlapped'
             PROVE  Counted'
  BY DEF Counted
<1> USE DEF Counted, Fresh, Alone, EveryMissCounted, IsAccountLocked
<1>1. ASSUME NEW s \in Slot, Handle(s)
      PROVE  Counted'
  <2> USE <1>1 DEF IInv, TypeOK, Time, Go, Forget
  <2>1. CASE ReadAccount(s)
    BY <2>1 DEF ReadAccount
  <2>2. CASE ResolveFails(s)
    BY <2>2 DEF ResolveFails
  <2>3. CASE WrongPIN(s)
    BY <2>3 DEF WrongPIN
  <2>4. CASE RightPIN(s)
    BY <2>4 DEF RightPIN
  <2>5. CASE UpdatePINAttempts(s)
    BY <2>5 DEF UpdatePINAttempts
  <2>6. CASE ResetPINAttempts(s)
    BY <2>6 DEF ResetPINAttempts
  <2>7. CASE WriteLost(s)
    BY <2>7 DEF WriteLost
  <2> QED BY <2>1, <2>2, <2>3, <2>4, <2>5, <2>6, <2>7 DEF Handle
<1>2. CASE Crash
  BY <1>2 DEF Crash, IInv, TypeOK, Time
<1>3. CASE Tick
  BY <1>3 DEF Tick, IInv, TypeOK, Time
<1>4. CASE UNCHANGED vars
  BY <1>4 DEF vars
<1> QED BY <1>1, <1>2, <1>3, <1>4 DEF Next

LEMMA CountedInvariance == Spec => []Counted
<1>1. IInv /\ Counted /\ [Next]_vars => Counted'
  BY CountedStep
<1> QED BY <1>1, InitCounted, Invariance, PTL DEF Spec

\* Every wrong PIN since the last reset is counted, up to the lost writes.
THEOREM PinEveryMissCounted == Spec => []EveryMissCounted
<1>1. Counted => EveryMissCounted
  BY DEF Counted, EveryMissCounted
<1> QED BY <1>1, CountedInvariance, PTL

\* Without lost writes the third wrong PIN locks the account.
THEOREM PinThirdMissLocks == Spec => []ThirdMissLocks
<1>1. IInv /\ Counted => ThirdMissLocks
  BY DEF IInv, TypeOK, GoodLock, Counted, EveryMissCounted, ThirdMissLocks
<1> QED BY <1>1, Invariance, CountedInvariance, PTL

\* A lock in force is neither lifted nor shortened.
THEOREM PinLockHolds == Spec => LockHolds
<1>1. ASSUME IInv, Counted, [Next]_vars
      PROVE  [IsAccountLocked /\ ~overlapped =>
                /\ acct'.lockedUntil # Nil
                /\ acct'.lockedUntil >= acct.lockedUntil]_vars
  <2> SUFFICES ASSUME IsAccountLocked, ~overlapped
               PROVE  acct' = acct
    BY <1>1 DEF IInv, TypeOK, Time, IsAccountLocked
  <2>1. ASSUME NEW s \in Slot, UpdatePINAttempts(s) \/ ResetPINAttempts(s)
        PROVE  FALSE
    <3>1. pc[s] # "idle" /\ Fresh(s)
      BY <1>1, <2>1 DEF UpdatePINAttempts, ResetPINAttempts, Go, Counted
    <3> QED BY <3>1 DEF Fresh
  <2> QED BY <1>1, <2>1 DEF Next, Handle, ReadAccount, ResolveFails, WrongPIN,
       RightPIN, WriteLost, Crash, Tick, vars
<1> QED BY <1>1, Invariance, CountedInvariance, PTL DEF LockHolds, Spec
=============================================================================
