------------------------------ MODULE PinGuard ------------------------------
(***************************************************************************)
(* The brute-force guard of the transaction PIN: AccountUseCase.VerifyPIN  *)
(* run by several request handlers on one row of the accounts table.       *)
(* A handler reads the row, decides, and writes it back; nothing locks the *)
(* row in between and the errors of the writes are ignored.                *)
(***************************************************************************)
EXTENDS Naturals, FiniteSets

CONSTANTS
    Slot,           \* handlers that can be at work at the same time
    MaxPINAttempts, \* util.MaxPINAttempts
    Lockout,        \* util.LockoutDuration, in ticks of the clock
    MaxTime,        \* bound on the clock
    MaxMisses,      \* bound on the wrong PINs tried
    MaxFaults,      \* bound on lost writes and crashes
    Nil             \* pin_locked_until IS NULL

ASSUME AttemptsAssumption == MaxPINAttempts \in Nat \ {0}
ASSUME LockoutAssumption == Lockout \in Nat \ {0}
ASSUME BoundAssumption == MaxTime \in Nat /\ MaxMisses \in Nat /\ MaxFaults \in Nat
ASSUME NilAssumption == Nil \notin Nat

VARIABLES
    acct,       \* pin_attempts and pin_locked_until
    now,        \* the clock
    pc,         \* idle, compare, miss, hit
    seen,       \* the pin_attempts each handler read
    until,      \* the lockedUntil each handler computed, Nil when it does not lock
    misses,     \* history: wrong PINs compared
    sinceReset, \* history: those compared since pin_attempts was last reset
    faults,     \* writes that never reached the table
    overlapped  \* history: two requests were under way at the same time

vars == <<acct, now, pc, seen, until, misses, sinceReset, faults, overlapped>>

Time == 0 .. MaxTime + Lockout

TypeOK ==
    /\ acct \in [attempts : 0 .. MaxMisses, lockedUntil : Time \union {Nil}]
    /\ now \in 0 .. MaxTime
    /\ pc \in [Slot -> {"idle", "compare", "miss", "hit"}]
    /\ seen \in [Slot -> 0 .. MaxMisses]
    /\ until \in [Slot -> Time \union {Nil}]
    /\ misses \in 0 .. MaxMisses
    /\ sinceReset \in 0 .. MaxMisses
    /\ faults \in 0 .. MaxFaults
    /\ overlapped \in BOOLEAN

\* An account as OpenAccount creates it.
Init ==
    /\ acct = [attempts |-> 0, lockedUntil |-> Nil]
    /\ now = 0
    /\ pc = [s \in Slot |-> "idle"]
    /\ seen = [s \in Slot |-> 0]
    /\ until = [s \in Slot |-> Nil]
    /\ misses = 0
    /\ sinceReset = 0
    /\ faults = 0
    /\ overlapped = FALSE

IsAccountLocked == acct.lockedUntil # Nil /\ now < acct.lockedUntil

-----------------------------------------------------------------------------
Go(s, from, to) == pc[s] = from /\ pc' = [pc EXCEPT ![s] = to]

Forget(s) ==
    /\ seen' = [seen EXCEPT ![s] = 0]
    /\ until' = [until EXCEPT ![s] = Nil]

-----------------------------------------------------------------------------
(* Faulty variants of the steps below; each breaks one property.           *)

\* The lock is not looked at.
ReadAccountAnyway(s) ==
    /\ Go(s, "idle", "compare")
    /\ seen' = [seen EXCEPT ![s] = acct.attempts]
    /\ overlapped' = (overlapped \/ \E t \in Slot \ {s} : pc[t] # "idle")
    /\ UNCHANGED <<acct, now, until, misses, sinceReset, faults>>

WrongPINLockingAt(s, limit) ==
    /\ misses < MaxMisses
    /\ Go(s, "compare", "miss")
    /\ misses' = misses + 1
    /\ sinceReset' = sinceReset + 1
    /\ until' = [until EXCEPT ![s] = IF seen[s] + 1 >= limit THEN now + Lockout ELSE Nil]
    /\ UNCHANGED <<acct, now, seen, faults, overlapped>>

WrongPINLate(s) == WrongPINLockingAt(s, MaxPINAttempts + 1)
WrongPINEarly(s) == WrongPINLockingAt(s, MaxPINAttempts - 1)

WriteAttempts(s, attempts, lockedUntil) ==
    /\ Go(s, "miss", "idle")
    /\ acct' = [attempts |-> attempts, lockedUntil |-> lockedUntil]
    /\ Forget(s)
    /\ UNCHANGED <<now, misses, sinceReset, faults, overlapped>>

WriteUncounted(s) == WriteAttempts(s, seen[s], until[s])
WriteTwice(s) == WriteAttempts(s, seen[s] + 2, until[s])

\* A nil lock leaves the column alone instead of clearing it.
WriteKeepingLock(s) ==
    WriteAttempts(s, seen[s] + 1, IF until[s] = Nil THEN acct.lockedUntil ELSE until[s])

-----------------------------------------------------------------------------
(* VerifyPIN                                                               *)

\* FindAccountByID and the lock check. A locked account is answered with
\* ErrPINLocked and leaves no trace, so only the other case is a step.
ReadAccount(s) ==
    /\ Go(s, "idle", "compare")
    /\ ~IsAccountLocked
    /\ seen' = [seen EXCEPT ![s] = acct.attempts]
    /\ overlapped' = (overlapped \/ \E t \in Slot \ {s} : pc[t] # "idle")
    /\ UNCHANGED <<acct, now, until, misses, sinceReset, faults>>

\* resolvePIN fails: answered before anything is counted.
ResolveFails(s) ==
    /\ Go(s, "compare", "idle")
    /\ seen' = [seen EXCEPT ![s] = 0]
    /\ UNCHANGED <<acct, now, until, misses, sinceReset, faults, overlapped>>

\* The PIN differs (or its hash cannot be read): one more attempt than was
\* read, and from MaxPINAttempts on a lock that starts now.
WrongPIN(s) ==
    /\ misses < MaxMisses
    /\ Go(s, "compare", "miss")
    /\ misses' = misses + 1
    /\ sinceReset' = sinceReset + 1
    /\ until' = [until EXCEPT ![s] =
                    IF seen[s] + 1 >= MaxPINAttempts THEN now + Lockout ELSE Nil]
    /\ UNCHANGED <<acct, now, seen, faults, overlapped>>

RightPIN(s) ==
    /\ Go(s, "compare", "hit")
    /\ UNCHANGED <<acct, now, seen, until, misses, sinceReset, faults, overlapped>>

\* UpdatePINAttempts sets both columns, whatever the row holds by now.
UpdatePINAttempts(s) ==
    /\ Go(s, "miss", "idle")
    /\ acct' = [attempts |-> seen[s] + 1, lockedUntil |-> until[s]]
    /\ Forget(s)
    /\ UNCHANGED <<now, misses, sinceReset, faults, overlapped>>

ResetPINAttempts(s) ==
    /\ Go(s, "hit", "idle")
    /\ acct' = [attempts |-> 0, lockedUntil |-> Nil]
    /\ sinceReset' = 0
    /\ Forget(s)
    /\ UNCHANGED <<now, misses, faults, overlapped>>

\* Either write fails; its error is ignored and the answer is the same.
WriteLost(s) ==
    /\ faults < MaxFaults
    /\ Go(s, "miss", "idle") \/ Go(s, "hit", "idle")
    /\ faults' = faults + 1
    /\ Forget(s)
    /\ UNCHANGED <<acct, now, misses, sinceReset, overlapped>>

\* The server ends with its handlers in the middle of their requests.
Crash ==
    /\ faults < MaxFaults
    /\ \E s \in Slot : pc[s] # "idle"
    /\ pc' = [s \in Slot |-> "idle"]
    /\ seen' = [s \in Slot |-> 0]
    /\ until' = [s \in Slot |-> Nil]
    /\ faults' = faults + 1
    /\ UNCHANGED <<acct, now, misses, sinceReset, overlapped>>

Tick ==
    /\ now < MaxTime
    /\ now' = now + 1
    /\ UNCHANGED <<acct, pc, seen, until, misses, sinceReset, faults, overlapped>>

Handle(s) ==
    \/ ReadAccount(s) \/ ResolveFails(s) \/ WrongPIN(s) \/ RightPIN(s)
    \/ UpdatePINAttempts(s) \/ ResetPINAttempts(s) \/ WriteLost(s)

Next == (\E s \in Slot : Handle(s)) \/ Crash \/ Tick

Spec == Init /\ [][Next]_vars

-----------------------------------------------------------------------------
(* Properties                                                              *)

\* The two columns agree however the writes of the handlers interleave: the
\* account carries a lock exactly when the count has reached the limit. (With
\* a count at the limit and no lock the next wrong PIN would be free; with a
\* lock below the limit it would be reported as "3 mistakes" without them.)
LockMatchesAttempts ==
    acct.lockedUntil # Nil <=> acct.attempts >= MaxPINAttempts

\* No interleaving locks a customer out who has not typed MaxPINAttempts wrong
\* PINs, and no lock reaches further than Lockout from now.
NoSpuriousLock ==
    acct.lockedUntil # Nil => /\ misses >= MaxPINAttempts
                              /\ acct.lockedUntil <= now + Lockout

\* The guard itself, as long as requests for one account come one by one:
\* every wrong PIN since the last reset is on the row, still in the hands of
\* the handler, or lost with a failed write.
EveryMissCounted ==
    ~overlapped /\ (\A s \in Slot : pc[s] # "miss")
        => sinceReset <= acct.attempts + faults

\* "3 mistakes = locked": when no request is under way, none overlapped and no
\* write was lost, an account that had MaxPINAttempts wrong PINs since its last
\* reset carries a lock (account_usecase.go, comment of VerifyPIN).
ThirdMissLocks ==
    /\ ~overlapped /\ faults = 0
    /\ \A s \in Slot : pc[s] = "idle"
    /\ sinceReset >= MaxPINAttempts
    => acct.lockedUntil # Nil

\* "... = locked for 15 minutes": as long as requests do not overlap no step,
\* not even the reset that answers a correct PIN, lifts or shortens a lock in
\* force (same comment).
LockHolds ==
    [][IsAccountLocked /\ ~overlapped => /\ acct'.lockedUntil # Nil
                                         /\ acct'.lockedUntil >= acct.lockedUntil]_vars

\* The same of requests that do overlap, and the least one could ask: a wrong
\* PIN lifts no lock.
WrongPINKeepsLock ==
    [][IsAccountLocked /\ sinceReset' # 0 => acct'.lockedUntil # Nil]_vars
=============================================================================
