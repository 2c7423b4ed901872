-------------------------- MODULE OnboardingProofs --------------------------
(***************************************************************************)
(* Onboarding for any number of customers, forms, handlers and faults.     *)
(***************************************************************************)
EXTENDS RegistrationForm, DataProofs

USE MinuteAssumption, BoundAssumption, NilAssumption

\* A registration that has inserted its row is the only one that knows it, and
\* no token for it is out yet.
Work(r) ==
    /\ rpc[r] \in {"check", "insert"} => rform[r] \in Form
    /\ rpc[r] \in {"idle", "check", "insert"} => rcust[r] = Nil
    /\ rpc[r] \in {"code", "reply"} =>
          rcust[r] \in Cust /\ form[rcust[r]] # Nil /\ token[rcust[r]] = Nil
    /\ rpc[r] = "reply" => expires[rcust[r]] # Nil

Distinct ==
    \A q, r \in RSlot : rcust[q] # Nil /\ rcust[q] = rcust[r] => q = r

\* A verification works for a customer with a token, and past the check of the
\* code for one whose code was mailed and came back in time.
Visit(v) ==
    /\ vpc[v] # "idle" => vcust[v] \in Cust /\ token[vcust[v]] # Nil
    /\ vright[v] => vcust[v] \in mail
    /\ vpc[v] = "found" => vright[v] /\ vexp[v] # Nil
    /\ vpc[v] \in {"delete", "update"} => vcust[v] \in confirmed

\* Everything about a customer starts with its row.
Rows ==
    /\ \A c \in Cust :
          /\ status[c] # Nil \/ expires[c] # Nil \/ token[c] # Nil => form[c] # Nil
          /\ status[c] = "ACTIVE" => c \in confirmed
          /\ c \in confirmed => form[c] # Nil /\ c \in mail
    /\ session \subseteq confirmed /\ verified \subseteq confirmed

IInv ==
    /\ TypeOK
    /\ \A r \in RSlot : Work(r)
    /\ Distinct
    /\ \A v \in VSlot : Visit(v)
    /\ Rows
    /\ ConfirmedIsActive
    /\ PendingHasCode

\* Empty tables and idle handlers.
LEMMA InitIInv == Init => IInv
<1> SUFFICES ASSUME Init PROVE IInv
  OBVIOUS
<1> USE DEF Init
<1>1. TypeOK
  BY DEF TypeOK, Time
<1>2. (\A r \in RSlot : Work(r)) /\ (\A v \in VSlot : Visit(v))
  BY DEF Work, Visit
<1>3. Distinct
  BY DEF Distinct
<1>4. Rows /\ ConfirmedIsActive /\ PendingHasCode
  BY DEF Rows, ConfirmedIsActive, PendingHasCode
<1> QED BY <1>1, <1>2, <1>3, <1>4 DEF IInv

\* A form is taken up; nothing is stored.
LEMMA SubmitStep ==
  ASSUME IInv, NEW r \in RSlot, Submit(r)
  PROVE  IInv'
<1> USE DEF IInv, Submit, tables, letters, registration, verification, history
<1>1. TypeOK'
  BY DEF TypeOK, Time, Work, Visit
<1>2. (\A q \in RSlot : Work(q))' /\ Distinct'
  <2>1. ASSUME NEW q \in RSlot PROVE Work(q)'
    BY DEF TypeOK, Work, Distinct, Rows
  <2>2. Distinct'
    BY DEF TypeOK, Work, Distinct
  <2> QED BY <2>1, <2>2
<1>3. (\A w \in VSlot : Visit(w))'
  BY DEF TypeOK, Work, Visit
<1>4. Rows'
  BY DEF TypeOK, Time, Work, Visit, Rows
<1>5. ConfirmedIsActive'
  BY DEF TypeOK, Work, Visit, Rows, ConfirmedIsActive
<1>6. PendingHasCode'
  BY DEF TypeOK, Time, Work, Distinct, Visit, Rows, PendingHasCode
<1> QED BY <1>1, <1>2, <1>3, <1>4, <1>5, <1>6

\* The table is only read.
LEMMA CheckPassesStep ==
  ASSUME IInv, NEW r \in RSlot, NEW f \in Field, CheckPasses(r, f)
  PROVE  IInv'
<1> USE DEF IInv, CheckPasses, tables, letters, registration, verification, history
<1>1. TypeOK'
  BY DEF TypeOK, Time, Work, Visit
<1>2. (\A q \in RSlot : Work(q))' /\ Distinct'
  BY DEF TypeOK, Time, Work, Distinct, Visit, Rows
<1>3. (\A w \in VSlot : Visit(w))'
  BY DEF TypeOK, Work, Visit
<1>4. Rows'
  BY DEF TypeOK, Time, Work, Visit, Rows
<1>5. ConfirmedIsActive'
  BY DEF TypeOK, Work, Visit, Rows, ConfirmedIsActive
<1>6. PendingHasCode'
  BY DEF TypeOK, Time, Work, Distinct, Visit, Rows, PendingHasCode
<1> QED BY <1>1, <1>2, <1>3, <1>4, <1>5, <1>6

\* The handler forgets its form.
LEMMA CheckRefusesStep ==
  ASSUME IInv, NEW r \in RSlot, NEW f \in Field, CheckRefuses(r, f)
  PROVE  IInv'
<1> USE DEF IInv, CheckRefuses, ToIdle, tables, letters, registration, verification, history
<1>1. TypeOK'
  BY DEF TypeOK, Time, Work, Visit
<1>2. (\A q \in RSlot : Work(q))' /\ Distinct'
  BY DEF TypeOK, Time, Work, Distinct, Visit, Rows
<1>3. (\A w \in VSlot : Visit(w))'
  BY DEF TypeOK, Work, Visit
<1>4. Rows'
  BY DEF TypeOK, Time, Work, Visit, Rows
<1>5. ConfirmedIsActive'
  BY DEF TypeOK, Work, Visit, Rows, ConfirmedIsActive
<1>6. PendingHasCode'
  BY DEF TypeOK, Time, Work, Distinct, Visit, Rows, PendingHasCode
<1> QED BY <1>1, <1>2, <1>3, <1>4, <1>5, <1>6

\* The handler forgets its form.
LEMMA RefuseStep ==
  ASSUME IInv, NEW r \in RSlot, Refuse(r)
  PROVE  IInv'
<1> USE DEF IInv, Refuse, ToIdle, tables, letters, registration, verification, history
<1>1. TypeOK'
  BY DEF TypeOK, Time, Work, Visit
<1>2. (\A q \in RSlot : Work(q))' /\ Distinct'
  BY DEF TypeOK, Time, Work, Distinct, Visit, Rows
<1>3. (\A w \in VSlot : Visit(w))'
  BY DEF TypeOK, Work, Visit
<1>4. Rows'
  BY DEF TypeOK, Time, Work, Visit, Rows
<1>5. ConfirmedIsActive'
  BY DEF TypeOK, Work, Visit, Rows, ConfirmedIsActive
<1>6. PendingHasCode'
  BY DEF TypeOK, Time, Work, Distinct, Visit, Rows, PendingHasCode
<1> QED BY <1>1, <1>2, <1>3, <1>4, <1>5, <1>6

\* The new row was nobody's: no token, no code, no confirmation.
LEMMA CreateCustomerStep ==
  ASSUME IInv, NEW r \in RSlot, CreateCustomer(r)
  PROVE  IInv'
<1> USE DEF IInv, CreateCustomer, tables, letters, registration, verification, history
<1>1. TypeOK'
  BY DEF TypeOK, Time, Work, Visit
<1>2. (\A q \in RSlot : Work(q))' /\ Distinct'
  <2>1. ASSUME NEW q \in RSlot PROVE Work(q)'
    BY DEF TypeOK, Work, Distinct, Rows
  <2>2. Distinct'
    BY DEF TypeOK, Work, Distinct
  <2> QED BY <2>1, <2>2
<1>3. (\A w \in VSlot : Visit(w))'
  BY DEF TypeOK, Work, Visit
<1>4. Rows'
  BY DEF TypeOK, Time, Work, Visit, Rows
<1>5. ConfirmedIsActive'
  BY DEF TypeOK, Work, Visit, Rows, ConfirmedIsActive
<1>6. PendingHasCode'
  BY DEF TypeOK, Time, Work, Distinct, Visit, Rows, PendingHasCode
<1> QED BY <1>1, <1>2, <1>3, <1>4, <1>5, <1>6

\* The new row gets its code.
LEMMA CreateVerificationStep ==
  ASSUME IInv, NEW r \in RSlot, CreateVerification(r)
  PROVE  IInv'
<1> USE DEF IInv, CreateVerification, tables, letters, registration, verification, history
<1>1. TypeOK'
  BY DEF TypeOK, Time, Work, Visit
<1>2. (\A q \in RSlot : Work(q))' /\ Distinct'
  <2>1. ASSUME NEW q \in RSlot PROVE Work(q)'
    BY DEF TypeOK, Work, Distinct, Rows
  <2>2. Distinct'
    BY DEF TypeOK, Work, Distinct
  <2> QED BY <2>1, <2>2
<1>3. (\A w \in VSlot : Visit(w))'
  BY DEF TypeOK, Work, Visit
<1>4. Rows'
  BY DEF TypeOK, Time, Work, Visit, Rows
<1>5. ConfirmedIsActive'
  BY DEF TypeOK, Work, Visit, Rows, ConfirmedIsActive
<1>6. PendingHasCode'
  BY DEF TypeOK, Time, Work, Distinct, Visit, Rows, PendingHasCode
<1> QED BY <1>1, <1>2, <1>3, <1>4, <1>5, <1>6

\* The token goes out; the row has its code.
LEMMA ReplyStep ==
  ASSUME IInv, NEW r \in RSlot, Reply(r)
  PROVE  IInv'
<1> USE DEF IInv, Reply, ToIdle, tables, letters, registration, verification, history
<1>1. TypeOK'
  BY DEF TypeOK, Time, Work, Visit
<1>2. (\A q \in RSlot : Work(q))' /\ Distinct'
  BY DEF TypeOK, Time, Work, Distinct, Visit, Rows
<1>3. (\A w \in VSlot : Visit(w))'
  BY DEF TypeOK, Work, Visit
<1>4. Rows'
  BY DEF TypeOK, Time, Work, Visit, Rows
<1>5. ConfirmedIsActive'
  BY DEF TypeOK, Work, Visit, Rows, ConfirmedIsActive
<1>6. PendingHasCode'
  BY DEF TypeOK, Time, Work, Distinct, Visit, Rows, PendingHasCode
<1> QED BY <1>1, <1>2, <1>3, <1>4, <1>5, <1>6

\* The row stays without code or token, which is a fault.
LEMMA RegistrationFailsStep ==
  ASSUME IInv, NEW r \in RSlot, RegistrationFails(r)
  PROVE  IInv'
<1> USE DEF IInv, RegistrationFails, ToIdle, Fault, tables, letters, registration, verification, history
<1>1. TypeOK'
  BY DEF TypeOK, Time, Work, Visit
<1>2. (\A q \in RSlot : Work(q))' /\ Distinct'
  BY DEF TypeOK, Time, Work, Distinct, Visit, Rows
<1>3. (\A w \in VSlot : Visit(w))'
  BY DEF TypeOK, Work, Visit
<1>4. Rows'
  BY DEF TypeOK, Time, Work, Visit, Rows
<1>5. ConfirmedIsActive'
  BY DEF TypeOK, Work, Visit, Rows, ConfirmedIsActive
<1>6. PendingHasCode'
  BY DEF TypeOK, Time, Work, Distinct, Visit, Rows, PendingHasCode
<1> QED BY <1>1, <1>2, <1>3, <1>4, <1>5, <1>6

\* The token names a customer with a row.
LEMMA ParseTokenStep ==
  ASSUME IInv, NEW v \in VSlot, NEW c \in Cust, ParseToken(v, c)
  PROVE  IInv'
<1> USE DEF IInv, ParseToken, tables, letters, registration, verification, history
<1>0. vright' \in [VSlot -> BOOLEAN]
  BY Zenon DEF TypeOK
<1>1. TypeOK'
  BY <1>0 DEF TypeOK, Time, Work, Visit
<1>2. (\A q \in RSlot : Work(q))' /\ Distinct'
  BY DEF TypeOK, Time, Work, Distinct, Visit, Rows
<1>3. (\A w \in VSlot : Visit(w))'
  BY DEF TypeOK, Work, Visit
<1>4. Rows'
  BY DEF TypeOK, Time, Work, Visit, Rows
<1>5. ConfirmedIsActive'
  BY DEF TypeOK, Work, Visit, Rows, ConfirmedIsActive
<1>6. PendingHasCode'
  BY DEF TypeOK, Time, Work, Distinct, Visit, Rows, PendingHasCode
<1> QED BY <1>1, <1>2, <1>3, <1>4, <1>5, <1>6

\* Only the history changes.
LEMMA TokenExpiredStep ==
  ASSUME IInv, NEW v \in VSlot, NEW c \in Cust, TokenExpired(v, c)
  PROVE  IInv'
<1> USE DEF IInv, TokenExpired, tables, letters, registration, verification, history
<1>1. TypeOK'
  BY DEF TypeOK, Time, Work, Visit
<1>2. (\A q \in RSlot : Work(q))' /\ Distinct'
  BY DEF TypeOK, Time, Work, Distinct, Visit, Rows
<1>3. (\A w \in VSlot : Visit(w))'
  BY DEF TypeOK, Work, Visit
<1>4. Rows'
  BY DEF TypeOK, Time, Work, Visit, Rows
<1>5. ConfirmedIsActive'
  BY DEF TypeOK, Work, Visit, Rows, ConfirmedIsActive
<1>6. PendingHasCode'
  BY DEF TypeOK, Time, Work, Distinct, Visit, Rows, PendingHasCode
<1> QED BY <1>1, <1>2, <1>3, <1>4, <1>5, <1>6

\* The handler forgets.
LEMMA FindMissesStep ==
  ASSUME IInv, NEW v \in VSlot, FindMisses(v)
  PROVE  IInv'
<1> USE DEF IInv, FindMisses, VToIdle, tables, letters, registration, verification, history
<1>1. TypeOK'
  BY DEF TypeOK, Time, Work, Visit
<1>2. (\A q \in RSlot : Work(q))' /\ Distinct'
  BY DEF TypeOK, Time, Work, Distinct, Visit, Rows
<1>3. (\A w \in VSlot : Visit(w))'
  BY DEF TypeOK, Work, Visit
<1>4. Rows'
  BY DEF TypeOK, Time, Work, Visit, Rows
<1>5. ConfirmedIsActive'
  BY DEF TypeOK, Work, Visit, Rows, ConfirmedIsActive
<1>6. PendingHasCode'
  BY DEF TypeOK, Time, Work, Distinct, Visit, Rows, PendingHasCode
<1> QED BY <1>1, <1>2, <1>3, <1>4, <1>5, <1>6

\* The right code is known from the mail.
LEMMA FindVerificationStep ==
  ASSUME IInv, NEW v \in VSlot, FindVerification(v)
  PROVE  IInv'
<1> USE DEF IInv, FindVerification, tables, letters, registration, verification, history
<1>1. TypeOK'
  BY DEF TypeOK, Time, Work, Visit
<1>2. (\A q \in RSlot : Work(q))' /\ Distinct'
  BY DEF TypeOK, Time, Work, Distinct, Visit, Rows
<1>3. (\A w \in VSlot : Visit(w))'
  BY DEF TypeOK, Work, Visit
<1>4. Rows'
  BY DEF TypeOK, Time, Work, Visit, Rows
<1>5. ConfirmedIsActive'
  BY DEF TypeOK, Work, Visit, Rows, ConfirmedIsActive
<1>6. PendingHasCode'
  BY DEF TypeOK, Time, Work, Distinct, Visit, Rows, PendingHasCode
<1> QED BY <1>1, <1>2, <1>3, <1>4, <1>5, <1>6

\* The customer is told.
LEMMA CodeExpiredStep ==
  ASSUME IInv, NEW v \in VSlot, CodeExpired(v)
  PROVE  IInv'
<1> USE DEF IInv, CodeExpired, VToIdle, Fault, tables, letters, registration, verification, history
<1>1. TypeOK'
  BY DEF TypeOK, Time, Work, Visit
<1>2. (\A q \in RSlot : Work(q))' /\ Distinct'
  BY DEF TypeOK, Time, Work, Distinct, Visit, Rows
<1>3. (\A w \in VSlot : Visit(w))'
  BY DEF TypeOK, Work, Visit
<1>4. Rows'
  BY DEF TypeOK, Time, Work, Visit, Rows
<1>5. ConfirmedIsActive'
  BY DEF TypeOK, Work, Visit, Rows, ConfirmedIsActive
<1>6. PendingHasCode'
  BY DEF TypeOK, Time, Work, Distinct, Visit, Rows, PendingHasCode
<1> QED BY <1>1, <1>2, <1>3, <1>4, <1>5, <1>6

\* The code is the one that was mailed, and in time.
LEMMA CodeAcceptedStep ==
  ASSUME IInv, NEW v \in VSlot, CodeAccepted(v)
  PROVE  IInv'
<1> USE DEF IInv, CodeAccepted, tables, letters, registration, verification, history
<1>1. TypeOK'
  BY DEF TypeOK, Time, Work, Visit
<1>2. (\A q \in RSlot : Work(q))' /\ Distinct'
  BY DEF TypeOK, Time, Work, Distinct, Visit, Rows
<1>3. (\A w \in VSlot : Visit(w))'
  BY DEF TypeOK, Work, Visit
<1>4. Rows'
  BY DEF TypeOK, Time, Work, Visit, Rows
<1>5. ConfirmedIsActive'
  BY DEF TypeOK, Work, Visit, Rows, ConfirmedIsActive
<1>6. PendingHasCode'
  BY DEF TypeOK, Time, Work, Distinct, Visit, Rows, PendingHasCode
<1> QED BY <1>1, <1>2, <1>3, <1>4, <1>5, <1>6

\* The code goes, the handler goes on to the UPDATE.
LEMMA DeleteVerificationStep ==
  ASSUME IInv, NEW v \in VSlot, DeleteVerification(v)
  PROVE  IInv'
<1> USE DEF IInv, DeleteVerification, Fault, tables, letters, registration, verification, history
<1>1. TypeOK'
  BY DEF TypeOK, Time, Work, Visit
<1>2. (\A q \in RSlot : Work(q))' /\ Distinct'
  BY DEF TypeOK, Time, Work, Distinct, Visit, Rows
<1>3. (\A w \in VSlot : Visit(w))'
  BY DEF TypeOK, Work, Visit
<1>4. Rows'
  BY DEF TypeOK, Time, Work, Visit, Rows
<1>5. ConfirmedIsActive'
  BY DEF TypeOK, Work, Visit, Rows, ConfirmedIsActive
<1>6. PendingHasCode'
  BY DEF TypeOK, Time, Work, Distinct, Visit, Rows, PendingHasCode
<1> QED BY <1>1, <1>2, <1>3, <1>4, <1>5, <1>6

\* The customer was confirmed and is now ACTIVE.
LEMMA UpdateCustomerStatusStep ==
  ASSUME IInv, NEW v \in VSlot, UpdateCustomerStatus(v)
  PROVE  IInv'
<1> USE DEF IInv, UpdateCustomerStatus, VToIdle, tables, letters, registration, verification, history
<1>1. TypeOK'
  BY DEF TypeOK, Time, Work, Visit
<1>2. (\A q \in RSlot : Work(q))' /\ Distinct'
  BY DEF TypeOK, Time, Work, Distinct, Visit, Rows
<1>3. (\A w \in VSlot : Visit(w))'
  BY DEF TypeOK, Work, Visit
<1>4. Rows'
  BY DEF TypeOK, Time, Work, Visit, Rows
<1>5. ConfirmedIsActive'
  BY DEF TypeOK, Work, Visit, Rows, ConfirmedIsActive
<1>6. PendingHasCode'
  BY DEF TypeOK, Time, Work, Distinct, Visit, Rows, PendingHasCode
<1> QED BY <1>1, <1>2, <1>3, <1>4, <1>5, <1>6

\* A fault.
LEMMA UpdateFailsStep ==
  ASSUME IInv, NEW v \in VSlot, UpdateFails(v)
  PROVE  IInv'
<1> USE DEF IInv, UpdateFails, VToIdle, Fault, tables, letters, registration, verification, history
<1>1. TypeOK'
  BY DEF TypeOK, Time, Work, Visit
<1>2. (\A q \in RSlot : Work(q))' /\ Distinct'
  BY DEF TypeOK, Time, Work, Distinct, Visit, Rows
<1>3. (\A w \in VSlot : Visit(w))'
  BY DEF TypeOK, Work, Visit
<1>4. Rows'
  BY DEF TypeOK, Time, Work, Visit, Rows
<1>5. ConfirmedIsActive'
  BY DEF TypeOK, Work, Visit, Rows, ConfirmedIsActive
<1>6. PendingHasCode'
  BY DEF TypeOK, Time, Work, Distinct, Visit, Rows, PendingHasCode
<1> QED BY <1>1, <1>2, <1>3, <1>4, <1>5, <1>6

\* Mail only arrives.
LEMMA SendMailStep ==
  ASSUME IInv, NEW c \in Cust, SendMail(c)
  PROVE  IInv'
<1> USE DEF IInv, SendMail, tables, letters, registration, verification, history
<1>1. TypeOK'
  BY DEF TypeOK, Time, Work, Visit
<1>2. (\A q \in RSlot : Work(q))' /\ Distinct'
  BY DEF TypeOK, Time, Work, Distinct, Visit, Rows
<1>3. (\A w \in VSlot : Visit(w))'
  BY DEF TypeOK, Work, Visit
<1>4. Rows'
  BY DEF TypeOK, Time, Work, Visit, Rows
<1>5. ConfirmedIsActive'
  BY DEF TypeOK, Work, Visit, Rows, ConfirmedIsActive
<1>6. PendingHasCode'
  BY DEF TypeOK, Time, Work, Distinct, Visit, Rows, PendingHasCode
<1> QED BY <1>1, <1>2, <1>3, <1>4, <1>5, <1>6

\* An ACTIVE customer is confirmed.
LEMMA LoginStep ==
  ASSUME IInv, NEW c \in Cust, Login(c)
  PROVE  IInv'
<1> USE DEF IInv, Login, tables, letters, registration, verification, history
<1>1. TypeOK'
  BY DEF TypeOK, Time, Work, Visit
<1>2. (\A q \in RSlot : Work(q))' /\ Distinct'
  BY DEF TypeOK, Time, Work, Distinct, Visit, Rows
<1>3. (\A w \in VSlot : Visit(w))'
  BY DEF TypeOK, Work, Visit
<1>4. Rows'
  BY DEF TypeOK, Time, Work, Visit, Rows
<1>5. ConfirmedIsActive'
  BY DEF TypeOK, Work, Visit, Rows, ConfirmedIsActive
<1>6. PendingHasCode'
  BY DEF TypeOK, Time, Work, Distinct, Visit, Rows, PendingHasCode
<1> QED BY <1>1, <1>2, <1>3, <1>4, <1>5, <1>6

\* All handlers are idle and a fault has happened.
LEMMA CrashStep ==
  ASSUME IInv, Crash
  PROVE  IInv'
<1> USE DEF IInv, Crash, Fault, tables, letters, registration, verification, history
<1>1. TypeOK'
  BY DEF TypeOK, Time, Work, Visit
<1>2. (\A q \in RSlot : Work(q))' /\ Distinct'
  BY DEF TypeOK, Time, Work, Distinct, Visit, Rows
<1>3. (\A w \in VSlot : Visit(w))'
  BY DEF TypeOK, Work, Visit
<1>4. Rows'
  BY DEF TypeOK, Time, Work, Visit, Rows
<1>5. ConfirmedIsActive'
  BY DEF TypeOK, Work, Visit, Rows, ConfirmedIsActive
<1>6. PendingHasCode'
  BY DEF TypeOK, Time, Work, Distinct, Visit, Rows, PendingHasCode
<1> QED BY <1>1, <1>2, <1>3, <1>4, <1>5, <1>6

\* Time passes.
LEMMA TickStep ==
  ASSUME IInv, Tick
  PROVE  IInv'
<1> USE DEF IInv, Tick, tables, letters, registration, verification, history
<1>1. TypeOK'
  BY DEF TypeOK, Time, Work, Visit
<1>2. (\A q \in RSlot : Work(q))' /\ Distinct'
  BY DEF TypeOK, Time, Work, Distinct, Visit, Rows
<1>3. (\A w \in VSlot : Visit(w))'
  BY DEF TypeOK, Work, Visit
<1>4. Rows'
  BY DEF TypeOK, Time, Work, Visit, Rows
<1>5. ConfirmedIsActive'
  BY DEF TypeOK, Work, Visit, Rows, ConfirmedIsActive
<1>6. PendingHasCode'
  BY DEF TypeOK, Time, Work, Distinct, Visit, Rows, PendingHasCode
<1> QED BY <1>1, <1>2, <1>3, <1>4, <1>5, <1>6

\* The invariant is inductive.
LEMMA IInvStep ==
  ASSUME IInv, [Next]_vars
  PROVE  IInv'
<1>1. CASE \E r \in RSlot : Register(r)
  BY <1>1, SubmitStep, CheckPassesStep, CheckRefusesStep, RefuseStep,
     CreateCustomerStep, CreateVerificationStep, ReplyStep,
     RegistrationFailsStep DEF Register
<1>2. CASE \E v \in VSlot : Verify(v)
  BY <1>2, ParseTokenStep, TokenExpiredStep, FindMissesStep, FindVerificationStep, CodeExpiredStep,
     CodeAcceptedStep, DeleteVerificationStep, UpdateCustomerStatusStep,
     UpdateFailsStep DEF Verify
<1>3. CASE UNCHANGED vars
  BY <1>3 DEF vars, tables, letters, registration, verification, history, IInv,
     TypeOK, Work, Distinct, Visit, Rows, ConfirmedIsActive, PendingHasCode
<1> QED BY <1>1, <1>2, <1>3, SendMailStep, LoginStep, CrashStep, TickStep DEF Next

LEMMA Invariance == Spec => []IInv
<1>1. IInv /\ [Next]_vars => IInv'
  BY IInvStep
<1> QED BY <1>1, InitIInv, PTL DEF Spec

\* Every variable keeps its type.
THEOREM OnbTypeCorrect == Spec => []TypeOK
<1>1. IInv => TypeOK
  BY DEF IInv
<1> QED BY <1>1, Invariance, PTL

\* Nobody becomes ACTIVE or gets an access token without the mailed code having
\* come back in time (VerifyCustomer, LoginCustomerRaw).
THEOREM OnbActiveIsConfirmed == Spec => []ActiveIsConfirmed
<1>1. IInv => ActiveIsConfirmed
  BY DEF IInv, TypeOK, Rows, ActiveIsConfirmed
<1> QED BY <1>1, Invariance, PTL

\* Without faults an accepted code makes the customer ACTIVE.
THEOREM OnbConfirmedIsActive == Spec => []ConfirmedIsActive
<1>1. IInv => ConfirmedIsActive
  BY DEF IInv
<1> QED BY <1>1, Invariance, PTL

\* Without faults no pending customer is left without a code and untold.
THEOREM OnbPendingHasCode == Spec => []PendingHasCode
<1>1. IInv => PendingHasCode
  BY DEF IInv
<1> QED BY <1>1, Invariance, PTL

-----------------------------------------------------------------------------
(* Registrations that have nothing in common.                              *)

\* Registrations at work at the same time share neither NIK nor e-mail nor phone.
Apart ==
    \A r, s \in RSlot :
        r # s /\ rform[r] # Nil /\ rform[s] # Nil =>
            \A f \in Field : rform[r][f] # rform[s][f]

\* What the uniqueness checks found is still true when the row is inserted.
Checked ==
    \A r \in RSlot :
        /\ rpc[r] = "check" => \A f \in Field \ todo[r] : ~Exists(f, rform[r][f])
        /\ rpc[r] = "insert" => \A f \in Field : ~Exists(f, rform[r][f])

\* The empty table has no duplicates.
LEMMA InitUnique == Init => Checked /\ UniqueIdentity
  BY DEF Init, Checked, UniqueIdentity

\* Between the checks of a registration and its INSERT only forms are inserted
\* that differ from its own in every field.
LEMMA UniqueStep ==
  ASSUME Apart, IInv, Checked, UniqueIdentity, [Next]_vars
  PROVE  Checked' /\ UniqueIdentity'
<1> USE DEF tables, registration
<1>1. ASSUME NEW r \in RSlot, Register(r)
      PROVE  Checked' /\ UniqueIdentity'
  <2> USE <1>1
  <2>1. CASE Submit(r)
    BY <2>1 DEF Submit, IInv, TypeOK, Checked, UniqueIdentity, Exists
  <2>2. ASSUME NEW f \in Field, CheckPasses(r, f)
        PROVE  Checked' /\ UniqueIdentity'
    BY <2>2 DEF CheckPasses, IInv, TypeOK, Checked, UniqueIdentity, Exists
  <2>3. CASE ToIdle(r) /\ UNCHANGED form
    BY <2>3 DEF ToIdle, IInv, TypeOK, Checked, UniqueIdentity, Exists
  <2>4. CASE CreateCustomer(r)
    <3>1. PICK c \in Cust : form[c] = Nil /\ form' = [form EXCEPT ![c] = rform[r]]
      BY <2>4 DEF CreateCustomer
    <3>2. /\ rpc[r] = "insert" /\ rform[r] \in Form /\ rform[r] # Nil
          /\ rform' = rform /\ todo' = todo /\ rpc' = [rpc EXCEPT ![r] = "code"]
      BY <2>4 DEF CreateCustomer, IInv, Work
    <3>3. \A d \in Cust, f \in Field : form[d] # Nil => form[d][f] # rform[r][f]
      BY <3>2 DEF Checked, Exists
    <3>4. \A s \in RSlot, f \in Field :
             s # r /\ rpc[s] \in {"check", "insert"} /\ ~Exists(f, rform[s][f])
                => ~Exists(f, rform[s][f])'
      <4> SUFFICES ASSUME NEW s \in RSlot, NEW f \in Field, s # r,
                          rpc[s] \in {"check", "insert"}, ~Exists(f, rform[s][f])
                   PROVE  ~Exists(f, rform[s][f])'
        OBVIOUS
      <4>1. rform[s] # Nil
        BY DEF IInv, Work
      <4>2. rform[r][f] # rform[s][f]
        BY <3>2, <4>1 DEF Apart
      <4> QED BY <3>1, <3>2, <4>2 DEF Exists, IInv, TypeOK
    <3>5. Checked'
      BY <3>2, <3>4 DEF IInv, TypeOK, Checked
    <3> QED BY <3>1, <3>2, <3>3, <3>5 DEF IInv, TypeOK, UniqueIdentity
  <2>5. CASE CreateVerification(r)
    BY <2>5 DEF CreateVerification, IInv, TypeOK, Checked, UniqueIdentity, Exists
  <2> QED BY <2>1, <2>2, <2>3, <2>4, <2>5 DEF Register, CheckRefuses, Refuse,
       Reply, RegistrationFails
<1>2. CASE UNCHANGED <<form, rpc, rform, todo>>
  BY <1>2 DEF Checked, UniqueIdentity, Exists
<1>3. CASE Crash
  BY <1>3 DEF Crash, Checked, UniqueIdentity
<1> QED BY <1>1, <1>2, <1>3 DEF Next, Verify, ParseToken, TokenExpired,
     FindMisses, FindVerification, CodeExpired, CodeAccepted, DeleteVerification,
     UpdateCustomerStatus, UpdateFails, SendMail, Login, Tick, vars

\* NIK, e-mail and phone each name one customer, although no constraint of the
\* database enforces it, as long as no two registrations for one of them are at
\* work at the same time: those are the only ones that can make a duplicate.
THEOREM OnbApartSuffices == Spec /\ []Apart => []UniqueIdentity
<1>1. Apart /\ IInv /\ Checked /\ UniqueIdentity /\ [Next]_vars
         => Checked' /\ UniqueIdentity'
  BY UniqueStep
<1> QED BY <1>1, InitUnique, Invariance, PTL DEF Spec

\* One registration at a time has nobody to share with.
THEOREM OnbUniqueIdentity == ASSUME OneRegistration PROVE Spec => []UniqueIdentity
<1>1. Apart
  BY DEF OneRegistration, Apart
<1> QED BY <1>1, OnbApartSuffices, PTL

-----------------------------------------------------------------------------
(* The way into the bank, seen from outside.                               *)

\* Where a customer stands is told by its row and its accepted code.
LEMMA SameStanding ==
  ASSUME UNCHANGED <<form, status, confirmed, session>>
  PROVE  UNCHANGED Members!membership
<1>1. \A c \in Cust : Stage(c)' = Stage(c)
  BY DEF Stage
<1> QED BY <1>1 DEF Members!membership

\* The checks of the form still hold at the INSERT, so the newcomer is new.
LEMMA EnrolStep ==
  ASSUME IInv, Checked, NEW r \in RSlot, CreateCustomer(r)
  PROVE  \E c \in Cust, fm \in Form : Members!Enrol(c, fm)
<1>1. PICK c \in Cust :
         /\ form[c] = Nil
         /\ form' = [form EXCEPT ![c] = rform[r]]
         /\ status' = [status EXCEPT ![c] = "PENDING_VERIFICATION"]
  BY DEF CreateCustomer
<1>2. rpc[r] = "insert" /\ rform[r] \in Form /\ rform[r] # Nil
  BY DEF CreateCustomer, IInv, Work
<1>3. form \in [Cust -> Form \union {Nil}] /\ status \in [Cust -> {"PENDING_VERIFICATION", "ACTIVE", Nil}]
  BY DEF IInv, TypeOK
<1>4. c \notin confirmed /\ confirmed' = confirmed /\ session' = session
  BY <1>1 DEF IInv, Rows, CreateCustomer, history
<1>5. \A d \in Cust, f \in Field : form[d] # Nil => form[d][f] # rform[r][f]
  BY <1>2 DEF Checked, Exists
<1>6. Stage(c) = "stranger"
  BY <1>1 DEF Stage
<1>7. Stage(c)' = "enrolled"
  BY <1>1, <1>2, <1>3, <1>4 DEF Stage
<1>8. \A d \in Cust : d # c => Stage(d)' = Stage(d)
  BY <1>1, <1>3, <1>4 DEF Stage
<1>9. Members!Enrol(c, rform[r])
  BY <1>1, <1>4, <1>5, <1>6, <1>7, <1>8 DEF Members!Enrol, Members!Free
<1> QED BY <1>2, <1>9

\* An accepted code proves the address once; a second handler that accepts it
\* too changes nothing.
LEMMA ProveStep ==
  ASSUME IInv, NEW v \in VSlot, CodeAccepted(v)
  PROVE  (\E c \in Cust : Members!Prove(c)) \/ UNCHANGED Members!membership
<1>1. PICK c \in Cust : c = vcust[v]
  BY DEF CodeAccepted, IInv, Visit
<1>2. form' = form /\ status' = status /\ session' = session
  BY DEF CodeAccepted, tables, history
<1>3. confirmed' = confirmed \union {c}
  BY <1>1 DEF CodeAccepted, IInv, Visit
<1>4. form[c] # Nil
  BY <1>1 DEF CodeAccepted, IInv, Visit, Rows
<1>5. \A d \in Cust : d # c => Stage(d)' = Stage(d)
  BY <1>2, <1>3 DEF Stage
<1>6. CASE c \in confirmed
  BY <1>2, <1>3, <1>6, SameStanding
<1>7. CASE c \notin confirmed
  <2>1. status[c] # "ACTIVE"
    BY <1>7 DEF IInv, Rows
  <2>2. Stage(c) = "enrolled"
    BY <1>4, <1>7, <2>1 DEF Stage
  <2>3. Stage(c)' = "proved"
    BY <1>2, <1>3, <1>4, <2>1 DEF Stage
  <2> QED BY <1>2, <1>5, <2>2, <2>3 DEF Members!Prove
<1> QED BY <1>6, <1>7

\* Who is made ACTIVE has proved the address, or was ACTIVE.
LEMMA ActivateStep ==
  ASSUME IInv, NEW v \in VSlot, UpdateCustomerStatus(v)
  PROVE  (\E c \in Cust : Members!Activate(c)) \/ UNCHANGED Members!membership
<1>1. PICK c \in Cust : c = vcust[v]
  BY DEF UpdateCustomerStatus, IInv, Visit
<1>2. form' = form /\ confirmed' = confirmed /\ session' = session
  BY DEF UpdateCustomerStatus
<1>3. status' = [status EXCEPT ![c] = "ACTIVE"]
  BY <1>1 DEF UpdateCustomerStatus
<1>4. status \in [Cust -> {"PENDING_VERIFICATION", "ACTIVE", Nil}]
  BY DEF IInv, TypeOK
<1>5. c \in confirmed /\ form[c] # Nil
  BY <1>1 DEF UpdateCustomerStatus, IInv, Visit, Rows
<1>6. \A d \in Cust : d # c => Stage(d)' = Stage(d)
  BY <1>2, <1>3, <1>4 DEF Stage
<1>7. CASE status[c] = "ACTIVE"
  <2>1. status' = status
    BY <1>3, <1>4, <1>7
  <2> QED BY <1>2, <2>1, SameStanding
<1>8. CASE status[c] # "ACTIVE"
  <2>1. Stage(c) = "proved"
    BY <1>5, <1>8 DEF Stage
  <2>2. Stage(c)' = "active"
    BY <1>2, <1>3, <1>4, <1>5 DEF Stage
  <2> QED BY <1>2, <1>6, <2>1, <2>2 DEF Members!Activate
<1> QED BY <1>7, <1>8

\* An access token is issued to who stands as active.
LEMMA EnterStep ==
  ASSUME NEW c \in Cust, Login(c)
  PROVE  Members!Enter(c)
<1>1. Stage(c) = "active"
  BY DEF Login, Stage
<1>2. form' = form /\ status' = status /\ confirmed' = confirmed
  BY DEF Login, tables
<1>3. \A d \in Cust : Stage(d)' = Stage(d)
  BY <1>2 DEF Stage
<1>4. session' = session \union {c}
  BY DEF Login
<1> QED BY <1>1, <1>2, <1>3, <1>4 DEF Members!Enter

\* Every step is a step of a membership or changes nobody's standing.
LEMMA MembershipStep ==
  ASSUME IInv, Checked, [Next]_vars
  PROVE  [Members!Next]_(Members!membership)
<1>1. ASSUME NEW r \in RSlot, CreateCustomer(r)
      PROVE  Members!Next
  BY <1>1, EnrolStep DEF Members!Next
<1>2. ASSUME NEW v \in VSlot, CodeAccepted(v)
      PROVE  Members!Next \/ UNCHANGED Members!membership
  BY <1>2, ProveStep DEF Members!Next
<1>3. ASSUME NEW v \in VSlot, UpdateCustomerStatus(v)
      PROVE  Members!Next \/ UNCHANGED Members!membership
  BY <1>3, ActivateStep DEF Members!Next
<1>4. ASSUME NEW c \in Cust, Login(c)
      PROVE  Members!Next
  BY <1>4, EnterStep DEF Members!Next
<1>5. CASE UNCHANGED <<form, status, confirmed, session>>
  BY <1>5, SameStanding
<1>6. ASSUME NEW r \in RSlot, Register(r)
      PROVE  (\E q \in RSlot : CreateCustomer(q)) \/ UNCHANGED <<form, status, confirmed, session>>
  BY <1>6 DEF Register, Submit, CheckPasses, CheckRefuses, Refuse, CreateVerification,
       Reply, RegistrationFails, tables, history
<1>7. ASSUME NEW v \in VSlot, Verify(v)
      PROVE  \/ \E w \in VSlot : CodeAccepted(w) \/ UpdateCustomerStatus(w)
             \/ UNCHANGED <<form, status, confirmed, session>>
  BY <1>7 DEF Verify, ParseToken, TokenExpired, FindMisses, FindVerification,
       CodeExpired, DeleteVerification, UpdateFails, tables, history
<1>8. ASSUME Crash \/ Tick \/ (\E c \in Cust : SendMail(c)) \/ UNCHANGED vars
      PROVE  UNCHANGED <<form, status, confirmed, session>>
  BY <1>8 DEF Crash, Tick, SendMail, vars, tables, history
<1> QED BY <1>1, <1>2, <1>3, <1>4, <1>5, <1>6, <1>7, <1>8 DEF Next

\* When registrations at work have nothing in common, the steps of the three
\* handlers, however they interleave, fail or are cut short, are those of a
\* membership: enrolled under an identity of one's own, proved, active, inside.
THEOREM OnbImplementsMembership == Spec /\ []Apart => ImplementsMembership
<1>1. Init => Members!Init
  BY DEF Init, Members!Init, Stage
<1>2. IInv /\ Checked /\ [Next]_vars => [Members!Next]_(Members!membership)
  BY MembershipStep
<1>3. Apart /\ IInv /\ Checked /\ UniqueIdentity /\ [Next]_vars
         => Checked' /\ UniqueIdentity'
  BY UniqueStep
<1> QED BY <1>1, <1>2, <1>3, InitUnique, Invariance, PTL
     DEF Spec, ImplementsMembership, Members!Spec

-----------------------------------------------------------------------------
(* The way of a form                                                       *)

\* What a request is made of.
Content == Octet \union Char

\* The assumption about people in the terms of DataProofs.
LEMMA PersonTypes ==
  ASSUME NEW p \in People
  PROVE  /\ p.nik \in Seq(Content) /\ Len(p.nik) < 65536
         /\ p.email \in Seq(Content) /\ Len(p.email) < 65536
         /\ p.national \in National
         /\ Cat(<<"0">>, p.national) \in Seq(Content)
         /\ Len(Cat(<<"0">>, p.national)) < 65536
<1>1. /\ p.nik \in Seq(Octet) /\ p.email \in Seq(Octet) /\ p.national \in Seq(Numeral)
      /\ Len(p.nik) < 65536 /\ Len(p.email) < 65536
      /\ 0 < Len(p.national) /\ Len(p.national) < 65535
      /\ ~IsPrefix(<<"0">>, p.national) /\ ~IsPrefix(<<"6", "2">>, p.national)
  BY PeopleAssumption
<1>2. Octet \subseteq Content /\ Numeral \subseteq Content /\ "0" \in Content
  BY DEF Content, Char, Tabless, Plain, Numeral
<1>3. p.nik \in Seq(Content) /\ p.email \in Seq(Content) /\ p.national \in Seq(Content)
  BY <1>1, <1>2, SeqMonotone
<1>4. p.national \in National
  <2>1. ~ (Len(p.national) >= 1 /\ p.national[1] = "0")
    BY <1>1, BeginsWithOne
  <2>2. ~ (Len(p.national) >= 2 /\ p.national[1] = "6" /\ p.national[2] = "2")
    BY <1>1, BeginsWithTwo
  <2> QED BY <1>1, <2>1, <2>2 DEF National
<1>5. <<"0">> \in Seq(Content) /\ Len(<<"0">>) = 1
  BY <1>2
<1> DEFINE zero == <<"0">>
<1> HIDE DEF zero
<1>6. zero \in Seq(Content) /\ Len(zero) = 1
  BY <1>5 DEF zero
<1>7. Cat(zero, p.national) \in Seq(Content) /\ Len(Cat(zero, p.national)) = 1 + Len(p.national)
  BY <1>3, <1>6, CatType
<1> QED BY <1>1, <1>3, <1>4, <1>7 DEF zero

\* A field carries what the person has filled in under its tag, or is one that
\* the server does not know.
Carried(fields, filled) ==
    \A i \in DOMAIN fields : fields[i].tag \in Tag => fields[i].value = filled[fields[i].tag]

\* A request goes out as fields that carry it.
LEMMA FramedFields ==
  ASSUME NEW p \in People, NEW message \in Framed(p)
  PROVE  \E fields \in Seq(Packable(Content)) :
            message = Pack(fields) /\ Carried(fields, Filled(p, Cat(<<"0">>, p.national)))
<1> DEFINE Q == Packable(Content)
           Sized == {v \in Seq(Content) : Len(v) < 65536}
           filled == Filled(p, Cat(<<"0">>, p.national))
           other == [tag |-> 9, value |-> <<1>>]
           known == [t \in 1 .. 6 |-> [tag |-> t, value |-> filled[t]]]
           fields == Cat(<<other>>, known)
           back == [j \in 1 .. 7 |-> fields[7 - j + 1]]
<1>1. <<1>> \in Seq(Content) /\ Len(<<1>>) < 65536
  BY DEF Content, Octet
<1>2. Address \in Seq(Content) /\ Len(Address) < 65536
  <2>1. Octet \subseteq Content
    BY DEF Content
  <2> QED BY <2>1, AddressAssumption, SeqMonotone
<1>3. \A t \in 1 .. 6 : filled[t] \in Sized
  <2>1. /\ filled[1] = p.nik /\ filled[2] = <<1>> /\ filled[3] = p.email
        /\ filled[4] = Cat(<<"0">>, p.national) /\ filled[5] = Address /\ filled[6] = <<1>>
    BY DEF Filled
  <2>2. p.nik \in Sized /\ p.email \in Sized /\ Cat(<<"0">>, p.national) \in Sized
    <3> DEFINE zero == Cat(<<"0">>, p.national)
    <3>1. /\ p.nik \in Seq(Content) /\ Len(p.nik) < 65536
          /\ p.email \in Seq(Content) /\ Len(p.email) < 65536
          /\ zero \in Seq(Content) /\ Len(zero) < 65536
      BY PersonTypes
    <3> HIDE DEF zero
    <3>2. p.nik \in Sized /\ p.email \in Sized /\ zero \in Sized
      BY <3>1
    <3> QED BY <3>2 DEF zero
  <2>3. <<1>> \in Sized /\ Address \in Sized
    BY <1>1, <1>2
  <2> HIDE DEF filled, Sized
  <2>4. /\ filled[1] \in Sized /\ filled[2] \in Sized /\ filled[3] \in Sized
        /\ filled[4] \in Sized /\ filled[5] \in Sized /\ filled[6] \in Sized
    BY <2>1, <2>2, <2>3, Zenon
  <2>5. \A t \in 1 .. 6 : t = 1 \/ t = 2 \/ t = 3 \/ t = 4 \/ t = 5 \/ t = 6
    OBVIOUS
  <2> QED BY <2>4, <2>5, Zenon
<1>4. other \in Q
  BY <1>1 DEF Packable
<1>5. known \in [1 .. 6 -> Q]
  <2> HIDE DEF filled
  <2> QED BY <1>3 DEF Packable
<1>6. known \in Seq(Q)
  <2> HIDE DEF known, Q
  <2> QED BY <1>5, FunctionIsSeq
<1>7. /\ fields \in Seq(Q) /\ Len(fields) = 7 /\ fields[1] = other
      /\ \A t \in 1 .. 6 : fields[1 + t] = known[t]
  <2> HIDE DEF other, known, Q, fields
  <2> DEFINE one == <<other>>
  <2>1. one \in Seq(Q)
    BY <1>4
  <2>2. Len(one) = 1 /\ one[1] = other
    OBVIOUS
  <2>3. Len(known) = 6
    BY <1>5, FunctionIsSeq
  <2> HIDE DEF one
  <2>4. /\ Cat(one, known) \in Seq(Q) /\ Len(Cat(one, known)) = Len(one) + Len(known)
        /\ \A i \in 1 .. Len(one) : Cat(one, known)[i] = one[i]
        /\ \A i \in 1 .. Len(known) : Cat(one, known)[Len(one) + i] = known[i]
    BY <1>6, <2>1 DEF Cat
  <2> QED BY <2>2, <2>3, <2>4 DEF one, fields
<1>8. \A i \in 1 .. 7 : fields[i].tag \in Tag => fields[i].value = filled[fields[i].tag]
  <2> SUFFICES ASSUME NEW i \in 1 .. 7, fields[i].tag \in Tag
               PROVE  fields[i].value = filled[fields[i].tag]
    OBVIOUS
  <2>1. CASE i = 1
    <3>1. fields[i].tag = 9
      BY <1>7, <2>1
    <3> QED BY <3>1 DEF Tag
  <2>2. CASE i # 1
    <3>1. i - 1 \in 1 .. 6 /\ 1 + (i - 1) = i
      BY <2>2
    <3>2. fields[i] = known[i - 1]
      <4> HIDE DEF fields, known
      <4> QED BY <1>7, <3>1
    <3> HIDE DEF fields, filled
    <3> QED BY <3>1, <3>2
  <2> QED BY <2>1, <2>2
<1>9. Carried(fields, filled)
  <2> HIDE DEF fields, filled
  <2> QED BY <1>7, <1>8 DEF Carried
<1>10. back \in Seq(Q) /\ Carried(back, filled) /\ Reverse(fields) = back
  <2> HIDE DEF fields, filled, Q
  <2>1. \A j \in 1 .. 7 : 7 - j + 1 \in 1 .. 7 /\ fields[7 - j + 1] \in Q
    <3>1. fields \in Seq(Q)
      BY <1>7
    <3>2. \A i \in 1 .. Len(fields) : fields[i] \in Q
      BY <3>1
    <3>3. Len(fields) = 7
      BY <1>7
    <3>4. \A j \in 1 .. 7 : 7 - j + 1 \in 1 .. 7
      OBVIOUS
    <3> QED BY <3>2, <3>3, <3>4
  <2>2. back \in [1 .. 7 -> Q] /\ DOMAIN back = 1 .. 7
    BY <2>1
  <2>3. Carried(back, filled)
    BY <1>8, <2>1, <2>2 DEF Carried
  <2>4. back \in Seq(Q)
    <3> HIDE DEF back
    <3> QED BY <2>2, FunctionIsSeq
  <2>5. Reverse(fields) = back
    <3>1. Len(fields) = 7
      BY <1>7
    <3> QED BY <3>1 DEF Reverse
  <2> QED BY <2>3, <2>4, <2>5
<1>11. message \in {Pack(fields), Pack(Reverse(fields))}
  BY DEF Framed, Tag, Cat
<1>12. fields \in Seq(Q)
  BY <1>7
<1> QED
  <2> HIDE DEF fields, filled, back, Q
  <2>1. message = Pack(fields) \/ message = Pack(back)
    BY <1>10, <1>11, Zenon
  <2> QED BY <1>9, <1>10, <1>12, <2>1, Zenon DEF Q, filled

\* What the handler makes of a transmission, cut or whole, is nothing or what
\* the person has filled in, tag by tag.
LEMMA ReceivedWasFilled ==
  ASSUME NEW p \in People, NEW message \in Framed(p), NEW q \in Received(message),
         NEW t \in Tag
  PROVE  q[t] = <<>> \/ q[t] = Filled(p, Cat(<<"0">>, p.national))[t]
<1> DEFINE filled == Filled(p, Cat(<<"0">>, p.national))
<1> HIDE DEF filled
<1>1. PICK fields \in Seq(Packable(Content)) : message = Pack(fields) /\ Carried(fields, filled)
  BY FramedFields DEF filled
<1>2. PICK n \in 0 .. Len(message) :
          Unpack(SubSeq(message, 1, n)).ok /\ q = Unpack(SubSeq(message, 1, n)).request
  BY Zenon DEF Received
<1>3. n \in 0 .. Len(Pack(fields)) /\ Unpack(SubSeq(Pack(fields), 1, n)).ok
  BY <1>1, <1>2
<1>4. \/ q[t] = <<>>
      \/ \E i \in DOMAIN fields : fields[i].tag = t /\ fields[i].value = q[t]
  <2> DEFINE value == Unpack(SubSeq(Pack(fields), 1, n)).request[t]
  <2>1. \/ value = <<>>
        \/ \E i \in DOMAIN fields : fields[i].tag = t /\ fields[i].value = value
    BY <1>3, CutAddsNothing
  <2>2. q[t] = value
    BY <1>1, <1>2, Zenon
  <2> HIDE DEF value
  <2> QED BY <2>1, <2>2, Zenon
<1> QED BY <1>1, <1>4 DEF Carried, filled

\* Every form that reaches the checks is the form of a person.
LEMMA FormsAreSent ==
  ASSUME NEW fm \in Forms
  PROVE  \E p \in People : fm = FormOf(p)
<1>1. PICK q \in Requested :
          /\ \A t \in Tag : q[t] # <<>>
          /\ fm = [nik |-> q[1], email |-> q[3], phone |-> Normalized(q[4])]
  BY DEF Forms, Acceptable
<1>2. PICK p \in People :
          \/ \E typed \in Spellings(p.national) : q = Filled(p, typed)
          \/ \E message \in Framed(p) : q \in Received(message)
  BY DEF Requested
<1>3. p.national \in National
  BY PersonTypes
<1>4. CASE \E typed \in Spellings(p.national) : q = Filled(p, typed)
  <2>1. PICK typed \in Spellings(p.national) : q = Filled(p, typed)
    BY <1>4
  <2>2. q[1] = p.nik /\ q[3] = p.email /\ q[4] = typed
    BY <2>1 DEF Filled
  <2>3. Normalized(typed) = E164(p.national)
    BY <1>3, SpellingsNormalize
  <2> QED BY <1>1, <2>2, <2>3 DEF FormOf
<1>5. CASE \E message \in Framed(p) : q \in Received(message)
  <2> DEFINE filled == Filled(p, Cat(<<"0">>, p.national))
  <2>1. \A t \in Tag : q[t] = filled[t]
    <3> HIDE DEF filled
    <3> QED BY <1>1, <1>5, ReceivedWasFilled DEF filled
  <2>2. q[1] = p.nik /\ q[3] = p.email /\ q[4] = Cat(<<"0">>, p.national)
    <3>1. 1 \in Tag /\ 3 \in Tag /\ 4 \in Tag
      BY DEF Tag
    <3>2. filled[1] = p.nik /\ filled[3] = p.email /\ filled[4] = Cat(<<"0">>, p.national)
      BY DEF Filled
    <3> HIDE DEF filled
    <3> QED BY <2>1, <3>1, <3>2
  <2>3. Cat(<<"0">>, p.national) \in Spellings(p.national)
    BY DEF Spellings, Cat
  <2>4. Normalized(Cat(<<"0">>, p.national)) = E164(p.national)
    BY <1>3, <2>3, SpellingsNormalize
  <2> QED BY <1>1, <2>2, <2>4 DEF FormOf
<1> QED BY <1>2, <1>4, <1>5

\* Every row of customers is what one person has sent, whole, whatever was cut
\* on the way: a registration keeps the form it was given.
THEOREM OnbStoredWasSent == Spec => []StoredWasSent
<1>1. TypeOK => StoredWasSent
  <2> SUFFICES ASSUME TypeOK, NEW c \in Cust, form[c] # Nil
               PROVE  \E p \in People : form[c] = FormOf(p)
    BY DEF StoredWasSent
  <2>1. form[c] \in Form
    BY DEF TypeOK
  <2>2. form[c] \in Forms
    BY <2>1, FormAssumption
  <2> QED BY <2>2, FormsAreSent
<1> QED BY <1>1, OnbTypeCorrect, PTL

\* Whoever is a customer is found by every way to write the phone number.
THEOREM OnbPhoneIsFound == Spec => []PhoneIsFound
<1>1. StoredWasSent => PhoneIsFound
  <2> SUFFICES ASSUME StoredWasSent, NEW c \in Cust, NEW n \in NormalForms,
                      form[c] # Nil, form[c].nik = n[1].nik, form[c].email = n[1].email
               PROVE  Exists("phone", n[2])
    BY DEF PhoneIsFound
  <2>1. PICK p \in People :
            \E typed \in Spellings(p.national) : n = <<p, Normalized(typed)>>
    BY DEF NormalForms
  <2>2. PICK typed \in Spellings(p.national) : n[1] = p /\ n[2] = Normalized(typed)
    BY <2>1
  <2>3. PICK q \in People : form[c] = FormOf(q)
    BY DEF StoredWasSent
  <2>4. form[c].nik = q.nik /\ form[c].email = q.email /\ form[c]["phone"] = E164(q.national)
    BY <2>3 DEF FormOf
  <2>5. q = p
    BY <2>2, <2>4, PeopleAssumption
  <2>6. p.national \in National
    BY PersonTypes
  <2>7. n[2] = E164(p.national)
    BY <2>2, <2>6, SpellingsNormalize
  <2> QED BY <2>4, <2>5, <2>7 DEF Exists
<1> QED BY <1>1, OnbStoredWasSent, PTL
=============================================================================
