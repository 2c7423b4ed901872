----------------------------- MODULE Onboarding -----------------------------
(***************************************************************************)
(* From the registration form to the first login: CustomerUseCase's        *)
(* processRegistration, VerifyCustomer and LoginCustomerRaw over the       *)
(* tables customers and verifications.  Every access to a table is a step, *)
(* no transaction spans two of them.                                       *)
(*                                                                         *)
(* Every registration makes its own customer row and at most one           *)
(* verification for it, so a verification is named by its customer.  Forms *)
(* are what processRegistration has after it decrypted the request and     *)
(* normalised the phone number.  What EncryptPII stored is readable        *)
(* (LocalKMS), so the Exists checks see the plaintext of every row.        *)
(***************************************************************************)
EXTENDS Naturals, FiniteSets

CONSTANTS
    Cust,       \* customer ids; their number bounds the rows
    Form,       \* the forms that are sent in, functions from Field
    RSlot,      \* handlers of POST /customers/register at work at the same time
    VSlot,      \* handlers of POST /customers/verification
    Minute,     \* validity of code and token, in ticks of the clock
    MaxTime,    \* bound on the clock
    MaxFaults,  \* bound on failed statements and crashes
    Nil

Field == {"nik", "email", "phone"}

ASSUME MinuteAssumption == Minute \in Nat \ {0}
ASSUME BoundAssumption == MaxTime \in Nat /\ MaxFaults \in Nat
ASSUME NilAssumption ==
    /\ Nil \notin Cust /\ Nil \notin Form /\ Nil \notin Nat
    /\ Nil \notin {"PENDING_VERIFICATION", "ACTIVE"}

VARIABLES
    form,       \* customers: the identity of each row, Nil without a row
    status,     \* customers.status
    expires,    \* verifications.expires_at, Nil without a row
    token,      \* expiry of the verificationToken sent in the reply, Nil if none
    outbox,     \* codes the mail goroutine has not sent yet
    mail,       \* codes that arrived
    rpc,        \* registration: idle, check, insert, code, reply
    rform,      \* the form it works on
    todo,       \* the uniqueness checks still running
    rcust,      \* the row it has inserted
    vpc,        \* verification: idle, find, found, delete, update
    vcust,      \* the customer of its token
    vright,     \* whether the submitted code is the one of that customer
    vexp,       \* expires_at of the row it found
    now, faults,
    confirmed,  \* history: customers whose code was accepted before it expired
    verified,   \* history: customers answered "berhasil di verifikasi"
    told,       \* history: customers answered "registrasi ulang"
    session     \* customers an access token was issued for

tables == <<form, status, expires>>
letters == <<token, outbox, mail>>
registration == <<rpc, rform, todo, rcust>>
verification == <<vpc, vcust, vright, vexp>>
history == <<confirmed, verified, told, session>>
vars == <<tables, letters, registration, verification, now, faults, history>>

Time == 0 .. MaxTime + Minute

TypeOK ==
    /\ form \in [Cust -> Form \union {Nil}]
    /\ status \in [Cust -> {"PENDING_VERIFICATION", "ACTIVE", Nil}]
    /\ expires \in [Cust -> Time \union {Nil}]
    /\ token \in [Cust -> Time \union {Nil}]
    /\ outbox \subseteq Cust /\ mail \subseteq Cust
    /\ rpc \in [RSlot -> {"idle", "check", "insert", "code", "reply"}]
    /\ rform \in [RSlot -> Form \union {Nil}]
    /\ todo \in [RSlot -> SUBSET Field]
    /\ rcust \in [RSlot -> Cust \union {Nil}]
    /\ vpc \in [VSlot -> {"idle", "find", "found", "delete", "update"}]
    /\ vcust \in [VSlot -> Cust \union {Nil}]
    /\ vright \in [VSlot -> BOOLEAN]
    /\ vexp \in [VSlot -> Time \union {Nil}]
    /\ now \in 0 .. MaxTime
    /\ faults \in 0 .. MaxFaults
    /\ confirmed \subseteq Cust /\ verified \subseteq Cust
    /\ told \subseteq Cust /\ session \subseteq Cust

Init ==
    /\ form = [c \in Cust |-> Nil]
    /\ status = [c \in Cust |-> Nil]
    /\ expires = [c \in Cust |-> Nil]
    /\ token = [c \in Cust |-> Nil]
    /\ outbox = {} /\ mail = {}
    /\ rpc = [r \in RSlot |-> "idle"]
    /\ rform = [r \in RSlot |-> Nil]
    /\ todo = [r \in RSlot |-> {}]
    /\ rcust = [r \in RSlot |-> Nil]
    /\ vpc = [v \in VSlot |-> "idle"]
    /\ vcust = [v \in VSlot |-> Nil]
    /\ vright = [v \in VSlot |-> FALSE]
    /\ vexp = [v \in VSlot |-> Nil]
    /\ now = 0 /\ faults = 0
    /\ confirmed = {} /\ verified = {} /\ told = {} /\ session = {}

\* ExistsByNIK, ExistsByEmail, ExistsByPhone: a scan of the whole table.
Exists(f, value) == \E c \in Cust : form[c] # Nil /\ form[c][f] = value

Fault == faults < MaxFaults /\ faults' = faults + 1

ToIdle(r) ==
    /\ rpc' = [rpc EXCEPT ![r] = "idle"]
    /\ rform' = [rform EXCEPT ![r] = Nil]
    /\ todo' = [todo EXCEPT ![r] = {}]
    /\ rcust' = [rcust EXCEPT ![r] = Nil]

VToIdle(v) ==
    /\ vpc' = [vpc EXCEPT ![v] = "idle"]
    /\ vcust' = [vcust EXCEPT ![v] = Nil]
    /\ vright' = [vright EXCEPT ![v] = FALSE]
    /\ vexp' = [vexp EXCEPT ![v] = Nil]

-----------------------------------------------------------------------------
(* Faulty variants of the steps below; each breaks one property.           *)

\* The first check to pass ends the wait for all three.
CheckPassesForAll(r, f) ==
    /\ rpc[r] = "check"
    /\ f \in todo[r]
    /\ ~Exists(f, rform[r][f])
    /\ todo' = [todo EXCEPT ![r] = {}]
    /\ rpc' = [rpc EXCEPT ![r] = "insert"]
    /\ UNCHANGED <<tables, letters, rform, rcust, verification, now, faults, history>>

\* The INSERT became an upsert that lets a pending customer register again, and
\* finds the row by something else than the identity.
CreateCustomerAgain(r) ==
    /\ rpc[r] = "insert"
    /\ \E c \in Cust :
          /\ status[c] # "ACTIVE"
          /\ form' = [form EXCEPT ![c] = rform[r]]
          /\ status' = [status EXCEPT ![c] = "PENDING_VERIFICATION"]
          /\ rcust' = [rcust EXCEPT ![r] = c]
    /\ rpc' = [rpc EXCEPT ![r] = "code"]
    /\ UNCHANGED <<expires, letters, rform, todo, verification, now, faults, history>>

\* The validity is five times as long as that of the token.
CreateVerificationLong(r) ==
    /\ rpc[r] = "code"
    /\ expires' = [expires EXCEPT ![rcust[r]] = now + 5 * Minute]
    /\ outbox' = outbox \union {rcust[r]}
    /\ rpc' = [rpc EXCEPT ![r] = "reply"]
    /\ UNCHANGED <<form, status, token, mail, rform, todo, rcust, verification,
                   now, faults, history>>

\* The query does not compare the code.
FindAnyCode(v) ==
    /\ vpc[v] = "find"
    /\ expires[vcust[v]] # Nil
    /\ vexp' = [vexp EXCEPT ![v] = expires[vcust[v]]]
    /\ vpc' = [vpc EXCEPT ![v] = "found"]
    /\ UNCHANGED <<tables, letters, registration, vcust, vright, now, faults, history>>

\* A wrong code uses the verification up.
FindMissDeletes(v) ==
    /\ vpc[v] = "find"
    /\ expires' = [expires EXCEPT ![vcust[v]] = Nil]
    /\ VToIdle(v)
    /\ UNCHANGED <<form, status, letters, registration, now, faults, history>>

\* The handler returns after the DELETE.
DeleteReturns(v) ==
    /\ vpc[v] = "delete"
    /\ expires' = [expires EXCEPT ![vcust[v]] = Nil]
    /\ VToIdle(v)
    /\ UNCHANGED <<form, status, letters, registration, now, faults, history>>

-----------------------------------------------------------------------------
(* POST /customers/register                                               *)

\* Decryption, format and Google e-mail checks have passed; the errgroup starts
\* the three uniqueness checks.
Submit(r) ==
    /\ rpc[r] = "idle"
    /\ \E fm \in Form : rform' = [rform EXCEPT ![r] = fm]
    /\ rpc' = [rpc EXCEPT ![r] = "check"]
    /\ todo' = [todo EXCEPT ![r] = Field]
    /\ UNCHANGED <<tables, letters, rcust, verification, now, faults, history>>

\* One check finds no row; the last one ends g.Wait().
CheckPasses(r, f) ==
    /\ rpc[r] = "check"
    /\ f \in todo[r]
    /\ ~Exists(f, rform[r][f])
    /\ todo' = [todo EXCEPT ![r] = @ \ {f}]
    /\ rpc' = [rpc EXCEPT ![r] = IF todo[r] = {f} THEN "insert" ELSE "check"]
    /\ UNCHANGED <<tables, letters, rform, rcust, verification, now, faults, history>>

\* A duplicate: 409.
CheckRefuses(r, f) ==
    /\ rpc[r] = "check"
    /\ f \in todo[r]
    /\ Exists(f, rform[r][f])
    /\ ToIdle(r)
    /\ UNCHANGED <<tables, letters, verification, now, faults, history>>

\* Any other refusal before the INSERT: a query fails, the password is empty or
\* short, encryption fails, the INSERT itself fails.
Refuse(r) ==
    /\ rpc[r] \in {"check", "insert"}
    /\ ToIdle(r)
    /\ UNCHANGED <<tables, letters, verification, now, faults, history>>

\* The UNIQUE constraints of the table are on ciphertexts, which differ for
\* equal plaintexts: they never refuse.
CreateCustomer(r) ==
    /\ rpc[r] = "insert"
    /\ \E c \in Cust :
          /\ form[c] = Nil
          /\ form' = [form EXCEPT ![c] = rform[r]]
          /\ status' = [status EXCEPT ![c] = "PENDING_VERIFICATION"]
          /\ rcust' = [rcust EXCEPT ![r] = c]
    /\ rpc' = [rpc EXCEPT ![r] = "code"]
    /\ UNCHANGED <<expires, letters, rform, todo, verification, now, faults, history>>

CreateVerification(r) ==
    /\ rpc[r] = "code"
    /\ expires' = [expires EXCEPT ![rcust[r]] = now + Minute]
    /\ outbox' = outbox \union {rcust[r]}
    /\ rpc' = [rpc EXCEPT ![r] = "reply"]
    /\ UNCHANGED <<form, status, token, mail, rform, todo, rcust, verification,
                   now, faults, history>>

\* GenerateVerificationToken and the reply. The token's expiry is computed
\* after the row's, and a JWT drops the fraction of the second.
Reply(r) ==
    /\ rpc[r] = "reply"
    /\ \E t \in {now + Minute - 1, now + Minute} :
          token' = [token EXCEPT ![rcust[r]] = t]
    /\ ToIdle(r)
    /\ UNCHANGED <<tables, outbox, mail, verification, now, faults, history>>

\* CreateVerification or the reply fails: the customer row stays.
RegistrationFails(r) ==
    /\ rpc[r] \in {"code", "reply"}
    /\ Fault
    /\ ToIdle(r)
    /\ UNCHANGED <<tables, letters, verification, now, history>>

\* The goroutine that sends the mail; its error is dropped.
SendMail(c) ==
    /\ c \in outbox
    /\ outbox' = outbox \ {c}
    /\ mail' \in {mail, mail \union {c}}
    /\ UNCHANGED <<tables, token, registration, verification, now, faults, history>>

-----------------------------------------------------------------------------
(* POST /customers/verification                                            *)

\* A request with a token that is still valid, and a code. The right code is
\* known from the mail (nobody guesses one of 90000 here).
ParseToken(v, c) ==
    /\ vpc[v] = "idle"
    /\ token[c] # Nil /\ now < token[c]
    /\ \E right \in BOOLEAN :
          /\ right => c \in mail
          /\ vright' = [vright EXCEPT ![v] = right]
    /\ vpc' = [vpc EXCEPT ![v] = "find"]
    /\ vcust' = [vcust EXCEPT ![v] = c]
    /\ UNCHANGED <<tables, letters, registration, vexp, now, faults, history>>

\* A token that has expired: "Silakan lakukan registrasi ulang".
TokenExpired(v, c) ==
    /\ vpc[v] = "idle"
    /\ token[c] # Nil /\ now >= token[c]
    /\ told' = told \union {c}
    /\ UNCHANGED <<tables, letters, registration, verification, now, faults,
                   confirmed, verified, session>>

\* FindVerification returns nothing, or fails: the same answer.
FindMisses(v) ==
    /\ vpc[v] = "find"
    /\ VToIdle(v)
    /\ UNCHANGED <<tables, letters, registration, now, faults, history>>

\* FindVerification returns the row of this customer and this code.
FindVerification(v) ==
    /\ vpc[v] = "find"
    /\ vright[v]
    /\ expires[vcust[v]] # Nil
    /\ vexp' = [vexp EXCEPT ![v] = expires[vcust[v]]]
    /\ vpc' = [vpc EXCEPT ![v] = "found"]
    /\ UNCHANGED <<tables, letters, registration, vcust, vright, now, faults, history>>

\* The code that was found is too old; the error of the DELETE is ignored.
CodeExpired(v) ==
    /\ vpc[v] = "found"
    /\ now > vexp[v]
    /\ \/ expires' = [expires EXCEPT ![vcust[v]] = Nil] /\ UNCHANGED faults
       \/ Fault /\ UNCHANGED expires
    /\ told' = told \union {vcust[v]}
    /\ VToIdle(v)
    /\ UNCHANGED <<form, status, letters, registration, now, confirmed, verified, session>>

\* The code is in time. The history notes whether it really was.
CodeAccepted(v) ==
    /\ vpc[v] = "found"
    /\ now <= vexp[v]
    /\ confirmed' = IF vright[v] /\ now <= vexp[v]
                    THEN confirmed \union {vcust[v]} ELSE confirmed
    /\ vpc' = [vpc EXCEPT ![v] = "delete"]
    /\ UNCHANGED <<tables, letters, registration, vcust, vright, vexp, now, faults,
                   verified, told, session>>

\* Once more an ignored error.
DeleteVerification(v) ==
    /\ vpc[v] = "delete"
    /\ \/ expires' = [expires EXCEPT ![vcust[v]] = Nil] /\ UNCHANGED faults
       \/ Fault /\ UNCHANGED expires
    /\ vpc' = [vpc EXCEPT ![v] = "update"]
    /\ UNCHANGED <<form, status, letters, registration, vcust, vright, vexp, now, history>>

\* UpdateCustomerStatus; the row exists, nothing deletes customers.
UpdateCustomerStatus(v) ==
    /\ vpc[v] = "update"
    /\ status' = [status EXCEPT ![vcust[v]] = "ACTIVE"]
    /\ verified' = verified \union {vcust[v]}
    /\ VToIdle(v)
    /\ UNCHANGED <<form, expires, letters, registration, now, faults,
                   confirmed, told, session>>

\* The update fails: 500, and the code is gone.
UpdateFails(v) ==
    /\ vpc[v] = "update"
    /\ Fault
    /\ VToIdle(v)
    /\ UNCHANGED <<tables, letters, registration, now, history>>

-----------------------------------------------------------------------------
\* POST /customers/login with the right password, by any of the three
\* identifiers; it only reads.  No code here leaves ACTIVE, so that the status
\* it reads and the one it signs by, a comparison later, are the same.
Login(c) ==
    /\ form[c] # Nil
    /\ status[c] = "ACTIVE"
    /\ session' = session \union {c}
    /\ UNCHANGED <<tables, letters, registration, verification, now, faults,
                   confirmed, verified, told>>

\* The server ends, with its handlers and mail goroutines where they are.
Crash ==
    /\ Fault
    /\ outbox' = {}
    /\ rpc' = [r \in RSlot |-> "idle"]
    /\ rform' = [r \in RSlot |-> Nil]
    /\ todo' = [r \in RSlot |-> {}]
    /\ rcust' = [r \in RSlot |-> Nil]
    /\ vpc' = [v \in VSlot |-> "idle"]
    /\ vcust' = [v \in VSlot |-> Nil]
    /\ vright' = [v \in VSlot |-> FALSE]
    /\ vexp' = [v \in VSlot |-> Nil]
    /\ UNCHANGED <<tables, token, mail, now, history>>

Tick ==
    /\ now < MaxTime
    /\ now' = now + 1
    /\ UNCHANGED <<tables, letters, registration, verification, faults, history>>

Register(r) ==
    \/ Submit(r) \/ (\E f \in Field : CheckPasses(r, f) \/ CheckRefuses(r, f))
    \/ Refuse(r) \/ CreateCustomer(r) \/ CreateVerification(r) \/ Reply(r)
    \/ RegistrationFails(r)

Verify(v) ==
    \/ (\E c \in Cust : ParseToken(v, c) \/ TokenExpired(v, c))
    \/ FindMisses(v) \/ FindVerification(v) \/ CodeExpired(v) \/ CodeAccepted(v)
    \/ DeleteVerification(v) \/ UpdateCustomerStatus(v) \/ UpdateFails(v)

Next ==
    \/ \E r \in RSlot : Register(r)
    \/ \E v \in VSlot : Verify(v)
    \/ \E c \in Cust : SendMail(c) \/ Login(c)
    \/ Crash \/ Tick

Spec == Init /\ [][Next]_vars

-----------------------------------------------------------------------------
(* Properties                                                              *)

\* A customer is ACTIVE, and may log in, only after the code that was mailed
\* to that customer came back in time, however handlers interleave and
\* whatever fails in between.
ActiveIsConfirmed ==
    /\ \A c \in Cust : status[c] = "ACTIVE" => c \in confirmed
    /\ session \union verified \subseteq confirmed \intersect mail

\* A code that was accepted is not lost: the customer is ACTIVE, or a handler
\* is about to make it so, or something failed (a crash or a failed UPDATE
\* between the DELETE and the UPDATE leaves the customer without either).
ConfirmedIsActive ==
    faults = 0 =>
        \A c \in confirmed :
            \/ status[c] = "ACTIVE"
            \/ \E v \in VSlot : vpc[v] \in {"delete", "update"} /\ vcust[v] = c

\* A customer nobody is working on has a verification row, is ACTIVE, was told
\* that the code expired, or something failed: there is no other way to lose
\* the chance to be verified.
PendingHasCode ==
    faults = 0 =>
        \A c \in Cust :
            status[c] = "PENDING_VERIFICATION" =>
                \/ expires[c] # Nil
                \/ c \in told
                \/ \E r \in RSlot : rcust[r] = c
                \/ \E v \in VSlot : vpc[v] = "update" /\ vcust[v] = c

\* NIK, e-mail and phone number each name one customer (ErrDuplicateNIK and
\* the UNIQUE columns of v1_schema.sql), so that a login finds the right one.
UniqueIdentity ==
    \A c, d \in Cust :
        form[c] # Nil /\ form[d] # Nil /\ c # d =>
            \A f \in Field : form[c][f] # form[d][f]

\* Whoever is told to register again can: no row is left for the uniqueness
\* checks to find (customer_handler.go, the answer to an expired code).
RegisterAgain == \A c \in told : status[c] = "ACTIVE" \/ form[c] = Nil

\* The setting in which UniqueIdentity and ImplementsMembership hold.
OneRegistration == \A r, s \in RSlot : r = s

\* How far a customer has come, from its row and its accepted code.
Stage(c) ==
    CASE form[c] = Nil -> "stranger"
      [] form[c] # Nil /\ status[c] = "ACTIVE" -> "active"
      [] form[c] # Nil /\ status[c] # "ACTIVE" /\ c \in confirmed -> "proved"
      [] OTHER -> "enrolled"

Members ==
    INSTANCE Membership WITH Member <- Cust, Identity <- Form, None <- Nil,
        identity <- form, stage <- [c \in Cust |-> Stage(c)], inside <- session

\* The checks, the INSERT and the three steps of a verification, which any
\* other handler, a failure or a crash may come between, amount to the steps of
\* a membership: nobody skips one, goes one back or changes into someone else.
ImplementsMembership == Members!Spec
=============================================================================
