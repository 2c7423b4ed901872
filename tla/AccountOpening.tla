--------------------------- MODULE AccountOpening ---------------------------
(***************************************************************************)
(* AccountUseCase.OpenAccount for one customer, behind JWTAuthMiddleware   *)
(* and RequireRole, with the two sessions a customer can have: the access  *)
(* token of a login (15 minutes, role "customer") and the elevated token   *)
(* of an opening (24 hours, role ROLE_CUSTOMER_TRANSACTIONAL).  Every      *)
(* statement is a step, and a login is two: it reads the customer and,     *)
(* an Argon2 comparison later, signs.  Customers do not interact, and the  *)
(* confirmation of this one's e-mail is over.                              *)
(***************************************************************************)
EXTENDS Naturals, Requests

CONSTANTS
    LoginReq,    \* the logins that can be at work at the same time
    AccessTTL,   \* life of an access token, in ticks
    ElevatedTTL, \* life of an elevated token, in ticks
    MaxAccounts, \* bound on the accounts inserted
    MaxDbFaults  \* bound on INSERTs in doubt and tokens that cannot be signed

ASSUME TokenAssumption == AccessTTL \in Nat \ {0} /\ ElevatedTTL \in Nat \ {0}
ASSUME OpeningBoundAssumption == MaxAccounts \in Nat /\ MaxDbFaults \in Nat

VARIABLES
    status,    \* customers.status, ACTIVE or SUSPENDED
    accounts,  \* rows of accounts with this customer and status ACTIVE
    step,      \* idle, check, insert, status, token, answer
    seen,      \* the logins that have read the status ACTIVE and not ended yet
    access,    \* ticks the customer's latest access token is still valid
    signed,    \* ticks the elevated token signed last is still valid
    elevated,  \* ticks the elevated token the customer has is still valid
    granted,   \* history: what has become of elevated tokens: none, signed, given
    dbFaults

openingVars == <<status, accounts, step, seen, access, signed, elevated,
                 granted, dbFaults>>

\* What the customer has or is about to get by a login, and what the service has
\* signed for an opening.
sessionVars == <<seen, access, elevated>>
tokenVars == <<signed, granted>>

OpeningTypeOK ==
    /\ status \in {"ACTIVE", "SUSPENDED"}
    /\ accounts \in 0 .. MaxAccounts
    /\ step \in [Req -> {"idle", "check", "insert", "status", "token", "answer"}]
    /\ seen \subseteq LoginReq
    /\ access \in 0 .. AccessTTL
    /\ signed \in 0 .. ElevatedTTL
    /\ elevated \in 0 .. ElevatedTTL
    /\ granted \in {"none", "signed", "given"}
    /\ dbFaults \in 0 .. MaxDbFaults

\* A customer that has confirmed the e-mail and not logged in yet.
OpeningInit ==
    /\ status = "ACTIVE"
    /\ accounts = 0
    /\ step = [r \in Req |-> "idle"]
    /\ seen = {}
    /\ access = 0
    /\ signed = 0
    /\ elevated = 0
    /\ granted = "none"
    /\ dbFaults = 0

To(r, from, next) == step[r] = from /\ step' = [step EXCEPT ![r] = next]

DbFault == dbFaults < MaxDbFaults /\ dbFaults' = dbFaults + 1

\* RequireRole of the two protected routes, for a token that is still valid.
MayOpen(role) == role \in {"ROLE_CUSTOMER_BASIC", "customer"}
MayVerifyPIN(role) == role = "ROLE_CUSTOMER_TRANSACTIONAL"

\* The roles of the tokens with which the customer passes JWTAuthMiddleware.
Roles == (IF access > 0 THEN {"customer"} ELSE {})
            \union (IF elevated > 0 THEN {"ROLE_CUSTOMER_TRANSACTIONAL"} ELSE {})

-----------------------------------------------------------------------------
(* Faulty variants of the steps below; each breaks one property.           *)

\* Any account or none: the check is left out.
HasAnyAccount(r) ==
    /\ To(r, "check", "insert")
    /\ UNCHANGED <<status, accounts, tokenVars, sessionVars, dbFaults>>

\* The error of UpdateCustomerStatus is returned.
StatusFailureReturned(r) ==
    /\ To(r, "status", "idle")
    /\ UNCHANGED <<status, accounts, tokenVars, sessionVars, dbFaults>>

\* A login that does not look at the status.
ReadAnyStatus(l) ==
    /\ l \notin seen
    /\ seen' = seen \union {l}
    /\ UNCHANGED <<status, accounts, step, access, elevated, tokenVars, dbFaults>>

-----------------------------------------------------------------------------
(* OpenAccount                                                             *)

\* The token is valid and its role may open an account.
AdmitOpening(r) ==
    /\ To(r, "idle", "check")
    /\ \E role \in Roles : MayOpen(role)
    /\ UNCHANGED <<status, accounts, tokenVars, sessionVars, dbFaults>>

\* There is no ACTIVE account, the PIN can be read, is strong and is hashed.
HasNoAccount(r) ==
    /\ To(r, "check", "insert")
    /\ accounts = 0
    /\ UNCHANGED <<status, accounts, tokenVars, sessionVars, dbFaults>>

\* There is one (409), the query fails (500), or the PIN is refused (400).
RefuseOpening(r) ==
    /\ To(r, "check", "idle")
    /\ UNCHANGED <<status, accounts, tokenVars, sessionVars, dbFaults>>

CreateAccount(r) ==
    /\ To(r, "insert", "status")
    /\ accounts < MaxAccounts
    /\ accounts' = accounts + 1
    /\ UNCHANGED <<status, tokenVars, sessionVars, dbFaults>>

\* The INSERT fails: the account number is taken or the statement did not run;
\* or the row is there and only the answer to the statement was lost.
CreateFails(r) ==
    /\ To(r, "insert", "idle")
    /\ \/ UNCHANGED <<accounts, dbFaults>>
       \/ DbFault /\ accounts < MaxAccounts /\ accounts' = accounts + 1
    /\ UNCHANGED <<status, tokenVars, sessionVars>>

\* Whatever the status has become since the token was issued.
SetCustomerActive(r) ==
    /\ To(r, "status", "token")
    /\ status' = "ACTIVE"
    /\ UNCHANGED <<accounts, tokenVars, sessionVars, dbFaults>>

\* The UPDATE fails and its error is dropped.
StatusNotSet(r) ==
    /\ To(r, "status", "token")
    /\ UNCHANGED <<status, accounts, tokenVars, sessionVars, dbFaults>>

\* GenerateSessionToken; the response is written.
Elevate(r) ==
    /\ To(r, "token", "answer")
    /\ signed' = ElevatedTTL
    /\ granted' = IF granted = "none" THEN "signed" ELSE granted
    /\ UNCHANGED <<status, accounts, sessionVars, dbFaults>>

\* It fails: 500, with the account in the database.
ElevateFails(r) ==
    /\ To(r, "token", "idle")
    /\ DbFault
    /\ UNCHANGED <<status, accounts, tokenVars, sessionVars>>

\* The customer gets the token signed last.
GetElevated ==
    /\ elevated' = signed
    /\ granted' = "given"
    /\ UNCHANGED <<status, accounts, seen, access, signed, dbFaults>>

Answer(r) == To(r, "answer", "idle") /\ GetElevated

\* The idempotency middleware sends an answer that it has stored.
AnsweredAgain == granted # "none" /\ GetElevated /\ UNCHANGED step

AnswerLost(r) ==
    /\ To(r, "answer", "idle")
    /\ UNCHANGED <<status, accounts, tokenVars, sessionVars, dbFaults>>

\* The server ends, and with it the openings and logins at work.
OpeningCrash ==
    /\ step' = [r \in Req |-> "idle"]
    /\ seen' = {}
    /\ UNCHANGED <<status, accounts, access, elevated, tokenVars, dbFaults>>

-----------------------------------------------------------------------------
(* The customer, the bank's staff and the time                             *)

\* LoginCustomerRaw reads the customer's row.  Only a login that reads ACTIVE
\* can succeed: what it tests, after the password, is the status it has read.
ReadActive(l) ==
    /\ l \notin seen
    /\ status = "ACTIVE"
    /\ seen' = seen \union {l}
    /\ UNCHANGED <<status, accounts, step, access, elevated, tokenVars, dbFaults>>

\* The password fits; the token's life begins now, whatever the status is now.
SignAccess(l) ==
    /\ l \in seen
    /\ seen' = seen \ {l}
    /\ access' = AccessTTL
    /\ UNCHANGED <<status, accounts, step, elevated, tokenVars, dbFaults>>

\* The password is wrong, the token cannot be signed, or the answer is lost.
LoginFails(l) ==
    /\ l \in seen
    /\ seen' = seen \ {l}
    /\ UNCHANGED <<status, accounts, step, access, elevated, tokenVars, dbFaults>>

\* Nothing in the service suspends a customer; it is done in the database.
Suspend ==
    /\ status = "ACTIVE"
    /\ status' = "SUSPENDED"
    /\ UNCHANGED <<accounts, step, tokenVars, sessionVars, dbFaults>>

Less(ticks) == IF ticks > 0 THEN ticks - 1 ELSE 0

OpeningTick ==
    /\ access' = Less(access)
    /\ signed' = Less(signed)
    /\ elevated' = Less(elevated)
    /\ UNCHANGED <<status, accounts, step, seen, granted, dbFaults>>

OpeningStep(r) ==
    \/ AdmitOpening(r) \/ HasNoAccount(r) \/ RefuseOpening(r)
    \/ CreateAccount(r) \/ CreateFails(r) \/ SetCustomerActive(r) \/ StatusNotSet(r)
    \/ Elevate(r) \/ ElevateFails(r) \/ Answer(r) \/ AnswerLost(r)

LoginStep(l) == ReadActive(l) \/ SignAccess(l) \/ LoginFails(l)

OpeningNext ==
    \/ \E r \in Req : OpeningStep(r)
    \/ \E l \in LoginReq : LoginStep(l)
    \/ AnsweredAgain \/ OpeningCrash \/ Suspend \/ OpeningTick

OpeningSpec == OpeningInit /\ [][OpeningNext]_openingVars

-----------------------------------------------------------------------------
(* Properties                                                              *)

\* The customer is SUSPENDED and nothing from before it is left that can undo it:
\* no login that read ACTIVE, no access token that is still valid, no opening
\* that was admitted and has not come to the UPDATE of the status yet.
Settled ==
    /\ status = "SUSPENDED" /\ seen = {} /\ access = 0
    /\ \A r \in Req : step[r] \notin {"check", "insert", "status"}

\* OpenAccount makes a SUSPENDED customer ACTIVE without asking for the status,
\* and nothing in the service withdraws a token.  Until the suspension is
\* settled it can be undone so, and no time bounds that: a login signs long
\* after it has read, an opening writes long after it was admitted.  Once it is
\* settled no step undoes it or brings back what could: not the elevated token
\* of a day, not a stored answer, a retry, a login or a restart.
SuspensionStands == [][Settled => Settled']_openingVars

\* RequireRole refuses verify-pin with "please open an account first"; told so,
\* a customer has no account to open one for. Of one that has had the elevated
\* token and whose openings have all ended.
OpenFirstIsTrue ==
    /\ granted = "given" /\ \A r \in Req : step[r] = "idle"
    /\ Roles # {} /\ ~ \E role \in Roles : MayVerifyPIN(role)
    => accounts = 0
=============================================================================
