# Verification of neocentra-bank-be-cs

TLA+ models of the Neocentra customer service backend (Go, Gin, PostgreSQL,
Redis, Google Tink), model-checked with TLC and, for every value of their
constants, proved with TLAPS. `PROJECT.json` is the machine-readable index: runs,
mutants, the map from definitions to source lines, hazards, findings, theorems.

```
tlc -workers 2 -config PinGuard.cfg MCPinGuard       # model-check one instance
tlapm PinGuardProofs.tla                             # check one proof module
```

## 1. The system

The service registers bank customers, verifies them by an e-mailed code, logs them
in, opens an account and guards its transaction PIN. All state is in PostgreSQL
and Redis, except for the keyset every process keeps in memory. No operation uses
a database transaction: each statement takes effect on its own, and handlers run
concurrently, one goroutine per request.

| Component | State | Operations | What makes it correct |
|---|---|---|---|
| **Local KMS** `kms_encryptor.go`, `kms_repo.go`, start-up in `cmd/api`, `cmd/generator` | one row of `kms_keysets`; per process `handle`, `aead`, `version` under an RWMutex | `NewLocalKMSService`/`loadOrCreateKeyset`, `EncryptPII`, `DecryptPII`, `RotateKey` from a ticker | whatever is stored stays decryptable, through rotations, failures and restarts; no downtime |
| **Customer onboarding** `customer_usecase.go`, `customer_repo.go`, `verification_repo.go`, `verification_token.go` | tables `customers`, `verifications`; tokens and mails under way | register, verify, login | ACTIVE only through the mailed code; no customer stranded; one customer per NIK, e-mail, phone |
| **PIN guard** `VerifyPIN` in `account_usecase.go`, `account_repo.go`, `pin_security.go` | `pin_attempts`, `pin_locked_until` | verify a PIN | three wrong PINs lock for 15 minutes, and nothing else does |
| **Idempotency** `idempotency_middleware.go` | Redis keys `idempotency:lock:*`, `idempotency:resp:*` with TTL | wrap a handler | one execution per key, the first response again for retries, no key blocked for ever |
| **Account opening** `OpenAccount` in `account_usecase.go`, `account_repo.go` | table `accounts`, `customers.status` | check, insert, activate, elevate | at most one ACTIVE account per customer; who gets an account gets the token for it |
| **Sessions and roles** `middleware.go`, `rbac.go`, `verification_token.go` | JWT (15 minutes, elevated 24 hours) | authenticate, require a role | who has an account can use it; a suspension stays once nothing from before it can undo it |
| **Anti-replay and signature** `security_middleware.go` | Redis nonce keys with TTL | accept or refuse a request | no request is accepted twice inside its window; what was refused may be sent again |
| **Worker pool** `worker_pool.go`, shutdown in `cmd/api/main.go` | buffered channel, cancelled flag, wait group | `Enqueue`, `worker`, `Shutdown` | no send after close, queued jobs are done or the time-out says so |
| **Pure functions** account numbers (`account_generator.go`), phone normalisation, TLV (`tlv.go`), PIN strength, e-mail mask | none | - | no form is misread, no number is taken for another |
| **Cryptography** `transit_decryptor.go`, `password_hasher.go` | none | envelopes, Argon2id | out of scope (see 7) |
| **Services, configuration, pools, migrations** | none of their own | I/O | out of scope (see 7) |

How they meet: a request passes anti-replay, signature and idempotency
(`router.go`), on the two protected routes then the JWT and its role, then a handler, then a
use case. The stored response of the idempotency middleware is sent before the JWT is
looked at, and the nonce is taken before the signature is. Registration calls the KMS for
every field, scans `customers` three times in parallel, inserts, inserts a
verification, starts a mail goroutine, enqueues two jobs and answers with a token.
Verification and login read and write the same two tables from other requests.
The uniqueness checks and the login decrypt every row with the keyset in memory:
a row the KMS cannot read is invisible to them.

What is hard: check-then-act over separate statements (registration, PIN, opening,
Redis Get then SETNX); errors that are dropped (`_ =` before `UpdatePINAttempts`,
`DeleteVerification`, `rdb.Set`); a request context cancelled by a client that left;
a crash between two statements; two API servers with a rotation ticker each; a lock
that expires while its owner works; a Redis that is configured without persistence
(`k8s/redis-local.yaml`) and forgets nonces, locks and responses when it restarts;
a role that depends on which of two tokens is still valid; a shutdown that closes a channel others send
on. `PROJECT.json` lists each at its line with the properties that cover it.

## 2. Modules

| Module | Models | Proofs |
|---|---|---|
| `LocalKMS` | keyset row, every process's copy, rotation, stored ciphertexts | `LocalKMSProofs` |
| `Vault` | abstract: what the keeper of the keys promises; `LocalKMS` with one API server implements it | in `LocalKMSProofs` |
| `PinGuard` | one account's PIN columns and concurrent `VerifyPIN` handlers | `PinGuardProofs` |
| `Onboarding` | `customers` and `verifications`, handlers of register and verify, login | `OnboardingProofs` |
| `Membership` | abstract: enrolled, proved, active, inside; `Onboarding` implements it, unless registrations at work share an identifier | in `OnboardingProofs` |
| `Idempotency` | one idempotency key in Redis and the requests that carry it | `IdempotencyProofs` |
| `WorkerPool` | the job channel and its workers, the registrations that send, the shutdown of `main` | `WorkerPoolProofs` |
| `JobLedger` | abstract: what a worker pool promises; `WorkerPool` implements it | in `WorkerPoolProofs` |
| `AntiReplay` | skew window and nonce, for any number of messages and deliveries | `StageProofs` |
| `AccountOpening` | `OpenAccount`, the two tokens of a customer, roles, login, suspension | `StageProofs` |
| `Submission` | `POST /accounts/open` through all its stages: composes `AntiReplay`, `Idempotency` and `AccountOpening` | `SubmissionProofs` |
| `RegistrationForm` | the way of a form to `Onboarding`: JSON or TLV, cut anywhere, normalised, validated; composes `PhoneNumber`, `TLV` and `Onboarding` | in `OnboardingProofs` |
| `PhoneNumber`, `TLV`, `AccountNumber` | pure functions | `DataProofs` |

`Requests` declares the request slots that `AntiReplay` and `AccountOpening` share.
`MC*` extend a module for TLC (symmetry sets, people and the forms of `Onboarding`, the
inputs of `AccountNumber`).

Conventions. A database statement or Redis call is a step; what a handler computes
between two of them is part of the step before or after. A handler is a slot with a
program counter and the values it read; a slot is used again, so the number of slots
bounds the concurrency and not the number of requests. A failed statement is a step
of its own with the outcome the code gives it. Variables marked *history* are
not in the code; no guard reads them, except those that serve as a bound
(`faults`, `misses`, `execs`, `crashes`). Each specification module begins its action
part with *faulty variants* (a pure function has its variant before it): definitions no specification uses, each
the mistake that breaks one property (see `mutants` in `PROJECT.json`).

### 2.1 LocalKMS

A ciphertext is represented by the key that made it: Tink decrypts with any key
in the keyset. `row` is the row of `kms_keysets`, `mem[p]` a process's
`handle`/`aead`/`version`, `worker[p]` and `pend[p]` the rotation under way,
`inflight[p]` ciphertexts returned by `EncryptPII` and not yet inserted, `stored`
those in `customers`.

| Action | Code |
|---|---|
| `Start`, `StartDegraded` | `main`: with PostgreSQL, or without (repo nil, in-memory keyset, nothing stored) |
| `LoadFound`, `LoadMiss` | `GetKeysetByName` returns the row; or an error, which also a failed query is |
| `SaveKeyset`, `SaveFails` | the INSERT under UNIQUE `key_name`; refusal ends the process |
| `EncryptPII`, `Store` | the primitive is read under the read lock; the INSERT is later |
| `RotateBegin`, `UpdateKeyset`, `UpdateFails`, `Swap` | `RotateKey`; a failed UPDATE may have taken effect |
| `Crash` | the process ends anywhere |

`cmd/generator` is a process outside `Api`: it loads or creates the keyset and never
stores.

`Vault` has no processes, memory or statements: keys come and go but none that a stored or lent
ciphertext was made with, and a key that replaces the current one was not lent before. `VaultOfRow`
maps the vault's keys to the row's and the current key to that of the server's memory, or, while
no server runs, to that of the row, which is what the next one will load. `UpdateKeyset` stocks the
new key, `Swap` takes it into use; so does a restart after an UPDATE whose swap never came.

### 2.2 PinGuard

`acct` is the pair `pin_attempts`, `pin_locked_until`. `ReadAccount` is
`FindAccountByID` with the lock check, `ResolveFails` an unusable PIN, `WrongPIN` and
`RightPIN` the comparison with what the handler computes, `UpdatePINAttempts` and
`ResetPINAttempts` the two UPDATE statements, `WriteLost` either of them failing (the
error is dropped). `WrongPIN` fixes the lock's end from the clock at that moment and
the write may come later. A locked account is answered without trace and is no step.

### 2.3 Onboarding

Every registration makes its own customer row and at most one verification for it, so
one customer id names both rows, the token and the mail. A form is what
`processRegistration` has after decryption, validation and normalisation.
`Submit`, `CheckPasses`/`CheckRefuses` per field, `Refuse`, `CreateCustomer`,
`CreateVerification`, `Reply`, `RegistrationFails` and `SendMail` are the
registration; `ParseToken`, `TokenExpired`, `FindMisses`, `FindVerification`,
`CodeExpired`, `CodeAccepted`, `DeleteVerification`, `UpdateCustomerStatus`,
`UpdateFails` the verification; `Login` reads. `CreateCustomer` has no uniqueness
guard: the UNIQUE columns are ciphertexts with a random nonce. `Exists` sees every
row in plaintext, which is `ServedReadable` of LocalKMS. The right code is known
from the mail; guessing one of 90000 is left out.

The clock is read when the handler compares it (`CodeExpired`, `CodeAccepted`), with
the expiry it found earlier. The expired case does comparison and DELETE in one step:
once expired a code stays expired, so the comparison may as well come last.

`Membership` forgets rows, codes, tokens, mail and time: a stranger enrols under an identity nobody
has, proves to own the address, becomes active, enters. `Stage` reads it off the row and the codes
accepted so far. Checks, mail and the DELETE are stutters; a second accepted code or a second
activation is one too; a failure never takes a customer a stage back.

### 2.4 Idempotency

`lock` and `resp` are what the two keys have left to live, in ticks. `GetMiss` covers a
failed Get, `SetNXRefused` a failed SETNX, which may have taken effect. `ClientGone`
cancels the request's context, after which `Store` and `Release` do nothing. The wrapped
handler is `ExecOK` (2xx) or `ExecFails` (other, or a panic: the deferred Del runs).
`Release` deletes the lock whosever it is. `RedisRestarts` loses both keys: like a lock that
expired, one that was lost no longer protects the handler at work (`overran`).

### 2.5 WorkerPool

`queue` is `jobChan`, `wpc[w]` whether a worker is in its `select`, in the `range` loop
after the cancellation, or gone, `job[w]` what it is processing. `rpc[r]` follows a
registration: `handling`, `query` while a statement holds a connection, then the two
sends `audit` and `email`. `main` follows the main goroutine.

| Action | Code |
|---|---|
| `Accept`, `BeginQuery`, `QueryDone`, `QueryFails`, `Refuse`, `Saved` | a registration up to its last statement |
| `Enqueue`, `Drop`, `SendPanics` | the send in `Enqueue`: room, full, or closed (a panic that `RecoveryMiddleware` answers) |
| `Take`, `SeeCancel`, `Leave`, `ProcessJob` | `worker`; with the cancellation and a job both ready `select` takes either |
| `Signal`, `ServerDrained`, `ServerGivesUp` | `main` up to the return of `srv.Shutdown`, with or without the deadline (`Expire`) |
| `Cancel`, `CloseChan`, `ReportClean`, `ReportTimeout` | `WorkerPool.Shutdown` |
| `CloseDB`, `Exit` | the deferred `dbPool.Close`, which refuses new uses and waits for the old ones |
| `Die` | `log.Fatalf` of the listening goroutine, or a kill |

`JobLedger` is the same pool without channel, workers and shutdown: jobs that were taken on
are pending until done, a clean report needs none pending, nothing is taken on after a
report. `Ledger` maps a pending job to one in the channel or with a worker. It is the refinement
that shows that a panic of `Enqueue` is the only thing a late request can meet: no job is
taken on once the outcome is known. A handler the shutdown did not wait for that panics is
answered 500 by `RecoveryMiddleware`.

A receiver that waits in Go takes a sent job directly; here the job passes through
`queue`, which is then empty, so the outcomes are the same for a buffer of one or more.

### 2.6 AntiReplay

A message is one timestamp, one nonce, one signature; it can be delivered any number of times, by a
client that retries or by a network that repeats. `age[m]` is the server's clock minus
the timestamp (negative when the client's clock is ahead or the message is still to be sent),
counted until it is past the window; `nonce[m]` what its key has left to live; `delivery[r]`
the message that request `r` has checked the timestamp of.

| Action | Code |
|---|---|
| `CheckTimestamp` | `AntiReplayMiddleware` up to the nonce; what is outside the window is answered 401 without a trace and is no step |
| `TakeNonce`, `Replayed` | SETNX makes the key, or finds it (409) |
| `NonceUnknown` | SETNX fails, before or after its effect, and the message goes on: the code is lenient |
| `NonceRetried` | the client library repeats a SETNX whose answer was lost and finds its own key |
| `ServerLost`, `NoncesLost`, `ReplayTick` | the process ends; Redis restarts; time |

`NonceTTL` is `max(2 * maxSkew, 2 minutes)`; with the 60 seconds of the routes both are equal.
`ReplayPaid` holds until the very end of the window (`age < Skew`): at the end itself, and for a
delivery whose timestamp was checked before it, the key can be gone one instant early.

### 2.7 AccountOpening

One customer; customers do not interact. `step[r]` follows a request through `OpenAccount`,
`seen` holds the logins that have read the customer as ACTIVE and not ended. `access` is the life left of the latest access token, `elevated` of the elevated token the customer
has, `signed` of the one signed last; `granted` (history) tells whether one was signed, or given.

| Action | Code |
|---|---|
| `AdmitOpening` | `JWTAuthMiddleware` and `RequireRole("ROLE_CUSTOMER_BASIC", "customer")` |
| `HasNoAccount`, `RefuseOpening` | `HasActiveAccount`, the PIN and its strength; 409, 400 or 500 |
| `CreateAccount`, `CreateFails` | the INSERT; a failed one may have taken effect |
| `SetCustomerActive`, `StatusNotSet` | `UpdateCustomerStatus`, whose error is dropped |
| `Elevate`, `ElevateFails` | `GenerateSessionToken`; a failure is a 500 with the account in the database |
| `Answer`, `AnswerLost`, `AnsweredAgain` | the response; the last one from the idempotency middleware |
| `ReadActive` | `LoginCustomerRaw` reads the row (line 421); what it tests at 449 is the status in memory |
| `SignAccess`, `LoginFails` | after the Argon2 comparison the token is signed, with 15 minutes from then (457), or not |
| `Suspend` | no code suspends, it is done in the database |

A token that expires between `AdmitOpening` and a later statement changes nothing in the code
and nothing here: its role is looked at once. The state ACTIVE or SUSPENDED is all of the status,
because an access token needs a customer that was ACTIVE. The customer's verifications are over: one
still at work would set ACTIVE as well (`Onboarding`). A login that reads another status than ACTIVE is refused and
changes nothing. In `Onboarding` a login is one step: no code there leaves ACTIVE, so the status read and the one
at the signing are the same.

`SuspensionStands`: `OpenAccount` makes the customer ACTIVE again without asking, so a suspension is undone by
whoever still has an access token, by a login that read ACTIVE before it and signs after it, and by an
opening admitted before it that has not come to its UPDATE. None of this has a deadline: the
two handlers take the time they take, and a late signature has a whole life before it. Once none
of the three is left (`Settled`) no step undoes the suspension and none of the three comes back.
An INSERT whose answer
was lost took effect by the time of the failure or never does.

### 2.8 Submission

The route of `router.go:54-66` for one customer whose messages carry one `X-Idempotency-Key`.
`Submission` extends `AntiReplay` and `AccountOpening` and instantiates `Idempotency`; each action
is one step of a part with the others unchanged, or steps of several parts the code takes
together: `PassNonce` (nonce, signature, arrival at the key), `Resend` (stored response, and the
token in it), `HandlerFails`, `HandlerAnswers`, `Done` (status of the handler and what the middleware does
about it), `Crash`, `RedisRestarts`, `Tick`. A 401 or 403 is a handler that fails, as the idempotency
middleware sees it. A statement after the client has gone fails (`~gone`), except that
the dropped error of the status update goes unnoticed. Retries are deliveries of other messages with the
same key; duplicates are deliveries of the same message.

### 2.9 Forms and pure functions

`PhoneNumber`: the normal form of `processRegistration` on sequences of characters, and the ways to
write a number. `TLV`: `UnpackCustomerTLV` on sequences of bytes with the real 256, and what a
client packs. `RegistrationForm` puts both in front of `Onboarding`: people fill in requests
(`Filled`), as JSON with the number in any spelling or as TLV in either order of the fields
(`Framed`); the handler unpacks what has arrived, which may be any prefix (`Received`);
decryption refuses empty fields and the validator a number that is not E.164 (`Acceptable`); what
remains are the `Forms` with which `Onboarding` begins. The values of the fields are bytes that
stand for a ciphertext and its plaintext alike.

`Loop` is the loop of the parser as a function on the offsets, each defined by the one at which its field
ends; `Round` is its body, with the two errors. `Without` is `strings.ReplaceAll` by nothing.
`PeopleAssumption` says what a national number is: digits that begin neither with 0 nor with 62. The code
takes a number that begins with 62 for one with the country code; one whose area code does (062x,
written without its 0) is stored as another number, and is outside the assumption.

`AccountNumber`: `CalculateLuhn`, `ValidateLuhn`, `GenerateAccountNumber` on sequences of digits. It has no
state and meets none: `SlipsAreCaught` is proved for every number the function can make
(`AllSlipsAreCaught`), and is an assumption of `MCSubmission`, which TLC evaluates over
3 branch codes, all products and 100 random parts that contain every pair of digits at even and at odd
positions.

## 3. Runs

All passing runs use all actions of their modules. Deadlock checking is off
everywhere: the models stop when a bound (keys, clock, executions) is used up.

| Run | Instance | Shows |
|---|---|---|
| `kms_single` | 1 API server, 1 generator, 4 keys, 2 crashes | `StoredReadable`, `ServedReadable`, `PrimaryPersisted`, `VersionNeverFalls`, the refinement `ImplementsVault` |
| `kms_two_servers` | 2 API servers | **violated** `StoredReadable` |
| `pin_guard` | 3 handlers, limit 3, lockout 2 ticks, clock to 5, 6 wrong PINs, 1 fault | `LockMatchesAttempts`, `NoSpuriousLock` under all interleavings; `EveryMissCounted`, `ThirdMissLocks`, `LockHolds` for requests that do not overlap |
| `pin_lock_lifted` | 2 handlers, no faults | **violated** `WrongPINKeepsLock` |
| `onboarding_one` | 2 customers, 1 registration and 2 verifications at once, code valid 1 tick, clock to 2, 1 fault; the forms of 3 people, as JSON with every prefix and up to two separators in the phone number, as TLV of 7 fields in two orders cut anywhere, with an address of 258 bytes | `ActiveIsConfirmed`, `ConfirmedIsActive`, `PendingHasCode`, `UniqueIdentity`; `StoredWasSent`, `PhoneIsFound`; the refinement `ImplementsMembership` |
| `onboarding_duplicate` | 2 registrations at once | **violated** `UniqueIdentity` |
| `onboarding_again` | 1 registration, 1 verification, no faults | **violated** `RegisterAgain` |
| `idempotency` | 3 requests, lock 2 ticks, response 3 ticks, 3 executions, 2 faults | `OneHandler`, `LockIsHeld`, `RetryPaid`, and `LockClears` under fairness |
| `idempotency_twice` | 2 requests, no faults | **violated** `ExecutedOnce` |
| `worker_pool` | 2 registrations, 2 workers, channel of 2 | `NothingLost`, `ProcessedOnce`, `CleanMeansDone`, `OnlySlowRequestsPanic`, the refinement `ImplementsLedger`, and `Exits`, `JobsDone` under fairness |
| `submission` | 2 messages, 2 requests, skew 1, floor 2, timestamps up to 2 ahead, both tokens and the lock 1 tick, response 2, 2 accounts, one login at a time, one fault of each kind and two together | `ReplayPaid`, `NonceMeansUsed`, `SuspensionStands`, `OneAccountPerKey`, `AccountComesWithToken`, `ResentWasOpened` |
| `account_shut_out` | 2 requests, access token 1 tick, elevated 2, 1 account, no faults | **violated** `OpenFirstIsTrue` |

Why the bounds are enough. Four keys allow a creation, a discarded creation (failed
read or degraded start) and two rotations, so that a rotation builds on a rotation
and a restart falls between. Six wrong PINs with a clock of five and a lockout of two
reach a second lock after the first one expired; the third handler lets one write
come between the read and the write of another. Clock two with validity one lets a
code be used in time, at its last instant and after it; two verification handlers can
use one code at once; one fault falls at every statement. A lock of two ticks
can expire under a working handler and a response of three outlives it;
three requests put one between the Del of another and the SETNX of a third. The
forms of `MCOnboarding` and `MCRegistration` are those of three people of whom the second shares the NIK of the first and the
e-mail of the third, so every pair of outcomes of the parallel checks occurs.
Four jobs are more than the channel holds,
so sends are dropped before the workers take any, and enough for each worker to hold one with
two queued when the channel closes. In `submission` a timestamp two ticks ahead is refused, becomes acceptable and leaves the window
while its nonce ages, which at most outlives it by the floor; a lock of one
tick expires under a working handler, a response of two outlives it and is sent again; two
messages make a duplicate delivery and a retry; two accounts let a second INSERT happen if the lock
does not prevent it; a fault of Redis and one of the database or of the client can meet in one
request. An access token of one tick expires before, in and after a suspension and an opening; one
login reads before a suspension and signs after it. The constraint `LoginWhenNeeded` is a bound too: a login
starts when no access token is valid, which keeps the run short; the theorems do without it.
An address of 258 bytes needs both bytes of a TLV length, and phone numbers with the digits of the
country code or a zero inside tell a prefix from what follows it. Symmetry is used for keys, handlers, messages and customers, never in a run with a liveness
property.

Fairness. `LockClears` needs `WF_vars(Tick)`: Redis ages its keys whatever the server
does. `Exits` and `JobsDone` need weak fairness of each worker, of the main goroutine
once it was signalled, and of the deadline: the Go scheduler runs what can run, and
`processJob` only logs. Nothing is assumed of the handlers, which may hang or never run;
a statement that never returns is the exception `Exits` names.

## 4. Findings

Each is the counterexample of a run that expects a violation.

1. `kms_two_servers`. `UpdateKeyset` (`kms_repo.go:48`) replaces the row by the keyset of
   one process's memory. Of two API servers the second to rotate has not seen the first
   one's key and drops it; the PRD (`prd/v1-prd.md:49`) promises that old keys are kept.
2. `pin_lock_lifted`. Two wrong PINs overlap; the slower one writes its smaller count and
   a NULL lock (`account_usecase.go:235`) over the lock the faster one had set
   (comment at line 197: three mistakes lock for 15 minutes).
3. `onboarding_duplicate`. Two registrations of one person pass the checks and both insert;
   the UNIQUE columns of `v1_schema.sql` hold randomised ciphertexts and cannot collide.
4. `onboarding_again`. An expired code is answered with "Silakan lakukan registrasi
   ulang" (`customer_handler.go:206`), but the PENDING row remains and the uniqueness checks
   refuse the new registration. The customer can neither verify nor register.
5. `idempotency_twice`. Get misses, the first request stores its response and deletes the
   lock, SETNX succeeds: the handler runs again (`prd/v1-prd.md:55`: it will not).
6. `account_shut_out`. The elevated token expires after 24 hours and only `OpenAccount` signs it. A
   login gives `customer`; `verify-pin` answers "Silakan buka rekening terlebih dahulu"
   (`rbac.go:43`), and `/accounts/open` answers 409, there is one (`account_handler.go:117`). The
   customer has an account and no way to it.

## 5. Proofs

For any number of processes, keys, handlers, customers, requests and faults, and any
limit and validity (the named ASSUMEs: bounds are naturals, durations positive, Nil
is none of the values). Each proof module states an inductive invariant `IInv`, one
lemma per action that preserves it, and the theorems as consequences.

- **LocalKMSProofs** proves the types for any number of servers (`Shaped`: each process's keysets follow
  from where it is), the rest from `OneApi`: at most one API server, any number of generators.
  `StoredReadable` is not inductive: it needs that memory is never ahead of the row
  (`mem.keys \subseteq row.keys`), that what is in flight is readable from memory, and
  that a rotation under way started from the present memory and has, once past the UPDATE,
  put its keys into the row (`Live`). The row may be one version ahead of memory (a
  failed UPDATE that took effect), never more, which gives `VersionNeverFalls`.
  - `KMSImplementsVault` needs `VaultInv` besides: every key in a keyset was generated (`Made`), so a rotation's
    key is new to everybody, and a row or a pending keyset newer than memory has a primary key
    that memory lacks (`Newer`). Nothing in flight or stored was made with a key memory lacks, so a swap or a
    restart takes up an unused key.
  - `KMSOneRotatorSuffices` says what would keep several servers safe: one of them rotates, and no UPDATE of its
    takes effect while it reports an error (`OneRotator`, a condition on behaviours). Memory of the others may be
    behind the row, that of the rotating one is not (`Behind`, `Ahead`). The second half is needed: otherwise
    another server loads and uses the key of the failed UPDATE, and the next rotation, which starts from
    memory, drops it. TLC finds that behaviour with two servers and three keys.
- **PinGuardProofs** assumes nothing about concurrency. A write of a handler always carries
  a lock iff its count reaches the limit, whence `LockMatchesAttempts`; counts are at most
  the wrong PINs tried. The properties about requests one by one use
  that, without overlap, at most one handler is not idle and its copy is the row.
- **OnboardingProofs**: a registration's row has no token until `Reply` and a code by then
  (`Work`), a verification works for a customer with a token and, once past the find, with the code
  of a mail that arrived (`Visit`), and a row precedes everything else
  about its customer (`Rows`). `UniqueIdentity` needs, besides, that what the checks found
  is still true at the INSERT (`Checked`), and that is so while no two registrations at work share a NIK, e-mail
  or phone number (`Apart`): `OnbApartSuffices` shows that nothing else makes a duplicate, and one registration
  at a time, the setting of `onboarding_one`, is the special case `OnbUniqueIdentity`. The refinement
  `OnbImplementsMembership` rests on the same: `Checked` makes the newcomer's identity a free one, `Visit` puts an
  accepted code before every activation, and `Rows` a row before everything, so that no stage is skipped.
- **IdempotencyProofs**: until a lock is outlived, whoever holds it is alone and the key is
  there; without overlap an execution that left no response is matched by a
  fault spent at its `Store`, by a crash, or by a Get that failed.
- **WorkerPoolProofs**: a job in the channel, with a worker or done is accepted, and an accepted
  job is behind its handler (`Behind`), so a send is always new, whence `ProcessedOnce`. A
  worker leaves only a closed, empty channel (`Left`); with at least one worker a clean
  report empties channel and hands, and `NothingLost` makes it `CleanMeansDone`. Before
  the deadline no handler is left once `srv.Shutdown` has returned (`InTime`). The same invariant
  carries the refinement: `PoolImplementsLedger` maps each action to a step of `JobLedger` or a
  stutter, and needs that the outcome is reported only after the channel was closed.
- **StageProofs**, anti-replay: while a message is before the end of its window and no fault was spent on it,
  having been used means that its key still lives longer than its window (the TTL is at
  least twice the skew, and a first use is not before `-Skew`); each fault pays for one more use.
  Opening: `OpeningSuspensionStands` goes through the steps from a settled suspension: an admission needs a
  role that may open, which the elevated token has not (`RequestKeepsSettled`); a login needs to read ACTIVE.
  `RouteSuspensionStands` carries it over to the route.
- **SubmissionProofs** composes. First, each step of the route is a step of each part or
  a stutter of it (`RouteIsIdempotency`, `RouteIsAntiReplay`, `RouteIsAccountOpening`), so every theorem about a
  part holds on the route without a second proof. Then `RouteIInv` relates the parts: where a request can
  be in the opening is bounded by where it is in the middleware (`WithinInv`), a stored or
  about to be stored response has an account and a signed token behind it (`OpenedInv`), while no lock was
  outlived at most one request is between check and INSERT and none with an
  account (`OnceInv`), and without faults an account whose token was not given has a request on its way to
  giving it (`DueInv`). `IdempotencyProofs` is instantiated for what is
  already known of the lock.

- **DataProofs** says what the loops over bytes, characters and digits compute, for every input.
  *Induction*: the library's theorems take an operator, which the provers cannot instantiate;
  `LeastNat` (from the well-foundedness of `<` on the naturals), `UpTo` and `BySequences` take the set of the values
  for which a claim holds. *Recursion*: that a recursive function exists is an induction as well;
  `RecursionExists` (from 0 upwards) and `DescentExists` (from an offset to any later one)
  take the steps as a function. `WithoutTable`, `LoopRounds`, `FlattenJoins` and `LuhnSums` apply
  them to `Without`, `Loop`, `FlattenSeq` and `CalculateLuhn`, after which the definitions are used like equations.
  - `SpellingsNormalize`: a spelling is the number with separators inserted and tabs around;
    `ReplaceAll` acts on both halves of a sequence for itself (`WithoutCat`), so each insertion makes no
    difference, and `TrimSpace` removes only what `ReplaceAll` would if it knew tabs (`StripIsWithout`). What is left
    is a prefix and the number, and the three branches of the code give the same.
  - `CutAddsNothing`, `WholeIsUnpacked`: a packed message has a layout (`PackLayout`), in which the parser
    stands at the border of a field or fails. One round at a border inside the cut finds that field, or
    the cut (`CutRound`); from the last border back to the first everything found was sent.
  - `AllSlipsAreCaught`: a number is valid when what its digits count adds up to a multiple of ten
    (`ValidWhenTens`, which bridges the two parities). Two numbers that differ between two
    positions only differ by what they count there (`SumsDiffer`): for one digit by 1 to 9, because `Twice` is
    injective on the digits; for two neighbours too, unless they are 0 and 9.
- **OnboardingProofs** uses them for the forms: every form that reaches the checks is `FormOf` a person
  (`FormsAreSent`), from `PeopleAssumption`, `AddressAssumption` and `FormAssumption`, all three
  evaluated by TLC in `onboarding_one`. As a row keeps the form it was inserted with, `StoredWasSent`
  follows, and `PhoneIsFound` from it.

Only model-checked: `LockClears`, `Exits`, `JobsDone` (liveness is beyond TLAPS) and the violations.

## 6. Plan

Done, in the order of what would hurt most: data lost for good (`LocalKMS`), the PIN guard,
onboarding, retries, shutdown; then the route that opens an account with its stages and their
composition, the ledger, the vault and the membership that pool, keyset and onboarding implement, the forms on their way to
onboarding, and account numbers. What could follow:

1. A composition of idempotency with onboarding: two keys, one person.
2. Two idempotency keys of one customer in `Submission` (two accounts are possible then, see 7).
3. PIN strength and the e-mail mask against reference definitions.

## 7. Not modelled

- RSA-OAEP, AES-GCM, Argon2id, HMAC: computation without state; a ciphertext is the key
  that made it, a code is right or wrong.
- SMTP and the Google e-mail check: a mail arrives or not; the check is one of the reasons
  of `Refuse`.
- Binding, formatting, wording, logging, CORS: no property is about them.
- Configuration, pools, migrations: environment and DDL. What matters of the schema
  (UNIQUE key name, UNIQUE ciphertext columns) is in the models.
- `kyc_verifications`, `transactions`, `ref_banks`: tables no code uses.
- Routes that only read (`POST /accounts`, `GetAccounts`, `FindAccountByNumber`), PIN strength
  (three comparisons, a reason of `RefuseOpening`) and the e-mail mask (wording of an answer).
- Several idempotency keys of one customer. `OneAccountPerKey` says what the key does; the check and the
  INSERT of `OpenAccount` are not atomic and the schema has no constraint, so two requests with
  different keys, or without one, can insert two accounts.
- What `RequireRole` still admits with an elevated token after a suspension: the token stays valid for
  its 24 hours, no list of revoked tokens exists. `SuspensionStands` is about opening, and bounds no time (2.7).
- A login with a phone number in another spelling than the stored one: the comparison
  is one of strings (`customer_usecase.go:415`), and no document promises more.
