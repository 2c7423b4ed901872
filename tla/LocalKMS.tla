------------------------------ MODULE LocalKMS ------------------------------
(***************************************************************************)
(* The keyset that encrypts the customers' personal data: one row of the   *)
(* table kms_keysets, the copy every process holds in memory, the rotation *)
(* worker of the API server and the ciphertexts stored in the database.    *)
(*                                                                         *)
(* A ciphertext is represented by the key that made it: Tink decrypts it   *)
(* with every keyset that still contains that key, and with no other.      *)
(***************************************************************************)
EXTENDS Naturals, FiniteSets

CONSTANTS
    Proc,       \* operating-system processes that call NewLocalKMSService
    Api,        \* those that are API servers (cmd/api); the rest are generators
    Key,        \* key identifiers; a finite Key bounds the keys ever made
    MaxCrashes, \* bound on the number of crashes
    NoKeyset    \* the absent row, the nil handle

ASSUME ApiAssumption == Api \subseteq Proc
ASSUME CrashAssumption == MaxCrashes \in Nat

VARIABLES
    row,        \* the row of kms_keysets, or NoKeyset
    pc,         \* where each process is: down, load, save, run
    db,         \* whether the process reached PostgreSQL when it started
    mem,        \* LocalKMSService.handle, aead and version
    worker,     \* the rotation goroutine: idle, write, swap
    pend,       \* a keyset made and not yet in row and memory
    inflight,   \* ciphertexts returned by EncryptPII and not yet stored
    stored,     \* ciphertexts in the customers table
    used,       \* keys generated so far
    crashes

vars == <<row, pc, db, mem, worker, pend, inflight, stored, used, crashes>>

Keyset == {ks \in [keys : SUBSET Key, primary : Key, version : Nat] :
              ks.primary \in ks.keys}

ASSUME NoKeysetAssumption == NoKeyset \notin Keyset

KeysOf(ks) == IF ks = NoKeyset THEN {} ELSE ks.keys

TypeOK ==
    /\ row \in Keyset \union {NoKeyset}
    /\ pc \in [Proc -> {"down", "load", "save", "run"}]
    /\ db \in [Proc -> BOOLEAN]
    /\ mem \in [Proc -> Keyset \union {NoKeyset}]
    /\ worker \in [Proc -> {"idle", "write", "swap"}]
    /\ pend \in [Proc -> Keyset \union {NoKeyset}]
    /\ inflight \in [Proc -> SUBSET Key]
    /\ stored \subseteq Key
    /\ used \subseteq Key
    /\ crashes \in 0 .. MaxCrashes

Init ==
    /\ row = NoKeyset
    /\ pc = [p \in Proc |-> "down"]
    /\ db = [p \in Proc |-> FALSE]
    /\ mem = [p \in Proc |-> NoKeyset]
    /\ worker = [p \in Proc |-> "idle"]
    /\ pend = [p \in Proc |-> NoKeyset]
    /\ inflight = [p \in Proc |-> {}]
    /\ stored = {}
    /\ used = {}
    /\ crashes = 0

Serving(p) == pc[p] = "run" /\ db[p]

\* keyset.NewHandle: one key, which is the primary one.
NewKeyset(k) == [keys |-> {k}, primary |-> k, version |-> 1]

-----------------------------------------------------------------------------
(* Faulty variants of the definitions below; each breaks one property.     *)

\* The rotation forgets the old keys, or forgets to add the new one.
RotatedAlone(ks, k) == [keys |-> {k}, primary |-> k, version |-> ks.version + 1]
RotatedNotAdded(ks, k) == [ks EXCEPT !.primary = k, !.version = @ + 1]

\* The new key is added and not made the primary one.
RotatedNotPrimary(ks, k) == [ks EXCEPT !.keys = @ \union {k}, !.version = @ + 1]

\* The INSERT replaces a row that is there.
SaveReplacing(p) ==
    /\ pc[p] = "save"
    /\ row' = pend[p]
    /\ mem' = [mem EXCEPT ![p] = pend[p]]
    /\ pend' = [pend EXCEPT ![p] = NoKeyset]
    /\ pc' = [pc EXCEPT ![p] = "run"]
    /\ UNCHANGED <<db, worker, inflight, stored, used, crashes>>

\* The error of SaveKeyset, or of UpdateKeyset, is ignored.
SaveFailsIgnored(p) ==
    /\ pc[p] = "save"
    /\ mem' = [mem EXCEPT ![p] = pend[p]]
    /\ pend' = [pend EXCEPT ![p] = NoKeyset]
    /\ pc' = [pc EXCEPT ![p] = "run"]
    /\ UNCHANGED <<row, db, worker, inflight, stored, used, crashes>>

UpdateFailsIgnored(p) ==
    /\ worker[p] = "write"
    /\ worker' = [worker EXCEPT ![p] = "swap"]
    /\ UNCHANGED <<row, pc, db, mem, pend, inflight, stored, used, crashes>>

\* keyset.Manager: Add, then SetPrimary; the older keys stay enabled.
Rotated(ks, k) ==
    [keys |-> ks.keys \union {k}, primary |-> k, version |-> ks.version + 1]

-----------------------------------------------------------------------------
(* Start-up: NewLocalKMSService and loadOrCreateKeyset.                    *)

Start(p) ==
    /\ pc[p] = "down"
    /\ pc' = [pc EXCEPT ![p] = "load"]
    /\ db' = [db EXCEPT ![p] = TRUE]
    /\ UNCHANGED <<row, mem, worker, pend, inflight, stored, used, crashes>>

\* The API server goes on without PostgreSQL: kmsRepo is nil, the keyset lives
\* in memory only (and so do no repositories, see Store).
StartDegraded(p) ==
    /\ p \in Api
    /\ pc[p] = "down"
    /\ \E k \in Key \ used :
          /\ mem' = [mem EXCEPT ![p] = NewKeyset(k)]
          /\ used' = used \union {k}
    /\ pc' = [pc EXCEPT ![p] = "run"]
    /\ db' = [db EXCEPT ![p] = FALSE]
    /\ UNCHANGED <<row, worker, pend, inflight, stored, crashes>>

\* GetKeysetByName returns the row.
LoadFound(p) ==
    /\ pc[p] = "load"
    /\ row # NoKeyset
    /\ mem' = [mem EXCEPT ![p] = row]
    /\ pc' = [pc EXCEPT ![p] = "run"]
    /\ UNCHANGED <<row, db, worker, pend, inflight, stored, used, crashes>>

\* GetKeysetByName returns an error, because there is no row or because the
\* query failed: the code does not tell the two apart and makes a keyset.
LoadMiss(p) ==
    /\ pc[p] = "load"
    /\ \E k \in Key \ used :
          /\ pend' = [pend EXCEPT ![p] = NewKeyset(k)]
          /\ used' = used \union {k}
    /\ pc' = [pc EXCEPT ![p] = "save"]
    /\ UNCHANGED <<row, db, mem, worker, inflight, stored, crashes>>

\* The INSERT of SaveKeyset; key_name is UNIQUE, so it needs an absent row.
SaveKeyset(p) ==
    /\ pc[p] = "save"
    /\ row = NoKeyset
    /\ row' = pend[p]
    /\ mem' = [mem EXCEPT ![p] = pend[p]]
    /\ pend' = [pend EXCEPT ![p] = NoKeyset]
    /\ pc' = [pc EXCEPT ![p] = "run"]
    /\ UNCHANGED <<db, worker, inflight, stored, used, crashes>>

\* The INSERT is refused (the row exists) or fails: log.Fatalf.
SaveFails(p) ==
    /\ pc[p] = "save"
    /\ pend' = [pend EXCEPT ![p] = NoKeyset]
    /\ pc' = [pc EXCEPT ![p] = "down"]
    /\ UNCHANGED <<row, db, mem, worker, inflight, stored, used, crashes>>

-----------------------------------------------------------------------------
(* Requests: EncryptPII reads the primitive under the read lock; the       *)
(* ciphertext reaches the customers table in a later step.                 *)

EncryptPII(p) ==
    /\ pc[p] = "run"
    /\ mem[p] # NoKeyset
    /\ inflight' = [inflight EXCEPT ![p] = @ \union {mem[p].primary}]
    /\ UNCHANGED <<row, pc, db, mem, worker, pend, stored, used, crashes>>

\* CreateCustomer. Only API servers store, and only when they have a database.
Store(p, k) ==
    /\ p \in Api
    /\ Serving(p)
    /\ k \in inflight[p]
    /\ inflight' = [inflight EXCEPT ![p] = @ \ {k}]
    /\ stored' = stored \union {k}
    /\ UNCHANGED <<row, pc, db, mem, worker, pend, used, crashes>>

-----------------------------------------------------------------------------
(* RotateKey, run by the rotation worker of an API server on each tick.    *)

RotateBegin(p) ==
    /\ p \in Api
    /\ pc[p] = "run"
    /\ worker[p] = "idle"
    /\ \E k \in Key \ used :
          /\ pend' = [pend EXCEPT ![p] = Rotated(mem[p], k)]
          /\ used' = used \union {k}
    /\ worker' = [worker EXCEPT ![p] = IF db[p] THEN "write" ELSE "swap"]
    /\ UNCHANGED <<row, pc, db, mem, inflight, stored, crashes>>

\* UPDATE ... WHERE key_name = $4: it compares nothing with what the row holds,
\* and an UPDATE of no row is no error.
UpdateKeyset(p) ==
    /\ worker[p] = "write"
    /\ row' = IF row = NoKeyset THEN row ELSE pend[p]
    /\ worker' = [worker EXCEPT ![p] = "swap"]
    /\ UNCHANGED <<pc, db, mem, pend, inflight, stored, used, crashes>>

\* UpdateKeyset returns an error. The statement may have taken effect all the
\* same (the connection was lost after the commit); memory keeps the old keyset.
UpdateFails(p) ==
    /\ worker[p] = "write"
    /\ \/ UNCHANGED row
       \/ row # NoKeyset /\ row' = pend[p]
    /\ pend' = [pend EXCEPT ![p] = NoKeyset]
    /\ worker' = [worker EXCEPT ![p] = "idle"]
    /\ UNCHANGED <<pc, db, mem, inflight, stored, used, crashes>>

\* handle, aead and version are replaced together under the write lock.
Swap(p) ==
    /\ worker[p] = "swap"
    /\ mem' = [mem EXCEPT ![p] = pend[p]]
    /\ pend' = [pend EXCEPT ![p] = NoKeyset]
    /\ worker' = [worker EXCEPT ![p] = "idle"]
    /\ UNCHANGED <<row, pc, db, inflight, stored, used, crashes>>

\* The process ends, at any point; the operating system forgets its memory.
Crash(p) ==
    /\ pc[p] # "down"
    /\ crashes < MaxCrashes
    /\ crashes' = crashes + 1
    /\ pc' = [pc EXCEPT ![p] = "down"]
    /\ mem' = [mem EXCEPT ![p] = NoKeyset]
    /\ pend' = [pend EXCEPT ![p] = NoKeyset]
    /\ worker' = [worker EXCEPT ![p] = "idle"]
    /\ inflight' = [inflight EXCEPT ![p] = {}]
    /\ UNCHANGED <<row, db, stored, used>>

-----------------------------------------------------------------------------
Step(p) ==
    \/ Start(p) \/ StartDegraded(p) \/ LoadFound(p) \/ LoadMiss(p)
    \/ SaveKeyset(p) \/ SaveFails(p)
    \/ EncryptPII(p) \/ (\E k \in Key : Store(p, k))
    \/ RotateBegin(p) \/ UpdateKeyset(p) \/ UpdateFails(p) \/ Swap(p)
    \/ Crash(p)

Next == \E p \in Proc : Step(p)

Spec == Init /\ [][Next]_vars

-----------------------------------------------------------------------------
(* Properties                                                              *)

\* The setting in which all of them hold; kms_two_servers shows the other.
OneApi == \A p, q \in Api : p = q

\* Every ciphertext in the customers table can be decrypted with the keyset in
\* the database, so it survives any number of rotations, failed rotations and
\* restarts (loadOrCreateKeyset reads nothing else).
StoredReadable == stored \subseteq KeysOf(row)

\* A serving API server can decrypt every stored ciphertext and every one it
\* is about to store: rotation has no window in which old or new data is
\* unreadable (FindCustomerByIdentifier and the Exists checks skip or refuse
\* what DecryptPII cannot read).
ServedReadable ==
    \A p \in Api : Serving(p) => stored \union inflight[p] \subseteq KeysOf(mem[p])

\* A serving API server never encrypts with a key the database does not have,
\* whatever step of RotateKey or of the start-up failed.
PrimaryPersisted ==
    \A p \in Api : Serving(p) => KeysOf(mem[p]) \subseteq KeysOf(row)

\* The row is created once and only rotated forward: no start-up (a failed read
\* makes a keyset of version 1) and no late rotation takes its version back.
VersionNeverFalls ==
    [][row # NoKeyset => row' # NoKeyset /\ row'.version >= row.version]_vars

\* What serving API servers have encrypted and not stored yet.
Lent == UNION {inflight[p] : p \in {q \in Api : Serving(q)}}

\* The keyset that decides what is encrypted with: the server's, and without a
\* server the one the next server will load.
InUse ==
    IF \E p \in Api : Serving(p) THEN mem[CHOOSE p \in Api : Serving(p)] ELSE row

\* The keys of the row, of which the one in use is lent.
VaultOfRow ==
    INSTANCE Vault WITH
        None <- NoKeyset,
        keys <- KeysOf(row),
        current <- IF InUse = NoKeyset THEN NoKeyset ELSE InUse.primary,
        epoch <- IF InUse = NoKeyset THEN 0 ELSE InUse.version,
        lent <- Lent, sealed <- stored

\* Row, memory and rotation together are a vault: whatever a process reads,
\* writes or forgets between two statements, the row is replaced by nothing
\* that lacks a key in use, no key is in use before the row has it, and after
\* RotateKey or a restart it is the same key or one that was not in use before.
ImplementsVault == VaultOfRow!Spec
=============================================================================
