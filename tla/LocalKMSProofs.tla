--------------------------- MODULE LocalKMSProofs ---------------------------
(***************************************************************************)
(* With one API server, and any number of generators, keys, rotations and  *)
(* crashes, no stored ciphertext is ever lost.                             *)
(***************************************************************************)
EXTENDS LocalKMS, TLAPS

\* What the control state of a process says of its own keysets.
Shape(p) ==
    /\ pc[p] # "run" => inflight[p] = {}
    /\ pc[p] = "run" => mem[p] \in Keyset
    /\ pc[p] = "save" => pend[p] \in Keyset
    /\ worker[p] # "idle" => p \in Api /\ pc[p] = "run" /\ pend[p] \in Keyset
    /\ worker[p] = "write" => db[p]

\* How the keysets of a serving API server, in memory and being rotated, relate
\* to the row: the row is never behind memory and at most one rotation ahead.
Live(p) ==
    /\ row \in Keyset
    /\ row.version <= mem[p].version + 1
    /\ mem[p].keys \subseteq row.keys
    /\ stored \union inflight[p] \subseteq mem[p].keys
    /\ worker[p] = "write" => /\ mem[p].keys \subseteq pend[p].keys
                              /\ pend[p].version = mem[p].version + 1
    /\ worker[p] = "swap" => /\ mem[p].keys \subseteq pend[p].keys
                             /\ pend[p].keys \subseteq row.keys
                             /\ pend[p].version = row.version

\* What holds of any number of API servers.
Shaped == TypeOK /\ \A p \in Proc : Shape(p)

IInv ==
    /\ Shaped
    /\ StoredReadable
    /\ \A p \in Api : Serving(p) => Live(p)

USE ApiAssumption, NoKeysetAssumption

\* The initial state: nothing runs and nothing is stored.
LEMMA InitIInv == Init => IInv
  BY CrashAssumption DEF Init, IInv, Shaped, TypeOK, StoredReadable, Shape, Serving

\* What membership in Keyset says of a record, with Keyset itself left folded.
LEMMA KeysetFields ==
  ASSUME NEW ks \in Keyset
  PROVE  /\ ks # NoKeyset
         /\ ks.keys \subseteq Key
         /\ ks.primary \in ks.keys
         /\ ks.version \in Nat
  BY DEF Keyset

\* keyset.NewHandle makes a keyset with one key.
LEMMA NewKeysetFields ==
  ASSUME NEW k \in Key
  PROVE  NewKeyset(k) \in Keyset
  BY DEF NewKeyset, Keyset

\* Add and SetPrimary keep every older key and step the version.
LEMMA RotatedFields ==
  ASSUME NEW ks \in Keyset, NEW k \in Key
  PROVE  /\ Rotated(ks, k) \in Keyset
         /\ ks.keys \subseteq Rotated(ks, k).keys
         /\ Rotated(ks, k).version = ks.version + 1
  BY DEF Rotated, Keyset

\* A step of any process keeps the types and the shapes; no other process's
\* keysets change.
LEMMA ShapedStep ==
  ASSUME Shaped, [Next]_vars
  PROVE  Shaped'
<1> USE KeysetFields, NewKeysetFields, RotatedFields, CrashAssumption DEF Shaped
<1>1. ASSUME NEW p \in Proc, Start(p)
      PROVE  Shaped'
  <2>1. TypeOK'
    BY <1>1 DEF TypeOK, Start, Shape
  <2>2. ASSUME NEW q \in Proc
        PROVE  Shape(q)'
    BY <1>1 DEF TypeOK, Start, Shape
  <2> QED BY <2>1, <2>2
<1>2. ASSUME NEW p \in Proc, StartDegraded(p)
      PROVE  Shaped'
  <2>1. TypeOK'
    BY <1>2 DEF TypeOK, StartDegraded, Shape
  <2>2. ASSUME NEW q \in Proc
        PROVE  Shape(q)'
    BY <1>2 DEF TypeOK, StartDegraded, Shape
  <2> QED BY <2>1, <2>2
<1>3. ASSUME NEW p \in Proc, LoadFound(p)
      PROVE  Shaped'
  <2>1. TypeOK'
    BY <1>3 DEF TypeOK, LoadFound, Shape
  <2>2. ASSUME NEW q \in Proc
        PROVE  Shape(q)'
    BY <1>3 DEF TypeOK, LoadFound, Shape
  <2> QED BY <2>1, <2>2
<1>4. ASSUME NEW p \in Proc, LoadMiss(p)
      PROVE  Shaped'
  <2>1. TypeOK'
    BY <1>4 DEF TypeOK, LoadMiss, Shape
  <2>2. ASSUME NEW q \in Proc
        PROVE  Shape(q)'
    BY <1>4 DEF TypeOK, LoadMiss, Shape
  <2> QED BY <2>1, <2>2
<1>5. ASSUME NEW p \in Proc, SaveKeyset(p)
      PROVE  Shaped'
  <2>1. TypeOK'
    BY <1>5 DEF TypeOK, SaveKeyset, Shape
  <2>2. ASSUME NEW q \in Proc
        PROVE  Shape(q)'
    BY <1>5 DEF TypeOK, SaveKeyset, Shape
  <2> QED BY <2>1, <2>2
<1>6. ASSUME NEW p \in Proc, SaveFails(p)
      PROVE  Shaped'
  <2>1. TypeOK'
    BY <1>6 DEF TypeOK, SaveFails, Shape
  <2>2. ASSUME NEW q \in Proc
        PROVE  Shape(q)'
    BY <1>6 DEF TypeOK, SaveFails, Shape
  <2> QED BY <2>1, <2>2
<1>7. ASSUME NEW p \in Proc, EncryptPII(p)
      PROVE  Shaped'
  <2>1. TypeOK'
    BY <1>7 DEF TypeOK, EncryptPII, Shape
  <2>2. ASSUME NEW q \in Proc
        PROVE  Shape(q)'
    BY <1>7 DEF TypeOK, EncryptPII, Shape
  <2> QED BY <2>1, <2>2
<1>8. ASSUME NEW p \in Proc, NEW k \in Key, Store(p, k)
      PROVE  Shaped'
  <2>1. TypeOK'
    BY <1>8 DEF TypeOK, Store, Shape
  <2>2. ASSUME NEW q \in Proc
        PROVE  Shape(q)'
    BY <1>8 DEF TypeOK, Store, Shape
  <2> QED BY <2>1, <2>2
<1>9. ASSUME NEW p \in Proc, RotateBegin(p)
      PROVE  Shaped'
  <2>1. TypeOK'
    BY <1>9 DEF TypeOK, RotateBegin, Shape
  <2>2. ASSUME NEW q \in Proc
        PROVE  Shape(q)'
    BY <1>9 DEF TypeOK, RotateBegin, Shape
  <2> QED BY <2>1, <2>2
<1>10. ASSUME NEW p \in Proc, UpdateKeyset(p)
      PROVE  Shaped'
  <2>1. TypeOK'
    BY <1>10 DEF TypeOK, UpdateKeyset, Shape
  <2>2. ASSUME NEW q \in Proc
        PROVE  Shape(q)'
    BY <1>10 DEF TypeOK, UpdateKeyset, Shape
  <2> QED BY <2>1, <2>2
<1>11. ASSUME NEW p \in Proc, UpdateFails(p)
      PROVE  Shaped'
  <2>1. TypeOK'
    BY <1>11 DEF TypeOK, UpdateFails, Shape
  <2>2. ASSUME NEW q \in Proc
        PROVE  Shape(q)'
    BY <1>11 DEF TypeOK, UpdateFails, Shape
  <2> QED BY <2>1, <2>2
<1>12. ASSUME NEW p \in Proc, Swap(p)
      PROVE  Shaped'
  <2>1. TypeOK'
    BY <1>12 DEF TypeOK, Swap, Shape
  <2>2. ASSUME NEW q \in Proc
        PROVE  Shape(q)'
    BY <1>12 DEF TypeOK, Swap, Shape
  <2> QED BY <2>1, <2>2
<1>13. ASSUME NEW p \in Proc, Crash(p)
      PROVE  Shaped'
  <2>1. TypeOK'
    BY <1>13 DEF TypeOK, Crash, Shape
  <2>2. ASSUME NEW q \in Proc
        PROVE  Shape(q)'
    BY <1>13 DEF TypeOK, Crash, Shape
  <2> QED BY <2>1, <2>2
<1>14. CASE UNCHANGED vars
  BY <1>14 DEF vars, TypeOK, Shape
<1> QED BY <1>1, <1>2, <1>3, <1>4, <1>5, <1>6, <1>7, <1>8, <1>9,
     <1>10, <1>11, <1>12, <1>13, <1>14 DEF Next, Step

\* The process begins to start; it is not serving yet.
LEMMA StartStep ==
  ASSUME OneApi, IInv, NEW p \in Proc, Start(p)
  PROVE  IInv'
<1> USE DEF IInv, Shaped
<1>1. Shaped'
  BY ShapedStep DEF Next, Step
<1>2. ASSUME NEW q \in Api, Serving(q)'
      PROVE  Live(q)'
  BY <1>2, KeysetFields DEF TypeOK, Start, Shape, Live, Serving, OneApi,
     StoredReadable, KeysOf
<1>3. StoredReadable'
  BY KeysetFields DEF TypeOK, Start, Shape, Live, Serving, StoredReadable, KeysOf
<1> QED BY <1>1, <1>2, <1>3

\* A server without a database is not serving, and there is no other server.
LEMMA StartDegradedStep ==
  ASSUME OneApi, IInv, NEW p \in Proc, StartDegraded(p)
  PROVE  IInv'
<1> USE DEF IInv, Shaped
<1>1. Shaped'
  BY ShapedStep DEF Next, Step
<1>2. ASSUME NEW q \in Api, Serving(q)'
      PROVE  Live(q)'
  BY <1>2, NewKeysetFields, KeysetFields DEF TypeOK, StartDegraded, Shape, Live, Serving, OneApi,
     StoredReadable, KeysOf
<1>3. StoredReadable'
  BY NewKeysetFields, KeysetFields DEF TypeOK, StartDegraded, Shape, Live, Serving, StoredReadable, KeysOf
<1> QED BY <1>1, <1>2, <1>3

\* Memory becomes a copy of the row, which holds every stored key.
LEMMA LoadFoundStep ==
  ASSUME OneApi, IInv, NEW p \in Proc, LoadFound(p)
  PROVE  IInv'
<1> USE DEF IInv, Shaped
<1>1. Shaped'
  BY ShapedStep DEF Next, Step
<1>2. ASSUME NEW q \in Api, Serving(q)'
      PROVE  Live(q)'
  BY <1>2, KeysetFields DEF TypeOK, LoadFound, Shape, Live, Serving, OneApi,
     StoredReadable, KeysOf
<1>3. StoredReadable'
  BY KeysetFields DEF TypeOK, LoadFound, Shape, Live, Serving, StoredReadable, KeysOf
<1> QED BY <1>1, <1>2, <1>3

\* A keyset is made; neither the row nor a serving process changes.
LEMMA LoadMissStep ==
  ASSUME OneApi, IInv, NEW p \in Proc, LoadMiss(p)
  PROVE  IInv'
<1> USE DEF IInv, Shaped
<1>1. Shaped'
  BY ShapedStep DEF Next, Step
<1>2. ASSUME NEW q \in Api, Serving(q)'
      PROVE  Live(q)'
  BY <1>2, NewKeysetFields, KeysetFields DEF TypeOK, LoadMiss, Shape, Live, Serving, OneApi,
     StoredReadable, KeysOf
<1>3. StoredReadable'
  BY NewKeysetFields, KeysetFields DEF TypeOK, LoadMiss, Shape, Live, Serving, StoredReadable, KeysOf
<1> QED BY <1>1, <1>2, <1>3

\* There was no row, so nothing was stored and no server was serving.
LEMMA SaveKeysetStep ==
  ASSUME OneApi, IInv, NEW p \in Proc, SaveKeyset(p)
  PROVE  IInv'
<1> USE DEF IInv, Shaped
<1>1. Shaped'
  BY ShapedStep DEF Next, Step
<1>2. ASSUME NEW q \in Api, Serving(q)'
      PROVE  Live(q)'
  BY <1>2, KeysetFields DEF TypeOK, SaveKeyset, Shape, Live, Serving, OneApi,
     StoredReadable, KeysOf
<1>3. StoredReadable'
  BY KeysetFields DEF TypeOK, SaveKeyset, Shape, Live, Serving, StoredReadable, KeysOf
<1> QED BY <1>1, <1>2, <1>3

\* The process gives up.
LEMMA SaveFailsStep ==
  ASSUME OneApi, IInv, NEW p \in Proc, SaveFails(p)
  PROVE  IInv'
<1> USE DEF IInv, Shaped
<1>1. Shaped'
  BY ShapedStep DEF Next, Step
<1>2. ASSUME NEW q \in Api, Serving(q)'
      PROVE  Live(q)'
  BY <1>2, KeysetFields DEF TypeOK, SaveFails, Shape, Live, Serving, OneApi,
     StoredReadable, KeysOf
<1>3. StoredReadable'
  BY KeysetFields DEF TypeOK, SaveFails, Shape, Live, Serving, StoredReadable, KeysOf
<1> QED BY <1>1, <1>2, <1>3

\* The primary key is one of the keys of memory.
LEMMA EncryptPIIStep ==
  ASSUME OneApi, IInv, NEW p \in Proc, EncryptPII(p)
  PROVE  IInv'
<1> USE DEF IInv, Shaped
<1>1. Shaped'
  BY ShapedStep DEF Next, Step
<1>2. ASSUME NEW q \in Api, Serving(q)'
      PROVE  Live(q)'
  BY <1>2, KeysetFields DEF TypeOK, EncryptPII, Shape, Live, Serving, OneApi,
     StoredReadable, KeysOf
<1>3. StoredReadable'
  BY KeysetFields DEF TypeOK, EncryptPII, Shape, Live, Serving, StoredReadable, KeysOf
<1> QED BY <1>1, <1>2, <1>3

\* A stored key was in flight, hence in memory, hence in the row.
LEMMA StoreStep ==
  ASSUME OneApi, IInv, NEW p \in Proc, NEW k \in Key, Store(p, k)
  PROVE  IInv'
<1> USE DEF IInv, Shaped
<1>1. Shaped'
  BY ShapedStep DEF Next, Step
<1>2. ASSUME NEW q \in Api, Serving(q)'
      PROVE  Live(q)'
  BY <1>2, KeysetFields DEF TypeOK, Store, Shape, Live, Serving, OneApi,
     StoredReadable, KeysOf
<1>3. StoredReadable'
  BY KeysetFields DEF TypeOK, Store, Shape, Live, Serving, StoredReadable, KeysOf
<1> QED BY <1>1, <1>2, <1>3

\* The pending keyset extends memory.
LEMMA RotateBeginStep ==
  ASSUME OneApi, IInv, NEW p \in Proc, RotateBegin(p)
  PROVE  IInv'
<1> USE DEF IInv, Shaped
<1>1. Shaped'
  BY ShapedStep DEF Next, Step
<1>2. ASSUME NEW q \in Api, Serving(q)'
      PROVE  Live(q)'
  BY <1>2, RotatedFields, KeysetFields DEF TypeOK, RotateBegin, Shape, Live, Serving, OneApi,
     StoredReadable, KeysOf
<1>3. StoredReadable'
  BY RotatedFields, KeysetFields DEF TypeOK, RotateBegin, Shape, Live, Serving, StoredReadable, KeysOf
<1> QED BY <1>1, <1>2, <1>3

\* The pending keyset extends memory, which has every stored key.
LEMMA UpdateKeysetStep ==
  ASSUME OneApi, IInv, NEW p \in Proc, UpdateKeyset(p)
  PROVE  IInv'
<1> USE DEF IInv, Shaped
<1>1. Shaped'
  BY ShapedStep DEF Next, Step
<1>2. ASSUME NEW q \in Api, Serving(q)'
      PROVE  Live(q)'
  BY <1>2, KeysetFields DEF TypeOK, UpdateKeyset, Shape, Live, Serving, OneApi,
     StoredReadable, KeysOf
<1>3. StoredReadable'
  BY KeysetFields DEF TypeOK, UpdateKeyset, Shape, Live, Serving, StoredReadable, KeysOf
<1> QED BY <1>1, <1>2, <1>3

\* As UpdateKeyset, or nothing; memory stays.
LEMMA UpdateFailsStep ==
  ASSUME OneApi, IInv, NEW p \in Proc, UpdateFails(p)
  PROVE  IInv'
<1> USE DEF IInv, Shaped
<1>1. Shaped'
  BY ShapedStep DEF Next, Step
<1>2. ASSUME NEW q \in Api, Serving(q)'
      PROVE  Live(q)'
  BY <1>2, KeysetFields DEF TypeOK, UpdateFails, Shape, Live, Serving, OneApi,
     StoredReadable, KeysOf
<1>3. StoredReadable'
  BY KeysetFields DEF TypeOK, UpdateFails, Shape, Live, Serving, StoredReadable, KeysOf
<1> QED BY <1>1, <1>2, <1>3

\* Memory becomes the pending keyset, which the row holds.
LEMMA SwapStep ==
  ASSUME OneApi, IInv, NEW p \in Proc, Swap(p)
  PROVE  IInv'
<1> USE DEF IInv, Shaped
<1>1. Shaped'
  BY ShapedStep DEF Next, Step
<1>2. ASSUME NEW q \in Api, Serving(q)'
      PROVE  Live(q)'
  BY <1>2, KeysetFields DEF TypeOK, Swap, Shape, Live, Serving, OneApi,
     StoredReadable, KeysOf
<1>3. StoredReadable'
  BY KeysetFields DEF TypeOK, Swap, Shape, Live, Serving, StoredReadable, KeysOf
<1> QED BY <1>1, <1>2, <1>3

\* The process is no longer serving.
LEMMA CrashStep ==
  ASSUME OneApi, IInv, NEW p \in Proc, Crash(p)
  PROVE  IInv'
<1> USE DEF IInv, Shaped
<1>1. Shaped'
  BY ShapedStep DEF Next, Step
<1>2. ASSUME NEW q \in Api, Serving(q)'
      PROVE  Live(q)'
  BY <1>2, CrashAssumption, KeysetFields DEF TypeOK, Crash, Shape, Live, Serving, OneApi,
     StoredReadable, KeysOf
<1>3. StoredReadable'
  BY CrashAssumption, KeysetFields DEF TypeOK, Crash, Shape, Live, Serving, StoredReadable, KeysOf
<1> QED BY <1>1, <1>2, <1>3

-----------------------------------------------------------------------------
\* The invariant is inductive when there is one API server.
LEMMA IInvStep ==
  ASSUME OneApi, IInv, [Next]_vars
  PROVE  IInv'
<1>1. CASE Next
  <2>1. PICK p \in Proc : Step(p)
    BY <1>1 DEF Next
  <2> QED BY <2>1, StartStep, StartDegradedStep, LoadFoundStep, LoadMissStep,
     SaveKeysetStep, SaveFailsStep, EncryptPIIStep, StoreStep, RotateBeginStep,
     UpdateKeysetStep, UpdateFailsStep, SwapStep, CrashStep DEF Step
<1>2. CASE UNCHANGED vars
  BY <1>2 DEF vars, IInv, Shaped, TypeOK, Shape, Live, Serving, StoredReadable, KeysOf
<1> QED BY <1>1, <1>2

\* It holds throughout.
LEMMA Invariance == ASSUME OneApi PROVE Spec => []IInv
<1>1. IInv /\ [Next]_vars => IInv'
  BY IInvStep
<1> QED BY <1>1, InitIInv, PTL DEF Spec

\* Every variable keeps its type: in particular, what is written to kms_keysets
\* is a keyset whose primary key is one of its keys.
\* This needs no restriction on the number of API servers.
THEOREM KMSTypeCorrect == Spec => []TypeOK
<1>1. Init => Shaped
  BY InitIInv DEF IInv
<1>2. Shaped /\ [Next]_vars => Shaped'
  BY ShapedStep
<1>3. Shaped => TypeOK
  BY DEF Shaped
<1> QED BY <1>1, <1>2, <1>3, PTL DEF Spec

\* No rotation, failed rotation, failed start or crash of the one API server
\* makes a stored ciphertext undecryptable (kms_encryptor.go, RotateKey).
THEOREM KMSStoredReadable == ASSUME OneApi PROVE Spec => []StoredReadable
<1>1. IInv => StoredReadable
  BY DEF IInv, Shaped
<1> QED BY <1>1, Invariance, PTL

\* The serving API server reads all that is stored: no downtime in a rotation.
THEOREM KMSServedReadable == ASSUME OneApi PROVE Spec => []ServedReadable
<1>1. IInv => ServedReadable
  <2> SUFFICES ASSUME IInv, NEW p \in Api, Serving(p)
               PROVE  stored \union inflight[p] \subseteq KeysOf(mem[p])
    BY DEF ServedReadable
  <2>1. mem[p] \in Keyset
    BY DEF IInv, Shaped, Shape, Serving
  <2> QED BY <2>1, KeysetFields DEF IInv, Shaped, Live, KeysOf
<1> QED BY <1>1, Invariance, PTL

\* The serving API server encrypts with keys that the database has.
THEOREM KMSPrimaryPersisted == ASSUME OneApi PROVE Spec => []PrimaryPersisted
<1>1. IInv => PrimaryPersisted
  <2> SUFFICES ASSUME IInv, NEW p \in Api, Serving(p)
               PROVE  KeysOf(mem[p]) \subseteq KeysOf(row)
    BY DEF PrimaryPersisted
  <2>1. mem[p] \in Keyset
    BY DEF IInv, Shaped, Shape, Serving
  <2> QED BY <2>1, KeysetFields DEF IInv, Shaped, Live, KeysOf
<1> QED BY <1>1, Invariance, PTL

\* Neither a start-up nor a rotation takes the version of the row back.
THEOREM KMSVersionNeverFalls == ASSUME OneApi PROVE Spec => VersionNeverFalls
<1>1. ASSUME IInv, [Next]_vars
      PROVE  [row # NoKeyset => row' # NoKeyset /\ row'.version >= row.version]_vars
  <2> SUFFICES ASSUME row # NoKeyset, row' # row
               PROVE  row' # NoKeyset /\ row'.version >= row.version
    BY <1>1, KeysetFields DEF IInv, Shaped, TypeOK
  <2>1. PICK p \in Proc : Step(p)
    BY <1>1 DEF Next, vars
  <2>2. worker[p] = "write" /\ row' = pend[p]
    BY <2>1 DEF Step, Start, StartDegraded, LoadFound, LoadMiss, SaveKeyset,
       SaveFails, EncryptPII, Store, RotateBegin, UpdateKeyset, UpdateFails,
       Swap, Crash
  <2>3. Shape(p) /\ Live(p)
    BY <1>1, <2>2 DEF IInv, Shaped, Shape, Serving
  <2>4. row \in Keyset /\ row' \in Keyset /\ mem[p] \in Keyset
    BY <2>2, <2>3 DEF Shape, Live
  <2> QED BY <2>2, <2>3, <2>4, KeysetFields DEF Live
<1> QED BY <1>1, Invariance, PTL DEF VersionNeverFalls, Spec

-----------------------------------------------------------------------------
(* Several API servers.                                                    *)

\* Of the servers with a database only process a lives to see its ticker (one
\* that is replaced within 90 days does not), and an UPDATE that reports an
\* error has not taken effect.  Without the second, another server may load and
\* use what such an UPDATE left in the row, and the next rotation of a, which
\* starts from its memory, drops it.
OneRotator(a) ==
    /\ \A p \in Proc : RotateBegin(p) /\ db[p] => p = a
    /\ \A p \in Proc : UpdateFails(p) => row' = row

\* Any server may be behind the row; the one that rotates is not.
Behind(p) ==
    /\ row \in Keyset
    /\ mem[p].keys \subseteq row.keys
    /\ inflight[p] \subseteq mem[p].keys

Ahead(a) ==
    /\ row.keys \subseteq (IF worker[a] = "swap" THEN pend[a] ELSE mem[a]).keys
    /\ worker[a] = "write" => mem[a].keys \subseteq pend[a].keys
    /\ worker[a] = "swap" => pend[a].keys \subseteq row.keys

ReplicaInv(a) ==
    /\ Shaped
    /\ StoredReadable
    /\ \A p \in Proc : Serving(p) => Behind(p)
    /\ \A p \in Proc : Serving(p) /\ worker[p] # "idle" => p = a
    /\ Serving(a) => Ahead(a)

\* Each step keeps the servers behind the row and the one that rotates level.
LEMMA ReplicaStep ==
  ASSUME NEW a \in Proc, ReplicaInv(a), [Next]_vars, [OneRotator(a)]_vars
  PROVE  ReplicaInv(a)'
<1> USE KeysetFields, NewKeysetFields, RotatedFields DEF ReplicaInv
<1>0. Shaped'
  BY ShapedStep
<1>1. ASSUME NEW p \in Proc, Start(p)
      PROVE  ReplicaInv(a)'
  <2> USE <1>1 DEF Start, Shaped, TypeOK, Shape, Serving
  <2>1. ASSUME NEW q \in Proc, Serving(q)'
        PROVE  Behind(q)' /\ (worker'[q] # "idle" => q = a)
    BY <2>1 DEF Behind, Ahead, StoredReadable, KeysOf
  <2>2. Serving(a)' => Ahead(a)'
    BY DEF Behind, Ahead, StoredReadable, KeysOf
  <2>3. StoredReadable'
    BY DEF Behind, Ahead, StoredReadable, KeysOf
  <2> QED BY <1>0, <2>1, <2>2, <2>3
<1>2. ASSUME NEW p \in Proc, StartDegraded(p)
      PROVE  ReplicaInv(a)'
  <2> USE <1>2 DEF StartDegraded, Shaped, TypeOK, Shape, Serving
  <2>1. ASSUME NEW q \in Proc, Serving(q)'
        PROVE  Behind(q)' /\ (worker'[q] # "idle" => q = a)
    BY <2>1 DEF Behind, Ahead, StoredReadable, KeysOf
  <2>2. Serving(a)' => Ahead(a)'
    BY DEF Behind, Ahead, StoredReadable, KeysOf
  <2>3. StoredReadable'
    BY DEF Behind, Ahead, StoredReadable, KeysOf
  <2> QED BY <1>0, <2>1, <2>2, <2>3
<1>3. ASSUME NEW p \in Proc, LoadFound(p)
      PROVE  ReplicaInv(a)'
  <2> USE <1>3 DEF LoadFound, Shaped, TypeOK, Shape, Serving
  <2>1. ASSUME NEW q \in Proc, Serving(q)'
        PROVE  Behind(q)' /\ (worker'[q] # "idle" => q = a)
    BY <2>1 DEF Behind, Ahead, StoredReadable, KeysOf
  <2>2. Serving(a)' => Ahead(a)'
    BY DEF Behind, Ahead, StoredReadable, KeysOf
  <2>3. StoredReadable'
    BY DEF Behind, Ahead, StoredReadable, KeysOf
  <2> QED BY <1>0, <2>1, <2>2, <2>3
<1>4. ASSUME NEW p \in Proc, LoadMiss(p)
      PROVE  ReplicaInv(a)'
  <2> USE <1>4 DEF LoadMiss, Shaped, TypeOK, Shape, Serving
  <2>1. ASSUME NEW q \in Proc, Serving(q)'
        PROVE  Behind(q)' /\ (worker'[q] # "idle" => q = a)
    BY <2>1 DEF Behind, Ahead, StoredReadable, KeysOf
  <2>2. Serving(a)' => Ahead(a)'
    BY DEF Behind, Ahead, StoredReadable, KeysOf
  <2>3. StoredReadable'
    BY DEF Behind, Ahead, StoredReadable, KeysOf
  <2> QED BY <1>0, <2>1, <2>2, <2>3
<1>5. ASSUME NEW p \in Proc, SaveKeyset(p)
      PROVE  ReplicaInv(a)'
  <2> USE <1>5 DEF SaveKeyset, Shaped, TypeOK, Shape, Serving
  <2>1. ASSUME NEW q \in Proc, Serving(q)'
        PROVE  Behind(q)' /\ (worker'[q] # "idle" => q = a)
    BY <2>1 DEF Behind, Ahead, StoredReadable, KeysOf
  <2>2. Serving(a)' => Ahead(a)'
    BY DEF Behind, Ahead, StoredReadable, KeysOf
  <2>3. StoredReadable'
    BY DEF Behind, Ahead, StoredReadable, KeysOf
  <2> QED BY <1>0, <2>1, <2>2, <2>3
<1>6. ASSUME NEW p \in Proc, SaveFails(p)
      PROVE  ReplicaInv(a)'
  <2> USE <1>6 DEF SaveFails, Shaped, TypeOK, Shape, Serving
  <2>1. ASSUME NEW q \in Proc, Serving(q)'
        PROVE  Behind(q)' /\ (worker'[q] # "idle" => q = a)
    BY <2>1 DEF Behind, Ahead, StoredReadable, KeysOf
  <2>2. Serving(a)' => Ahead(a)'
    BY DEF Behind, Ahead, StoredReadable, KeysOf
  <2>3. StoredReadable'
    BY DEF Behind, Ahead, StoredReadable, KeysOf
  <2> QED BY <1>0, <2>1, <2>2, <2>3
<1>7. ASSUME NEW p \in Proc, EncryptPII(p)
      PROVE  ReplicaInv(a)'
  <2> USE <1>7 DEF EncryptPII, Shaped, TypeOK, Shape, Serving
  <2>1. ASSUME NEW q \in Proc, Serving(q)'
        PROVE  Behind(q)' /\ (worker'[q] # "idle" => q = a)
    BY <2>1 DEF Behind, Ahead, StoredReadable, KeysOf
  <2>2. Serving(a)' => Ahead(a)'
    BY DEF Behind, Ahead, StoredReadable, KeysOf
  <2>3. StoredReadable'
    BY DEF Behind, Ahead, StoredReadable, KeysOf
  <2> QED BY <1>0, <2>1, <2>2, <2>3
<1>8. ASSUME NEW p \in Proc, NEW k \in Key, Store(p, k)
      PROVE  ReplicaInv(a)'
  <2> USE <1>8 DEF Store, Shaped, TypeOK, Shape, Serving
  <2>1. ASSUME NEW q \in Proc, Serving(q)'
        PROVE  Behind(q)' /\ (worker'[q] # "idle" => q = a)
    BY <2>1 DEF Behind, Ahead, StoredReadable, KeysOf
  <2>2. Serving(a)' => Ahead(a)'
    BY DEF Behind, Ahead, StoredReadable, KeysOf
  <2>3. StoredReadable'
    BY DEF Behind, Ahead, StoredReadable, KeysOf
  <2> QED BY <1>0, <2>1, <2>2, <2>3
<1>9. ASSUME NEW p \in Proc, RotateBegin(p), OneRotator(a)
      PROVE  ReplicaInv(a)'
  <2>0. db[p] => p = a
    BY <1>9 DEF OneRotator
  <2> USE <1>9, <2>0 DEF RotateBegin, Shaped, TypeOK, Shape, Serving
  <2>1. ASSUME NEW q \in Proc, Serving(q)'
        PROVE  Behind(q)' /\ (worker'[q] # "idle" => q = a)
    BY <2>1 DEF Behind, Ahead, StoredReadable, KeysOf
  <2>2. Serving(a)' => Ahead(a)'
    BY DEF Behind, Ahead, StoredReadable, KeysOf
  <2>3. StoredReadable'
    BY DEF Behind, Ahead, StoredReadable, KeysOf
  <2> QED BY <1>0, <2>1, <2>2, <2>3
<1>10. ASSUME NEW p \in Proc, UpdateKeyset(p)
      PROVE  ReplicaInv(a)'
  <2> USE <1>10 DEF UpdateKeyset, Shaped, TypeOK, Shape, Serving
  <2>1. ASSUME NEW q \in Proc, Serving(q)'
        PROVE  Behind(q)' /\ (worker'[q] # "idle" => q = a)
    BY <2>1 DEF Behind, Ahead, StoredReadable, KeysOf
  <2>2. Serving(a)' => Ahead(a)'
    BY DEF Behind, Ahead, StoredReadable, KeysOf
  <2>3. StoredReadable'
    BY DEF Behind, Ahead, StoredReadable, KeysOf
  <2> QED BY <1>0, <2>1, <2>2, <2>3
<1>11. ASSUME NEW p \in Proc, UpdateFails(p), OneRotator(a)
      PROVE  ReplicaInv(a)'
  <2>0. row' = row
    BY <1>11 DEF OneRotator
  <2> USE <1>11, <2>0 DEF UpdateFails, Shaped, TypeOK, Shape, Serving
  <2>1. ASSUME NEW q \in Proc, Serving(q)'
        PROVE  Behind(q)' /\ (worker'[q] # "idle" => q = a)
    BY <2>1 DEF Behind, Ahead, StoredReadable, KeysOf
  <2>2. Serving(a)' => Ahead(a)'
    BY DEF Behind, Ahead, StoredReadable, KeysOf
  <2>3. StoredReadable'
    BY DEF Behind, Ahead, StoredReadable, KeysOf
  <2> QED BY <1>0, <2>1, <2>2, <2>3
<1>12. ASSUME NEW p \in Proc, Swap(p)
      PROVE  ReplicaInv(a)'
  <2> USE <1>12 DEF Swap, Shaped, TypeOK, Shape, Serving
  <2>1. ASSUME NEW q \in Proc, Serving(q)'
        PROVE  Behind(q)' /\ (worker'[q] # "idle" => q = a)
    BY <2>1 DEF Behind, Ahead, StoredReadable, KeysOf
  <2>2. Serving(a)' => Ahead(a)'
    BY DEF Behind, Ahead, StoredReadable, KeysOf
  <2>3. StoredReadable'
    BY DEF Behind, Ahead, StoredReadable, KeysOf
  <2> QED BY <1>0, <2>1, <2>2, <2>3
<1>13. ASSUME NEW p \in Proc, Crash(p)
      PROVE  ReplicaInv(a)'
  <2> USE <1>13 DEF Crash, Shaped, TypeOK, Shape, Serving
  <2>1. ASSUME NEW q \in Proc, Serving(q)'
        PROVE  Behind(q)' /\ (worker'[q] # "idle" => q = a)
    BY <2>1 DEF Behind, Ahead, StoredReadable, KeysOf
  <2>2. Serving(a)' => Ahead(a)'
    BY DEF Behind, Ahead, StoredReadable, KeysOf
  <2>3. StoredReadable'
    BY DEF Behind, Ahead, StoredReadable, KeysOf
  <2> QED BY <1>0, <2>1, <2>2, <2>3
<1>14. CASE UNCHANGED vars
  BY <1>0, <1>14 DEF vars, Serving, Behind, Ahead, StoredReadable, KeysOf
<1>15. OneRotator(a) \/ UNCHANGED vars
  OBVIOUS
<1> QED
  <2>1. CASE Next /\ OneRotator(a)
    <3>1. PICK p \in Proc : Step(p)
      BY <2>1 DEF Next
    <3> QED BY <2>1, <3>1, <1>1, <1>2, <1>3, <1>4, <1>5, <1>6, <1>7, <1>8, <1>9,
         <1>10, <1>11, <1>12, <1>13 DEF Step
  <2> QED BY <1>14, <1>15, <2>1

\* With any number of API servers nothing stored is lost as long as one of them
\* rotates and an UPDATE of its that reports an error has had no effect.
THEOREM KMSOneRotatorSuffices ==
  ASSUME NEW a \in Proc
  PROVE  Spec /\ [][OneRotator(a)]_vars => []StoredReadable
<1>1. Init => ReplicaInv(a)
  BY InitIInv DEF Init, IInv, ReplicaInv, Serving
<1>2. ReplicaInv(a) /\ [Next]_vars /\ [OneRotator(a)]_vars => ReplicaInv(a)'
  BY ReplicaStep
<1>3. ReplicaInv(a) => StoredReadable
  BY DEF ReplicaInv
<1> QED BY <1>1, <1>2, <1>3, PTL DEF Spec

-----------------------------------------------------------------------------
(* The keyset as a vault.                                                  *)

\* Every key in a keyset was made once, and a first keyset has a version.
Made ==
    /\ KeysOf(row) \subseteq used
    /\ \A p \in Proc :
          /\ KeysOf(mem[p]) \subseteq used /\ KeysOf(pend[p]) \subseteq used
          /\ pc[p] = "save" => pend[p].version > 0

\* A keyset of a serving API server that is newer than its memory, in the row or
\* on the way there, has a primary key that memory does not have.
Newer(p) ==
    /\ mem[p].version <= row.version
    /\ row.version = mem[p].version => row.primary = mem[p].primary
    /\ row.version # mem[p].version => row.primary \notin mem[p].keys
    /\ worker[p] = "write" => pend[p].primary \notin mem[p].keys
    /\ worker[p] = "swap" => pend[p] = row /\ row.version # mem[p].version

VaultInv == Made /\ \A p \in Api : Serving(p) => Newer(p)

\* What NewKeyset and Rotated put into a keyset.
LEMMA MadeNew ==
  ASSUME NEW k \in Key
  PROVE  /\ NewKeyset(k).keys = {k} /\ NewKeyset(k).primary = k
         /\ NewKeyset(k).version = 1 /\ NewKeyset(k) \in Keyset
  BY DEF NewKeyset, Keyset

\* The rotated keyset, field by field.
LEMMA MadeRotated ==
  ASSUME NEW ks \in Keyset, NEW k \in Key
  PROVE  /\ Rotated(ks, k).keys = ks.keys \union {k} /\ Rotated(ks, k).primary = k
         /\ Rotated(ks, k).version = ks.version + 1 /\ Rotated(ks, k) \in Keyset
  BY DEF Rotated, Keyset

\* Nothing is made and nobody serves.
LEMMA InitVaultInv == Init => VaultInv
  BY DEF Init, VaultInv, Made, Serving, KeysOf


\* A process that starts serves nothing yet.
LEMMA StartForward ==
  ASSUME OneApi, IInv, VaultInv, NEW p \in Proc, Start(p)
  PROVE  VaultInv'
<1> USE DEF IInv, Shaped, VaultInv
<1>1. Made'
  BY MadeNew, MadeRotated, KeysetFields DEF TypeOK, Start, Shape, Made, KeysOf
<1>2. ASSUME NEW q \in Api, Serving(q)'
      PROVE  Newer(q)'
  BY <1>2, MadeNew, MadeRotated, KeysetFields DEF TypeOK, Start, Shape, Live, Made, Newer,
     Serving, OneApi, KeysOf
<1> QED BY <1>1, <1>2

\* Its keyset is new, and it does not serve.
LEMMA StartDegradedForward ==
  ASSUME OneApi, IInv, VaultInv, NEW p \in Proc, StartDegraded(p)
  PROVE  VaultInv'
<1> USE DEF IInv, Shaped, VaultInv
<1>1. Made'
  BY MadeNew, MadeRotated, KeysetFields DEF TypeOK, StartDegraded, Shape, Made, KeysOf
<1>2. ASSUME NEW q \in Api, Serving(q)'
      PROVE  Newer(q)'
  BY <1>2, MadeNew, MadeRotated, KeysetFields DEF TypeOK, StartDegraded, Shape, Live, Made, Newer,
     Serving, OneApi, KeysOf
<1> QED BY <1>1, <1>2

\* Memory is the row.
LEMMA LoadFoundForward ==
  ASSUME OneApi, IInv, VaultInv, NEW p \in Proc, LoadFound(p)
  PROVE  VaultInv'
<1> USE DEF IInv, Shaped, VaultInv
<1>1. Made'
  BY MadeNew, MadeRotated, KeysetFields DEF TypeOK, LoadFound, Shape, Made, KeysOf
<1>2. ASSUME NEW q \in Api, Serving(q)'
      PROVE  Newer(q)'
  BY <1>2, MadeNew, MadeRotated, KeysetFields DEF TypeOK, LoadFound, Shape, Live, Made, Newer,
     Serving, OneApi, KeysOf
<1> QED BY <1>1, <1>2

\* A keyset with a new key is pending.
LEMMA LoadMissForward ==
  ASSUME OneApi, IInv, VaultInv, NEW p \in Proc, LoadMiss(p)
  PROVE  VaultInv'
<1> USE DEF IInv, Shaped, VaultInv
<1>1. Made'
  BY MadeNew, MadeRotated, KeysetFields DEF TypeOK, LoadMiss, Shape, Made, KeysOf
<1>2. ASSUME NEW q \in Api, Serving(q)'
      PROVE  Newer(q)'
  BY <1>2, MadeNew, MadeRotated, KeysetFields DEF TypeOK, LoadMiss, Shape, Live, Made, Newer,
     Serving, OneApi, KeysOf
<1> QED BY <1>1, <1>2

\* Row and memory are what was pending; nobody served without a row.
LEMMA SaveKeysetForward ==
  ASSUME OneApi, IInv, VaultInv, NEW p \in Proc, SaveKeyset(p)
  PROVE  VaultInv'
<1> USE DEF IInv, Shaped, VaultInv
<1>1. Made'
  BY MadeNew, MadeRotated, KeysetFields DEF TypeOK, SaveKeyset, Shape, Made, KeysOf
<1>2. ASSUME NEW q \in Api, Serving(q)'
      PROVE  Newer(q)'
  BY <1>2, MadeNew, MadeRotated, KeysetFields DEF TypeOK, SaveKeyset, Shape, Live, Made, Newer,
     Serving, OneApi, KeysOf
<1> QED BY <1>1, <1>2

\* Nothing is pending any more.
LEMMA SaveFailsForward ==
  ASSUME OneApi, IInv, VaultInv, NEW p \in Proc, SaveFails(p)
  PROVE  VaultInv'
<1> USE DEF IInv, Shaped, VaultInv
<1>1. Made'
  BY MadeNew, MadeRotated, KeysetFields DEF TypeOK, SaveFails, Shape, Made, KeysOf
<1>2. ASSUME NEW q \in Api, Serving(q)'
      PROVE  Newer(q)'
  BY <1>2, MadeNew, MadeRotated, KeysetFields DEF TypeOK, SaveFails, Shape, Live, Made, Newer,
     Serving, OneApi, KeysOf
<1> QED BY <1>1, <1>2

\* Keysets do not change.
LEMMA EncryptPIIForward ==
  ASSUME OneApi, IInv, VaultInv, NEW p \in Proc, EncryptPII(p)
  PROVE  VaultInv'
<1> USE DEF IInv, Shaped, VaultInv
<1>1. Made'
  BY MadeNew, MadeRotated, KeysetFields DEF TypeOK, EncryptPII, Shape, Made, KeysOf
<1>2. ASSUME NEW q \in Api, Serving(q)'
      PROVE  Newer(q)'
  BY <1>2, MadeNew, MadeRotated, KeysetFields DEF TypeOK, EncryptPII, Shape, Live, Made, Newer,
     Serving, OneApi, KeysOf
<1> QED BY <1>1, <1>2

\* Keysets do not change.
LEMMA StoreForward ==
  ASSUME OneApi, IInv, VaultInv, NEW p \in Proc, NEW k \in Key, Store(p, k)
  PROVE  VaultInv'
<1> USE DEF IInv, Shaped, VaultInv
<1>1. Made'
  BY MadeNew, MadeRotated, KeysetFields DEF TypeOK, Store, Shape, Made, KeysOf
<1>2. ASSUME NEW q \in Api, Serving(q)'
      PROVE  Newer(q)'
  BY <1>2, MadeNew, MadeRotated, KeysetFields DEF TypeOK, Store, Shape, Live, Made, Newer,
     Serving, OneApi, KeysOf
<1> QED BY <1>1, <1>2

\* What is pending has a key that was never made before.
LEMMA RotateBeginForward ==
  ASSUME OneApi, IInv, VaultInv, NEW p \in Proc, RotateBegin(p)
  PROVE  VaultInv'
<1> USE DEF IInv, Shaped, VaultInv
<1>1. Made'
  BY MadeNew, MadeRotated, KeysetFields DEF TypeOK, RotateBegin, Shape, Made, KeysOf
<1>2. ASSUME NEW q \in Api, Serving(q)'
      PROVE  Newer(q)'
  BY <1>2, MadeNew, MadeRotated, KeysetFields DEF TypeOK, RotateBegin, Shape, Live, Made, Newer,
     Serving, OneApi, KeysOf
<1> QED BY <1>1, <1>2

\* The row is what was pending.
LEMMA UpdateKeysetForward ==
  ASSUME OneApi, IInv, VaultInv, NEW p \in Proc, UpdateKeyset(p)
  PROVE  VaultInv'
<1> USE DEF IInv, Shaped, VaultInv
<1>1. Made'
  BY MadeNew, MadeRotated, KeysetFields DEF TypeOK, UpdateKeyset, Shape, Made, KeysOf
<1>2. ASSUME NEW q \in Api, Serving(q)'
      PROVE  Newer(q)'
  BY <1>2, MadeNew, MadeRotated, KeysetFields DEF TypeOK, UpdateKeyset, Shape, Live, Made, Newer,
     Serving, OneApi, KeysOf
<1> QED BY <1>1, <1>2

\* The row is what was pending, or what it was.
LEMMA UpdateFailsForward ==
  ASSUME OneApi, IInv, VaultInv, NEW p \in Proc, UpdateFails(p)
  PROVE  VaultInv'
<1> USE DEF IInv, Shaped, VaultInv
<1>1. Made'
  BY MadeNew, MadeRotated, KeysetFields DEF TypeOK, UpdateFails, Shape, Made, KeysOf
<1>2. ASSUME NEW q \in Api, Serving(q)'
      PROVE  Newer(q)'
  BY <1>2, MadeNew, MadeRotated, KeysetFields DEF TypeOK, UpdateFails, Shape, Live, Made, Newer,
     Serving, OneApi, KeysOf
<1> QED BY <1>1, <1>2

\* Memory is what was pending, which is the row.
LEMMA SwapForward ==
  ASSUME OneApi, IInv, VaultInv, NEW p \in Proc, Swap(p)
  PROVE  VaultInv'
<1> USE DEF IInv, Shaped, VaultInv
<1>1. Made'
  BY MadeNew, MadeRotated, KeysetFields DEF TypeOK, Swap, Shape, Made, KeysOf
<1>2. ASSUME NEW q \in Api, Serving(q)'
      PROVE  Newer(q)'
  BY <1>2, MadeNew, MadeRotated, KeysetFields DEF TypeOK, Swap, Shape, Live, Made, Newer,
     Serving, OneApi, KeysOf
<1> QED BY <1>1, <1>2

\* The process does not serve any more.
LEMMA CrashForward ==
  ASSUME OneApi, IInv, VaultInv, NEW p \in Proc, Crash(p)
  PROVE  VaultInv'
<1> USE DEF IInv, Shaped, VaultInv
<1>1. Made'
  BY MadeNew, MadeRotated, KeysetFields DEF TypeOK, Crash, Shape, Made, KeysOf
<1>2. ASSUME NEW q \in Api, Serving(q)'
      PROVE  Newer(q)'
  BY <1>2, MadeNew, MadeRotated, KeysetFields DEF TypeOK, Crash, Shape, Live, Made, Newer,
     Serving, OneApi, KeysOf
<1> QED BY <1>1, <1>2

\* No step breaks the invariant of the vault.
LEMMA VaultInvStep ==
  ASSUME OneApi, IInv, VaultInv, [Next]_vars
  PROVE  VaultInv'
<1>1. CASE Next
  <2>1. PICK p \in Proc : Step(p)
    BY <1>1 DEF Next
  <2> QED BY <2>1, StartForward, StartDegradedForward, LoadFoundForward, LoadMissForward, SaveKeysetForward, SaveFailsForward, EncryptPIIForward, StoreForward, RotateBeginForward, UpdateKeysetForward, UpdateFailsForward, SwapForward, CrashForward DEF Step
<1>2. CASE UNCHANGED vars
  BY <1>2 DEF vars, VaultInv, Made, Newer, Serving, KeysOf
<1> QED BY <1>1, <1>2

\* The API server, if there is one, decides what is encrypted with.
LEMMA OneServer ==
  ASSUME NEW a, Api \subseteq {a}
  PROVE  /\ a \in Api /\ Serving(a) => InUse = mem[a] /\ Lent = inflight[a]
         /\ ~ (a \in Api /\ Serving(a)) => InUse = row /\ Lent = {}
         /\ a \in Api /\ Serving(a)' => InUse' = mem'[a] /\ Lent' = inflight'[a]
         /\ ~ (a \in Api /\ Serving(a)') => InUse' = row' /\ Lent' = {}
<1>1. CASE a \in Api /\ Serving(a)
  <2>1. {p \in Api : Serving(p)} = {a} /\ (CHOOSE p \in Api : Serving(p)) = a
    BY <1>1
  <2> QED BY <1>1, <2>1 DEF InUse, Lent
<1>2. CASE ~ (a \in Api /\ Serving(a))
  <2>1. {p \in Api : Serving(p)} = {} /\ ~ \E p \in Api : Serving(p)
    BY <1>2
  <2> QED BY <1>2, <2>1 DEF InUse, Lent
<1>3. CASE a \in Api /\ Serving(a)'
  <2>1. {p \in Api : Serving(p)'} = {a} /\ (CHOOSE p \in Api : Serving(p)') = a
    BY <1>3
  <2> QED BY <1>3, <2>1 DEF InUse, Lent
<1>4. CASE ~ (a \in Api /\ Serving(a)')
  <2>1. {p \in Api : Serving(p)'} = {} /\ ~ \E p \in Api : Serving(p)'
    BY <1>4
  <2> QED BY <1>4, <2>1 DEF InUse, Lent
<1> QED BY <1>1, <1>2, <1>3, <1>4

\* A step of a serving API server, as a step of the vault.
LEMMA ServingStep ==
  ASSUME IInv, VaultInv, NEW p \in Api, Serving(p), Step(p),
         Api \subseteq {p}
  PROVE  [VaultOfRow!Next]_(VaultOfRow!vault)
<1> USE DEF VaultOfRow!Next, VaultOfRow!vault, VaultOfRow!Keep, VaultOfRow!Renew, VaultOfRow!Restock
<1>1. /\ InUse = mem[p] /\ Lent = inflight[p] /\ p \in Proc
      /\ Serving(p)' => InUse' = mem'[p] /\ Lent' = inflight'[p]
      /\ ~ Serving(p)' => InUse' = row' /\ Lent' = {}
  BY OneServer
<1>2. /\ mem[p] \in Keyset /\ row \in Keyset /\ row.keys \subseteq Key
      /\ Live(p) /\ Newer(p) /\ TypeOK /\ Shape(p)
  BY KeysetFields DEF IInv, Shaped, VaultInv, Live, Shape, Serving
<1>3. /\ mem[p] # NoKeyset /\ row # NoKeyset
      /\ mem[p].version \in Nat /\ row.version \in Nat /\ mem[p].primary \in mem[p].keys
      /\ row.primary \in row.keys
  BY <1>2, KeysetFields
<1>4. CASE EncryptPII(p)
  <2>1. Serving(p)' /\ row' = row /\ mem' = mem /\ stored' = stored
    BY <1>4 DEF EncryptPII, Serving
  <2>2. inflight'[p] = inflight[p] \union {mem[p].primary}
    BY <1>1, <1>2, <1>4 DEF EncryptPII, TypeOK
  <2>3. VaultOfRow!Lend
    BY <1>1, <1>2, <1>3, <2>1, <2>2 DEF VaultOfRow!Lend, Live, KeysOf
  <2> QED BY <2>3
<1>5. ASSUME NEW k \in Key, Store(p, k)
      PROVE  [VaultOfRow!Next]_(VaultOfRow!vault)
  <2>1. Serving(p)' /\ row' = row /\ mem' = mem /\ stored' = stored \union {k}
    BY <1>5 DEF Store, Serving
  <2>2. k \in inflight[p] /\ inflight'[p] = inflight[p] \ {k}
    BY <1>1, <1>2, <1>5 DEF Store, TypeOK
  <2>3. VaultOfRow!Seal(k)
    BY <1>1, <2>1, <2>2 DEF VaultOfRow!Seal
  <2> QED BY <2>3
<1>6. CASE UpdateKeyset(p) \/ UpdateFails(p)
  <2>1. Serving(p)' /\ mem' = mem /\ stored' = stored /\ inflight' = inflight
    BY <1>6 DEF UpdateKeyset, UpdateFails, Serving
  <2>2. worker[p] = "write" /\ (row' = row \/ row' = pend[p]) /\ pend[p] \in Keyset
    BY <1>2, <1>6 DEF UpdateKeyset, UpdateFails, Shape
  <2>3. row' # NoKeyset /\ row'.keys \subseteq Key /\ Lent \union stored \subseteq row'.keys
    BY <1>1, <1>2, <2>2, KeysetFields DEF Live
  <2>4. VaultOfRow!Rotate
    BY <1>1, <2>1, <2>3 DEF VaultOfRow!Rotate, KeysOf
  <2> QED BY <2>4
<1>7. CASE Swap(p)
  <2>1. Serving(p)' /\ row' = row /\ stored' = stored /\ inflight' = inflight
    BY <1>7 DEF Swap, Serving
  <2>2. mem'[p] = row
    BY <1>1, <1>2, <1>7 DEF Swap, TypeOK, Newer
  <2>3. row.primary \notin Lent \union stored /\ row.version > mem[p].version
    BY <1>1, <1>2, <1>3, <1>7 DEF Swap, Newer, Live
  <2>4. Lent \union stored \subseteq row.keys
    BY <1>1, <1>2 DEF Live
  <2>5. VaultOfRow!Rotate
    BY <1>1, <1>2, <1>3, <2>1, <2>2, <2>3, <2>4 DEF VaultOfRow!Rotate, KeysOf
  <2> QED BY <2>5
<1>8. CASE Crash(p)
  <2>1. ~ Serving(p)' /\ row' = row /\ stored' = stored
    BY <1>1, <1>2, <1>8 DEF Crash, Serving, TypeOK
  <2>2. VaultOfRow!Keep \/ VaultOfRow!Renew
    <3>1. CASE row.version = mem[p].version
      BY <1>1, <1>2, <1>3, <2>1, <3>1 DEF Newer
    <3>2. CASE row.version # mem[p].version
      <4>1. row.primary \notin Lent \union stored /\ row.version > mem[p].version
        BY <1>1, <1>2, <1>3, <3>2 DEF Newer, Live
      <4> QED BY <1>1, <1>3, <2>1, <4>1 DEF KeysOf
    <3> QED BY <3>1, <3>2
  <2>3. VaultOfRow!Forget
    BY <1>1, <2>1, <2>2 DEF VaultOfRow!Forget
  <2> QED BY <2>3
<1>9. CASE RotateBegin(p)
  <2>1. Serving(p)' /\ UNCHANGED <<row, mem, stored, inflight>>
    BY <1>9 DEF RotateBegin, Serving
  <2> QED BY <1>1, <2>1
<1> QED BY <1>4, <1>5, <1>6, <1>7, <1>8, <1>9 DEF Step, Serving, Start, StartDegraded,
     LoadFound, LoadMiss, SaveKeyset, SaveFails

\* A step of any other process: the first keyset, or nothing to the vault.
LEMMA OtherStep ==
  ASSUME IInv, VaultInv, NEW a, Api \subseteq {a}, NEW p \in Proc, Step(p),
         ~ (p \in Api /\ Serving(p))
  PROVE  [VaultOfRow!Next]_(VaultOfRow!vault)
<1> USE DEF VaultOfRow!Next, VaultOfRow!vault, VaultOfRow!Keep, VaultOfRow!Renew, VaultOfRow!Restock
<1>1. /\ a \in Api /\ Serving(a) => InUse = mem[a] /\ Lent = inflight[a]
      /\ ~ (a \in Api /\ Serving(a)) => InUse = row /\ Lent = {}
      /\ a \in Api /\ Serving(a)' => InUse' = mem'[a] /\ Lent' = inflight'[a]
      /\ ~ (a \in Api /\ Serving(a)') => InUse' = row' /\ Lent' = {}
  BY OneServer
<1>2. TypeOK /\ Shape(p) /\ (a \in Api => a \in Proc) /\ (p \in Api => p = a)
  BY DEF IInv, Shaped
<1>3. CASE SaveKeyset(p)
  <2>1. row = NoKeyset /\ row' = pend[p] /\ stored' = stored /\ inflight' = inflight
    BY <1>3 DEF SaveKeyset
  <2>2. stored = {} /\ ~ (a \in Api /\ Serving(a))
    BY <2>1, NoKeysetAssumption DEF IInv, Shaped, StoredReadable, KeysOf, Live
  <2>3. pend[p] \in Keyset /\ pend[p].version > 0
    BY <1>2, <1>3 DEF SaveKeyset, Shape, VaultInv, Made
  <2>4. a \in Api /\ Serving(a)' => p = a /\ mem'[a] = pend[p] /\ inflight'[a] = {}
    BY <1>2, <1>3, <2>2 DEF SaveKeyset, Serving, TypeOK, Shape
  <2>5. InUse = NoKeyset /\ Lent = {} /\ InUse' = pend[p] /\ Lent' = {}
    BY <1>1, <2>1, <2>2, <2>4
  <2>6. VaultOfRow!Rotate
    BY <2>1, <2>2, <2>3, <2>5, KeysetFields DEF VaultOfRow!Rotate, KeysOf
  <2> QED BY <2>6
<1>4. CASE ~ SaveKeyset(p)
  <2>1. row' = row /\ stored' = stored
    BY <1>2, <1>4 DEF Step, Start, StartDegraded, LoadFound, LoadMiss, SaveFails, EncryptPII,
       Store, RotateBegin, UpdateKeyset, UpdateFails, Swap, Crash, Serving, Shape
  <2>2. CASE p = a /\ a \in Api
    <3>1. InUse = row /\ Lent = {}
      BY <1>1, <2>2
    <3>2. Serving(a)' => mem'[a] = row /\ inflight'[a] = {}
      BY <1>2, <1>4, <2>2 DEF Step, Start, StartDegraded, LoadFound, LoadMiss, SaveFails, EncryptPII,
         Store, RotateBegin, UpdateKeyset, UpdateFails, Swap, Crash, Serving, Shape, TypeOK
    <3>3. InUse' = row /\ Lent' = {}
      BY <1>1, <2>1, <3>2
    <3> QED BY <2>1, <3>1, <3>3
  <2>3. CASE ~ (p = a /\ a \in Api)
    <3>1. a \in Api => /\ pc'[a] = pc[a] /\ db'[a] = db[a]
                       /\ mem'[a] = mem[a] /\ inflight'[a] = inflight[a]
      BY <1>2, <1>4, <2>3 DEF Step, Start, StartDegraded, LoadFound, LoadMiss, SaveFails, EncryptPII,
         Store, RotateBegin, UpdateKeyset, UpdateFails, Swap, Crash, TypeOK
    <3>2. a \in Api => (Serving(a)' <=> Serving(a))
      BY <3>1 DEF Serving
    <3>3. InUse' = InUse /\ Lent' = Lent
      BY <1>1, <2>1, <3>1, <3>2
    <3> QED BY <2>1, <3>3
  <2> QED BY <2>2, <2>3
<1> QED BY <1>3, <1>4

\* Every step of the one server or of any other process is one of the vault.
LEMMA VaultStep ==
  ASSUME OneApi, IInv, VaultInv, [Next]_vars
  PROVE  [VaultOfRow!Next]_(VaultOfRow!vault)
<1>1. CASE Next
  <2>1. PICK p \in Proc : Step(p)
    BY <1>1 DEF Next
  <2>2. CASE p \in Api /\ Serving(p)
    <3>1. Api \subseteq {p}
      BY <2>2 DEF OneApi
    <3> QED BY <2>1, <2>2, <3>1, ServingStep
  <2>3. CASE ~ (p \in Api /\ Serving(p))
    <3>1. PICK a : Api \subseteq {a}
      <4>1. CASE Api = {}
        BY <4>1
      <4>2. CASE Api # {}
        <5>1. PICK b \in Api : TRUE
          BY <4>2
        <5>2. Api \subseteq {b}
          BY <5>1 DEF OneApi
        <5> QED BY <5>2
      <4> QED BY <4>1, <4>2
    <3> QED BY <2>1, <2>3, <3>1, OtherStep
  <2> QED BY <2>2, <2>3
<1>2. CASE UNCHANGED vars
  BY <1>2 DEF vars, VaultOfRow!vault, InUse, Lent, Serving, KeysOf
<1> QED BY <1>1, <1>2

\* With one API server, row, memory and rotation are a vault: no key in use is
\* given up, none is used before the row has it, and a rotation takes a key into
\* use that no ciphertext was made with, whatever fails and whoever restarts.
THEOREM KMSImplementsVault == ASSUME OneApi PROVE Spec => ImplementsVault
<1>1. Init => VaultOfRow!Init
  <2> SUFFICES ASSUME Init PROVE VaultOfRow!Init
    OBVIOUS
  <2>1. InUse = NoKeyset /\ Lent = {}
    <3>1. \A p \in Api : ~ Serving(p)
      BY DEF Init, Serving
    <3> QED BY <3>1 DEF Init, InUse, Lent
  <2> QED BY <2>1 DEF Init, VaultOfRow!Init, KeysOf
<1>2. IInv /\ VaultInv /\ [Next]_vars => VaultInv' /\ [VaultOfRow!Next]_(VaultOfRow!vault)
  BY VaultInvStep, VaultStep
<1> QED BY <1>1, <1>2, InitVaultInv, Invariance, PTL DEF Spec, ImplementsVault, VaultOfRow!Spec
=============================================================================
