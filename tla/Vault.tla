-------------------------------- MODULE Vault --------------------------------
(***************************************************************************)
(* What the keeper of the keys promises to those who encrypt, without      *)
(* processes, memory or statements.  The vault may change its keys at any  *)
(* time but gives up none that a ciphertext, stored or about to be, was    *)
(* made with.  One key of the vault is lent to encrypt; the next one was   *)
(* not lent before, so what was made before a rotation can be told from    *)
(* what was made after it, and an old key is not taken up again.           *)
(***************************************************************************)
EXTENDS Naturals

CONSTANTS Key, None

VARIABLES
    keys,    \* the keys in the vault
    current, \* the key that is lent, None before there is one
    epoch,   \* how often it has been replaced, or more
    lent,    \* keys of ciphertexts that are not stored yet
    sealed   \* keys of the ciphertexts that are

vault == <<keys, current, epoch, lent, sealed>>

Init == keys = {} /\ current = None /\ epoch = 0 /\ lent = {} /\ sealed = {}

\* New keys come, and those nobody needs may go.
Restock == keys' \in SUBSET Key /\ lent \union sealed \subseteq keys'

Keep == UNCHANGED <<current, epoch>>

Renew ==
    /\ current' \in keys' \ (lent \union sealed)
    /\ epoch' > epoch

Rotate == Restock /\ (Keep \/ Renew) /\ UNCHANGED <<lent, sealed>>

Lend ==
    /\ current \in keys
    /\ lent' = lent \union {current}
    /\ UNCHANGED <<keys, current, epoch, sealed>>

Seal(k) ==
    /\ k \in lent
    /\ lent' = lent \ {k}
    /\ sealed' = sealed \union {k}
    /\ UNCHANGED <<keys, current, epoch>>

\* Those who have not stored their ciphertexts yet are gone, and with them what
\* they knew of the present key.
Forget == lent' = {} /\ (Keep \/ Renew) /\ UNCHANGED <<keys, sealed>>

Next == Rotate \/ Lend \/ Forget \/ \E k \in Key : Seal(k)

Spec == Init /\ [][Next]_vault
=============================================================================
