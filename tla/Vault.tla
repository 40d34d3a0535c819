-------------------------------- MODULE Vault --------------------------------
(***************************************************************************)
(* What the vault of an account promises.  It has one key and one          *)
(* passphrase.  Changing or resetting the passphrase leaves the key, a     *)
(* re-key leaves the passphrase and puts a key nobody else holds in the    *)
(* place of the old one.  Devices that are not shut out come to hold keys  *)
(* the vault has, or has had; those that are learn nothing more.  Nobody   *)
(* loses a key: history is read with old ones until it is re-encrypted.    *)
(***************************************************************************)
EXTENDS Naturals
CONSTANTS Devices, Keys, NoVault
VARIABLES
    vault,      \* its key and passphrase, or NoVault
    past,       \* the keys it has had
    held,       \* device |-> the keys it holds
    shut        \* devices shut out

abstract == <<vault, past, held, shut>>

Gains(d, K) == held' = [held EXCEPT ![d] = @ \cup K]

Create(d, k) ==
    /\ vault = NoVault /\ vault' # NoVault /\ vault'.key = k
    /\ past' = past \cup {k}
    /\ Gains(d, {k})
    /\ UNCHANGED shut

NewPassphrase ==
    /\ vault # NoVault /\ vault' # NoVault /\ vault'.key = vault.key
    /\ UNCHANGED <<past, held, shut>>

Rekey(d, k) ==
    /\ vault # NoVault /\ vault' = [vault EXCEPT !.key = k]
    /\ k \notin past
    /\ \A c \in Devices : k \notin held[c]
    /\ past' = past \cup {k}
    /\ Gains(d, {k}) \/ UNCHANGED held
    /\ UNCHANGED shut

Learn(d, k) ==
    /\ d \notin shut /\ k \in past
    /\ Gains(d, {k})
    /\ UNCHANGED <<vault, past, shut>>

ShutOut ==
    /\ shut \subseteq shut'
    /\ UNCHANGED <<vault, past, held>>

Init == /\ vault = NoVault \/ vault.key \in past
        /\ \A d \in Devices : held[d] \subseteq past
        /\ shut = {}

Next == \/ NewPassphrase \/ ShutOut
        \/ \E d \in Devices, k \in Keys : Create(d, k) \/ Rekey(d, k) \/ Learn(d, k)

Spec == Init /\ [][Next]_abstract
=============================================================================
