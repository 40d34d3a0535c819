---------------------------- MODULE MCVaultKeys ----------------------------
(* Instances of VaultKeys for TLC.                                         *)
EXTENDS VaultKeys
CONSTANTS d1, d2, d3

\* Two devices of the account and one that may join it.
DoesAll == [d \in Devices |->
    CASE d = d1 -> {"unlock", "rekey", "change", "set up", "offer"}
      [] d = d2 -> {"unlock", "rekey", "change", "reset", "register", "lose", "leave", "quit"}
      [] d = d3 -> {"unlock", "recover", "join"}]

\* Two devices that may both re-key, one of them revoked meanwhile.
RekeysBoth == [d \in Devices |->
    CASE d = d1 -> {"unlock", "rekey", "leave"}
      [] d = d2 -> {"register", "rekey"}
      [] d = d3 -> {}]

\* A device is handed the key while another one re-keys.
OffersAndRekeys == [d \in Devices |->
    CASE d = d1 -> {"unlock", "offer"}
      [] d = d2 -> {"unlock", "rekey"}
      [] d = d3 -> {"join"}]
=============================================================================
