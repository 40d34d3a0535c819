----------------------------- MODULE MCAccount -----------------------------
(* Instances of Account for TLC.                                           *)
EXTENDS Account, TLC
CONSTANTS u1, u2, p1, p2, i1

\* One person owns the server, has an address and may leave; another signs up,
\* mistypes, and changes address.
TwoPeople ==
    p1 :> {"bootstrap", "invited", "address", "delete"} @@
    p2 :> {"signup", "signin", "passphrase"}
\* Accounts are interchangeable: no id is compared with another.
Symmetry == Permutations(Users)
=============================================================================
