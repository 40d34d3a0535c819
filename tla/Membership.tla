----------------------------- MODULE Membership -----------------------------
(***************************************************************************)
(* What enrolment promises, whatever the way in: a grant admits one device *)
(* at most, into an account with room for it, and a device that leaves     *)
(* does not come back.                                                     *)
(***************************************************************************)
EXTENDS Naturals, FiniteSets
CONSTANTS Users, Grants, Devices,
          Limit,    \* how many devices each account may have
          Start     \* each account's devices at the start
VARIABLES members,  \* account |-> its devices
          used      \* grant |-> the devices it admitted

vars == <<members, used>>

Init == members = Start /\ used = [g \in Grants |-> {}]

\* A device no account has, and none had, joins one with room for it.
Joins(u, d) ==
    /\ \A v \in Users : d \notin members[v]
    /\ \A g \in Grants : d \notin used[g]
    /\ Cardinality(members[u]) < Limit[u]
    /\ members' = [members EXCEPT ![u] = @ \cup {d}]

\* ... by a grant that admitted none yet.
Admit(g, u, d) == used[g] = {} /\ Joins(u, d) /\ used' = [used EXCEPT ![g] = {d}]

\* Devices are revoked, or their account deleted.
Leave ==
    /\ \E left \in SUBSET Devices : members' = [u \in Users |-> members[u] \ left]
    /\ UNCHANGED used

Next ==
    \/ \E g \in Grants, u \in Users, d \in Devices : Admit(g, u, d)
    \/ Leave

Spec == Init /\ [][Next]_vars
=============================================================================
