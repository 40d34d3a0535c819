------------------------------ MODULE MCEnrol ------------------------------
(* Instances of Enrol for TLC.                                             *)
EXTENDS Enrol, TLC
CONSTANTS u1, u2, code, invite, l1, l2

\* One account makes an offer, approves, revokes and is deleted; another may
\* approve the same link requests.
TwoAccounts == 1 :> u1 @@ 2 :> u2
OneAddress == [l \in Links |-> 1]
Limits == [u \in Users |-> 2]
DoesAll == u1 :> {"offer", "approve", "revoke", "delete"} @@ u2 :> {"approve"}

\* "No device outlives the only row that knew its token" (purge.ts:22): what
\* EnrolPurged.cfg shows not to hold.
NoneOutlivesItsRow == \A d \in Devices : Active(d) => token[d] # "dropped"
=============================================================================
