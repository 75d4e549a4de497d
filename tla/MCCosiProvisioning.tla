------------------------- MODULE MCCosiProvisioning -------------------------
(* Instances of CosiProvisioning for TLC; the other values are in the cfgs. *)
EXTENDS CosiProvisioning

CONSTANTS u1, u2, n1

\* An access is deleted and created again under its name.
SameName == [u \in Accesses |-> n1]
=============================================================================
