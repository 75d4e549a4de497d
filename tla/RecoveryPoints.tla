--------------------------- MODULE RecoveryPoints ---------------------------
(* What retention promises about a history of recovery points, whoever keeps
   it: points are published in the order of their stamps, and only the oldest
   one is ever given up, only while more than Keep are left.  NasExport
   implements it twice, for the exports and for the database archives.      *)
EXTENDS Integers, FiniteSets

CONSTANTS Stamps, Keep

VARIABLES points,      \* the recovery points a restore can use
          published    \* every point there has ever been

vars == <<points, published>>

Init == points = {} /\ published = {}

\* Points appear together when one directory sync makes several renames durable.
Publish == \E new \in (SUBSET Stamps) \ {{}} :
    /\ \A n \in new, p \in published : p < n
    /\ points' = points \cup new
    /\ published' = published \cup new

Expire == \E old \in points :
    /\ \A p \in points : old <= p
    /\ Cardinality(points) > Keep
    /\ points' = points \ {old}
    /\ UNCHANGED published

Next == Publish \/ Expire
Spec == Init /\ [][Next]_vars
=============================================================================
