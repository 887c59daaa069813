--------------------------- MODULE TenantRegistry ---------------------------
(***************************************************************************)
(* What createTenant promises.  A tenant appears with everything that      *)
(* belongs to it or not at all, it takes a slug that no other tenant has,  *)
(* and it stays.                                                           *)
(***************************************************************************)

CONSTANTS TenantIds, Slugs, Whole, Nil

VARIABLES rows,  \* how many of the rows of a new tenant others can see
          slugOf

Init ==
    /\ rows = [t \in TenantIds |-> 0]
    /\ slugOf = [t \in TenantIds |-> Nil]

Found(t, s) ==
    /\ rows[t] = 0
    /\ \A u \in TenantIds : slugOf[u] # s
    /\ rows' = [rows EXCEPT ![t] = Whole]
    /\ slugOf' = [slugOf EXCEPT ![t] = s]

Next == \E t \in TenantIds, s \in Slugs : Found(t, s)

Spec == Init /\ [][Next]_<<rows, slugOf>>

=============================================================================
