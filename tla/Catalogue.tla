----------------------------- MODULE Catalogue -----------------------------
(***************************************************************************)
(* The plans table as the other components see it: a row per plan with its *)
(* limit and whether it is soft-deleted, and one action per statement that *)
(* changes it.  A deleted row never changes again.  Plans implements this  *)
(* module; Subscriptions and Seats are built on it.                        *)
(***************************************************************************)
EXTENDS Requests, Naturals

CONSTANTS PlanIds,
          Limits,    \* values of max_users and max_requests_per_minute
          SeedLimit  \* limits of the plans the migration inserts

ASSUME CatalogueAssumption ==
    /\ Nil \notin PlanIds \cup Limits
    /\ Limits \subseteq Nat
    /\ DOMAIN SeedLimit \subseteq PlanIds
    /\ \A p \in DOMAIN SeedLimit : SeedLimit[p] \in Limits

VARIABLE catalogue

CatalogueRow == [state : {"absent", "live", "deleted"}, limit : Limits \cup {Nil}]

(* A row that exists has a limit: the column is NOT NULL.                  *)
CatalogueTypeOK ==
    /\ catalogue \in [PlanIds -> CatalogueRow]
    /\ \A p \in PlanIds : catalogue[p].state # "absent" => catalogue[p].limit \in Limits

CatalogueInit ==
    catalogue = [p \in PlanIds |->
        IF p \in DOMAIN SeedLimit THEN [state |-> "live", limit |-> SeedLimit[p]]
                                  ELSE [state |-> "absent", limit |-> Nil]]

PlanLive(p) == catalogue[p].state = "live"

(* A client names a plan it has seen, possibly one deleted since; an id of *)
(* no row is answered like the id of a deleted row.                        *)
KnownPlans == {p \in PlanIds : catalogue[p].state # "absent"}

PublishPlan(p, l) ==
    /\ catalogue[p].state = "absent"
    /\ catalogue' = [catalogue EXCEPT ![p] = [state |-> "live", limit |-> l]]

ResizePlan(p, l) ==
    /\ PlanLive(p)
    /\ catalogue' = [catalogue EXCEPT ![p].limit = l]

RetirePlan(p) ==
    /\ PlanLive(p)
    /\ catalogue' = [catalogue EXCEPT ![p].state = "deleted"]

CatalogueNext == \E p \in PlanIds :
    \/ \E l \in Limits : PublishPlan(p, l) \/ ResizePlan(p, l)
    \/ RetirePlan(p)

CatalogueSpec == CatalogueInit /\ [][CatalogueNext]_catalogue

=============================================================================
