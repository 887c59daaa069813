------------------------------ MODULE MCPlans ------------------------------
(* One seeded plan and two names: two requests can race for a name while a *)
(* third deletes or renames its holder.                                    *)
EXTENDS Plans

CONSTANTS free, p1, p2, p3, nameA, nameB

MCSeedPlans == {free}
MCPlanNames == {nameA, nameB}
MCSeedRow == [p \in {free} |-> [state |-> "live", name |-> nameA, limit |-> 1]]

ThreeRequests == {p1, p2, p3}

=============================================================================
