---------------------------- MODULE Entitlement ----------------------------
(***************************************************************************)
(* What the subscriptions component promises about the subscriptions that  *)
(* a tenant's limits are taken from: a tenant has at most one at a time,   *)
(* a new one begins only when there is none, so that a plan change passes  *)
(* through a moment without, and one that has ended never comes back.      *)
(***************************************************************************)

CONSTANTS Tenants, SubscriptionIds, Nil

VARIABLES current,  \* the active subscription of each tenant, or Nil
          past      \* the subscriptions that have ended

Init ==
    /\ current = [t \in Tenants |-> Nil]
    /\ past = {}

Grant(t, s) ==
    /\ current[t] = Nil
    /\ s \notin past
    /\ \A u \in Tenants : current[u] # s
    /\ current' = [current EXCEPT ![t] = s]
    /\ UNCHANGED past

Revoke(t) ==
    /\ current[t] # Nil
    /\ past' = past \cup {current[t]}
    /\ current' = [current EXCEPT ![t] = Nil]

Next == \E t \in Tenants :
    \/ \E s \in SubscriptionIds : Grant(t, s)
    \/ Revoke(t)

Spec == Init /\ [][Next]_<<current, past>>

=============================================================================
