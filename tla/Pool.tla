-------------------------------- MODULE Pool --------------------------------
(***************************************************************************)
(* The pool of database connections, as PlsqlService uses it.  A demand    *)
(* gets a connection while fewer than PoolSize are given away and waits in *)
(* line otherwise; a connection that is released goes to the oldest        *)
(* demand.  The pool replaces a connection that broke, so a released place *)
(* is a free place whatever became of its connection.                      *)
(***************************************************************************)
EXTENDS Naturals, Sequences, FiniteSets

CONSTANT PoolSize  \* max of the pool: 20 in database.module.ts

ASSUME PoolAssumption == PoolSize \in Nat \ {0}

VARIABLES holders,  \* who has a connection
          waiting   \* who waits in connect(), the oldest demand first

poolVars == <<holders, waiting>>

PoolInit == holders = {} /\ waiting = <<>>

Demand(r) ==
    \/ /\ Cardinality(holders) < PoolSize
       /\ holders' = holders \cup {r}
       /\ UNCHANGED waiting
    \/ /\ Cardinality(holders) >= PoolSize
       /\ waiting' = Append(waiting, r)
       /\ UNCHANGED holders

Release(r) ==
    \/ waiting = <<>> /\ holders' = holders \ {r} /\ UNCHANGED waiting
    \/ /\ waiting # <<>>
       /\ holders' = (holders \ {r}) \cup {Head(waiting)}
       /\ waiting' = Tail(waiting)

(* One statement after another: the connection goes to the oldest demand   *)
(* before the holder asks for the next one.                                *)
ReleaseAndDemand(r) ==
    \/ waiting = <<>> /\ UNCHANGED poolVars
    \/ /\ waiting # <<>>
       /\ holders' = (holders \ {r}) \cup {Head(waiting)}
       /\ waiting' = Append(Tail(waiting), r)

(* connectionTimeoutMillis is over, or a new connection cannot be opened.  *)
GiveUp(r) ==
    \/ r \in holders /\ Release(r)
    \/ \E i \in DOMAIN waiting :
          /\ waiting[i] = r
          /\ waiting' = SubSeq(waiting, 1, i - 1) \o SubSeq(waiting, i + 1, Len(waiting))
          /\ UNCHANGED holders

=============================================================================
