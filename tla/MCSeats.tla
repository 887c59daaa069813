------------------------------ MODULE MCSeats ------------------------------
(* One tenant whose owner takes the first seat, a plan of two seats that   *)
(* can be resized to one, and more users than seats.                       *)
EXTENDS Seats, TLC

CONSTANTS free, s1, a1, a2, t1, u0, u1, u2, u3

MCSeedLimit == free :> 2
MCOwner == t1 :> u0

=============================================================================
