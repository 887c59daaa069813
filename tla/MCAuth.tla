------------------------------- MODULE MCAuth -------------------------------
(* Enough requests for a registration whose token two others use at once,  *)
(* and a clock that can pass the expiry of a token.                        *)
EXTENDS Auth

CONSTANTS r1, r2, r3, e1, e2

=============================================================================
