---------------------------- MODULE MCRateLimit ----------------------------
(* One tenant, two guards in flight, limits of one and two requests and a  *)
(* window of two ticks.                                                    *)
EXTENDS RateLimit

CONSTANTS t1, g1, g2

=============================================================================
