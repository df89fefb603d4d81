-------------------------- MODULE MCResourceHandlers ---------------------------
(* Instances of ResourceHandlers for TLC *)
EXTENDS ResourceHandlers

CONSTANTS c1, c2, c3
ThreeCalls == {c1, c2, c3}
===============================================================================
