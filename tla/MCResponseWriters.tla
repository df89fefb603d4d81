-------------------------- MODULE MCResponseWriters --------------------------
(* Instances of ResponseWriters for TLC *)
EXTENDS ResponseWriters

(* Data shorter and longer than the tags, and none at all *)
ShortAndLong == <<1, 5, 0>>
===============================================================================
