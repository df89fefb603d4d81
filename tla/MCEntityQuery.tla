---------------------------- MODULE MCEntityQuery ----------------------------
(* Instances of EntityQuery for TLC *)
EXTENDS EntityQuery, TLC

CONSTANTS p1, p2, p3

TwoRequests   == {p1, p2}
ThreeRequests == {p1, p2, p3}

(* Requests are interchangeable: sound for the runs without liveness *)
SymmetryOfThree == Permutations(ThreeRequests)

Nobody        == {}
FirstResource == {1}
===============================================================================
