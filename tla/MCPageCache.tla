----------------------------- MODULE MCPageCache -----------------------------
(* Instances of PageCache for TLC *)
EXTENDS PageCache

CONSTANTS q1, q2, home, other, plain, broken

TwoRequests   == {q1, q2}

TwoVersions == {home, other}
AllVersions == {home, other, plain, broken}
NoVersion   == {}
Plain  == {plain}
Broken == {broken}
===============================================================================
