----------------------------- MODULE MCTagStream -----------------------------
(* Instances of TagStream for TLC *)
EXTENDS TagStream

CONSTANTS r1, r2, home, shop, a, c

TwoRequests == {r1, r2}
Home == {home}
Both == {home, shop}

AllHome     == [r \in Requests |-> home]
HomeAndShop == [r \in Requests |-> IF r = r1 THEN shop ELSE home]

TagA  == {a}
TagC  == {c}
===============================================================================
