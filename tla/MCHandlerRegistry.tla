-------------------------- MODULE MCHandlerRegistry --------------------------
(* Instances of HandlerRegistry for TLC *)
EXTENDS HandlerRegistry, TLC

CONSTANTS s1, s2, grpc, redis

TwoSites   == {s1, s2}
TwoAliases == {grpc, redis}
OneStrict  == {grpc}

(* Up to two items, of different aliases or of the same; or no site at all *)
Lists      == {<<>>, <<grpc>>, <<redis>>, <<grpc, redis>>, <<grpc, grpc>>}
AllConfigs == [sites : SUBSET TwoSites \ {{}}, items : Lists]
              \cup {[sites |-> {}, items |-> <<>>]}

SymmetryOfSites == Permutations(TwoSites)
===============================================================================
