--------------------------- MODULE RecursionLemmas ---------------------------
(***************************************************************************)
(* Induction over an interval, functions defined by recursion over one,    *)
(* folds and sums over one, the parts of a sequence and runs over its      *)
(* elements, stated with sets and functions in the place of operators.     *)
(***************************************************************************)
EXTENDS Integers, SequencesExt, FiniteSetTheorems, SequenceTheorems, WellFoundedInduction, TLAPS

(* A set of natural numbers that is not empty has a least one *)
LEMMA Least ==
    ASSUME NEW S \in SUBSET Nat, S # {}
    PROVE  \E i \in S : \A j \in S : i <= j
<1> DEFINE Before == {p \in Nat \X Nat : p[1] < p[2]}
<1>1. IsWellFoundedOn(Before, Nat)
    BY NatLessThanWellFounded DEF OpToRel
<1>2. \A i, j \in Nat : i < j => <<i, j>> \in Before
    OBVIOUS
<1> HIDE DEF Before
<1>3. PICK i \in S : \A j \in S : ~(<<j, i>> \in Before)
    BY <1>1, WFMin
<1>4. ASSUME NEW j \in S PROVE i <= j
    <2>1. i \in Nat /\ j \in Nat /\ ~(j < i)
        BY <1>2, <1>3
    <2> QED BY <2>1
<1> QED BY <1>4

(* A set that has m and with every number the next one, up to n, has m..n *)
LEMMA Induction ==
    ASSUME NEW m \in Int, NEW n \in Int, NEW S,
           m \in S, \A i \in (m + 1)..n : i - 1 \in S => i \in S
    PROVE  \A i \in m..n : i \in S
<1> DEFINE Missed == {k \in Nat : m + k <= n /\ m + k \notin S}
<1> SUFFICES ASSUME Missed # {} PROVE FALSE
    <2>1. ASSUME NEW i \in m..n, i \notin S PROVE i - m \in Missed
        BY <2>1
    <2> QED BY <2>1
<1>1. PICK k \in Missed : \A j \in Missed : k <= j
    <2> Missed \in SUBSET Nat
        OBVIOUS
    <2> HIDE DEF Missed
    <2> QED BY Least
<1>2. k \in Nat \ {0} /\ m + k \in (m + 1)..n /\ m + k - 1 = m + (k - 1)
    OBVIOUS
<1>3. m + (k - 1) \in S
    <2>1. k - 1 \in Nat /\ m + (k - 1) <= n /\ ~(k <= k - 1)
        BY <1>2
    <2> QED BY <1>1, <2>1
<1> QED BY <1>2, <1>3

(* next[i] is a step that leads from the set Inv[i - 1] to the set Inv[i] *)
Leads(next, Inv, m, n) ==
    \A i \in (m + 1)..n : \A v \in Inv[i - 1] : next[i][v] \in Inv[i]

(* f is what the steps make of c, and all of it is in the sets *)
Iterates(f, c, next, Inv, m, n) ==
    /\ f = [j \in m..n |-> f[j]] /\ f[m] = c
    /\ \A j \in (m + 1)..n : f[j] = next[j][f[j - 1]]
    /\ \A j \in m..n : f[j] \in Inv[j]

(* A function that is defined by recursion exists *)
LEMMA Iteration ==
    ASSUME NEW m \in Int, NEW n \in Int, m <= n, NEW Inv, NEW c \in Inv[m],
           NEW next, Leads(next, Inv, m, n)
    PROVE  \E f : Iterates(f, c, next, Inv, m, n)
<1> DEFINE Is(f, i) == Iterates(f, c, next, Inv, m, i)
           Upto(i)  == \E f : Is(f, i)
           S        == {i \in m..n : Upto(i)}
<1> USE DEF Leads, Iterates
<1>1. Upto(m)
    <2> DEFINE f == [j \in m..m |-> c]
    <2>1. f[m] = c /\ \A j \in m..m : f[j] \in Inv[j]
        OBVIOUS
    <2>2. (m + 1)..m = {} /\ f = [j \in m..m |-> f[j]]
        OBVIOUS
    <2> HIDE DEF f
    <2> QED BY <2>1, <2>2
<1>2. ASSUME NEW i \in (m + 1)..n, Upto(i - 1) PROVE Upto(i)
    <2>1. PICK f : Is(f, i - 1)
        BY <1>2
    <2> DEFINE e == next[i][f[i - 1]]
               g == [j \in m..i |-> IF j = i THEN e ELSE f[j]]
    <2>2. i - 1 \in m..(i - 1) /\ m \in m..(i - 1)
        OBVIOUS
    <2>3. /\ f[i - 1] \in Inv[i - 1] /\ f[m] = c
          /\ \A j \in (m + 1)..(i - 1) : f[j] = next[j][f[j - 1]]
          /\ \A j \in m..(i - 1) : f[j] \in Inv[j]
        BY <2>1, <2>2
    <2>4. e \in Inv[i]
        BY <2>3
    <2> HIDE DEF e
    <2>5. \A j \in m..(i - 1) : g[j] = f[j]
        OBVIOUS
    <2>6. g[i] = e /\ g = [j \in m..i |-> g[j]]
        OBVIOUS
    <2> HIDE DEF g
    <2>7. g[m] = c
        BY <2>2, <2>3, <2>5
    <2>8. ASSUME NEW j \in (m + 1)..i PROVE g[j] = next[j][g[j - 1]]
        <3>1. j - 1 \in m..(i - 1)
            OBVIOUS
        <3>2. CASE j = i
            BY <2>5, <2>6, <3>1, <3>2 DEF e
        <3>3. CASE j # i
            <4>1. j \in (m + 1)..(i - 1) /\ j \in m..(i - 1)
                BY <3>3
            <4> QED BY <2>3, <2>5, <3>1, <4>1
        <3> QED BY <3>2, <3>3
    <2>9. ASSUME NEW j \in m..i PROVE g[j] \in Inv[j]
        <3>1. j = i \/ j \in m..(i - 1)
            OBVIOUS
        <3>2. CASE j = i
            BY <2>4, <2>6, <3>2
        <3>3. CASE j \in m..(i - 1)
            BY <2>3, <2>5, <3>3
        <3> QED BY <3>1, <3>2, <3>3
    <2>10. Is(g, i)
        BY <2>6, <2>7, <2>8, <2>9
    <2> QED BY <2>10
<1> HIDE DEF Upto
<1>3. Upto(n)
    <2>1. m \in S /\ \A i \in (m + 1)..n : i - 1 \in S => i \in S
        BY <1>1, <1>2
    <2> HIDE DEF S
    <2>2. n \in S
        BY <2>1, Induction
    <2> QED BY <2>2 DEF S
<1> QED BY <1>3 DEF Upto

-------------------------------------------------------------------------------
(* next makes the value at i of the function of the earlier values *)
Follows(f, next, n) == \A i \in 0..n : f[i] = next[i][[j \in 0..(i - 1) |-> f[j]]]

(* A function whose values follow from all the earlier ones *)
LEMMA CourseOfValues ==
    ASSUME NEW n \in Nat, NEW S, NEW next,
           \A i \in 0..n : \A g \in [0..(i - 1) -> S] : next[i][g] \in S
    PROVE  \E f \in [0..n -> S] : Follows(f, next, n)
<1> DEFINE m    == -1
           Inv  == [i \in m..n |-> [0..i -> S]]
           step == [i \in 0..n |-> [g \in [0..(i - 1) -> S] |->
                      [j \in 0..i |-> IF j = i THEN next[i][g] ELSE g[j]]]]
           none == [j \in 0..m |-> 0]
<1>1. m \in Int /\ n \in Int /\ m <= n /\ m + 1 = 0 /\ (m + 1)..n = 0..n
    OBVIOUS
<1>2. none \in Inv[m]
    <2>1. 0..m = {} /\ m \in m..n /\ Inv[m] = [0..m -> S]
        OBVIOUS
    <2> QED BY <2>1
<1>3. ASSUME NEW i \in 0..n, NEW g \in [0..(i - 1) -> S]
      PROVE  step[i][g] \in [0..i -> S]
    <2>1. next[i][g] \in S
        OBVIOUS
    <2>2. step[i][g] = [j \in 0..i |-> IF j = i THEN next[i][g] ELSE g[j]]
        OBVIOUS
    <2>3. \A j \in 0..i : j # i => j \in 0..(i - 1)
        OBVIOUS
    <2> HIDE DEF step
    <2> QED BY <2>1, <2>2, <2>3
<1>4. Leads(step, Inv, m, n)
    <2>1. ASSUME NEW i \in (m + 1)..n, NEW v \in Inv[i - 1] PROVE step[i][v] \in Inv[i]
        <3>1. i \in 0..n /\ i \in m..n /\ i - 1 \in m..n
            BY <1>1
        <3>2. v \in [0..(i - 1) -> S] /\ Inv[i] = [0..i -> S]
            BY <3>1
        <3> HIDE DEF step, Inv
        <3> QED BY <1>3, <3>1, <3>2
    <2> QED BY <2>1 DEF Leads
<1>5. PICK T : Iterates(T, none, step, Inv, m, n)
    <2> HIDE DEF step, Inv, none, m
    <2> QED BY <1>1, <1>2, <1>4, Iteration
<1>6. \A i \in m..n : T[i] \in [0..i -> S]
    BY <1>5 DEF Iterates
<1>7. ASSUME NEW i \in 0..n
      PROVE  /\ T[i - 1] \in [0..(i - 1) -> S]
             /\ T[i][i] = next[i][T[i - 1]] /\ T[i][i] \in S
             /\ \A j \in 0..(i - 1) : T[i][j] = T[i - 1][j]
    <2>1. i \in (m + 1)..n /\ i - 1 \in m..n /\ i \in m..n /\ i \in 0..i
        OBVIOUS
    <2>2. T[i - 1] \in [0..(i - 1) -> S] /\ T[i] \in [0..i -> S]
        BY <1>6, <2>1
    <2>3. T[i] = step[i][T[i - 1]]
        BY <1>5, <2>1 DEF Iterates
    <2> DEFINE g == T[i - 1]
    <2>4. T[i] = [j \in 0..i |-> IF j = i THEN next[i][g] ELSE g[j]]
        BY <2>2, <2>3
    <2>5. \A j \in 0..(i - 1) : j \in 0..i /\ j # i
        OBVIOUS
    <2>6. T[i][i] \in S
        BY <2>1, <2>2
    <2>7. T[i][i] = next[i][g]
        BY <2>1, <2>4
    <2>8. \A j \in 0..(i - 1) : T[i][j] = g[j]
        BY <2>4, <2>5
    <2> QED BY <2>2, <2>6, <2>7, <2>8
<1> HIDE DEF step, Inv, none, m
<1> DEFINE f == [i \in 0..n |-> T[i][i]]
           Same == {i \in 0..n : \A j \in 0..i : T[i][j] = T[j][j]}
<1>8. ASSUME NEW i \in 0..n PROVE i \in Same
    <2>1. 0 \in Same
        <3>1. 0..0 = {0} /\ 0 \in 0..n
            OBVIOUS
        <3> QED BY <3>1
    <2>2. ASSUME NEW k \in (0 + 1)..n, k - 1 \in Same PROVE k \in Same
        <3>1. k \in 0..n /\ \A j \in 0..k : j = k \/ j \in 0..(k - 1)
            OBVIOUS
        <3>2. \A j \in 0..(k - 1) : T[k - 1][j] = T[j][j]
            BY <2>2
        <3> QED BY <1>7, <3>1, <3>2
    <2>3. 0 \in Int /\ n \in Int
        OBVIOUS
    <2> HIDE DEF Same
    <2> QED BY <2>1, <2>2, <2>3, Induction
<1>9. f \in [0..n -> S]
    BY <1>7
<1>10. ASSUME NEW i \in 0..n PROVE f[i] = next[i][[j \in 0..(i - 1) |-> f[j]]]
    <2> DEFINE g == [j \in 0..(i - 1) |-> f[j]]
    <2>1. T[i - 1] \in [0..(i - 1) -> S]
        BY <1>7
    <2>2. ASSUME NEW j \in 0..(i - 1) PROVE T[i - 1][j] = f[j]
        <3>1. i - 1 \in 0..n /\ j \in 0..n
            OBVIOUS
        <3> QED BY <1>8, <3>1
    <2>3. g = T[i - 1]
        <3> HIDE DEF f
        <3> QED BY <2>1, <2>2
    <2>4. f[i] = T[i][i]
        OBVIOUS
    <2> HIDE DEF f, g
    <2>5. f[i] = next[i][g]
        BY <1>7, <2>3, <2>4
    <2> QED BY <2>5 DEF g
<1> HIDE DEF f
<1> QED BY <1>9, <1>10 DEF Follows

-------------------------------------------------------------------------------
(* Folds *)

Greatest(s) == CHOOSE x \in s : \A y \in s : x >= y

(* iter is what the recursion of FoldLeft defines: next[i] is what the     *)
(* element at i of the sequence does                                       *)
IsFold(iter, base, next, n) ==
    iter = [s \in SUBSET (1..n) |->
              IF s = {} THEN base ELSE next[Greatest(s)][iter[s \ {Greatest(s)}]]]

LEMMA GreatestIs ==
    ASSUME NEW i \in Nat, NEW s \in SUBSET (1..i), i \in s
    PROVE  Greatest(s) = i
<1>1. \A y \in s : y \in Int /\ i >= y
    OBVIOUS
<1>2. \A x \in s : x >= i => x = i
    BY <1>1
<1>3. Greatest(s) \in s /\ \A y \in s : Greatest(s) >= y
    BY <1>1 DEF Greatest
<1> QED BY <1>2, <1>3

LEMMA GreatestIn ==
    ASSUME NEW n \in Nat, NEW s \in SUBSET (1..n), s # {}
    PROVE  Greatest(s) \in s /\ Greatest(s) \in 1..n
<1> DEFINE Below == {n - x : x \in s}
<1>1. \A x \in s : x \in 1..n /\ x \in Int /\ n - x \in Nat
    OBVIOUS
<1>2. Below \in SUBSET Nat /\ Below # {}
    BY <1>1
<1>3. PICK k \in Below : \A j \in Below : k <= j
    <2> HIDE DEF Below
    <2> QED BY <1>2, Least
<1>4. PICK x \in s : k = n - x
    OBVIOUS
<1>5. ASSUME NEW y \in s PROVE x >= y
    <2>1. n - x <= n - y
        BY <1>3, <1>4
    <2>2. x \in Int /\ y \in Int
        BY <1>1
    <2> QED BY <2>1, <2>2
<1>6. Greatest(s) \in s
    BY <1>5 DEF Greatest
<1> QED BY <1>1, <1>6

LEMMA UpToGreatest ==
    ASSUME NEW i \in Nat \ {0}
    PROVE  Greatest(1..i) = i /\ (1..i) \ {i} = 1..(i - 1) /\ 1..i # {}
<1>1. Greatest(1..i) = i
    BY GreatestIs
<1>2. (1..i) \ {i} = 1..(i - 1) /\ 1 \in 1..i
    OBVIOUS
<1> QED BY <1>1, <1>2

LEMMA FoldExists ==
    ASSUME NEW n \in Nat, NEW A, NEW base \in A, NEW next,
           \A i \in 1..n : \A a \in A : next[i][a] \in A
    PROVE  \E iter \in [SUBSET (1..n) -> A] : IsFold(iter, base, next, n)
<1> DEFINE Is(iter, i) == iter \in [SUBSET (1..i) -> A] /\ IsFold(iter, base, next, i)
           S == {i \in 0..n : \E iter : Is(iter, i)}
<1>1. 0 \in S
    <2> DEFINE iter == [s \in SUBSET (1..0) |-> base]
    <2>1. \A s \in SUBSET (1..0) : s = {}
        OBVIOUS
    <2>2. Is(iter, 0)
        BY <2>1 DEF IsFold
    <2> QED BY <2>2
<1>2. ASSUME NEW i \in (0 + 1)..n, i - 1 \in S PROVE i \in S
    <2>1. i \in 1..n /\ i \in 0..n /\ i \in Nat
        OBVIOUS
    <2>2. PICK f : Is(f, i - 1)
        BY <1>2
    <2> DEFINE g == [s \in SUBSET (1..i) |->
                       IF i \in s THEN next[i][f[s \ {i}]] ELSE f[s]]
    <2>3. ASSUME NEW s \in SUBSET (1..i)
          PROVE  /\ s \ {i} \in SUBSET (1..(i - 1)) /\ f[s \ {i}] \in A
                 /\ i \notin s => s \ {i} = s
        <3>1. \A x \in s : x = i \/ x \in 1..(i - 1)
            <4>1. ASSUME NEW x \in 1..i, x # i PROVE x \in 1..(i - 1)
                BY <2>1, <4>1
            <4> QED BY <4>1
        <3> QED BY <2>2, <3>1
    <2>4. g \in [SUBSET (1..i) -> A]
        BY <2>1, <2>3
    <2>5. ASSUME NEW s \in SUBSET (1..i)
          PROVE  g[s] = IF s = {} THEN base ELSE next[Greatest(s)][g[s \ {Greatest(s)}]]
        <3>1. CASE i \in s
            <4>1. Greatest(s) = i
                BY <2>1, <3>1, GreatestIs
            <4>2. g[s \ {i}] = f[s \ {i}]
                BY <2>3
            <4> QED BY <3>1, <4>1, <4>2
        <3>2. CASE i \notin s
            <4>1. s \in SUBSET (1..(i - 1)) /\ g[s] = f[s]
                BY <2>3, <3>2
            <4>2. f[s] = IF s = {} THEN base ELSE next[Greatest(s)][f[s \ {Greatest(s)}]]
                BY <2>2, <4>1 DEF IsFold
            <4> DEFINE r == s \ {Greatest(s)}
            <4>3. g[r] = f[r]
                <5>1. r \in SUBSET (1..i) /\ i \notin r
                    BY <3>2
                <5> HIDE DEF r
                <5> QED BY <5>1
            <4> HIDE DEF g
            <4> QED BY <4>1, <4>2, <4>3
        <3> QED BY <3>1, <3>2
    <2> HIDE DEF g
    <2>6. Is(g, i)
        BY <2>4, <2>5 DEF IsFold
    <2> QED BY <2>1, <2>6
<1> HIDE DEF S
<1>3. n \in S
    <2>1. n \in 0..n /\ n \in Int /\ 0 \in Int
        OBVIOUS
    <2> QED BY <1>1, <1>2, <2>1, Induction
<1> QED BY <1>3 DEF S

-------------------------------------------------------------------------------
(* Sums *)

(* sum is what the recursion of MapThenSumSet defines, for the function F *)
(* on the set S                                                           *)
IsSum(sum, F, S) ==
    sum = [s \in SUBSET S |->
              IF s = {} THEN 0
              ELSE F[CHOOSE x \in s : TRUE] + sum[s \ {CHOOSE x \in s : TRUE}]]

(* G adds up the numbers that F has at the indices in s *)
AddsUp(G, F, s, n) ==
    /\ G \in [0..n -> Int] /\ G[0] = 0
    /\ \A i \in 1..n : G[i] = G[i - 1] + (IF i \in s THEN F[i] ELSE 0)

LEMMA AddingUp ==
    ASSUME NEW n \in Nat, NEW F \in [1..n -> Int], NEW s
    PROVE  \E G : AddsUp(G, F, s, n)
<1> DEFINE Inv  == [i \in 0..n |-> Int]
           next == [i \in 1..n |-> [v \in Int |-> v + (IF i \in s THEN F[i] ELSE 0)]]
<1>1. PICK G : Iterates(G, 0, next, Inv, 0, n)
    <2>1. 0 \in Inv[0] /\ 0 \in Int /\ n \in Int /\ 0 <= n
        OBVIOUS
    <2>2. Leads(next, Inv, 0, n)
        <3>1. ASSUME NEW i \in (0 + 1)..n, NEW v \in Inv[i - 1] PROVE next[i][v] \in Inv[i]
            <4>1. i \in 1..n /\ i \in 0..n /\ i - 1 \in 0..n
                OBVIOUS
            <4>2. v \in Int /\ Inv[i] = Int
                BY <4>1
            <4>3. next[i][v] = v + (IF i \in s THEN F[i] ELSE 0)
                BY <4>1, <4>2
            <4>4. F[i] \in Int
                BY <4>1
            <4> HIDE DEF next, Inv
            <4> QED BY <4>2, <4>3, <4>4
        <3> QED BY <3>1 DEF Leads
    <2> HIDE DEF next, Inv
    <2> QED BY <2>1, <2>2, Iteration
<1>2. /\ G = [j \in 0..n |-> G[j]] /\ G[0] = 0
      /\ \A j \in (0 + 1)..n : G[j] = next[j][G[j - 1]]
      /\ \A j \in 0..n : G[j] \in Inv[j]
    BY <1>1 DEF Iterates
<1>3. \A j \in 0..n : G[j] \in Int
    BY <1>2
<1>4. ASSUME NEW i \in 1..n PROVE G[i] = G[i - 1] + (IF i \in s THEN F[i] ELSE 0)
    <2>1. i \in (0 + 1)..n /\ i - 1 \in 0..n
        OBVIOUS
    <2>2. G[i] = next[i][G[i - 1]] /\ G[i - 1] \in Int
        BY <1>2, <1>3, <2>1
    <2> QED BY <2>2
<1>5. G \in [0..n -> Int]
    BY <1>2, <1>3
<1> QED BY <1>2, <1>4, <1>5 DEF AddsUp

(* With one number more *)
LEMMA AddsOne ==
    ASSUME NEW n \in Nat, NEW F \in [1..n -> Int], NEW s \in SUBSET (1..n), NEW x \in s,
           NEW G, AddsUp(G, F, s, n), NEW H, AddsUp(H, F, s \ {x}, n)
    PROVE  G[n] = F[x] + H[n]
<1> DEFINE More(i) == IF i >= x THEN F[x] ELSE 0
           S == {i \in Int : G[i] = More(i) + H[i]}
<1>1. x \in 1..n /\ F[x] \in Int
    OBVIOUS
<1>2. 0 \in S
    BY <1>1 DEF AddsUp
<1>3. ASSUME NEW i \in (0 + 1)..n, i - 1 \in S PROVE i \in S
    <2>1. /\ i \in 1..n /\ i \in 0..n /\ i - 1 \in 0..n /\ i \in Int /\ x \in Int
          /\ F[i] \in Int /\ G[i - 1] \in Int /\ H[i - 1] \in Int
        <3>1. i \in 1..n /\ i \in 0..n /\ i - 1 \in 0..n /\ i \in Int /\ x \in Int
            BY <1>1
        <3>2. G \in [0..n -> Int] /\ H \in [0..n -> Int]
            BY DEF AddsUp
        <3> QED BY <3>1, <3>2
    <2>2. G[i] = G[i - 1] + (IF i \in s THEN F[i] ELSE 0)
        BY <2>1 DEF AddsUp
    <2>3. H[i] = H[i - 1] + (IF i \in s \ {x} THEN F[i] ELSE 0)
        BY <2>1 DEF AddsUp
    <2>4. G[i - 1] = More(i - 1) + H[i - 1]
        BY <1>3
    <2>5. CASE i = x
        <3>1. More(i - 1) = 0 /\ More(i) = F[i] /\ i \in s
            BY <2>1, <2>5
        <3> HIDE DEF More
        <3>2. G[i] = More(i) + H[i]
            BY <2>1, <2>2, <2>3, <2>4, <2>5, <3>1
        <3> QED BY <2>1, <3>2
    <2>6. CASE i # x
        <3>1. More(i - 1) = More(i) /\ More(i) \in Int /\ (i \in s \ {x} <=> i \in s)
            BY <1>1, <2>1, <2>6
        <3> HIDE DEF More
        <3>2. G[i] = More(i) + H[i]
            BY <2>1, <2>2, <2>3, <2>4, <3>1
        <3> QED BY <2>1, <3>2
    <2> QED BY <2>5, <2>6
<1> HIDE DEF S
<1>4. n \in S
    <2>1. n \in 0..n /\ n \in Int /\ 0 \in Int
        OBVIOUS
    <2> QED BY <1>2, <1>3, <2>1, Induction
<1> QED BY <1>1, <1>4 DEF S

(* Without any *)
LEMMA AddsNone ==
    ASSUME NEW n \in Nat, NEW F \in [1..n -> Int], NEW G, AddsUp(G, F, {}, n)
    PROVE  G[n] = 0
<1> DEFINE S == {i \in Int : G[i] = 0}
<1>1. 0 \in S
    BY DEF AddsUp
<1>2. ASSUME NEW i \in (0 + 1)..n, i - 1 \in S PROVE i \in S
    <2>1. i \in 1..n
        OBVIOUS
    <2>2. G[i] = G[i - 1] + 0 /\ G[i - 1] = 0
        BY <1>2, <2>1 DEF AddsUp
    <2> QED BY <2>1, <2>2
<1> HIDE DEF S
<1>3. n \in S
    <2>1. n \in 0..n /\ n \in Int /\ 0 \in Int
        OBVIOUS
    <2> QED BY <1>1, <1>2, <2>1, Induction
<1> QED BY <1>3 DEF S

LEMMA SumExists ==
    ASSUME NEW n \in Nat, NEW F \in [1..n -> Int]
    PROVE  \E sum : IsSum(sum, F, 1..n)
<1> DEFINE Gof(s) == CHOOSE G : AddsUp(G, F, s, n)
           sum    == [s \in SUBSET (1..n) |-> Gof(s)[n]]
           one(s) == CHOOSE x \in s : TRUE
<1>1. \A s : AddsUp(Gof(s), F, s, n)
    BY AddingUp
<1> HIDE DEF Gof
<1>2. ASSUME NEW s \in SUBSET (1..n)
      PROVE  sum[s] = IF s = {} THEN 0 ELSE F[one(s)] + sum[s \ {one(s)}]
    <2>1. CASE s = {}
        BY <1>1, <2>1, AddsNone
    <2>2. CASE s # {}
        <3>1. one(s) \in s
            BY <2>2
        <3> HIDE DEF one
        <3>2. Gof(s)[n] = F[one(s)] + Gof(s \ {one(s)})[n]
            <4> DEFINE G == Gof(s)
                       H == Gof(s \ {one(s)})
            <4>1. AddsUp(G, F, s, n) /\ AddsUp(H, F, s \ {one(s)}, n)
                BY <1>1
            <4> HIDE DEF G, H
            <4> DEFINE x == one(s)
            <4>2. x \in s /\ s \in SUBSET (1..n) /\ AddsUp(H, F, s \ {x}, n)
                BY <3>1, <4>1
            <4> HIDE DEF x
            <4>3. G[n] = F[x] + H[n]
                BY <4>1, <4>2, AddsOne
            <4>4. G[n] = F[one(s)] + H[n]
                BY <4>3 DEF x
            <4> QED BY <4>4 DEF G, H
        <3> QED BY <2>2, <3>1, <3>2
    <2> QED BY <2>1, <2>2
<1>3. IsSum(sum, F, 1..n)
    BY <1>2 DEF IsSum
<1> QED BY <1>3

(* The sum of a set of numbers does not depend on the order in which they  *)
(* are added                                                               *)
LEMMA SumIs ==
    ASSUME NEW n \in Nat, NEW F \in [1..n -> Int], NEW sum, IsSum(sum, F, 1..n),
           NEW G, AddsUp(G, F, 1..n, n)
    PROVE  sum[1..n] = G[n]
<1> DEFINE Gof(s) == CHOOSE H : AddsUp(H, F, s, n)
           Wrong  == {s \in SUBSET (1..n) : \E H : AddsUp(H, F, s, n) /\ sum[s] # H[n]}
           one(s) == CHOOSE x \in s : TRUE
           Sizes  == {Cardinality(s) : s \in Wrong}
<1> SUFFICES ASSUME Wrong # {} PROVE FALSE
    OBVIOUS
<1>1. \A s \in SUBSET (1..n) : IsFiniteSet(s) /\ Cardinality(s) \in Nat
    <2>1. IsFiniteSet(1..n)
        <3>1. 1 \in Int /\ n \in Int
            OBVIOUS
        <3> QED BY <3>1, FS_Interval
    <2>2. ASSUME NEW s \in SUBSET (1..n) PROVE IsFiniteSet(s)
        BY <2>1, FS_Subset
    <2> QED BY <2>2, FS_CardinalityType
<1>2. PICK s \in Wrong : \A t \in Wrong : Cardinality(s) <= Cardinality(t)
    <2>1. Sizes \in SUBSET Nat /\ Sizes # {}
        BY <1>1
    <2>2. PICK k \in Sizes : \A m \in Sizes : k <= m
        <3> HIDE DEF Sizes
        <3> QED BY <2>1, Least
    <2> QED BY <2>2
<1>3. s \in SUBSET (1..n) /\ \E H : AddsUp(H, F, s, n) /\ sum[s] # H[n]
    OBVIOUS
<1>4. PICK H : AddsUp(H, F, s, n) /\ sum[s] # H[n]
    BY <1>3
<1>5. sum[s] = IF s = {} THEN 0 ELSE F[one(s)] + sum[s \ {one(s)}]
    BY <1>3 DEF IsSum
<1>6. CASE s = {}
    BY <1>4, <1>5, <1>6, AddsNone
<1>7. CASE s # {}
    <2>1. one(s) \in s
        BY <1>7
    <2> DEFINE t == s \ {one(s)}
    <2> HIDE DEF one
    <2>2. t \in SUBSET (1..n) /\ ~(Cardinality(s) <= Cardinality(t))
        <3>1. Cardinality(t) = Cardinality(s) - 1
            BY <1>1, <1>3, <2>1, FS_RemoveElement
        <3>2. Cardinality(s) \in Nat /\ t \in SUBSET (1..n)
            BY <1>1, <1>3
        <3> HIDE DEF t
        <3> QED BY <3>1, <3>2
    <2>3. t \notin Wrong
        BY <1>2, <2>2
    <2>4. PICK T : AddsUp(T, F, t, n)
        BY AddingUp
    <2>5. sum[t] = T[n]
        BY <2>2, <2>3, <2>4
    <2>6. H[n] = F[one(s)] + T[n]
        <3> DEFINE x == one(s)
        <3>1. x \in s /\ s \in SUBSET (1..n) /\ AddsUp(T, F, s \ {x}, n)
            BY <1>3, <2>1, <2>4
        <3> HIDE DEF x
        <3>2. H[n] = F[x] + T[n]
            BY <1>4, <3>1, AddsOne
        <3> QED BY <3>2 DEF x
    <2> QED BY <1>4, <1>5, <1>7, <2>5, <2>6
<1> QED BY <1>6, <1>7

-------------------------------------------------------------------------------
(* Parts of a sequence *)

(* A sequence that has an element for each one of another *)
LEMMA Mapped ==
    ASSUME NEW A, NEW s \in Seq(A), NEW B, NEW f, f = [i \in DOMAIN s |-> f[i]],
           \A i \in DOMAIN s : f[i] \in B
    PROVE  f \in Seq(B) /\ Len(f) = Len(s)
<1>1. Len(s) \in Nat /\ DOMAIN s = 1..Len(s)
    OBVIOUS
<1>2. f = [i \in 1..Len(s) |-> f[i]] /\ \A i \in 1..Len(s) : f[i] \in B
    BY <1>1
<1>3. f \in Seq(B)
    BY <1>1, <1>2, IsASeq
<1>4. DOMAIN f = 1..Len(s)
    BY <1>2
<1> QED BY <1>1, <1>3, <1>4

(* The first elements of a sequence *)
Upto(s, k) == [j \in 1..k |-> s[j]]

LEMMA UptoOf ==
    ASSUME NEW A, NEW s \in Seq(A)
    PROVE  /\ Upto(s, 0) = <<>> /\ Upto(s, Len(s)) = s
           /\ \A k \in 0..Len(s) : Upto(s, k) \in Seq(A) /\ Len(Upto(s, k)) = k
           /\ \A k \in 1..Len(s) : Append(Upto(s, k - 1), s[k]) = Upto(s, k)
<1>1. Len(s) \in Nat /\ \A i \in 1..Len(s) : s[i] \in A
    BY ElementOfSeq
<1>2. Upto(s, 0) = <<>> /\ Upto(s, Len(s)) = s
    BY DEF Upto
<1>3. ASSUME NEW k \in 0..Len(s)
      PROVE  Upto(s, k) \in Seq(A) /\ Len(Upto(s, k)) = k
    <2> DEFINE u == Upto(s, k)
    <2>1. k \in Nat /\ u = [j \in 1..k |-> u[j]] /\ \A j \in 1..k : u[j] \in A
        BY <1>1 DEF Upto
    <2> HIDE DEF u
    <2>2. u \in Seq(A)
        BY <2>1, IsASeq
    <2>3. Len(u) = k
        BY <2>1, <2>2
    <2> QED BY <2>2, <2>3 DEF u
<1>4. ASSUME NEW k \in 1..Len(s)
      PROVE  Append(Upto(s, k - 1), s[k]) = Upto(s, k)
    <2> DEFINE u == Upto(s, k - 1)
               v == Upto(s, k)
    <2>1. k - 1 \in 0..Len(s) /\ k \in 0..Len(s) /\ k - 1 + 1 = k /\ s[k] \in A
        BY <1>1
    <2>2. u \in Seq(A) /\ Len(u) = k - 1 /\ v \in Seq(A) /\ Len(v) = k
        BY <1>3, <2>1
    <2>3. /\ \A j \in 1..(k - 1) : u[j] = s[j]
          /\ \A j \in 1..k : v[j] = s[j]
        BY DEF Upto
    <2> HIDE DEF u, v
    <2> DEFINE w == Append(u, s[k])
    <2>4. /\ w \in Seq(A) /\ Len(w) = k /\ w[k] = s[k]
          /\ \A j \in 1..(k - 1) : w[j] = s[j]
        BY <2>1, <2>2, <2>3, AppendProperties
    <2> HIDE DEF w
    <2>5. \A j \in 1..k : w[j] = v[j]
        <3>1. \A j \in 1..k : j \in 1..(k - 1) \/ j = k
            BY <2>1
        <3> QED BY <2>3, <2>4, <3>1
    <2>6. w = v
        BY <2>2, <2>4, <2>5, SeqEqual
    <2> QED BY <2>6 DEF u, v, w
<1> QED BY <1>2, <1>3, <1>4

(* The first i of the texts, put together *)
PutTogether(acc, texts, S) ==
    /\ acc \in [0..Len(texts) -> Seq(S)] /\ acc[0] = <<>>
    /\ \A i \in 1..Len(texts) : acc[i] = acc[i - 1] \o texts[i]

LEMMA Flattened ==
    ASSUME NEW S, NEW texts \in Seq(Seq(S))
    PROVE  \E acc : PutTogether(acc, texts, S) /\ FlattenSeq(texts) = acc[Len(texts)]
<1> DEFINE n    == Len(texts)
           Inv  == [i \in 0..n |-> Seq(S)]
           next == [i \in 1..n |-> [v \in Seq(S) |-> v \o texts[i]]]
           Body(f) == [i \in 1..n |-> IF i = 1 THEN texts[i] ELSE f[i - 1] \o texts[i]]
           chosen  == CHOOSE f : f = Body(f)
<1>1. /\ n \in Nat /\ n \in Int /\ 0 \in Int /\ 0 <= n /\ n \in 0..n
      /\ \A i \in 1..n : texts[i] \in Seq(S)
    BY ElementOfSeq
<1>2. PICK acc : Iterates(acc, <<>>, next, Inv, 0, n)
    <2>1. <<>> \in Inv[0]
        BY <1>1
    <2>2. Leads(next, Inv, 0, n)
        <3>1. ASSUME NEW i \in (0 + 1)..n, NEW v \in Inv[i - 1] PROVE next[i][v] \in Inv[i]
            <4>1. i \in 1..n /\ i \in 0..n /\ i - 1 \in 0..n
                BY <1>1
            <4>2. v \in Seq(S) /\ Inv[i] = Seq(S) /\ texts[i] \in Seq(S)
                BY <1>1, <4>1
            <4>3. next[i][v] = v \o texts[i]
                BY <4>1, <4>2
            <4> HIDE DEF next, Inv
            <4> QED BY <4>2, <4>3
        <3> QED BY <3>1 DEF Leads
    <2> HIDE DEF next, Inv, n
    <2> QED BY <1>1, <2>1, <2>2, Iteration
<1>3. /\ acc \in [0..n -> Seq(S)] /\ acc[0] = <<>>
      /\ \A i \in 1..n : acc[i] = acc[i - 1] \o texts[i]
    <2>1. /\ acc = [j \in 0..n |-> acc[j]] /\ acc[0] = <<>>
          /\ \A j \in (0 + 1)..n : acc[j] = next[j][acc[j - 1]]
          /\ \A j \in 0..n : acc[j] \in Inv[j]
        BY <1>2 DEF Iterates
    <2>2. \A j \in 0..n : acc[j] \in Seq(S)
        BY <2>1
    <2>3. ASSUME NEW i \in 1..n PROVE acc[i] = acc[i - 1] \o texts[i]
        <3>1. i \in (0 + 1)..n /\ i - 1 \in 0..n
            BY <1>1
        <3> QED BY <2>1, <2>2, <3>1
    <2> HIDE DEF n
    <2> QED BY <2>1, <2>2, <2>3
<1>4. PutTogether(acc, texts, S)
    BY <1>3 DEF PutTogether
<1>5. CASE n = 0
    <2>1. FlattenSeq(texts) = texts /\ texts = <<>>
        BY <1>5, EmptySeq DEF FlattenSeq
    <2> QED BY <1>3, <1>4, <1>5, <2>1
<1>6. CASE n # 0
    <2>1. FlattenSeq(texts) = chosen[n]
        BY <1>6 DEF FlattenSeq
    <2> DEFINE f0 == [i \in 1..n |-> acc[i]]
    <2>2. f0 = Body(f0)
        <3>1. ASSUME NEW i \in 1..n
              PROVE  acc[i] = IF i = 1 THEN texts[i] ELSE f0[i - 1] \o texts[i]
            <4>1. CASE i = 1
                <5>1. 1 - 1 = 0 /\ 1 \in 1..n
                    BY <4>1
                <5>2. acc[1] = acc[0] \o texts[1]
                    BY <1>3, <5>1
                <5> HIDE DEF n
                <5> QED BY <1>1, <1>3, <4>1, <5>1, <5>2, ConcatEmptySeq
            <4>2. CASE i # 1
                <5>1. i - 1 \in 1..n
                    BY <1>1, <4>2
                <5> QED BY <1>3, <4>2, <5>1
            <4> QED BY <4>1, <4>2
        <3> QED BY <3>1
    <2>3. chosen = Body(chosen)
        <3>1. \E f : f = Body(f)
            BY <2>2
        <3> HIDE DEF Body
        <3> QED BY <3>1
    <2> HIDE DEF chosen
    <2> DEFINE Is == {i \in 1..n : chosen[i] = acc[i]}
    <2>4. 1 \in Is
        <3>1. 1 \in 1..n
            BY <1>1, <1>6
        <3>2. chosen[1] = texts[1]
            BY <2>3, <3>1
        <3>3. acc[1] = acc[0] \o texts[1]
            <4>1. 1 - 1 = 0
                OBVIOUS
            <4> HIDE DEF n
            <4> QED BY <1>3, <3>1, <4>1
        <3> QED BY <1>1, <1>3, <3>1, <3>2, <3>3, ConcatEmptySeq
    <2>5. ASSUME NEW i \in (1 + 1)..n, i - 1 \in Is PROVE i \in Is
        <3>1. i \in 1..n /\ i - 1 \in 1..n /\ i # 1
            BY <1>1
        <3>2. chosen[i] = chosen[i - 1] \o texts[i]
            BY <2>3, <3>1
        <3> QED BY <1>3, <2>5, <3>1, <3>2
    <2>6. n \in Is
        <3>1. n \in 1..n /\ 1 \in Int
            BY <1>1, <1>6
        <3> HIDE DEF Is, n
        <3> QED BY <1>1, <2>4, <2>5, <3>1, Induction
    <2> QED BY <1>4, <2>1, <2>6
<1> QED BY <1>5, <1>6

LEMMA FlattenedTyped ==
    ASSUME NEW S, NEW texts \in Seq(Seq(S))
    PROVE  FlattenSeq(texts) \in Seq(S)
<1>1. PICK acc : PutTogether(acc, texts, S) /\ FlattenSeq(texts) = acc[Len(texts)]
    BY Flattened
<1>2. Len(texts) \in 0..Len(texts)
    <2>1. Len(texts) \in Nat
        OBVIOUS
    <2> QED BY <2>1
<1> QED BY <1>1, <1>2 DEF PutTogether

(* s stands in another sequence, behind p elements *)
Lies(s, p, whole) == /\ p \in Nat /\ p + Len(s) <= Len(whole)
                     /\ \A j \in 1..Len(s) : whole[p + j] = s[j]

LEMMA LiesInSum ==
    ASSUME NEW S, NEW s \in Seq(S), NEW t \in Seq(S)
    PROVE  Lies(s, 0, s \o t) /\ Lies(t, Len(s), s \o t)
<1> DEFINE u == s \o t
<1>1. /\ Len(s) \in Nat /\ Len(t) \in Nat /\ Len(u) = Len(s) + Len(t)
      /\ \A i \in 1..(Len(s) + Len(t)) : u[i] = IF i <= Len(s) THEN s[i] ELSE t[i - Len(s)]
    BY ConcatProperties
<1> HIDE DEF u
<1>2. ASSUME NEW j \in 1..Len(s) PROVE u[0 + j] = s[j]
    BY <1>1
<1>3. ASSUME NEW j \in 1..Len(t) PROVE u[Len(s) + j] = t[j]
    <2>1. Len(s) + j \in 1..(Len(s) + Len(t)) /\ ~(Len(s) + j <= Len(s))
          /\ Len(s) + j - Len(s) = j
        BY <1>1
    <2> QED BY <1>1, <2>1
<1>4. Lies(s, 0, u) /\ Lies(t, Len(s), u)
    BY <1>1, <1>2, <1>3 DEF Lies
<1> QED BY <1>4 DEF u

LEMMA LiesDeeper ==
    ASSUME NEW s, Len(s) \in Nat, NEW t, Len(t) \in Nat, NEW u, Len(u) \in Nat,
           NEW p, NEW q, Lies(s, p, t), Lies(t, q, u)
    PROVE  Lies(s, q + p, u)
<1>1. /\ p \in Nat /\ q \in Nat /\ p + Len(s) <= Len(t) /\ q + Len(t) <= Len(u)
      /\ \A j \in 1..Len(s) : t[p + j] = s[j]
      /\ \A j \in 1..Len(t) : u[q + j] = t[j]
    BY DEF Lies
<1>2. ASSUME NEW j \in 1..Len(s) PROVE u[q + p + j] = s[j]
    <2>1. p + j \in 1..Len(t) /\ q + (p + j) = q + p + j
        BY <1>1
    <2> QED BY <1>1, <2>1
<1>3. q + p \in Nat /\ q + p + Len(s) <= Len(u)
    BY <1>1
<1> QED BY <1>2, <1>3 DEF Lies

(* Each text stands in the whole, behind the ones before it *)
LEMMA PiecesLie ==
    ASSUME NEW S, NEW texts \in Seq(Seq(S)), NEW acc, PutTogether(acc, texts, S)
    PROVE  \A i \in 1..Len(texts) :
              /\ Len(acc[i]) = Len(acc[i - 1]) + Len(texts[i])
              /\ Lies(texts[i], Len(acc[i - 1]), acc[Len(texts)])
<1> DEFINE n == Len(texts)
<1>1. n \in Nat /\ n \in Int /\ \A i \in 1..n : texts[i] \in Seq(S)
    BY ElementOfSeq
<1>2. /\ \A i \in 0..n : acc[i] \in Seq(S)
      /\ \A i \in 1..n : acc[i] = acc[i - 1] \o texts[i]
    BY DEF PutTogether
<1>3. \A i \in 0..n : Len(acc[i]) \in Nat
    BY <1>2
<1> SUFFICES ASSUME NEW i \in 1..n
             PROVE  /\ Len(acc[i]) = Len(acc[i - 1]) + Len(texts[i])
                    /\ Lies(texts[i], Len(acc[i - 1]), acc[n])
    OBVIOUS
<1> HIDE DEF n
<1>4. \A k \in 1..n : k \in 0..n /\ k - 1 \in 0..n /\ k \in Int
    BY <1>1
<1>5. /\ Len(acc[i]) = Len(acc[i - 1]) + Len(texts[i])
      /\ Lies(texts[i], Len(acc[i - 1]), acc[i])
    <2> DEFINE before == acc[i - 1]
               own    == texts[i]
    <2>1. before \in Seq(S) /\ own \in Seq(S)
        BY <1>1, <1>2, <1>4
    <2>2. acc[i] = before \o own
        BY <1>2
    <2> HIDE DEF before, own
    <2>3. Len(before \o own) = Len(before) + Len(own)
        BY <2>1, ConcatProperties
    <2>4. Lies(own, Len(before), before \o own)
        BY <2>1, LiesInSum
    <2> QED BY <2>2, <2>3, <2>4 DEF before, own
<1> DEFINE In == {k \in 0..n : Lies(acc[i], 0, acc[k])}
<1>6. i \in In
    BY <1>3, <1>4 DEF Lies
<1>7. ASSUME NEW k \in (i + 1)..n, k - 1 \in In PROVE k \in In
    <2>1. k \in 1..n /\ k \in 0..n /\ k - 1 \in 0..n
        BY <1>1
    <2>2. Lies(acc[k - 1], 0, acc[k])
        BY <1>1, <1>2, <2>1, LiesInSum
    <2>3. Lies(acc[i], 0 + 0, acc[k])
        <3> DEFINE z == 0
        <3>1. Lies(acc[i], z, acc[k - 1]) /\ Lies(acc[k - 1], z, acc[k])
            BY <1>7, <2>2
        <3> HIDE DEF z
        <3>2. Lies(acc[i], z + z, acc[k])
            BY <1>3, <1>4, <2>1, <3>1, LiesDeeper
        <3> QED BY <3>2 DEF z
    <2> QED BY <2>1, <2>3
<1>8. n \in In
    <2>1. i \in Int /\ n \in i..n
        BY <1>1
    <2> HIDE DEF In
    <2> QED BY <1>1, <1>6, <1>7, <2>1, Induction
<1>9. Lies(texts[i], 0 + Len(acc[i - 1]), acc[n])
    <2> DEFINE z == 0
               p == Len(acc[i - 1])
    <2>0. n \in 0..n /\ i \in 0..n
        BY <1>1, <1>4
    <2>1. Len(acc[i]) \in Nat /\ Len(acc[n]) \in Nat
        BY <1>3, <2>0
    <2>2. Lies(acc[i], z, acc[n])
        BY <1>8
    <2>3. Lies(texts[i], p, acc[i])
        BY <1>5
    <2>4. Len(texts[i]) \in Nat
        BY <1>1
    <2> HIDE DEF z, p
    <2>5. Lies(texts[i], z + p, acc[n])
        BY <2>1, <2>2, <2>3, <2>4, LiesDeeper
    <2> QED BY <2>5 DEF z, p
<1>10. 0 + Len(acc[i - 1]) = Len(acc[i - 1])
    BY <1>3, <1>4
<1> QED BY <1>5, <1>9, <1>10

LEMMA UptoBehind ==
    ASSUME NEW A, NEW f \in Seq(A), NEW s \in Seq(A), NEW i \in 1..Len(s)
    PROVE  Append(f \o Upto(s, i - 1), s[i]) = f \o Upto(s, i)
<1> DEFINE u == Upto(s, i - 1)
           v == Upto(s, i)
           x == s[i]
           g == f \o u
           h == f \o v
           l == Len(f)
<1>1. i - 1 \in 0..Len(s) /\ i \in 0..Len(s) /\ l \in Nat /\ i \in Nat
    OBVIOUS
<1>2. u \in Seq(A) /\ Len(u) = i - 1 /\ v \in Seq(A) /\ Len(v) = i /\ x \in A
    BY <1>1, UptoOf, ElementOfSeq
<1>3. v[i] = x /\ \A j \in 1..(i - 1) : v[j] = u[j]
    BY DEF Upto
<1> HIDE DEF u, v, x
<1>4. /\ g \in Seq(A) /\ Len(g) = l + (i - 1)
      /\ \A j \in 1..(l + (i - 1)) : g[j] = IF j <= l THEN f[j] ELSE u[j - l]
    <2>1. u \in Seq(A)
        BY <1>2
    <2>2. /\ g \in Seq(A) /\ Len(g) = l + Len(u)
          /\ \A j \in 1..(l + Len(u)) : g[j] = IF j <= l THEN f[j] ELSE u[j - l]
        BY <2>1, ConcatProperties
    <2> HIDE DEF g, l
    <2> QED BY <1>2, <2>2
<1>5. /\ h \in Seq(A) /\ Len(h) = l + i
      /\ \A j \in 1..(l + i) : h[j] = IF j <= l THEN f[j] ELSE v[j - l]
    BY <1>2, ConcatProperties
<1> HIDE DEF g, h, l
<1> DEFINE k == Append(g, x)
<1>6. /\ k \in Seq(A) /\ Len(k) = l + (i - 1) + 1
      /\ k[l + (i - 1) + 1] = x
      /\ \A j \in 1..(l + (i - 1)) : k[j] = g[j]
    <2>1. /\ k \in Seq(A) /\ Len(k) = Len(g) + 1 /\ k[Len(g) + 1] = x
          /\ \A j \in 1..Len(g) : k[j] = g[j]
        <3>1. g \in Seq(A) /\ x \in A
            BY <1>2, <1>4
        <3> QED BY <3>1, AppendProperties
    <2> HIDE DEF k
    <2> QED BY <1>4, <2>1
<1> HIDE DEF k
<1>7. ASSUME NEW j \in 1..(l + i) PROVE k[j] = h[j]
    <2>1. CASE j = l + i
        <3>1. l + (i - 1) + 1 = j /\ ~(j <= l) /\ j - l = i
            BY <1>1, <2>1
        <3> QED BY <1>3, <1>5, <1>6, <3>1
    <2>2. CASE j # l + i
        <3>1. j \in 1..(l + (i - 1)) /\ (~(j <= l) => j - l \in 1..(i - 1))
            BY <1>1, <2>2
        <3> QED BY <1>3, <1>4, <1>5, <1>6, <3>1
    <2> QED BY <2>1, <2>2
<1>8. k = h
    <2>1. l + (i - 1) + 1 = l + i
        BY <1>1
    <2> QED BY <1>5, <1>6, <1>7, <2>1, SeqEqual
<1> QED BY <1>8 DEF k, g, h, u, v, x

(* An element that is in no part is not in the whole *)
LEMMA SumIsWithout ==
    ASSUME NEW S, NEW s \in Seq(S), NEW t \in Seq(S), NEW q,
           \A i \in 1..Len(s) : s[i] # q, \A i \in 1..Len(t) : t[i] # q
    PROVE  \A i \in 1..Len(s \o t) : (s \o t)[i] # q
<1> DEFINE c == s \o t
           l == Len(s)
           m == Len(t)
<1>1. /\ Len(c) = l + m /\ l \in Nat /\ m \in Nat
      /\ \A i \in 1..(l + m) : c[i] = IF i <= l THEN s[i] ELSE t[i - l]
    BY ConcatProperties
<1>2. /\ \A i \in 1..l : s[i] # q
      /\ \A i \in 1..m : t[i] # q
    OBVIOUS
<1> HIDE DEF c, l, m
<1>3. ASSUME NEW i \in 1..Len(c) PROVE c[i] # q
    <2>1. i \in 1..(l + m)
        BY <1>1
    <2>2. CASE i <= l
        <3>1. i \in 1..l /\ c[i] = s[i]
            BY <1>1, <2>1, <2>2
        <3> QED BY <1>2, <3>1
    <2>3. CASE ~(i <= l)
        <3>1. i - l \in 1..m /\ c[i] = t[i - l]
            BY <1>1, <2>1, <2>3
        <3> QED BY <1>2, <3>1
    <2> QED BY <2>2, <2>3
<1> QED BY <1>3 DEF c

(* The steps that the elements of s make, one after the other, lead from a *)
(* to b; the states are in T                                               *)
Along(P, step, a, s, b, T) ==
    /\ P \in [0..Len(s) -> T] /\ P[0] = a /\ P[Len(s)] = b
    /\ \A i \in 1..Len(s) : P[i] = step[s[i]][P[i - 1]]
Runs(step, a, s, b, T) == \E P : Along(P, step, a, s, b, T)

LEMMA RunIsOne ==
    ASSUME NEW step, NEW a, NEW s, Len(s) \in Nat, NEW b, NEW c, NEW T,
           Runs(step, a, s, b, T), Runs(step, a, s, c, T)
    PROVE  b = c
<1>1. PICK P : Along(P, step, a, s, b, T)
    BY DEF Runs
<1>2. PICK Q : Along(Q, step, a, s, c, T)
    BY DEF Runs
<1> DEFINE n == Len(s)
           S == {i \in 0..n : P[i] = Q[i]}
<1>3. 0 \in S /\ n \in 0..n /\ n \in Int /\ 0 \in Int
    BY <1>1, <1>2 DEF Along
<1>4. ASSUME NEW i \in (0 + 1)..n, i - 1 \in S PROVE i \in S
    <2>1. i \in 1..n /\ i \in 0..n
        OBVIOUS
    <2> QED BY <1>1, <1>2, <1>4, <2>1 DEF Along
<1>5. n \in S
    <2> HIDE DEF S, n
    <2> QED BY <1>3, <1>4, Induction
<1> QED BY <1>1, <1>2, <1>5 DEF Along

LEMMA RunOfNone ==
    ASSUME NEW step, NEW T, NEW a \in T
    PROVE  Runs(step, a, <<>>, a, T)
<1> DEFINE P == [i \in 0..0 |-> a]
<1>1. Along(P, step, a, <<>>, a, T)
    <2>1. Len(<<>>) = 0 /\ 1..0 = {} /\ 0 \in 0..0
        OBVIOUS
    <2> QED BY <2>1 DEF Along
<1> QED BY <1>1 DEF Runs

LEMMA RunOfOne ==
    ASSUME NEW step, NEW T, NEW a \in T, NEW s, step[s][a] \in T
    PROVE  Runs(step, a, <<s>>, step[s][a], T)
<1> DEFINE b == step[s][a]
           P == [i \in 0..1 |-> IF i = 0 THEN a ELSE b]
           t == <<s>>
<1>1. Len(t) = 1 /\ t[1] = s
    OBVIOUS
<1>2. P \in [0..1 -> T] /\ P[0] = a /\ P[1] = b
    OBVIOUS
<1>3. \A i \in 1..1 : i = 1 /\ 1 - 1 = 0
    OBVIOUS
<1> HIDE DEF t, P
<1>4. Along(P, step, a, t, b, T)
    BY <1>1, <1>2, <1>3 DEF Along, b
<1> HIDE DEF b
<1>5. Runs(step, a, t, b, T)
    BY <1>4 DEF Runs
<1> QED BY <1>5 DEF b, t

LEMMA RunOn ==
    ASSUME NEW S, NEW s \in Seq(S), NEW t \in Seq(S), NEW step, NEW a, NEW b, NEW c, NEW T,
           Runs(step, a, s, b, T), Runs(step, b, t, c, T)
    PROVE  Runs(step, a, s \o t, c, T)
<1>1. PICK P : Along(P, step, a, s, b, T)
    BY DEF Runs
<1>2. PICK Q : Along(Q, step, b, t, c, T)
    BY DEF Runs
<1> DEFINE u == s \o t
           m == Len(s)
           n == Len(t)
           R == [i \in 0..(m + n) |-> IF i <= m THEN P[i] ELSE Q[i - m]]
<1>3. /\ m \in Nat /\ n \in Nat /\ Len(u) = m + n
      /\ \A i \in 1..(m + n) : u[i] = IF i <= m THEN s[i] ELSE t[i - m]
    BY ConcatProperties
<1>4. /\ P \in [0..m -> T] /\ P[0] = a /\ P[m] = b
      /\ \A i \in 1..m : P[i] = step[s[i]][P[i - 1]]
    BY <1>1 DEF Along
<1>5. /\ Q \in [0..n -> T] /\ Q[0] = b /\ Q[n] = c
      /\ \A i \in 1..n : Q[i] = step[t[i]][Q[i - 1]]
    BY <1>2 DEF Along
<1> HIDE DEF m, n, u
<1>6. R \in [0..(m + n) -> T]
    <2> SUFFICES ASSUME NEW i \in 0..(m + n) PROVE (IF i <= m THEN P[i] ELSE Q[i - m]) \in T
        OBVIOUS
    <2>1. CASE i <= m
        BY <1>3, <1>4, <2>1
    <2>2. CASE ~(i <= m)
        <3>1. i - m \in 0..n
            BY <1>3, <2>2
        <3> QED BY <1>5, <2>2, <3>1
    <2> QED BY <2>1, <2>2
<1>7. R[0] = a
    BY <1>3, <1>4
<1>8. R[m + n] = c
    <2>1. CASE n = 0
        <3>1. m + n = m /\ m \in 0..(m + n) /\ m <= m
            BY <1>3, <2>1
        <3> QED BY <1>4, <1>5, <2>1, <3>1
    <2>2. CASE n # 0
        <3>1. m \in Nat /\ n \in Nat
            BY <1>3
        <3>2. \A i \in 0..(m + n) : ~(i <= m) => R[i] = Q[i - m]
            OBVIOUS
        <3> DEFINE e == m + n
        <3>3. e \in 0..(m + n) /\ ~(e <= m) /\ e - m = n
            BY <2>2, <3>1
        <3> HIDE DEF R, e
        <3>4. R[e] = c
            BY <1>5, <3>2, <3>3
        <3> QED BY <3>4 DEF e
    <2> QED BY <2>1, <2>2
<1>9. ASSUME NEW i \in 1..(m + n) PROVE R[i] = step[u[i]][R[i - 1]]
    <2>1. i \in 0..(m + n) /\ i - 1 \in 0..(m + n)
        BY <1>3
    <2>2. CASE i <= m
        <3>1. i \in 1..m /\ i - 1 <= m
            BY <1>3, <2>2
        <3>2. R[i] = P[i] /\ R[i - 1] = P[i - 1] /\ u[i] = s[i]
            BY <1>3, <2>1, <2>2, <3>1
        <3> HIDE DEF R
        <3> QED BY <1>4, <3>1, <3>2
    <2>3. CASE ~(i <= m)
        <3>1. i - m \in 1..n /\ i - 1 - m = i - m - 1
            BY <1>3, <2>3
        <3>2. R[i] = Q[i - m] /\ u[i] = t[i - m]
            BY <1>3, <2>1, <2>3
        <3>3. R[i - 1] = Q[i - m - 1]
            <4>1. CASE i - 1 <= m
                <5>1. i - 1 = m /\ i - m - 1 = 0
                    BY <1>3, <2>3, <4>1
                <5>2. R[i - 1] = P[i - 1]
                    BY <2>1, <4>1
                <5> HIDE DEF R
                <5> QED BY <1>4, <1>5, <5>1, <5>2
            <4>2. CASE ~(i - 1 <= m)
                BY <2>1, <3>1, <4>2
            <4> QED BY <4>1, <4>2
        <3> HIDE DEF R
        <3> QED BY <1>5, <3>1, <3>2, <3>3
    <2> QED BY <2>2, <2>3
<1> HIDE DEF R
<1>10. Along(R, step, a, u, c, T)
    BY <1>3, <1>6, <1>7, <1>8, <1>9 DEF Along
<1> QED BY <1>10 DEF Runs, u

(* All of s makes no step *)
LEMMA RunStays ==
    ASSUME NEW S, NEW s \in Seq(S), NEW step, NEW T, NEW a \in T,
           \A i \in 1..Len(s) : step[s[i]][a] = a
    PROVE  Runs(step, a, s, a, T)
<1> DEFINE n == Len(s)
           P == [i \in 0..n |-> a]
<1>1. n \in Nat /\ n \in 0..n /\ 0 \in 0..n /\ \A i \in 1..n : i \in 0..n /\ i - 1 \in 0..n
    OBVIOUS
<1>2. P \in [0..n -> T] /\ \A i \in 0..n : P[i] = a
    OBVIOUS
<1> HIDE DEF P
<1>3. Along(P, step, a, s, a, T)
    BY <1>1, <1>2 DEF Along
<1> QED BY <1>3 DEF Runs

(* Only the first of s makes a step *)
LEMMA RunSettles ==
    ASSUME NEW S, NEW s \in Seq(S), s # <<>>, NEW step, NEW T, NEW a \in T, NEW b \in T,
           \A i \in 1..Len(s) : step[s[i]][a] = b /\ step[s[i]][b] = b
    PROVE  Runs(step, a, s, b, T)
<1> DEFINE n == Len(s)
           P == [i \in 0..n |-> IF i = 0 THEN a ELSE b]
<1>1. n \in Nat /\ n # 0
    BY EmptySeq
<1>2. n \in 0..n /\ 0 \in 0..n /\ \A i \in 1..n : i \in 0..n /\ i - 1 \in 0..n /\ i # 0
    BY <1>1
<1>3. P \in [0..n -> T] /\ P[0] = a /\ \A i \in 0..n : i # 0 => P[i] = b
    BY <1>2
<1>4. \A i \in 0..n : P[i] \in {a, b}
    OBVIOUS
<1> HIDE DEF P, n
<1>5. \A i \in 1..n : step[s[i]][P[i - 1]] = b
    BY <1>2, <1>4 DEF n
<1>6. Along(P, step, a, s, b, T)
    BY <1>1, <1>2, <1>3, <1>5 DEF Along, n
<1> QED BY <1>6 DEF Runs

(* From state to state over the texts, and so over all of them together *)
LEMMA RunOver ==
    ASSUME NEW S, NEW texts \in Seq(Seq(S)), NEW step, NEW T, NEW C, C[0] \in T,
           \A i \in 1..Len(texts) : Runs(step, C[i - 1], texts[i], C[i], T)
    PROVE  Runs(step, C[0], FlattenSeq(texts), C[Len(texts)], T)
<1> DEFINE n == Len(texts)
<1>1. PICK acc : PutTogether(acc, texts, S) /\ FlattenSeq(texts) = acc[n]
    BY Flattened
<1>2. n \in Nat /\ \A i \in 1..n : texts[i] \in Seq(S)
    BY ElementOfSeq
<1>3. /\ \A i \in 0..n : acc[i] \in Seq(S)
      /\ acc[0] = <<>> /\ \A i \in 1..n : acc[i] = acc[i - 1] \o texts[i]
    BY <1>1 DEF PutTogether
<1> DEFINE In == {i \in 0..n : Runs(step, C[0], acc[i], C[i], T)}
<1>4. 0 \in In
    BY <1>2, <1>3, RunOfNone
<1>5. ASSUME NEW i \in (0 + 1)..n, i - 1 \in In PROVE i \in In
    <2>1. i \in 1..n /\ i - 1 \in 0..n /\ i \in 0..n
        BY <1>2
    <2>2. Runs(step, C[0], acc[i - 1], C[i - 1], T) /\ Runs(step, C[i - 1], texts[i], C[i], T)
        BY <1>5, <2>1
    <2>3. acc[i - 1] \in Seq(S) /\ texts[i] \in Seq(S) /\ acc[i] = acc[i - 1] \o texts[i]
        BY <1>2, <1>3, <2>1
    <2>4. Runs(step, C[0], acc[i - 1] \o texts[i], C[i], T)
        BY <2>2, <2>3, RunOn
    <2> QED BY <2>1, <2>3, <2>4
<1>6. n \in In
    <2>1. n \in Int /\ 0 \in Int /\ n \in 0..n
        BY <1>2
    <2> HIDE DEF In
    <2> QED BY <1>4, <1>5, <2>1, Induction
<1> QED BY <1>1, <1>6

(* Each element of w is put behind what there is *)
LEMMA RunGrows ==
    ASSUME NEW S, NEW w \in Seq(S), NEW step, NEW T, NEW D \in SUBSET Seq(S),
           NEW A \in [D -> T], NEW f \in D,
           \A u \in D : \A i \in 1..Len(w) : /\ Append(u, w[i]) \in D
                                             /\ step[w[i]][A[u]] = A[Append(u, w[i])]
    PROVE  f \o w \in D /\ Runs(step, A[f], w, A[f \o w], T)
<1> DEFINE n    == Len(w)
           G(i) == f \o Upto(w, i)
           P    == [i \in 0..n |-> A[G(i)]]
           In   == {i \in 0..n : G(i) \in D}
<1>1. n \in Nat /\ n \in 0..n /\ 0 \in 0..n /\ \A i \in 1..n : i \in 0..n /\ i - 1 \in 0..n
    OBVIOUS
<1>2. Upto(w, 0) = <<>> /\ Upto(w, n) = w
    BY UptoOf
<1>4. G(0) = f /\ G(n) = f \o w
    BY <1>2, ConcatEmptySeq
<1>5. ASSUME NEW i \in 1..n PROVE Append(G(i - 1), w[i]) = G(i)
    BY UptoBehind
<1>0. ASSUME NEW u \in D, NEW i \in 1..n
      PROVE  Append(u, w[i]) \in D /\ step[w[i]][A[u]] = A[Append(u, w[i])]
    OBVIOUS
<1> HIDE DEF G, n
<1>3. \A i \in 0..n : i \in In
    <2>1. 0 \in In
        BY <1>1, <1>4
    <2>2. ASSUME NEW i \in (0 + 1)..n, i - 1 \in In PROVE i \in In
        <3>1. i \in 1..n /\ i \in 0..n
            BY <1>1
        <3>2. G(i - 1) \in D /\ Append(G(i - 1), w[i]) = G(i)
            BY <1>5, <2>2, <3>1
        <3> QED BY <1>0, <3>1, <3>2
    <2>3. 0 \in Int /\ n \in Int
        BY <1>1
    <2> HIDE DEF In
    <2> QED BY <2>1, <2>2, <2>3, Induction
<1>6. P \in [0..n -> T] /\ P[0] = A[f] /\ P[n] = A[f \o w] /\ f \o w \in D
    BY <1>1, <1>3, <1>4
<1>7. ASSUME NEW i \in 1..n PROVE P[i] = step[w[i]][P[i - 1]]
    <2>1. P[i] = A[G(i)] /\ P[i - 1] = A[G(i - 1)]
        BY <1>1
    <2>2. G(i - 1) \in D /\ Append(G(i - 1), w[i]) = G(i)
        BY <1>1, <1>3, <1>5
    <2> HIDE DEF P
    <2> QED BY <1>0, <2>1, <2>2
<1> HIDE DEF P
<1>8. Along(P, step, A[f], w, A[f \o w], T)
    BY <1>6, <1>7 DEF Along, n
<1> QED BY <1>6, <1>8 DEF Runs
==============================================================================
