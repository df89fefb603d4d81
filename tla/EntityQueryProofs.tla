--------------------------- MODULE EntityQueryProofs ---------------------------
(***************************************************************************)
(* Proofs of the safety properties of EntityQuery, for every set of        *)
(* requests, number of resources and value of the breaker's parameters.    *)
(***************************************************************************)
EXTENDS EntityQuery, FiniteSetTheorems, TLAPS

(* What the locals of a request say at each place of QueryResources *)
LocalOK(p) ==
    /\ pc[p] \notin {"idle", "loadFailures"} => idx[p] \in Resources
    /\ pc[p] = "storeLast" => failTime[p] > 0
    /\ pc[p] \in {"call", "addFailure"} =>
           /\ cbState[p] # CBStateOpen
           /\ cbState[p] = CBStateHalfOpen <=> seenFailures[p] >= CBMaxFailures
    /\ pc[p] \in {"resetLast", "resetFailures"} =>
           /\ cbState[p] = CBStateHalfOpen
           /\ seenFailures[p] >= CBMaxFailures

LocalsOK == \A p \in Requests : LocalOK(p)

TypeInv == TypeOK /\ LocalsOK

(* The classification is closed exactly below the limit *)
LEMMA StateOfFacts ==
    ASSUME NEW f \in Nat, NEW l \in Nat, NEW t \in Nat
    PROVE  /\ StateOf(f, l, t) \in BreakerStates
           /\ StateOf(f, l, t) = CBStateClosed => f < CBMaxFailures
           /\ StateOf(f, l, t) = CBStateHalfOpen => f >= CBMaxFailures
BY BreakerAssumption
   DEF StateOf, BreakerStates, CBStateOpen, CBStateHalfOpen, CBStateClosed

(* The part of TypeOK that is about the locals of the requests *)
LocalTypes ==
    /\ pc \in [Requests -> Locations]
    /\ idx \in [Requests -> 1..(NumResources + 1)]
    /\ seenFailures \in [Requests -> Nat]
    /\ seenLast \in [Requests -> Nat]
    /\ cbState \in [Requests -> BreakerStates]
    /\ failTime \in [Requests -> Nat]
    /\ cancelled \subseteq Requests

(* The part that is about the clock and the breakers *)
SharedTypes ==
    /\ now \in Nat \ {0}
    /\ failures \in [Resources -> Nat]
    /\ lastFailure \in [Resources -> Nat]
    /\ failedProbes \in [Resources -> Nat]

(* The type invariant splits into the types of locals and of shared words *)
LEMMA TypeParts == TypeOK <=> LocalTypes /\ SharedTypes
BY DEF TypeOK, LocalTypes, SharedTypes

(* A counter that is cleared in one place keeps its type *)
LEMMA ClearedEntry ==
    ASSUME NEW S, NEW f \in [S -> Nat], NEW x
    PROVE  [f EXCEPT ![x] = 0] \in [S -> Nat]
OBVIOUS

(* So does one that is increased in one place *)
LEMMA IncreasedEntry ==
    ASSUME NEW S, NEW f \in [S -> Nat], NEW x \in S
    PROVE  [f EXCEPT ![x] = @ + 1] \in [S -> Nat]
OBVIOUS

(* Returning from the query leaves the locals as Init has them *)
LEMMA ReturnLocals ==
    ASSUME LocalTypes, LocalsOK, NEW p \in Requests, Return(p)
    PROVE  LocalTypes' /\ LocalsOK'
<1> USE DEF LocalTypes, LocalsOK, Return, GoTo, Locations, BreakerStates,
            CBStateOpen, CBStateHalfOpen, CBStateClosed
<1>1. 1 \in 1..(NumResources + 1)
    BY QueryAssumption
<1>2. LocalTypes'
    BY <1>1
<1>3. ASSUME NEW q \in Requests PROVE LocalOK(q)'
    <2>1. CASE q = p
        BY <2>1 DEF LocalOK
    <2>2. CASE q # p
        BY <2>2 DEF LocalOK
    <2> QED BY <2>1, <2>2
<1> QED BY <1>2, <1>3

(* Going on to the next resource keeps the index within the list or just behind it *)
LEMMA NextLocals ==
    ASSUME LocalTypes, LocalsOK, NEW p \in Requests, NextResource(p),
           pc[p] \notin {"idle", "loadFailures"}
    PROVE  LocalTypes' /\ LocalsOK'
<1> USE DEF LocalTypes, LocalsOK, NextResource, GoTo, Locations, BreakerStates,
            CBStateOpen, CBStateHalfOpen, CBStateClosed
<1>1. idx[p] + 1 \in 1..(NumResources + 1)
    BY QueryAssumption DEF LocalOK, Resources
<1>2. LocalTypes'
    BY <1>1
<1>3. ASSUME NEW q \in Requests PROVE LocalOK(q)'
    <2>1. CASE q = p
        BY <2>1 DEF LocalOK
    <2>2. CASE q # p
        BY <2>2 DEF LocalOK
    <2> QED BY <2>1, <2>2
<1> QED BY <1>2, <1>3

(* The server starts with well-typed variables *)
LEMMA TypeInvInit == Init => TypeInv
BY QueryAssumption
   DEF Init, TypeInv, TypeOK, LocalsOK, LocalOK, Locations, Resources, BreakerStates,
       CBStateOpen, CBStateHalfOpen, CBStateClosed

(* Every action keeps the types and the facts on the locals *)
LEMMA TypeInvStep == TypeInv /\ [Next]_vars => TypeInv'
<1> SUFFICES ASSUME TypeOK, LocalsOK, [Next]_vars PROVE TypeOK' /\ LocalsOK'
    BY DEF TypeInv
<1> USE QueryAssumption, BreakerAssumption
    DEF Locations, Resources, BreakerStates, GoTo,
        CBStateOpen, CBStateHalfOpen, CBStateClosed, breakers, locals
<1>1. CASE UNCHANGED vars
    BY <1>1 DEF vars, TypeOK, LocalsOK, LocalOK
<1>2. CASE Tick
    <2>1. now' \in Nat \ {0} /\ UNCHANGED <<breakers, pc, idx, locals, cancelled>>
        BY <1>2 DEF Tick, TypeOK
    <2> QED BY <2>1 DEF TypeOK, LocalsOK, LocalOK
<1>3. ASSUME NEW p \in Requests, ClientLeaves(p) PROVE TypeOK' /\ LocalsOK'
    BY <1>3 DEF ClientLeaves, TypeOK, LocalsOK, LocalOK
<1>4. ASSUME NEW p \in Requests, Step(p) PROVE TypeOK' /\ LocalsOK'
    <2>1. CASE Start(p)
        <3>1. TypeOK'
            <4>1. SharedTypes'
                BY <2>1, TypeParts DEF Start, SharedTypes
            <4>2. 1 \in 1..(NumResources + 1) /\ "loadFailures" \in Locations
                OBVIOUS
            <4> HIDE DEF Locations
            <4>3. LocalTypes'
                BY <2>1, <4>2, TypeParts DEF Start, LocalTypes
            <4> QED BY <4>1, <4>3 DEF LocalTypes, SharedTypes, TypeOK
        <3>2. ASSUME NEW q \in Requests PROVE LocalOK(q)'
            BY <2>1 DEF Start, TypeOK, LocalsOK, LocalOK
        <3> QED BY <3>1, <3>2 DEF LocalsOK
    <2>2. CASE GiveUp(p)
        <3>1. SharedTypes'
            BY <2>2, TypeParts DEF GiveUp, SharedTypes, TypeOK
        <3>2. LocalTypes' /\ LocalsOK'
            BY <2>2, TypeParts, ReturnLocals DEF GiveUp
        <3> QED BY <3>1, <3>2, TypeParts DEF LocalTypes, SharedTypes, TypeOK
    <2>3. CASE LoadFailures(p)
        <3>1. TypeOK'
            BY <2>3 DEF LoadFailures, TypeOK, LocalsOK, LocalOK
        <3>2. ASSUME NEW q \in Requests PROVE LocalOK(q)'
            BY <2>3 DEF LoadFailures, TypeOK, LocalsOK, LocalOK
        <3> QED BY <3>1, <3>2 DEF LocalsOK
    <2>4. CASE LoadLastFailure(p)
        <3>1. TypeOK'
            BY <2>4 DEF LoadLastFailure, TypeOK, LocalsOK, LocalOK
        <3>2. ASSUME NEW q \in Requests PROVE LocalOK(q)'
            BY <2>4 DEF LoadLastFailure, TypeOK, LocalsOK, LocalOK
        <3> QED BY <3>1, <3>2 DEF LocalsOK
    <2>5. CASE Classify(p)
        <3> DEFINE state == StateOf(seenFailures[p], seenLast[p], now)
        <3>1. /\ state \in BreakerStates
              /\ state = CBStateClosed => seenFailures[p] < CBMaxFailures
              /\ state = CBStateHalfOpen => seenFailures[p] >= CBMaxFailures
            <4>1. seenFailures[p] \in Nat /\ seenLast[p] \in Nat /\ now \in Nat
                BY DEF TypeOK
            <4> QED BY <4>1, StateOfFacts
        <3> HIDE DEF state
        <3>2. UNCHANGED <<now, breakers>> /\ pc[p] = "classify"
            BY <2>5 DEF Classify
        <3>3. CASE state = CBStateOpen /\ NextResource(p)
            <4>1. LocalTypes' /\ LocalsOK'
                BY <3>2, <3>3, TypeParts, NextLocals
            <4>2. SharedTypes'
                BY <3>2, TypeParts DEF SharedTypes
            <4> QED BY <4>1, <4>2 DEF LocalTypes, SharedTypes, TypeOK
        <3>4. CASE /\ state # CBStateOpen
                   /\ cbState' = [cbState EXCEPT ![p] = state]
                   /\ GoTo(p, "call")
                   /\ UNCHANGED <<idx, seenFailures, seenLast, failTime, cancelled>>
            <4>1. TypeOK'
                BY <3>1, <3>2, <3>4 DEF TypeOK
            <4>2. ASSUME NEW q \in Requests PROVE LocalOK(q)'
                BY <3>1, <3>2, <3>4 DEF TypeOK, LocalsOK, LocalOK
            <4> QED BY <4>1, <4>2 DEF LocalsOK
        <3> QED BY <2>5, <3>3, <3>4 DEF Classify, state
    <2>6. CASE CallNotFound(p)
        <3>1. SharedTypes'
            BY <2>6, TypeParts DEF CallNotFound, SharedTypes, TypeOK
        <3>2. LocalTypes' /\ LocalsOK'
            BY <2>6, TypeParts, NextLocals DEF CallNotFound
        <3> QED BY <3>1, <3>2, TypeParts DEF LocalTypes, SharedTypes, TypeOK
    <2>7. CASE CallFails(p)
        <3>1. TypeOK'
            BY <2>7 DEF CallFails, TypeOK, LocalsOK, LocalOK
        <3>2. ASSUME NEW q \in Requests PROVE LocalOK(q)'
            BY <2>7 DEF CallFails, TypeOK, LocalsOK, LocalOK
        <3> QED BY <3>1, <3>2 DEF LocalsOK
    <2>8. CASE CallSucceeds(p)
        <3>1. CASE Return(p)
            <4>1. SharedTypes'
                BY <2>8, TypeParts DEF CallSucceeds, SharedTypes
            <4>2. LocalTypes' /\ LocalsOK'
                BY <3>1, TypeParts, ReturnLocals
            <4> QED BY <4>1, <4>2 DEF LocalTypes, SharedTypes, TypeOK
        <3>2. CASE /\ pc[p] = "call" /\ cbState[p] = CBStateHalfOpen
                   /\ GoTo(p, "resetLast")
                   /\ UNCHANGED <<now, breakers, idx, locals, cancelled>>
            <4>1. TypeOK'
                BY <3>2 DEF TypeOK
            <4>2. ASSUME NEW q \in Requests PROVE LocalOK(q)'
                BY <3>2 DEF TypeOK, LocalsOK, LocalOK
            <4> QED BY <4>1, <4>2 DEF LocalsOK
        <3> QED BY <2>8, <3>1, <3>2 DEF CallSucceeds
    <2>9. CASE AddFailure(p)
        <3>1. SharedTypes'
            <4>1. idx[p] \in Resources
                BY <2>9 DEF AddFailure, LocalsOK, LocalOK
            <4>2. failures' \in [Resources -> Nat]
                <5>1. failures' = [failures EXCEPT ![idx[p]] = @ + 1]
                    BY <2>9 DEF AddFailure
                <5>2. failures \in [Resources -> Nat]
                    BY DEF TypeOK
                <5> HIDE DEF Resources
                <5> QED BY <4>1, <5>1, <5>2, IncreasedEntry
            <4>3. failedProbes' \in [Resources -> Nat]
                <5>1. \/ failedProbes' = failedProbes
                      \/ failedProbes' = [failedProbes EXCEPT ![idx[p]] = @ + 1]
                    <6>1. cbState[p] = CBStateHalfOpen \/ cbState[p] # CBStateHalfOpen
                        OBVIOUS
                    <6>2. failedProbes \in [Resources -> Nat]
                        BY DEF TypeOK
                    <6> QED BY <2>9, <6>1, <6>2 DEF AddFailure
                <5>2. failedProbes \in [Resources -> Nat]
                    BY DEF TypeOK
                <5> HIDE DEF Resources
                <5> QED BY <4>1, <5>1, <5>2, IncreasedEntry
            <4> QED BY <2>9, <4>2, <4>3 DEF AddFailure, SharedTypes, TypeOK
        <3>2. LocalTypes'
            BY <2>9 DEF AddFailure, LocalTypes, TypeOK
        <3>3. ASSUME NEW q \in Requests PROVE LocalOK(q)'
            BY <2>9 DEF AddFailure, TypeOK, LocalsOK, LocalOK
        <3> QED BY <3>1, <3>2, <3>3 DEF LocalsOK, LocalTypes, SharedTypes, TypeOK
    <2>10. CASE ReadClock(p)
        <3>1. TypeOK'
            BY <2>10 DEF ReadClock, TypeOK, LocalsOK, LocalOK
        <3>2. ASSUME NEW q \in Requests PROVE LocalOK(q)'
            BY <2>10 DEF ReadClock, TypeOK, LocalsOK, LocalOK
        <3> QED BY <3>1, <3>2 DEF LocalsOK
    <2>11. CASE StoreLastFailure(p)
        <3>1. SharedTypes'
            BY <2>11 DEF StoreLastFailure, SharedTypes, TypeOK
        <3>2. LocalTypes' /\ LocalsOK'
            BY <2>11, TypeParts, NextLocals DEF StoreLastFailure
        <3> QED BY <3>1, <3>2 DEF LocalTypes, SharedTypes, TypeOK
    <2>12. CASE CBReset(p)
        <3>1. SharedTypes'
            <4>1. failures' \in [Resources -> Nat]
                <5>1. \/ failures' = failures
                      \/ failures' = [failures EXCEPT ![idx[p]] = 0]
                    BY <2>12 DEF CBReset
                <5>2. failures \in [Resources -> Nat]
                    BY DEF TypeOK
                <5> HIDE DEF Resources
                <5> QED BY <5>1, <5>2, ClearedEntry
            <4>2. failedProbes' \in [Resources -> Nat]
                <5>1. \/ failedProbes' = failedProbes
                      \/ failedProbes' = [failedProbes EXCEPT ![idx[p]] = 0]
                    BY <2>12 DEF CBReset
                <5>2. failedProbes \in [Resources -> Nat]
                    BY DEF TypeOK
                <5> HIDE DEF Resources
                <5> QED BY <5>1, <5>2, ClearedEntry
            <4>3. lastFailure' \in [Resources -> Nat]
                <5>1. \/ lastFailure' = lastFailure
                      \/ lastFailure' = [lastFailure EXCEPT ![idx[p]] = 0]
                    BY <2>12 DEF CBReset
                <5>2. lastFailure \in [Resources -> Nat]
                    BY DEF TypeOK
                <5> HIDE DEF Resources
                <5> QED BY <5>1, <5>2, ClearedEntry
            <4>4. now' = now
                BY <2>12 DEF CBReset
            <4> QED BY <4>1, <4>2, <4>3, <4>4 DEF SharedTypes, TypeOK
        <3>2. CASE Return(p)
            <4>1. LocalTypes' /\ LocalsOK'
                BY <3>2, TypeParts, ReturnLocals
            <4> QED BY <3>1, <4>1 DEF LocalTypes, SharedTypes, TypeOK
        <3>3. CASE /\ pc[p] = "resetLast" /\ GoTo(p, "resetFailures")
                   /\ UNCHANGED <<idx, locals, cancelled>>
            <4>1. LocalTypes'
                BY <3>3 DEF LocalTypes, TypeOK
            <4>2. ASSUME NEW q \in Requests PROVE LocalOK(q)'
                BY <3>3 DEF TypeOK, LocalsOK, LocalOK
            <4> QED BY <3>1, <4>1, <4>2 DEF LocalsOK, LocalTypes, SharedTypes, TypeOK
        <3> QED BY <2>12, <3>2, <3>3 DEF CBReset
    <2> QED BY <1>4, <2>1, <2>2, <2>3, <2>4, <2>5, <2>6, <2>7, <2>8, <2>9,
               <2>10, <2>11, <2>12 DEF Step
<1> QED BY <1>1, <1>2, <1>3, <1>4 DEF Next

(* Every variable keeps its type, and the locals of a request agree with   *)
(* the place it is at                                                      *)
THEOREM TypeCorrect == Spec => []TypeOK
<1>1. Init => TypeInv
    BY TypeInvInit
<1>2. TypeInv /\ [Next]_vars => TypeInv'
    BY TypeInvStep
<1>3. TypeInv => TypeOK
    BY DEF TypeInv
<1> QED BY <1>1, <1>2, <1>3, PTL DEF Spec
-------------------------------------------------------------------------------
(* The dated failures.  The invariant is inductive with the types: storing *)
(* a time stores a positive one, and a request that clears the time is     *)
(* pending until it has cleared the counter.                               *)

(* Every action keeps a breaker with failures dated *)
LEMMA DatedStep ==
    TypeInv /\ FailuresAreDated /\ [Next]_vars => FailuresAreDated'
<1> SUFFICES ASSUME TypeOK, LocalsOK, FailuresAreDated, [Next]_vars,
                    NEW r \in Resources,
                    failures'[r] > 0, lastFailure'[r] = 0
             PROVE  Pending(r)'
    BY DEF TypeInv, FailuresAreDated
<1> USE DEF breakers, locals, Locations, GoTo
<1>1. CASE UNCHANGED vars
    BY <1>1 DEF vars, FailuresAreDated, Pending, Recording
<1>2. CASE Tick
    BY <1>2 DEF Tick, FailuresAreDated, Pending, Recording
<1>3. ASSUME NEW p \in Requests, ClientLeaves(p) PROVE Pending(r)'
    BY <1>3 DEF ClientLeaves, FailuresAreDated, Pending, Recording
<1>4. ASSUME NEW p \in Requests, Step(p) PROVE Pending(r)'
    <2> DEFINE Waits(q) == idx[q] = r /\ (Recording(q) \/ pc[q] = "resetFailures")
    <2>1. ASSUME UNCHANGED <<failures, lastFailure>>, ~Waits(p),
                 \A q \in Requests \ {p} : pc'[q] = pc[q] /\ idx'[q] = idx[q]
          PROVE  Pending(r)'
        <3>1. Pending(r)
            BY <2>1 DEF FailuresAreDated
        <3>2. PICK q \in Requests : Waits(q)
            BY <3>1 DEF Pending
        <3>3. q # p
            BY <2>1, <3>2
        <3> QED BY <2>1, <3>2, <3>3 DEF Pending, Recording
    <2>2. CASE Start(p)
        BY <2>1, <2>2 DEF Start, Recording, TypeOK
    <2>3. CASE GiveUp(p)
        BY <2>1, <2>3 DEF GiveUp, Return, Recording, TypeOK
    <2>4. CASE LoadFailures(p)
        BY <2>1, <2>4 DEF LoadFailures, Recording, TypeOK
    <2>5. CASE LoadLastFailure(p)
        BY <2>1, <2>5 DEF LoadLastFailure, Recording, TypeOK
    <2>6. CASE Classify(p)
        BY <2>1, <2>6 DEF Classify, NextResource, Recording, TypeOK
    <2>7. CASE CallNotFound(p)
        BY <2>1, <2>7 DEF CallNotFound, NextResource, Recording, TypeOK
    <2>8. CASE CallFails(p)
        BY <2>1, <2>8 DEF CallFails, Recording, TypeOK
    <2>9. CASE CallSucceeds(p)
        BY <2>1, <2>9 DEF CallSucceeds, Return, Recording, TypeOK
    <2>10. CASE AddFailure(p)
        <3>1. CASE idx[p] = r
            BY <2>10, <3>1 DEF AddFailure, Pending, Recording, TypeOK
        <3>2. CASE idx[p] # r
            BY <2>10, <3>2 DEF AddFailure, Pending, Recording, TypeOK, FailuresAreDated
        <3> QED BY <3>1, <3>2
    <2>11. CASE ReadClock(p)
        BY <2>11 DEF ReadClock, Pending, Recording, TypeOK, FailuresAreDated
    <2>12. CASE StoreLastFailure(p)
        <3>1. CASE idx[p] = r
            <4>1. lastFailure'[r] = failTime[p]
                BY <2>12, <3>1 DEF StoreLastFailure, TypeOK
            <4>2. failTime[p] > 0
                BY <2>12 DEF StoreLastFailure, LocalsOK, LocalOK
            <4> QED BY <4>1, <4>2 DEF TypeOK
        <3>2. CASE idx[p] # r
            <4>1. failures'[r] = failures[r] /\ lastFailure'[r] = lastFailure[r]
                BY <2>12, <3>2 DEF StoreLastFailure, TypeOK
            <4>2. PICK q \in Requests : Waits(q)
                BY <4>1 DEF FailuresAreDated, Pending
            <4> QED BY <2>12, <3>2, <4>2
                    DEF StoreLastFailure, NextResource, Pending, Recording, TypeOK
        <3> QED BY <3>1, <3>2
    <2>13. CASE CBReset(p)
        <3>1. CASE pc[p] = "resetLast"
            <4>1. CASE idx[p] = r
                BY <2>13, <3>1, <4>1 DEF CBReset, Pending, TypeOK
            <4>2. CASE idx[p] # r
                <5>1. failures'[r] = failures[r] /\ lastFailure'[r] = lastFailure[r]
                    BY <2>13, <3>1, <4>2 DEF CBReset, TypeOK
                <5>2. PICK q \in Requests : Waits(q)
                    BY <5>1 DEF FailuresAreDated, Pending
                <5> QED BY <2>13, <3>1, <4>2, <5>2 DEF CBReset, Pending, Recording, TypeOK
            <4> QED BY <4>1, <4>2
        <3>2. CASE pc[p] = "resetFailures"
            <4>1. CASE idx[p] = r
                <5>1. failures'[r] = 0
                    BY <2>13, <3>2, <4>1 DEF CBReset, TypeOK
                <5> QED BY <5>1
            <4>2. CASE idx[p] # r
                <5>1. failures'[r] = failures[r] /\ lastFailure'[r] = lastFailure[r]
                    BY <2>13, <3>2, <4>2 DEF CBReset, TypeOK
                <5>2. PICK q \in Requests : Waits(q)
                    BY <5>1 DEF FailuresAreDated, Pending
                <5> QED BY <2>13, <3>2, <4>2, <5>2
                        DEF CBReset, Return, Pending, Recording, TypeOK
            <4> QED BY <4>1, <4>2
        <3> QED BY <2>13, <3>1, <3>2 DEF CBReset
    <2> QED BY <1>4, <2>2, <2>3, <2>4, <2>5, <2>6, <2>7, <2>8, <2>9, <2>10,
               <2>11, <2>12, <2>13 DEF Step
<1> QED BY <1>1, <1>2, <1>3, <1>4 DEF Next

(* A breaker that counts failures knows the time of one, but for requests  *)
(* that are between the two stores of CBRecordFailure or CBReset           *)
THEOREM FailuresDated == Spec => []FailuresAreDated
<1>1. Init => TypeInv /\ FailuresAreDated
    BY TypeInvInit DEF Init, FailuresAreDated
<1>2. TypeInv /\ FailuresAreDated /\ [Next]_vars => (TypeInv /\ FailuresAreDated)'
    BY TypeInvStep, DatedStep
<1> QED BY <1>1, <1>2, PTL DEF Spec
-------------------------------------------------------------------------------
(* Closing a breaker *)

(* Every action that lowers a count is the reset of a probe *)
LEMMA CloseStep == TypeInv /\ [Next]_vars => [CloseByProbe]_vars
<1> SUFFICES ASSUME TypeOK, LocalsOK, [Next]_vars,
                    NEW r \in Resources, failures'[r] < failures[r]
             PROVE  /\ failures'[r] = 0
                    /\ \E p \in Requests : /\ idx[p] = r
                                           /\ cbState[p] = CBStateHalfOpen
                                           /\ seenFailures[p] >= CBMaxFailures
    BY DEF TypeInv, CloseByProbe
<1> USE DEF breakers
<1>1. failures[r] \in Nat /\ failures' # failures
    BY DEF TypeOK
<1>2. PICK p \in Requests : AddFailure(p) \/ CBReset(p)
    BY <1>1 DEF Next, vars, Tick, Step, ClientLeaves, Start, GiveUp, LoadFailures,
                LoadLastFailure, Classify, CallNotFound, CallFails, CallSucceeds,
                ReadClock, StoreLastFailure
<1>3. ~AddFailure(p)
    BY <1>1 DEF AddFailure, TypeOK
<1>4. pc[p] = "resetFailures" /\ failures' = [failures EXCEPT ![idx[p]] = 0]
    BY <1>1, <1>2, <1>3 DEF CBReset
<1>5. idx[p] = r
    BY <1>1, <1>4 DEF TypeOK
<1> QED BY <1>4, <1>5 DEF LocalsOK, LocalOK, TypeOK

(* Only a successful probe of a half-open breaker takes failures off it *)
THEOREM ClosesByProbeOnly == Spec => ClosedOnlyByProbe
<1>1. Init => TypeInv
    BY TypeInvInit
<1>2. TypeInv /\ [Next]_vars => TypeInv'
    BY TypeInvStep
<1>3. TypeInv /\ [Next]_vars => [CloseByProbe]_vars
    BY CloseStep
<1> QED BY <1>1, <1>2, <1>3, PTL DEF Spec, ClosedOnlyByProbe

-------------------------------------------------------------------------------
(* The overshoot.  A request is admitted from its load of the counter to   *)
(* its add, while that load was below the limit.  Once the limit is        *)
(* reached nobody is admitted any more, and every failure that is not a    *)
(* probe's takes a request out of the admitted ones.                       *)

Admitted(r) == {p \in Requests : /\ idx[p] = r
                                 /\ seenFailures[p] < CBMaxFailures
                                 /\ pc[p] \in {"loadLast", "classify", "call", "addFailure"}}

Overshoot ==
    \A r \in Resources :
        failures[r] + Cardinality(Admitted(r))
            <= (CBMaxFailures - 1) + Cardinality(Requests) + failedProbes[r]

(* The requests admitted to a breaker are finitely many *)
LEMMA AdmittedFinite ==
    \A r : /\ IsFiniteSet(Admitted(r)) /\ Cardinality(Admitted(r)) \in Nat
           /\ Cardinality(Requests) \in Nat
           /\ Cardinality(Admitted(r)) <= Cardinality(Requests)
<1> TAKE r
<1>1. Admitted(r) \subseteq Requests
    BY DEF Admitted
<1> QED BY <1>1, QueryAssumption, FS_Subset, FS_CardinalityType

(* No breaker has overshot at the start *)
LEMMA OvershootInit == Init => Overshoot
<1> SUFFICES ASSUME Init, NEW r \in Resources
             PROVE  failures[r] + Cardinality(Admitted(r))
                    <= (CBMaxFailures - 1) + Cardinality(Requests) + failedProbes[r]
    BY DEF Overshoot
<1>1. failures[r] = 0 /\ failedProbes[r] = 0
    BY DEF Init
<1> QED BY <1>1, AdmittedFinite, BreakerAssumption

(* Every action keeps the bound on the overshoot *)
LEMMA OvershootStep == TypeInv /\ Overshoot /\ [Next]_vars => Overshoot'
<1> SUFFICES ASSUME TypeInv, TypeOK, TypeOK', LocalsOK, Overshoot, [Next]_vars,
                    NEW r \in Resources
             PROVE  failures'[r] + Cardinality(Admitted(r)')
                    <= (CBMaxFailures - 1) + Cardinality(Requests) + failedProbes'[r]
    BY TypeInvStep DEF TypeInv, Overshoot
<1> DEFINE A == Admitted(r)
           B == Admitted(r)'
<1>1. /\ failures[r] \in Nat /\ failures'[r] \in Nat
      /\ failedProbes[r] \in Nat /\ failedProbes'[r] \in Nat
      /\ IsFiniteSet(A) /\ Cardinality(A) \in Nat
      /\ Cardinality(Requests) \in Nat /\ CBMaxFailures \in Nat \ {0}
    BY AdmittedFinite, BreakerAssumption DEF TypeOK
<1>2. B \subseteq Requests /\ IsFiniteSet(B) /\ Cardinality(B) \in Nat
      /\ Cardinality(B) <= Cardinality(Requests)
    <2>1. B \subseteq Requests
        BY DEF Admitted
    <2> QED BY <2>1, QueryAssumption, FS_Subset, FS_CardinalityType
<1>3. failures[r] + Cardinality(A)
          <= (CBMaxFailures - 1) + Cardinality(Requests) + failedProbes[r]
    BY DEF Overshoot
<1> SUFFICES failures'[r] + Cardinality(B)
                 <= (CBMaxFailures - 1) + Cardinality(Requests) + failedProbes'[r]
    OBVIOUS
<1> HIDE DEF A, B
<1>4. CASE failures'[r] < CBMaxFailures
    BY <1>1, <1>2, <1>4
<1>5. CASE B \subseteq A /\ failures'[r] = failures[r] /\ failedProbes'[r] = failedProbes[r]
    <2>1. Cardinality(B) <= Cardinality(A)
        BY <1>1, <1>5, FS_Subset
    <2> QED BY <1>1, <1>2, <1>3, <1>5, <2>1
<1> SUFFICES ASSUME failures'[r] >= CBMaxFailures,
                    ~(/\ B \subseteq A
                      /\ failures'[r] = failures[r]
                      /\ failedProbes'[r] = failedProbes[r])
             PROVE  failures'[r] + Cardinality(B)
                    <= (CBMaxFailures - 1) + Cardinality(Requests) + failedProbes'[r]
    BY <1>1, <1>4, <1>5
<1> USE DEF breakers, locals, GoTo
<1>6. PICK p \in Requests : AddFailure(p)
    <2>1. CASE UNCHANGED vars
        BY <2>1 DEF vars, A, B, Admitted
    <2>2. CASE Tick
        BY <2>2 DEF Tick, A, B, Admitted
    <2>3. ASSUME NEW p \in Requests, ClientLeaves(p) PROVE FALSE
        BY <2>3 DEF ClientLeaves, A, B, Admitted
    <2>4. ASSUME NEW p \in Requests, Step(p), ~AddFailure(p) PROVE FALSE
        <3> USE DEF A, B, Admitted, TypeOK
        <3>1. CASE Start(p)
            BY <3>1 DEF Start
        <3>2. CASE GiveUp(p)
            BY <3>2 DEF GiveUp, Return
        <3>3. CASE LoadFailures(p)
            BY <1>1, <3>3 DEF LoadFailures
        <3>4. CASE LoadLastFailure(p)
            BY <3>4 DEF LoadLastFailure
        <3>5. CASE Classify(p)
            BY <3>5 DEF Classify, NextResource
        <3>6. CASE CallNotFound(p)
            BY <3>6 DEF CallNotFound, NextResource
        <3>7. CASE CallFails(p)
            BY <3>7 DEF CallFails
        <3>8. CASE CallSucceeds(p)
            BY <3>8 DEF CallSucceeds, Return
        <3>9. CASE ReadClock(p)
            BY <3>9 DEF ReadClock
        <3>10. CASE StoreLastFailure(p)
            BY <3>10 DEF StoreLastFailure, NextResource
        <3>11. CASE CBReset(p)
            <4>1. CASE pc[p] = "resetLast"
                BY <3>11, <4>1 DEF CBReset
            <4>2. CASE pc[p] = "resetFailures" /\ idx[p] # r
                BY <3>11, <4>2 DEF CBReset, Return
            <4>3. CASE pc[p] = "resetFailures" /\ idx[p] = r
                <5>1. failures'[r] = 0
                    BY <3>11, <4>3 DEF CBReset
                <5> QED BY <5>1, <1>1
            <4> QED BY <3>11, <4>1, <4>2, <4>3 DEF CBReset
        <3> QED BY <2>4, <3>1, <3>2, <3>3, <3>4, <3>5, <3>6, <3>7, <3>8, <3>9,
                   <3>10, <3>11 DEF Step
    <2> QED BY <2>1, <2>2, <2>3, <2>4 DEF Next
<1>7. idx[p] = r
    BY <1>6 DEF AddFailure, A, B, Admitted, TypeOK
<1>8. failures'[r] = failures[r] + 1
    BY <1>6, <1>7 DEF AddFailure, TypeOK
<1>9. CASE cbState[p] = CBStateHalfOpen
    <2>1. failedProbes'[r] = failedProbes[r] + 1
        BY <1>6, <1>7, <1>9 DEF AddFailure, TypeOK
    <2>2. B \subseteq A
        BY <1>6 DEF AddFailure, A, B, Admitted, TypeOK
    <2>3. Cardinality(B) <= Cardinality(A)
        BY <1>1, <2>2, FS_Subset
    <2> QED BY <1>1, <1>2, <1>3, <1>8, <2>1, <2>3
<1>10. CASE cbState[p] # CBStateHalfOpen
    <2>1. failedProbes'[r] = failedProbes[r]
        BY <1>6, <1>7, <1>10 DEF AddFailure, TypeOK
    <2>2. p \in A
        BY <1>6, <1>7, <1>10, BreakerAssumption
           DEF AddFailure, LocalsOK, LocalOK, A, Admitted, TypeOK
    <2>3. B \subseteq A \ {p}
        BY <1>6 DEF AddFailure, A, B, Admitted, TypeOK
    <2>4. /\ IsFiniteSet(A \ {p})
          /\ Cardinality(A \ {p}) = Cardinality(A) - 1
        BY <1>1, <2>2, FS_RemoveElement
    <2>5. Cardinality(B) <= Cardinality(A \ {p})
        BY <2>3, <2>4, FS_Subset
    <2> QED BY <1>1, <1>2, <1>3, <1>8, <2>1, <2>4, <2>5
<1> QED BY <1>9, <1>10

(* A breaker counts at most its limit less one, a failure of each request  *)
(* that can be under way, and the probes that failed                       *)
THEOREM OvershootIsBounded == Spec => []OvershootBounded
<1>1. Init => TypeInv /\ Overshoot
    BY TypeInvInit, OvershootInit
<1>2. TypeInv /\ Overshoot /\ [Next]_vars => (TypeInv /\ Overshoot)'
    BY TypeInvStep, OvershootStep
<1>3. TypeInv /\ Overshoot => OvershootBounded
    <2> SUFFICES ASSUME TypeOK, Overshoot, NEW r \in Resources
                 PROVE  failures[r] <= (CBMaxFailures - 1) + Cardinality(Requests)
                                       + failedProbes[r]
        BY DEF TypeInv, OvershootBounded
    <2>1. /\ failures[r] \in Nat /\ failedProbes[r] \in Nat
          /\ Cardinality(Admitted(r)) \in Nat /\ Cardinality(Requests) \in Nat
        BY AdmittedFinite DEF TypeOK
    <2>2. failures[r] + Cardinality(Admitted(r))
              <= (CBMaxFailures - 1) + Cardinality(Requests) + failedProbes[r]
        BY DEF Overshoot
    <2> QED BY <2>1, <2>2, BreakerAssumption
<1> QED BY <1>1, <1>2, <1>3, PTL DEF Spec
===============================================================================
