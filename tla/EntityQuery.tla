----------------------------- MODULE EntityQuery -----------------------------
(***************************************************************************)
(* Entity.QueryResources (esitag/esi_tag.go): every request that needs the *)
(* content of an ESI tag walks over the tag's resources in their order     *)
(* until one answers.  Each resource carries a circuit breaker, two words  *)
(* shared by all requests and accessed with atomic loads, adds and stores  *)
(* only (esitag/resource.go).  Every such access is a step of its own.     *)
(*                                                                         *)
(* A request slot that has finished serves a further request.              *)
(***************************************************************************)
EXTENDS CircuitBreaker, FiniteSets

CONSTANTS Requests,       \* slots of requests that query the tag at the same time
          NumResources,   \* number of resources (src attributes) of the tag
          Unreachable,    \* the resources whose backend may fail
          Leavers,        \* the requests whose client may go away
          StartTime,      \* the time at which the server starts
          MaxTime,        \* bound: the clock stops here
          MaxFailTime,    \* bound: no backend call fails after this time
          MaxFailures     \* bound: no call fails at a breaker with this count

Resources == 1..NumResources

ASSUME QueryAssumption ==
    /\ IsFiniteSet(Requests)
    /\ NumResources \in Nat
    /\ Unreachable \subseteq Resources
    /\ Leavers \subseteq Requests
    /\ StartTime \in Nat \ {0}     \* a Unix time; zero means "never failed"
    /\ MaxTime \in Nat /\ MaxFailTime \in Nat /\ MaxFailures \in Nat

VARIABLES
    now,            \* the wall clock
    failures,       \* [Resources -> Nat]: Resource.cbFailures
    lastFailure,    \* [Resources -> Nat]: Resource.cbLastFailureTime
    pc,             \* where each request is
    idx,            \* the resource it is at; NumResources + 1: none is left
    seenFailures,   \* cbFailures as the request loaded it
    seenLast,       \* cbLastFailureTime as the request loaded it
    cbState,        \* the state CBState returned to the request
    failTime,       \* time.Now() taken inside CBRecordFailure
    cancelled,      \* the requests whose client has gone away
    failedProbes    \* history: failed calls of half-open breakers since their reset

breakers == <<failures, lastFailure, failedProbes>>
locals   == <<seenFailures, seenLast, cbState, failTime>>
vars     == <<now, breakers, pc, idx, locals, cancelled>>

Locations == {"idle", "loadFailures", "loadLast", "classify", "call",
              "addFailure", "readClock", "storeLast",
              "resetLast", "resetFailures"}

TypeOK ==
    /\ now \in Nat \ {0}
    /\ failures \in [Resources -> Nat]
    /\ lastFailure \in [Resources -> Nat]
    /\ failedProbes \in [Resources -> Nat]
    /\ pc \in [Requests -> Locations]
    /\ idx \in [Requests -> 1..(NumResources + 1)]
    /\ seenFailures \in [Requests -> Nat]
    /\ seenLast \in [Requests -> Nat]
    /\ cbState \in [Requests -> BreakerStates]
    /\ failTime \in [Requests -> Nat]
    /\ cancelled \subseteq Requests

Init ==
    /\ now = StartTime
    /\ failures     = [r \in Resources |-> 0]
    /\ lastFailure  = [r \in Resources |-> 0]
    /\ failedProbes = [r \in Resources |-> 0]
    /\ pc           = [p \in Requests |-> "idle"]
    /\ idx          = [p \in Requests |-> 1]
    /\ seenFailures = [p \in Requests |-> 0]
    /\ seenLast     = [p \in Requests |-> 0]
    /\ cbState      = [p \in Requests |-> CBStateClosed]
    /\ failTime     = [p \in Requests |-> 0]
    /\ cancelled    = {}

GoTo(p, location) == pc' = [pc EXCEPT ![p] = location]

-------------------------------------------------------------------------------
(* The loop over the resources *)

(* Variant of Start: the resources are counted from zero *)
BadStart(p) ==
    /\ pc[p] = "idle"
    /\ GoTo(p, "loadFailures")
    /\ idx' = [idx EXCEPT ![p] = 0]
    /\ UNCHANGED <<now, breakers, locals, cancelled>>

(* A request arrives that needs the tag *)
Start(p) ==
    /\ pc[p] = "idle"
    /\ GoTo(p, "loadFailures")
    /\ idx' = [idx EXCEPT ![p] = 1]
    /\ UNCHANGED <<now, breakers, locals, cancelled>>

(* The query ends and its locals with it *)
Return(p) ==
    /\ GoTo(p, "idle")
    /\ idx'          = [idx EXCEPT ![p] = 1]
    /\ seenFailures' = [seenFailures EXCEPT ![p] = 0]
    /\ seenLast'     = [seenLast EXCEPT ![p] = 0]
    /\ cbState'      = [cbState EXCEPT ![p] = CBStateClosed]
    /\ failTime'     = [failTime EXCEPT ![p] = 0]
    /\ cancelled'    = cancelled \ {p}

(* continue: on to the next resource *)
NextResource(p) ==
    /\ GoTo(p, "loadFailures")
    /\ idx'          = [idx EXCEPT ![p] = @ + 1]
    /\ seenFailures' = [seenFailures EXCEPT ![p] = 0]
    /\ seenLast'     = [seenLast EXCEPT ![p] = 0]
    /\ cbState'      = [cbState EXCEPT ![p] = CBStateClosed]
    /\ failTime'     = [failTime EXCEPT ![p] = 0]
    /\ UNCHANGED cancelled

(* No resource is left: the Temporary error behind which the caller falls  *)
(* back to the onerror content                                             *)
GiveUp(p) ==
    /\ pc[p] = "loadFailures" /\ idx[p] > NumResources
    /\ Return(p)
    /\ UNCHANGED <<now, breakers>>

-------------------------------------------------------------------------------
(* Resource.CBState: two loads, then the clock *)

LoadFailures(p) ==
    /\ pc[p] = "loadFailures" /\ idx[p] \in Resources
    /\ seenFailures' = [seenFailures EXCEPT ![p] = failures[idx[p]]]
    /\ GoTo(p, "loadLast")
    /\ UNCHANGED <<now, breakers, idx, seenLast, cbState, failTime, cancelled>>

LoadLastFailure(p) ==
    /\ pc[p] = "loadLast"
    /\ seenLast' = [seenLast EXCEPT ![p] = lastFailure[idx[p]]]
    /\ GoTo(p, "classify")
    /\ UNCHANGED <<now, breakers, idx, seenFailures, cbState, failTime, cancelled>>

(* An open breaker sends the request to the next resource *)
Classify(p) ==
    /\ pc[p] = "classify"
    /\ LET state == StateOf(seenFailures[p], seenLast[p], now)
       IN  \/ /\ state = CBStateOpen
              /\ NextResource(p)
           \/ /\ state # CBStateOpen
              /\ cbState' = [cbState EXCEPT ![p] = state]
              /\ GoTo(p, "call")
              /\ UNCHANGED <<idx, seenFailures, seenLast, failTime, cancelled>>
    /\ UNCHANGED <<now, breakers>>

-------------------------------------------------------------------------------
(* Resource.DoRequest returns *)

(* The backend has no such key: neither a failure nor a success *)
CallNotFound(p) ==
    /\ pc[p] = "call"
    /\ NextResource(p)
    /\ UNCHANGED <<now, breakers>>

(* The backend fails, or the client has gone away and the context of its   *)
(* request ends the call with an error                                     *)
CallFails(p) ==
    /\ pc[p] = "call"
    /\ idx[p] \in Unreachable \/ p \in cancelled
    /\ now <= MaxFailTime /\ failures[idx[p]] < MaxFailures
    /\ GoTo(p, "addFailure")
    /\ UNCHANGED <<now, breakers, idx, locals, cancelled>>

(* Variant of CallSucceeds: a success resets a closed breaker, not a half-open one *)
BadCallSucceeds(p) ==
    /\ pc[p] = "call"
    /\ \/ /\ cbState[p] = CBStateClosed
          /\ GoTo(p, "resetLast")
          /\ UNCHANGED <<idx, locals, cancelled>>
       \/ /\ cbState[p] # CBStateClosed
          /\ Return(p)
    /\ UNCHANGED <<now, breakers>>

(* Only a request that found the breaker half-open resets it *)
CallSucceeds(p) ==
    /\ pc[p] = "call"
    /\ \/ /\ cbState[p] = CBStateHalfOpen
          /\ GoTo(p, "resetLast")
          /\ UNCHANGED <<idx, locals, cancelled>>
       \/ /\ cbState[p] # CBStateHalfOpen
          /\ Return(p)
    /\ UNCHANGED <<now, breakers>>

-------------------------------------------------------------------------------
(* Resource.CBRecordFailure: add, clock, store *)

AddFailure(p) ==
    /\ pc[p] = "addFailure"
    /\ failures' = [failures EXCEPT ![idx[p]] = @ + 1]
    /\ failedProbes' = [failedProbes EXCEPT
                          ![idx[p]] = IF cbState[p] = CBStateHalfOpen THEN @ + 1 ELSE @]
    /\ GoTo(p, "readClock")
    /\ UNCHANGED <<now, lastFailure, idx, locals, cancelled>>

ReadClock(p) ==
    /\ pc[p] = "readClock"
    /\ failTime' = [failTime EXCEPT ![p] = now]
    /\ GoTo(p, "storeLast")
    /\ UNCHANGED <<now, breakers, idx, seenFailures, seenLast, cbState, cancelled>>

StoreLastFailure(p) ==
    /\ pc[p] = "storeLast"
    /\ lastFailure' = [lastFailure EXCEPT ![idx[p]] = failTime[p]]
    /\ NextResource(p)
    /\ UNCHANGED <<now, failures, failedProbes>>

-------------------------------------------------------------------------------
(* Resource.CBReset *)

(* Variant of CBReset: the counter is cleared before the time *)
BadCBReset(p) ==
    \/ /\ pc[p] = "resetLast"
       /\ failures'     = [failures EXCEPT ![idx[p]] = 0]
       /\ failedProbes' = [failedProbes EXCEPT ![idx[p]] = 0]
       /\ GoTo(p, "resetFailures")
       /\ UNCHANGED <<now, lastFailure, idx, locals, cancelled>>
    \/ /\ pc[p] = "resetFailures"
       /\ lastFailure' = [lastFailure EXCEPT ![idx[p]] = 0]
       /\ Return(p)
       /\ UNCHANGED <<now, failures, failedProbes>>

(* The time is cleared before the counter; then the content is returned *)
CBReset(p) ==
    \/ /\ pc[p] = "resetLast"
       /\ lastFailure' = [lastFailure EXCEPT ![idx[p]] = 0]
       /\ GoTo(p, "resetFailures")
       /\ UNCHANGED <<now, failures, failedProbes, idx, locals, cancelled>>
    \/ /\ pc[p] = "resetFailures"
       /\ failures'     = [failures EXCEPT ![idx[p]] = 0]
       /\ failedProbes' = [failedProbes EXCEPT ![idx[p]] = 0]
       /\ Return(p)
       /\ UNCHANGED <<now, lastFailure>>

-------------------------------------------------------------------------------
(* The environment *)

(* The client closes its connection: the request's context is cancelled *)
ClientLeaves(p) ==
    /\ p \in Leavers \ cancelled /\ pc[p] # "idle"
    /\ cancelled' = cancelled \cup {p}
    /\ UNCHANGED <<now, breakers, pc, idx, locals>>

Recording(p) == pc[p] \in {"addFailure", "readClock", "storeLast"}

(* Time passes.  The second conjunct is a bound: failures keep a time of at *)
(* most MaxFailTime, so that their back-off ends before MaxTime.            *)
Tick ==
    /\ now < MaxTime
    /\ now < MaxFailTime \/ \A p \in Requests : ~Recording(p)
    /\ now' = now + 1
    /\ UNCHANGED <<breakers, pc, idx, locals, cancelled>>

Step(p) ==
    \/ Start(p) \/ GiveUp(p)
    \/ LoadFailures(p) \/ LoadLastFailure(p) \/ Classify(p)
    \/ CallNotFound(p) \/ CallFails(p) \/ CallSucceeds(p)
    \/ AddFailure(p) \/ ReadClock(p) \/ StoreLastFailure(p)
    \/ CBReset(p)

Next == Tick \/ \E p \in Requests : Step(p) \/ ClientLeaves(p)

Spec == Init /\ [][Next]_vars

(* Goroutines are scheduled, the clock runs (also when the bound of Tick   *)
(* holds it up), requests for the page keep arriving, and a backend that   *)
(* is called again and again answers at last.                              *)
Fairness == /\ SF_vars(Tick)
            /\ \A p \in Requests :
                  /\ WF_vars(Step(p))
                  /\ \A r \in Resources : SF_vars(idx[p] = r /\ CallSucceeds(p))

FairSpec == Spec /\ Fairness

-------------------------------------------------------------------------------
(* Properties *)

(* A breaker with failures has the time of a failure, unless some request  *)
(* is between the two stores of CBRecordFailure or of CBReset.  A breaker  *)
(* that loses the time while it keeps the count would be half-open at once *)
(* and send every request to a failing backend.  It is the order of the    *)
(* stores in CBReset, last failure first, that makes it hold.              *)
Pending(r) == \E p \in Requests :
                 idx[p] = r /\ (Recording(p) \/ pc[p] = "resetFailures")

FailuresAreDated ==
    \A r \in Resources : failures[r] > 0 /\ lastFailure[r] = 0 => Pending(r)

(* A breaker overshoots its limit by the requests that were under way when *)
(* it opened and by the probes that failed since, by nothing else.         *)
OvershootBounded ==
    \A r \in Resources :
        failures[r] <= (CBMaxFailures - 1) + Cardinality(Requests) + failedProbes[r]

CloseByProbe ==
    \A r \in Resources :
        failures'[r] < failures[r] =>
            /\ failures'[r] = 0
            /\ \E p \in Requests : /\ idx[p] = r /\ cbState[p] = CBStateHalfOpen
                                    /\ seenFailures[p] >= CBMaxFailures

(* A breaker whose limit was reached never closes but by a request that    *)
(* called the backend although the breaker was half-open and had success.  *)
ClosedOnlyByProbe == [][CloseByProbe]_vars

(* The breaker of the first resource closes again once its backend answers *)
(* (the resources behind it are only asked when those before it fail).     *)
FirstRecovers ==
    NumResources > 0 =>
        (failures[1] >= CBMaxFailures ~> failures[1] < CBMaxFailures)

(* Every breaker that is not closed becomes half-open at some later time:  *)
(* "stops when MaxBackOffs have been reached and then tries again".        *)
TriesAgain ==
    \A r \in Resources :
        failures[r] >= CBMaxFailures =>
            \E t \in now..(2^(Width - 1) - 1) :
                StateOf(failures[r], lastFailure[r], t) = CBStateHalfOpen
===============================================================================
