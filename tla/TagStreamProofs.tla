---------------------------- MODULE TagStreamProofs ----------------------------
(***************************************************************************)
(* Proofs of the safety of the channel and of the flights of TagStream,    *)
(* and that it implements TagGathering, for every set of requests, of      *)
(* pages and of tags.                                                      *)
(***************************************************************************)
EXTENDS TagStream, FiniteSetTheorems, TLAPS

NextStates   == {"idle", "serving", "collecting", "injecting", "returned"}
StreamStates == {"none", "querying", "waiting", "closed"}
CoalStates   == {"none", "calling", "joined", "leading", "ending", "sharing", "done"}

(* The types of the goroutines and of the flight, which the order of the   *)
(* steps depends on                                                        *)
ControlOK ==
    /\ next \in [Requests -> NextStates]
    /\ stream \in [Requests -> StreamStates]
    /\ sender \in [Requests -> [PlainTags -> SenderStates]]
    /\ coal \in [Requests -> CoalStates]
    /\ fetch \in [Requests -> [CoalescedTags -> SenderStates]]
    /\ flight \in Requests \cup {NoRequest}

(* The types of what they pass on, and a request that joined has a leader  *)
DataOK ==
    /\ lead \in [Requests -> Requests \cup {NoRequest}]
    /\ \A r \in Requests : coal[r] = "joined" => lead[r] \in Requests
    /\ result \in [Requests -> SUBSET DataTags]
    /\ toShare \in [Requests -> SUBSET DataTags]
    /\ received \in [Requests -> [DataTags -> Nat]]
    /\ done \subseteq Requests

(* What each goroutine has left behind when the next may start *)
Ordered ==
    \A r \in Requests :
        /\ next[r] = "idle" => coal[r] = "none"
        /\ coal[r] # "sharing" => toShare[r] = {}
        /\ stream[r] \in {"waiting", "closed"} =>
               \A t \in PlainTags : sender[r][t] \in Ended
        /\ stream[r] = "closed" => coal[r] = "done"

(* Only the request that leads the flight of the group has fetches running *)
Led ==
    \A r \in Requests :
        /\ coal[r] \in {"leading", "ending"} => flight = r
        /\ \A t \in CoalescedTags :
               fetch[r][t] \in {"querying", "sending"} => coal[r] = "leading"

-------------------------------------------------------------------------------
(* Types *)

(* The tag a request fetches has its page *)
LEMMA TagOfType ==
    ASSUME NEW r \in Requests, NEW t \in Tags PROVE TagOf(r, t) \in DataTags
BY StreamAssumption DEF TagOf, DataTags

(* A delivered tag is counted *)
LEMMA DeliverType ==
    ASSUME received \in [Requests -> [DataTags -> Nat]],
           NEW r \in Requests, NEW d \in DataTags, Deliver(r, d)
    PROVE  received' \in [Requests -> [DataTags -> Nat]]
BY DEF Deliver

(* A request that has not come has no goroutines *)
LEMMA ControlInit == Init => ControlOK
<1> SUFFICES ASSUME Init PROVE ControlOK
  OBVIOUS
<1> QED BY DEF Init, ControlOK, NextStates, StreamStates, CoalStates, SenderStates

(* and nothing to pass on *)
LEMMA DataInit == Init => DataOK
<1> SUFFICES ASSUME Init PROVE DataOK
  OBVIOUS
<1> QED BY DEF Init, DataOK

(* Every action keeps the types of the goroutines *)
LEMMA ControlStep == ControlOK /\ [Next]_vars => ControlOK'
<1> SUFFICES ASSUME ControlOK, [Next]_vars PROVE ControlOK'
  OBVIOUS
<1> USE DEF ControlOK, NextStates, StreamStates, CoalStates, SenderStates
<1>1. ASSUME NEW r \in Requests, Arrive(r) PROVE ControlOK'
  BY <1>1 DEF Arrive
<1>2. ASSUME NEW r \in Requests, Collect(r) \/ Return(r) \/ ClientLeaves(r) \/ Inject(r)
      PROVE ControlOK'
  BY <1>2 DEF Collect, Return, ClientLeaves, Inject, goroutines
<1>3. ASSUME NEW r \in Requests, NEW t \in PlainTags,
             QueryEnds(r, t) \/ Send(r, t) \/ Abort(r, t)
      PROVE ControlOK'
  <2>1. PICK s \in SenderStates : sender' = [sender EXCEPT ![r][t] = s]
    BY <1>3 DEF QueryEnds, Send, Abort
  <2>2. sender' \in [Requests -> [PlainTags -> SenderStates]]
    BY <2>1
  <2> QED BY <1>3, <2>2 DEF QueryEnds, Send, Abort
<1>4. ASSUME NEW r \in Requests, PlainEnds(r) \/ CloseStream(r) PROVE ControlOK'
  BY <1>4 DEF PlainEnds, CloseStream
<1>5. ASSUME NEW r \in Requests, Lead(r) PROVE ControlOK'
  BY <1>5 DEF Lead
<1>6. ASSUME NEW r \in Requests, Join(r) \/ FlightEnds(r) \/ ForgetFlight(r) PROVE ControlOK'
  BY <1>6 DEF Join, FlightEnds, ForgetFlight
<1>7. ASSUME NEW r \in Requests, NEW t \in CoalescedTags,
             FetchEnds(r, t) \/ FetchSend(r, t) \/ FetchAbort(r, t)
      PROVE ControlOK'
  <2>1. PICK s \in SenderStates : fetch' = [fetch EXCEPT ![r][t] = s]
    BY <1>7 DEF FetchEnds, FetchSend, FetchAbort
  <2>2. fetch' \in [Requests -> [CoalescedTags -> SenderStates]]
    BY <2>1
  <2> QED BY <1>7, <2>2 DEF FetchEnds, FetchSend, FetchAbort
<1>8. ASSUME NEW r \in Requests, Wake(r) \/ Share(r) \/ ShareEnds(r) PROVE ControlOK'
  BY <1>8 DEF Wake, Share, ShareEnds, goroutines
<1>9. CASE UNCHANGED vars
  BY <1>9 DEF vars, goroutines
<1> QED
  BY <1>1, <1>2, <1>3, <1>4, <1>5, <1>6, <1>7, <1>8, <1>9 DEF Next, Goroutines

(* Every action keeps the types of what is passed on *)
LEMMA DataStep == ControlOK /\ DataOK /\ [Next]_vars => DataOK'
<1> SUFFICES ASSUME ControlOK, DataOK, [Next]_vars PROVE DataOK'
  OBVIOUS
<1> USE DEF DataOK, ControlOK, CoalStates
<1>1. ASSUME NEW r \in Requests, Arrive(r) PROVE DataOK'
  BY <1>1 DEF Arrive
<1>2. ASSUME NEW r \in Requests, Collect(r) \/ Return(r) \/ ClientLeaves(r) \/ Inject(r)
      PROVE DataOK'
  BY <1>2 DEF Collect, Return, ClientLeaves, Inject, goroutines
<1>3. ASSUME NEW r \in Requests, NEW t \in PlainTags, QueryEnds(r, t) \/ Abort(r, t)
      PROVE DataOK'
  BY <1>3 DEF QueryEnds, Abort
<1>4. ASSUME NEW r \in Requests, NEW t \in PlainTags, Send(r, t) PROVE DataOK'
  <2>1. received' \in [Requests -> [DataTags -> Nat]]
    BY <1>4, TagOfType, DeliverType DEF Send, Tags
  <2> QED BY <1>4, <2>1 DEF Send
<1>5. ASSUME NEW r \in Requests, PlainEnds(r) \/ CloseStream(r) PROVE DataOK'
  BY <1>5 DEF PlainEnds, CloseStream
<1>6. ASSUME NEW r \in Requests, Lead(r) PROVE DataOK'
  BY <1>6 DEF Lead
<1>7. ASSUME NEW r \in Requests, Join(r) PROVE DataOK'
  BY <1>7 DEF Join
<1>8. ASSUME NEW r \in Requests, FlightEnds(r) \/ ShareEnds(r) PROVE DataOK'
  BY <1>8 DEF FlightEnds, ShareEnds
<1>9. ASSUME NEW r \in Requests, NEW t \in CoalescedTags, FetchEnds(r, t) \/ FetchAbort(r, t)
      PROVE DataOK'
  BY <1>9 DEF FetchEnds, FetchAbort
<1>10. ASSUME NEW r \in Requests, NEW t \in CoalescedTags, FetchSend(r, t) PROVE DataOK'
  <2>1. TagOf(r, t) \in DataTags
    BY TagOfType DEF Tags
  <2> QED BY <1>10, <2>1 DEF FetchSend
<1>11. ASSUME NEW r \in Requests, ForgetFlight(r) PROVE DataOK'
  BY <1>11 DEF ForgetFlight
<1>12. ASSUME NEW r \in Requests, Wake(r) PROVE DataOK'
  BY <1>12 DEF Wake
<1>13. ASSUME NEW r \in Requests, Share(r) PROVE DataOK'
  <2>1. PICK d \in toShare[r] : /\ Deliver(r, d)
                                /\ toShare' = [toShare EXCEPT ![r] = @ \ {d}]
    BY <1>13 DEF Share
  <2>2. received' \in [Requests -> [DataTags -> Nat]]
    BY <2>1, DeliverType
  <2> QED BY <1>13, <2>1, <2>2 DEF Share, goroutines
<1>14. CASE UNCHANGED vars
  BY <1>14 DEF vars, goroutines
<1> QED
  BY <1>1, <1>2, <1>3, <1>4, <1>5, <1>6, <1>7, <1>8, <1>9, <1>10, <1>11, <1>12,
     <1>13, <1>14 DEF Next, Goroutines

(* Every variable of the fast path keeps its type *)
THEOREM StreamTypeCorrect == Spec => []TypeOK
<1>1. ControlOK /\ DataOK => TypeOK
  BY DEF ControlOK, DataOK, TypeOK, NextStates, StreamStates, CoalStates
<1> QED BY ControlInit, DataInit, ControlStep, DataStep, <1>1, PTL DEF Spec

-------------------------------------------------------------------------------
(* The order of the goroutines *)

(* No goroutine has started *)
LEMMA OrderedInit == Init => Ordered
BY DEF Init, Ordered

(* Every action keeps the order *)
LEMMA OrderedStep == ControlOK /\ DataOK /\ Ordered /\ [Next]_vars => Ordered'
<1> SUFFICES ASSUME ControlOK, DataOK, Ordered, [Next]_vars PROVE Ordered'
  OBVIOUS
<1> USE DEF Ordered, ControlOK
<1>1. ASSUME NEW r \in Requests, Arrive(r) PROVE Ordered'
  BY <1>1 DEF Arrive
<1>2. ASSUME NEW r \in Requests, Collect(r) \/ Return(r) \/ ClientLeaves(r) \/ Inject(r)
      PROVE Ordered'
  BY <1>2 DEF Collect, Return, ClientLeaves, Inject, goroutines
<1>3. ASSUME NEW r \in Requests, NEW t \in PlainTags,
             QueryEnds(r, t) \/ Send(r, t) \/ Abort(r, t)
      PROVE Ordered'
  <2>1. sender[r][t] \notin Ended
    BY <1>3 DEF QueryEnds, Send, Abort, Ended
  <2>2. stream[r] \notin {"waiting", "closed"}
    BY <2>1
  <2>3. \A q \in Requests : q # r => sender'[q] = sender[q]
    BY <1>3 DEF QueryEnds, Send, Abort
  <2> QED BY <1>3, <2>2, <2>3 DEF QueryEnds, Send, Abort
<1>4. ASSUME NEW r \in Requests, PlainEnds(r) \/ CloseStream(r) PROVE Ordered'
  BY <1>4 DEF PlainEnds, CloseStream
<1>5. ASSUME NEW r \in Requests, Lead(r) \/ Join(r) \/ FlightEnds(r) PROVE Ordered'
  BY <1>5 DEF Lead, Join, FlightEnds
<1>6. ASSUME NEW r \in Requests, ForgetFlight(r) \/ Wake(r) PROVE Ordered'
  <2>1. /\ coal[r] \in {"ending", "joined"} /\ coal' = [coal EXCEPT ![r] = "sharing"]
        /\ \A q \in Requests : q # r => toShare'[q] = toShare[q]
        /\ UNCHANGED <<next, stream, sender>>
    BY <1>6 DEF ForgetFlight, Wake, DataOK
  <2>2. stream[r] # "closed" /\ next[r] # "idle"
    BY <2>1
  <2> QED BY <2>1, <2>2
<1>7. ASSUME NEW r \in Requests, NEW t \in CoalescedTags,
             FetchEnds(r, t) \/ FetchSend(r, t) \/ FetchAbort(r, t)
      PROVE Ordered'
  BY <1>7 DEF FetchEnds, FetchSend, FetchAbort
<1>8. ASSUME NEW r \in Requests, Share(r) PROVE Ordered'
  BY <1>8 DEF Share, goroutines, DataOK
<1>9. ASSUME NEW r \in Requests, ShareEnds(r) PROVE Ordered'
  BY <1>9 DEF ShareEnds
<1>10. CASE UNCHANGED vars
  BY <1>10 DEF vars, goroutines
<1> QED
  BY <1>1, <1>2, <1>3, <1>4, <1>5, <1>6, <1>7, <1>8, <1>9, <1>10 DEF Next, Goroutines

(* chanTag is closed after the last send: no request can panic on a closed *)
(* channel, however many there are and however they share flights.         *)
THEOREM ClosesLast == Spec => []ClosedAfterLastSend
<1>1. Ordered => ClosedAfterLastSend
  BY DEF Ordered, ClosedAfterLastSend
<1> QED BY ControlInit, ControlStep, DataInit, DataStep, OrderedInit, OrderedStep, <1>1,
     PTL DEF Spec

-------------------------------------------------------------------------------
(* The flights *)

(* There is no flight *)
LEMMA LedInit == Init => Led
BY DEF Init, Led

(* Every action keeps the fetches with the leader *)
LEMMA LedStep == ControlOK /\ Ordered /\ Led /\ [Next]_vars => Led'
<1> SUFFICES ASSUME ControlOK, Ordered, Led, [Next]_vars PROVE Led'
  OBVIOUS
<1> USE DEF Led, ControlOK
<1>1. ASSUME NEW r \in Requests, Arrive(r) PROVE Led'
  BY <1>1 DEF Arrive, Ordered
<1>2. ASSUME NEW r \in Requests, Collect(r) \/ Return(r) \/ ClientLeaves(r) \/ Inject(r)
      PROVE Led'
  BY <1>2 DEF Collect, Return, ClientLeaves, Inject, goroutines
<1>3. ASSUME NEW r \in Requests, NEW t \in PlainTags,
             QueryEnds(r, t) \/ Send(r, t) \/ Abort(r, t)
      PROVE Led'
  BY <1>3 DEF QueryEnds, Send, Abort
<1>4. ASSUME NEW r \in Requests, PlainEnds(r) \/ CloseStream(r) PROVE Led'
  BY <1>4 DEF PlainEnds, CloseStream
<1>5. ASSUME NEW r \in Requests, Lead(r) PROVE Led'
  BY <1>5, StreamAssumption DEF Lead
<1>6. ASSUME NEW r \in Requests, Join(r) PROVE Led'
  BY <1>6 DEF Join
<1>7. ASSUME NEW r \in Requests, NEW t \in CoalescedTags,
             FetchEnds(r, t) \/ FetchSend(r, t) \/ FetchAbort(r, t)
      PROVE Led'
  BY <1>7 DEF FetchEnds, FetchSend, FetchAbort
<1>8. ASSUME NEW r \in Requests, FlightEnds(r) PROVE Led'
  BY <1>8 DEF FlightEnds, Ended
<1>9. ASSUME NEW r \in Requests, ForgetFlight(r) PROVE Led'
  BY <1>9 DEF ForgetFlight
<1>10. ASSUME NEW r \in Requests, Wake(r) \/ Share(r) \/ ShareEnds(r) PROVE Led'
  BY <1>10 DEF Wake, Share, ShareEnds, goroutines
<1>11. CASE UNCHANGED vars
  BY <1>11 DEF vars, goroutines
<1> QED
  BY <1>1, <1>2, <1>3, <1>4, <1>5, <1>6, <1>7, <1>8, <1>9, <1>10, <1>11
     DEF Next, Goroutines

(* While a flight is under way only its leader queries the backends for the *)
(* coalesced tags.                                                          *)
THEOREM OneFlightOnly == Spec => []OneFlight
<1>1. ControlOK /\ Led => OneFlight
  <2> SUFFICES ASSUME ControlOK, Led PROVE OneFlight
    OBVIOUS
  <2> DEFINE Fetching == {r \in Requests :
                  \E t \in CoalescedTags : fetch[r][t] \in {"querying", "sending"}}
  <2>1. Fetching \subseteq {flight}
    BY DEF Led
  <2>2. IsFiniteSet({flight}) /\ Cardinality({flight}) = 1
    BY FS_Singleton
  <2>3. Cardinality(Fetching) <= 1
    BY <2>1, <2>2, FS_Subset
  <2> QED BY <2>3 DEF OneFlight
<1> QED
  BY ControlInit, ControlStep, DataInit, DataStep, OrderedInit, OrderedStep,
     LedInit, LedStep, <1>1, PTL DEF Spec

-------------------------------------------------------------------------------
(* What is gathered *)

(* The leader of a flight has come as far as those who share it; the flight *)
(* of the group has a leader                                                *)
LeadersOK ==
    /\ flight \in Requests => lead[flight] = flight /\ coal[flight] \in {"leading", "ending"}
    /\ \A r \in Requests :
        /\ coal[r] \in {"none", "calling"} => lead[r] = NoRequest
        /\ coal[r] \in {"joined", "leading", "ending", "sharing"} => lead[r] \in Requests
        /\ coal[r] \in {"leading", "ending"} => lead[r] = r
        /\ coal[r] = "joined" => lead[r] # r
        /\ coal[r] = "done" /\ lead[r] = NoRequest => CoalescedTags = {}
        /\ lead[r] \in Requests =>
               /\ lead[lead[r]] = lead[r]
               /\ coal[r] \in {"sharing", "done"} =>
                      coal[lead[r]] \in {"ending", "sharing", "done"}

(* The result of a flight: the tags its leader's fetches sent; all fetches *)
(* have ended when it is shared                                            *)
ResultOK ==
    \A r \in Requests :
        /\ result[r] = {TagOf(r, t) : t \in {u \in CoalescedTags : fetch[r][u] = "sent"}}
        /\ lead[r] # r => \A t \in CoalescedTags : fetch[r][t] = "none"
        /\ coal[r] \in {"ending", "sharing", "done"} /\ lead[r] = r =>
               \A t \in CoalescedTags : fetch[r][t] \in Ended
        /\ coal[r] = "sharing" => toShare[r] \subseteq result[lead[r]]

(* What the writer of r has got from the senders and from the flight *)
Sent(r)   == {TagOf(r, t) : t \in {u \in PlainTags : sender[r][u] = "sent"}}
Shared(r) == IF coal[r] \in {"sharing", "done"} /\ lead[r] \in Requests
             THEN result[lead[r]] \ toShare[r] ELSE {}

(* It has got each of them once, and nothing else *)
Counted ==
    \A r \in Requests : \A d \in DataTags :
        received[r][d] = IF d \in Sent(r) \cup Shared(r) THEN 1 ELSE 0

(* The page waits for the close of the channel; nothing is sent before the *)
(* request has come                                                        *)
Waited ==
    \A r \in Requests :
        /\ next[r] = "injecting" => stream[r] = "closed"
        /\ next[r] = "idle" => \A t \in PlainTags : sender[r][t] = "none"

(* Initially nothing is led, fetched or received *)
LEMMA GatheredInit == Init => LeadersOK /\ ResultOK /\ Counted /\ Waited
<1> SUFFICES ASSUME Init PROVE LeadersOK /\ ResultOK /\ Counted /\ Waited
  OBVIOUS
<1> USE DEF Init
<1>1. LeadersOK
  BY StreamAssumption DEF LeadersOK
<1>2. ResultOK
  BY StreamAssumption DEF ResultOK
<1>3. Counted
  BY DEF Counted, Sent, Shared
<1>4. Waited
  BY DEF Waited
<1> QED BY <1>1, <1>2, <1>3, <1>4

(* Every action keeps the leaders ahead of those who share their flights *)
LEMMA LeadersStep ==
    ControlOK /\ DataOK /\ Ordered /\ Led /\ LeadersOK /\ [Next]_vars => LeadersOK'
<1> SUFFICES ASSUME ControlOK, DataOK, Ordered, Led, LeadersOK, [Next]_vars PROVE LeadersOK'
  OBVIOUS
<1> USE StreamAssumption DEF LeadersOK, ControlOK, DataOK
<1>1. ASSUME NEW r \in Requests, Arrive(r) PROVE LeadersOK'
  <2>1. coal[r] = "none" /\ lead[r] = NoRequest
    BY <1>1 DEF Arrive, Ordered
  <2>2. \A q \in Requests : lead[q] # r
    BY <2>1
  <2>3. flight # r
    BY <2>1
  <2> QED BY <1>1, <2>1, <2>2, <2>3 DEF Arrive
<1>2. ASSUME NEW r \in Requests, Collect(r) \/ Return(r) \/ ClientLeaves(r) \/ Inject(r)
      PROVE LeadersOK'
  BY <1>2 DEF Collect, Return, ClientLeaves, Inject, goroutines
<1>3. ASSUME NEW r \in Requests, NEW t \in PlainTags,
             QueryEnds(r, t) \/ Send(r, t) \/ Abort(r, t)
      PROVE LeadersOK'
  BY <1>3 DEF QueryEnds, Send, Abort
<1>4. ASSUME NEW r \in Requests, PlainEnds(r) \/ CloseStream(r) PROVE LeadersOK'
  BY <1>4 DEF PlainEnds, CloseStream
<1>5. ASSUME NEW r \in Requests, Lead(r) PROVE LeadersOK'
  <2>1. coal[r] = "calling" /\ lead[r] = NoRequest /\ flight = NoRequest
    BY <1>5 DEF Lead
  <2>2. \A q \in Requests : lead[q] # r
    BY <2>1
  <2> QED BY <1>5, <2>1, <2>2 DEF Lead
<1>6. ASSUME NEW r \in Requests, Join(r) PROVE LeadersOK'
  <2>1. coal[r] = "calling" /\ lead[r] = NoRequest
    BY <1>6 DEF Join
  <2>2. flight \in Requests /\ flight # r /\ lead[flight] = flight
    BY <1>6, <2>1 DEF Join
  <2>3. \A q \in Requests : lead[q] # r
    BY <2>1
  <2> QED BY <1>6, <2>1, <2>2, <2>3 DEF Join
<1>7. ASSUME NEW r \in Requests, NEW t \in CoalescedTags,
             FetchEnds(r, t) \/ FetchSend(r, t) \/ FetchAbort(r, t)
      PROVE LeadersOK'
  BY <1>7 DEF FetchEnds, FetchSend, FetchAbort
<1>8. ASSUME NEW r \in Requests, FlightEnds(r) PROVE LeadersOK'
  <2>1. coal[r] = "leading" /\ lead[r] = r /\ flight = r
    BY <1>8 DEF FlightEnds, Led
  <2> QED BY <1>8, <2>1 DEF FlightEnds
<1>9. ASSUME NEW r \in Requests, ForgetFlight(r) PROVE LeadersOK'
  <2>1. coal[r] = "ending" /\ lead[r] = r
    BY <1>9 DEF ForgetFlight
  <2> QED BY <1>9, <2>1 DEF ForgetFlight
<1>10. ASSUME NEW r \in Requests, Wake(r) PROVE LeadersOK'
  <2>1. coal[r] = "joined" /\ lead[r] \in Requests /\ lead[r] # r
    BY <1>10 DEF Wake
  <2>2. \A q \in Requests : lead[q] # r
    BY <2>1
  <2>3. flight # r
    BY <2>1
  <2> QED BY <1>10, <2>1, <2>2, <2>3 DEF Wake
<1>11. ASSUME NEW r \in Requests, Share(r) PROVE LeadersOK'
  BY <1>11 DEF Share, goroutines
<1>12. ASSUME NEW r \in Requests, ShareEnds(r) PROVE LeadersOK'
  <2>1. coal[r] = "sharing" /\ flight # r
    BY <1>12 DEF ShareEnds
  <2> QED BY <1>12, <2>1 DEF ShareEnds
<1>13. CASE UNCHANGED vars
  BY <1>13 DEF vars, goroutines
<1> QED
  BY <1>1, <1>2, <1>3, <1>4, <1>5, <1>6, <1>7, <1>8, <1>9, <1>10, <1>11, <1>12, <1>13
     DEF Next, Goroutines

(* Every action keeps the results of the flights *)
LEMMA ResultStep ==
    ControlOK /\ DataOK /\ Ordered /\ LeadersOK /\ ResultOK /\ [Next]_vars => ResultOK'
<1> SUFFICES ASSUME ControlOK, DataOK, Ordered, LeadersOK, ResultOK, [Next]_vars
             PROVE  ResultOK'
  OBVIOUS
<1> USE DEF ResultOK, ControlOK, DataOK, TagOf
<1>1. ASSUME NEW r \in Requests, Arrive(r) PROVE ResultOK'
  <2>1. lead[r] = NoRequest /\ coal'[r] \in {"done", "calling"}
    BY <1>1 DEF Arrive, Ordered, LeadersOK
  <2> QED BY <1>1, <2>1, StreamAssumption DEF Arrive
<1>2. ASSUME NEW r \in Requests, Collect(r) \/ Return(r) \/ ClientLeaves(r) \/ Inject(r)
      PROVE ResultOK'
  BY <1>2 DEF Collect, Return, ClientLeaves, Inject, goroutines
<1>3. ASSUME NEW r \in Requests, NEW t \in PlainTags,
             QueryEnds(r, t) \/ Send(r, t) \/ Abort(r, t)
      PROVE ResultOK'
  BY <1>3 DEF QueryEnds, Send, Abort
<1>4. ASSUME NEW r \in Requests, PlainEnds(r) \/ CloseStream(r) PROVE ResultOK'
  BY <1>4 DEF PlainEnds, CloseStream
<1>5. ASSUME NEW r \in Requests, Lead(r) PROVE ResultOK'
  <2>1. lead[r] = NoRequest /\ coal[r] = "calling"
    BY <1>5 DEF Lead, LeadersOK
  <2>2. \A t \in CoalescedTags : fetch[r][t] = "none"
    BY <2>1, StreamAssumption
  <2>3. {u \in CoalescedTags : fetch[r][u] = "sent"} = {}
    BY <2>2
  <2>4. result[r] = {}
    BY <2>3
  <2>5. {u \in CoalescedTags : fetch'[r][u] = "sent"} = {}
    BY <1>5 DEF Lead
  <2>6. result'[r] = {TagOf(r, t) : t \in {u \in CoalescedTags : fetch'[r][u] = "sent"}}
    BY <1>5, <2>4, <2>5 DEF Lead
  <2> QED BY <1>5, <2>1, <2>6 DEF Lead
<1>6. ASSUME NEW r \in Requests, Join(r) PROVE ResultOK'
  <2>1. lead[r] = NoRequest /\ coal[r] = "calling" /\ lead'[r] # r
    BY <1>6 DEF Join, LeadersOK
  <2> QED BY <1>6, <2>1, StreamAssumption DEF Join
<1>7. ASSUME NEW r \in Requests, NEW t \in CoalescedTags, FetchEnds(r, t) \/ FetchAbort(r, t)
      PROVE ResultOK'
  <2>1. PICK s \in {"sending", "aborted"} : fetch' = [fetch EXCEPT ![r][t] = s]
    BY <1>7 DEF FetchEnds, FetchAbort
  <2>2. fetch[r][t] \in {"querying", "sending"} /\ UNCHANGED <<coal, lead, result, toShare>>
    BY <1>7 DEF FetchEnds, FetchAbort
  <2>3. \A q \in Requests :
           {u \in CoalescedTags : fetch'[q][u] = "sent"} =
           {u \in CoalescedTags : fetch[q][u] = "sent"}
    BY <2>1, <2>2
  <2>4. lead[r] = r /\ coal[r] \notin {"ending", "sharing", "done"}
    BY <2>2 DEF Ended
  <2>5. \A q \in Requests : q # r => fetch'[q] = fetch[q]
    BY <2>1
  <2>6. ASSUME NEW q \in Requests
        PROVE  result'[q] = {TagOf(q, u) : u \in {v \in CoalescedTags : fetch'[q][v] = "sent"}}
    BY <2>2, <2>3
  <2>7. ASSUME NEW q \in Requests
        PROVE  /\ lead'[q] # q => \A u \in CoalescedTags : fetch'[q][u] = "none"
               /\ coal'[q] \in {"ending", "sharing", "done"} /\ lead'[q] = q =>
                      \A u \in CoalescedTags : fetch'[q][u] \in Ended
               /\ coal'[q] = "sharing" => toShare'[q] \subseteq result'[lead'[q]]
    <3>1. CASE q = r
      BY <2>2, <2>4, <3>1
    <3>2. CASE q # r
      BY <2>2, <2>5, <3>2
    <3> QED BY <3>1, <3>2
  <2> QED BY <2>6, <2>7
<1>8. ASSUME NEW r \in Requests, NEW t \in CoalescedTags, FetchSend(r, t) PROVE ResultOK'
  BY <1>8 DEF FetchSend, Ended
<1>9. ASSUME NEW r \in Requests, FlightEnds(r) PROVE ResultOK'
  BY <1>9 DEF FlightEnds
<1>10. ASSUME NEW r \in Requests, ForgetFlight(r) PROVE ResultOK'
  BY <1>10 DEF ForgetFlight, LeadersOK
<1>11. ASSUME NEW r \in Requests, Wake(r) PROVE ResultOK'
  BY <1>11 DEF Wake, LeadersOK
<1>12. ASSUME NEW r \in Requests, Share(r) PROVE ResultOK'
  BY <1>12 DEF Share, goroutines
<1>13. ASSUME NEW r \in Requests, ShareEnds(r) PROVE ResultOK'
  BY <1>13 DEF ShareEnds
<1>14. CASE UNCHANGED vars
  BY <1>14 DEF vars, goroutines
<1> QED
  BY <1>1, <1>2, <1>3, <1>4, <1>5, <1>6, <1>7, <1>8, <1>9, <1>10, <1>11, <1>12, <1>13,
     <1>14 DEF Next, Goroutines

(* Every action keeps the page waiting *)
LEMMA WaitedStep == ControlOK /\ Waited /\ [Next]_vars => Waited'
<1> SUFFICES ASSUME ControlOK, Waited, [Next]_vars PROVE Waited'
  OBVIOUS
<1> USE DEF ControlOK, Waited
<1>1. ASSUME NEW r \in Requests, Arrive(r) PROVE Waited'
  BY <1>1 DEF Arrive
<1>2. ASSUME NEW r \in Requests, Collect(r) \/ Return(r) \/ ClientLeaves(r) \/ Inject(r)
      PROVE Waited'
  BY <1>2 DEF Collect, Return, ClientLeaves, Inject, goroutines
<1>3. ASSUME NEW r \in Requests, NEW t \in PlainTags,
             QueryEnds(r, t) \/ Send(r, t) \/ Abort(r, t)
      PROVE Waited'
  <2>1. next[r] # "idle" /\ \A q \in Requests : q # r => sender'[q] = sender[q]
    BY <1>3 DEF QueryEnds, Send, Abort
  <2> QED BY <1>3, <2>1 DEF QueryEnds, Send, Abort
<1>4. ASSUME NEW r \in Requests, PlainEnds(r) \/ CloseStream(r) PROVE Waited'
  BY <1>4 DEF PlainEnds, CloseStream
<1>5. ASSUME NEW r \in Requests,
             \/ Lead(r) \/ Join(r) \/ FlightEnds(r) \/ ForgetFlight(r)
             \/ Wake(r) \/ Share(r) \/ ShareEnds(r)
      PROVE Waited'
  BY <1>5 DEF Lead, Join, FlightEnds, ForgetFlight, Wake, Share, ShareEnds, goroutines
<1>6. ASSUME NEW r \in Requests, NEW t \in CoalescedTags,
             FetchEnds(r, t) \/ FetchSend(r, t) \/ FetchAbort(r, t)
      PROVE Waited'
  BY <1>6 DEF FetchEnds, FetchSend, FetchAbort
<1>7. CASE UNCHANGED vars
  BY <1>7 DEF vars, goroutines
<1> QED BY <1>1, <1>2, <1>3, <1>4, <1>5, <1>6, <1>7 DEF Next, Goroutines

(* A step that delivers nothing, and after which no more has been sent or  *)
(* shared, keeps the counts                                                *)
LEMMA CountsKept ==
    ASSUME Counted, received' = received,
           \A r \in Requests : Sent(r)' = Sent(r) /\ Shared(r)' = Shared(r)
    PROVE  Counted'
BY DEF Counted

(* A step that delivers one tag, which is then sent or shared, keeps them *)
LEMMA CountsGrow ==
    ASSUME Counted, DataOK, NEW r \in Requests, NEW d \in DataTags, Deliver(r, d),
           d \notin Sent(r) \cup Shared(r),
           Sent(r)' \cup Shared(r)' = (Sent(r) \cup Shared(r)) \cup {d},
           \A q \in Requests : q # r => Sent(q)' = Sent(q) /\ Shared(q)' = Shared(q)
    PROVE  Counted'
<1> SUFFICES ASSUME NEW q \in Requests, NEW e \in DataTags
             PROVE  received'[q][e] = IF e \in Sent(q)' \cup Shared(q)' THEN 1 ELSE 0
  BY DEF Counted
<1> USE DEF DataOK, Deliver, Counted
<1>1. CASE q # r
  BY <1>1
<1>2. CASE q = r /\ e # d
  BY <1>2
<1>3. CASE q = r /\ e = d
  BY <1>3
<1> QED BY <1>1, <1>2, <1>3

(* What senders send and what flights share are different tags *)
LEMMA Apart ==
    ASSUME ControlOK, DataOK, ResultOK, LeadersOK, NEW r \in Requests
    PROVE  /\ \A d \in Sent(r) : d.tag \in PlainTags
           /\ \A q \in Requests : \A d \in result[q] : d.tag \in CoalescedTags
           /\ \A d \in Shared(r) : d.tag \in CoalescedTags
<1>1. \A t \in Tags : TagOf(r, t).tag = t
  BY DEF TagOf
<1>2. \A d \in Sent(r) : d.tag \in PlainTags
  BY <1>1 DEF Sent, Tags
<1>3. \A q \in Requests : \A d \in result[q] : d.tag \in CoalescedTags
  BY DEF ResultOK, TagOf
<1> QED BY <1>2, <1>3 DEF Shared

(* Every action keeps the counts *)
LEMMA CountedStep ==
    ControlOK /\ DataOK /\ Ordered /\ Led /\ LeadersOK /\ ResultOK /\ Waited /\ Counted
        /\ [Next]_vars => Counted'
<1> SUFFICES ASSUME ControlOK, DataOK, Ordered, Led, LeadersOK, ResultOK, Waited, Counted,
                    [Next]_vars
             PROVE  Counted'
  OBVIOUS
<1> USE DEF ControlOK, DataOK
<1>1. ASSUME NEW r \in Requests, Arrive(r) PROVE Counted'
  <2>1. \A q \in Requests : Sent(q)' = Sent(q)
    BY <1>1 DEF Arrive, Waited, Sent, TagOf
  <2>2. lead[r] = NoRequest
    BY <1>1 DEF Arrive, Ordered, LeadersOK
  <2>3. \A q \in Requests : Shared(q)' = Shared(q)
    BY <1>1, <2>2, StreamAssumption DEF Arrive, Shared
  <2> QED BY <1>1, <2>1, <2>3, CountsKept DEF Arrive
<1>2. ASSUME NEW r \in Requests,
             \/ Collect(r) \/ Return(r) \/ ClientLeaves(r) \/ Inject(r)
             \/ PlainEnds(r) \/ CloseStream(r)
      PROVE Counted'
  <2>1. UNCHANGED <<sender, coal, lead, result, toShare, received>>
    BY <1>2 DEF Collect, Return, ClientLeaves, Inject, PlainEnds, CloseStream, goroutines
  <2> QED BY <2>1, CountsKept DEF Sent, Shared, TagOf
<1>3. ASSUME NEW r \in Requests, NEW t \in PlainTags, QueryEnds(r, t) \/ Abort(r, t)
      PROVE Counted'
  <2>1. PICK s \in {"sending", "aborted"} : sender' = [sender EXCEPT ![r][t] = s]
    BY <1>3 DEF QueryEnds, Abort
  <2>2. sender[r][t] # "sent" /\ UNCHANGED <<coal, lead, result, toShare, received>>
    BY <1>3 DEF QueryEnds, Abort
  <2>3. \A q \in Requests : {u \in PlainTags : sender'[q][u] = "sent"} =
                             {u \in PlainTags : sender[q][u] = "sent"}
    BY <2>1, <2>2
  <2>4. \A q \in Requests : Sent(q)' = Sent(q)
    BY <2>3 DEF Sent, TagOf
  <2>5. \A q \in Requests : Shared(q)' = Shared(q)
    BY <2>2 DEF Shared
  <2> QED BY <2>2, <2>4, <2>5, CountsKept
<1>4. ASSUME NEW r \in Requests, NEW t \in PlainTags, Send(r, t) PROVE Counted'
  <2> DEFINE d == TagOf(r, t)
  <2>1. /\ sender[r][t] = "sending" /\ sender' = [sender EXCEPT ![r][t] = "sent"]
        /\ Deliver(r, d) /\ UNCHANGED <<coal, lead, result, toShare>>
    BY <1>4 DEF Send
  <2>2. d \in DataTags /\ d.tag = t
    BY TagOfType DEF Tags, TagOf
  <2>3. d \notin Sent(r)
    BY <2>1 DEF Sent, TagOf
  <2>4. d \notin Shared(r)
    BY <2>2, Apart, StreamAssumption
  <2>5. {u \in PlainTags : sender'[r][u] = "sent"} =
        {u \in PlainTags : sender[r][u] = "sent"} \cup {t}
    BY <2>1
  <2>6. Sent(r)' = Sent(r) \cup {d}
    BY <2>5 DEF Sent, TagOf
  <2>7. \A q \in Requests : Shared(q)' = Shared(q)
    BY <2>1 DEF Shared
  <2>8. \A q \in Requests : q # r => Sent(q)' = Sent(q)
    BY <2>1 DEF Sent, TagOf
  <2> HIDE DEF d
  <2>9. d \notin Sent(r) \cup Shared(r)
    BY <2>3, <2>4
  <2>10. Sent(r)' \cup Shared(r)' = (Sent(r) \cup Shared(r)) \cup {d}
    BY <2>6, <2>7
  <2>11. \A q \in Requests : q # r => Sent(q)' = Sent(q) /\ Shared(q)' = Shared(q)
    BY <2>7, <2>8
  <2>12. Deliver(r, d) /\ d \in DataTags
    BY <2>1, <2>2
  <2> QED BY ONLY Counted, DataOK, <2>9, <2>10, <2>11, <2>12, CountsGrow
<1>5. ASSUME NEW r \in Requests, Lead(r) \/ Join(r) PROVE Counted'
  <2>1. UNCHANGED <<sender, received>>
    BY <1>5 DEF Lead, Join
  <2>2. ASSUME NEW q \in Requests PROVE Shared(q)' = Shared(q)
    <3>1. result' = result /\ toShare' = toShare
      BY <1>5 DEF Lead, Join
    <3>2. CASE q = r
      <4>1. coal[r] \notin {"sharing", "done"} /\ coal'[r] \notin {"sharing", "done"}
        BY <1>5 DEF Lead, Join
      <4> QED BY <3>2, <4>1 DEF Shared
    <3>3. CASE q # r
      <4>1. coal'[q] = coal[q] /\ lead'[q] = lead[q]
        BY <1>5, <3>3 DEF Lead, Join
      <4> QED BY <3>1, <4>1 DEF Shared
    <3> QED BY <3>2, <3>3
  <2>3. \A q \in Requests : Sent(q)' = Sent(q)
    BY <2>1 DEF Sent, TagOf
  <2> QED BY ONLY Counted, <2>1, <2>2, <2>3, CountsKept
<1>6. ASSUME NEW r \in Requests, NEW t \in CoalescedTags, FetchEnds(r, t) \/ FetchAbort(r, t)
      PROVE Counted'
  <2>1. UNCHANGED <<sender, coal, lead, result, toShare, received>>
    BY <1>6 DEF FetchEnds, FetchAbort
  <2> QED BY <2>1, CountsKept DEF Sent, Shared, TagOf
<1>7. ASSUME NEW r \in Requests, NEW t \in CoalescedTags, FetchSend(r, t) PROVE Counted'
  <2>1. coal[r] = "leading" /\ \A q \in Requests : q # r => result'[q] = result[q]
    BY <1>7 DEF FetchSend
  <2>2. UNCHANGED <<sender, coal, lead, toShare, received>>
    BY <1>7 DEF FetchSend
  <2>3. \A q \in Requests : coal[q] \in {"sharing", "done"} => lead[q] # r
    BY <2>1 DEF LeadersOK
  <2>4. \A q \in Requests : Shared(q)' = Shared(q)
    BY <2>1, <2>2, <2>3 DEF Shared
  <2>5. \A q \in Requests : Sent(q)' = Sent(q)
    BY <2>2 DEF Sent, TagOf
  <2> QED BY ONLY Counted, <2>2, <2>4, <2>5, CountsKept
<1>8. ASSUME NEW r \in Requests, FlightEnds(r) \/ ShareEnds(r) PROVE Counted'
  <2>1. UNCHANGED <<sender, received>>
    BY <1>8 DEF FlightEnds, ShareEnds
  <2>2. \A q \in Requests : Shared(q)' = Shared(q)
    BY <1>8 DEF FlightEnds, ShareEnds, Shared
  <2> QED BY <2>1, <2>2, CountsKept DEF Sent, TagOf
<1>9. ASSUME NEW r \in Requests, ForgetFlight(r) \/ Wake(r) PROVE Counted'
  <2>1. UNCHANGED <<sender, lead, result, received>>
    BY <1>9 DEF ForgetFlight, Wake
  <2>2. Shared(r) = {}
    BY <1>9 DEF ForgetFlight, Wake, Shared
  <2>3. toShare'[r] = result[lead[r]]
    BY <1>9 DEF ForgetFlight, Wake, LeadersOK
  <2>4. Shared(r)' = {}
    BY <2>1, <2>3 DEF Shared
  <2>5. \A q \in Requests : q # r => Shared(q)' = Shared(q)
    BY <1>9 DEF ForgetFlight, Wake, Shared
  <2> QED BY <2>1, <2>2, <2>4, <2>5, CountsKept DEF Sent, TagOf
<1>10. ASSUME NEW r \in Requests, Share(r) PROVE Counted'
  <2>1. PICK d \in toShare[r] : /\ Deliver(r, d)
                                /\ toShare' = [toShare EXCEPT ![r] = @ \ {d}]
    BY <1>10 DEF Share
  <2>2. coal[r] = "sharing" /\ UNCHANGED <<sender, coal, lead, result>>
    BY <1>10 DEF Share, goroutines
  <2>3. lead[r] \in Requests /\ d \in result[lead[r]] /\ d \in DataTags
    BY <2>2 DEF LeadersOK, ResultOK
  <2>4. d \notin Shared(r) /\ Shared(r)' = Shared(r) \cup {d}
    BY <2>1, <2>2, <2>3 DEF Shared
  <2>5. d \notin Sent(r)
    BY <2>3, Apart, StreamAssumption
  <2>6. \A q \in Requests : Sent(q)' = Sent(q)
    BY <2>2 DEF Sent, TagOf
  <2>7. \A q \in Requests : q # r => Shared(q)' = Shared(q)
    BY <2>1, <2>2 DEF Shared
  <2>8. d \notin Sent(r) \cup Shared(r)
    BY <2>4, <2>5
  <2>9. Sent(r)' \cup Shared(r)' = (Sent(r) \cup Shared(r)) \cup {d}
    BY <2>4, <2>6
  <2>10. \A q \in Requests : q # r => Sent(q)' = Sent(q) /\ Shared(q)' = Shared(q)
    BY <2>6, <2>7
  <2>11. Deliver(r, d) /\ d \in DataTags
    BY <2>1, <2>3
  <2> QED BY ONLY Counted, DataOK, <2>8, <2>9, <2>10, <2>11, CountsGrow
<1>11. CASE UNCHANGED vars
  BY <1>11, CountsKept DEF vars, goroutines, Sent, Shared, TagOf
<1> QED
  BY <1>1, <1>2, <1>3, <1>4, <1>5, <1>6, <1>7, <1>8, <1>9, <1>10, <1>11
     DEF Next, Goroutines

StreamInv == /\ ControlOK /\ DataOK /\ Ordered /\ Led
             /\ LeadersOK /\ ResultOK /\ Waited /\ Counted

(* The parts of the invariant hold together *)
LEMMA StreamInvariant == Spec => []StreamInv
<1>1. Init => StreamInv
  BY ControlInit, DataInit, OrderedInit, LedInit, GatheredInit DEF StreamInv
<1>2. StreamInv /\ [Next]_vars => StreamInv'
  BY ControlStep, DataStep, OrderedStep, LedStep, LeadersStep, ResultStep, WaitedStep,
     CountedStep DEF StreamInv
<1> QED BY <1>1, <1>2, PTL DEF Spec

(* All that share a flight are given the same tags, all that the flight has *)
(* collected, whoever leads it and whichever client leaves.                 *)
THEOREM FlightsShareAlike == Spec => []SharedAlike
<1>1. StreamInv => SharedAlike
  <2> SUFFICES ASSUME StreamInv, NEW r \in Requests, coal[r] = "done", lead[r] # NoRequest
               PROVE  {d \in DataTags : d.tag \in CoalescedTags /\ received[r][d] > 0}
                          = result[lead[r]]
    BY DEF SharedAlike
  <2> USE DEF StreamInv
  <2>1. lead[r] \in Requests /\ toShare[r] = {}
    BY DEF DataOK, Ordered
  <2>2. Shared(r) = result[lead[r]]
    BY <2>1 DEF Shared
  <2>3. \A d \in DataTags : received[r][d] > 0 <=> d \in Sent(r) \cup Shared(r)
    BY DEF Counted
  <2>4. result[lead[r]] \subseteq DataTags
    BY <2>1 DEF DataOK
  <2>5. \A d \in DataTags : d.tag \in CoalescedTags => d \notin Sent(r)
    BY Apart, StreamAssumption
  <2>6. \A d \in result[lead[r]] : d.tag \in CoalescedTags
    BY <2>1, Apart
  <2> QED BY <2>2, <2>3, <2>4, <2>5, <2>6
<1> QED BY StreamInvariant, <1>1, PTL

(* A page is written with every tag that no ended context dropped, and     *)
(* with each of them once: for any number of requests, pages and tags.     *)
THEOREM PagesComplete == Spec => []CompleteUnlessDropped
<1>1. StreamInv => CompleteUnlessDropped
  <2> SUFFICES ASSUME StreamInv, NEW r \in Requests, next[r] = "injecting", NEW t \in Tags
               PROVE  LET copies == {d \in DataTags : d.tag = t /\ received[r][d] > 0}
                      IN  IF t \in Dropped(r) THEN copies = {}
                          ELSE \E d \in copies : copies = {d} /\ received[r][d] = 1
    BY DEF CompleteUnlessDropped
  <2> DEFINE copies == {d \in DataTags : d.tag = t /\ received[r][d] > 0}
  <2> USE DEF StreamInv
  <2>1. coal[r] = "done" /\ toShare[r] = {} /\ \A u \in PlainTags : sender[r][u] \in Ended
    BY DEF Waited, Ordered
  <2>2. \A d \in DataTags : received[r][d] = IF d \in Sent(r) \cup Shared(r) THEN 1 ELSE 0
    BY DEF Counted
  <2>3. copies = {d \in Sent(r) \cup Shared(r) : d \in DataTags /\ d.tag = t}
    BY <2>2
  <2>4. CASE t \in PlainTags
    <3>1. copies = {d \in Sent(r) : d \in DataTags /\ d.tag = t}
      BY <2>3, <2>4, Apart, StreamAssumption
    <3>2. t \in Dropped(r) <=> sender[r][t] # "sent"
      BY <2>1, <2>4, StreamAssumption DEF Dropped, Ended
    <3>3. copies = IF sender[r][t] = "sent" THEN {TagOf(r, t)} ELSE {}
      BY <2>4, <3>1, TagOfType DEF Sent, TagOf, Tags
    <3> QED BY <2>2, <2>3, <3>2, <3>3
  <2>5. CASE t \in CoalescedTags
    <3>1. lead[r] \in Requests /\ lead[lead[r]] = lead[r]
      BY <2>1, <2>5 DEF LeadersOK, DataOK
    <3>2. \A u \in CoalescedTags : fetch[lead[r]][u] \in Ended
      BY <2>1, <3>1 DEF LeadersOK, ResultOK
    <3>3. copies = {d \in result[lead[r]] : d.tag = t}
      <4>1. Shared(r) = result[lead[r]] /\ result[lead[r]] \subseteq DataTags
        BY <2>1, <3>1 DEF Shared, DataOK
      <4> QED BY <2>3, <2>5, <4>1, Apart, StreamAssumption
    <3>4. t \in Dropped(r) <=> fetch[lead[r]][t] # "sent"
      BY <2>5, <3>1, <3>2, StreamAssumption DEF Dropped, Ended
    <3>5. result[lead[r]] =
             {TagOf(lead[r], u) : u \in {v \in CoalescedTags : fetch[lead[r]][v] = "sent"}}
      BY <3>1 DEF ResultOK
    <3>6. copies = IF fetch[lead[r]][t] = "sent" THEN {TagOf(lead[r], t)} ELSE {}
      BY <2>5, <3>3, <3>5 DEF TagOf
    <3> QED BY <2>2, <2>3, <3>4, <3>6
  <2> QED BY <2>4, <2>5 DEF Tags
<1> QED BY StreamInvariant, <1>1, PTL

-------------------------------------------------------------------------------
(* The refinement of TagGathering *)

(* The stream of a request that has not come is not open *)
Opened == \A r \in Requests : stream[r] = "none" <=> next[r] = "idle"

(* Every action keeps that: a stream opens when the request comes *)
LEMMA OpenedStep == ControlOK /\ Opened /\ [Next]_vars => Opened'
<1> SUFFICES ASSUME ControlOK, Opened, [Next]_vars PROVE Opened'
  OBVIOUS
<1> USE DEF ControlOK, Opened
<1>1. ASSUME NEW r \in Requests, Arrive(r) PROVE Opened'
  BY <1>1 DEF Arrive
<1>2. ASSUME NEW r \in Requests,
             \/ Collect(r) \/ Return(r) \/ ClientLeaves(r) \/ Inject(r)
             \/ PlainEnds(r) \/ CloseStream(r)
      PROVE Opened'
  BY <1>2 DEF Collect, Return, ClientLeaves, Inject, PlainEnds, CloseStream, goroutines
<1>3. ASSUME NEW r \in Requests,
             \/ Lead(r) \/ Join(r) \/ FlightEnds(r) \/ ForgetFlight(r)
             \/ Wake(r) \/ Share(r) \/ ShareEnds(r)
      PROVE Opened'
  BY <1>3 DEF Lead, Join, FlightEnds, ForgetFlight, Wake, Share, ShareEnds, goroutines
<1>4. ASSUME NEW r \in Requests, NEW t \in PlainTags,
             QueryEnds(r, t) \/ Send(r, t) \/ Abort(r, t)
      PROVE Opened'
  BY <1>4 DEF QueryEnds, Send, Abort
<1>5. ASSUME NEW r \in Requests, NEW t \in CoalescedTags,
             FetchEnds(r, t) \/ FetchSend(r, t) \/ FetchAbort(r, t)
      PROVE Opened'
  BY <1>5 DEF FetchEnds, FetchSend, FetchAbort
<1>6. CASE UNCHANGED vars
  BY <1>6 DEF vars, goroutines
<1> QED BY <1>1, <1>2, <1>3, <1>4, <1>5, <1>6 DEF Next, Goroutines

(* Nothing is lost before a client has left *)
LostForSomebody ==
    \A r \in Requests :
        /\ \A t \in PlainTags : sender[r][t] = "aborted" => r \in done
        /\ \A t \in CoalescedTags : fetch[r][t] = "aborted" => r \in done

(* Every action keeps that: only the end of a context makes a tag get lost *)
LEMMA LostStep == ControlOK /\ DataOK /\ LostForSomebody /\ [Next]_vars => LostForSomebody'
<1> SUFFICES ASSUME ControlOK, DataOK, LostForSomebody, [Next]_vars PROVE LostForSomebody'
  OBVIOUS
<1> USE DEF ControlOK, DataOK, LostForSomebody
<1>1. ASSUME NEW r \in Requests, Arrive(r) PROVE LostForSomebody'
  BY <1>1 DEF Arrive
<1>7. ASSUME NEW r \in Requests, Lead(r) PROVE LostForSomebody'
  BY <1>7 DEF Lead
<1>2. ASSUME NEW r \in Requests,
             \/ Collect(r) \/ Return(r) \/ ClientLeaves(r) \/ Inject(r)
             \/ PlainEnds(r) \/ CloseStream(r)
      PROVE LostForSomebody'
  BY <1>2 DEF Collect, Return, ClientLeaves, Inject, PlainEnds, CloseStream, goroutines
<1>3. ASSUME NEW r \in Requests,
             \/ Join(r) \/ FlightEnds(r) \/ ForgetFlight(r)
             \/ Wake(r) \/ Share(r) \/ ShareEnds(r)
      PROVE LostForSomebody'
  BY <1>3 DEF Join, FlightEnds, ForgetFlight, Wake, Share, ShareEnds, goroutines
<1>4. ASSUME NEW r \in Requests, NEW t \in PlainTags,
             QueryEnds(r, t) \/ Send(r, t) \/ Abort(r, t)
      PROVE LostForSomebody'
  <2>1. PICK s \in SenderStates : /\ sender' = [sender EXCEPT ![r][t] = s]
                                  /\ s = "aborted" => r \in done
    BY <1>4 DEF QueryEnds, Send, Abort, SenderStates
  <2>2. fetch' = fetch /\ done' = done
    BY <1>4 DEF QueryEnds, Send, Abort
  <2> QED BY <2>1, <2>2
<1>5. ASSUME NEW r \in Requests, NEW t \in CoalescedTags,
             FetchEnds(r, t) \/ FetchSend(r, t) \/ FetchAbort(r, t)
      PROVE LostForSomebody'
  <2>1. PICK s \in SenderStates : /\ fetch' = [fetch EXCEPT ![r][t] = s]
                                  /\ s = "aborted" => r \in done
    BY <1>5 DEF FetchEnds, FetchSend, FetchAbort, SenderStates
  <2>2. sender' = sender /\ done' = done
    BY <1>5 DEF FetchEnds, FetchSend, FetchAbort
  <2> QED BY <2>1, <2>2
<1>6. CASE UNCHANGED vars
  BY <1>6 DEF vars, goroutines
<1> QED BY <1>1, <1>2, <1>3, <1>4, <1>5, <1>6, <1>7 DEF Next, Goroutines

GatheringInv == StreamInv /\ Opened /\ LostForSomebody

(* The invariant of the refinement holds *)
LEMMA GatheringInvariant == Spec => []GatheringInv
<1>1. Init => Opened /\ LostForSomebody
  BY DEF Init, Opened, LostForSomebody
<1>2. GatheringInv /\ [Next]_vars => GatheringInv'
  BY OpenedStep, LostStep, ControlStep, DataStep, OrderedStep, LedStep, LeadersStep,
     ResultStep, WaitedStep, CountedStep DEF GatheringInv, StreamInv
<1>3. Init => StreamInv
  BY ControlInit, DataInit, OrderedInit, LedInit, GatheredInit DEF StreamInv
<1> QED BY <1>1, <1>2, <1>3, PTL DEF Spec, GatheringInv

-------------------------------------------------------------------------------
(* The stream, seen from the writer *)

(* The abstract stream counts the same tags *)
LEMMA SameTags == Gathering!DataTags = DataTags
BY DEF Gathering!DataTags, DataTags

(* What a request loses depends on its senders, its leader and the fetches *)
LEMMA LostKept ==
    ASSUME sender' = sender, lead' = lead, fetch' = fetch PROVE Lost' = Lost
BY DEF Lost, Dropped

(* Steps of the senders and of the flight that do not show *)
LEMMA HiddenKept ==
    ASSUME next' = next, stream' = stream, received' = received, done' = done, Lost' = Lost
    PROVE  UNCHANGED Gathering!gathering
BY DEF Gathering!gathering, Phase, Writer

(* A request that has to be handed a tag has an open stream and has not    *)
(* been handed it                                                          *)
LEMMA OpenStream ==
    ASSUME GatheringInv, NEW r \in Requests,
           \/ coal[r] \in {"calling", "joined", "leading", "ending", "sharing"}
           \/ \E t \in PlainTags : sender[r][t] \in {"querying", "sending"}
    PROVE  Phase[r] = "open"
<1>1. next[r] # "idle"
  BY DEF GatheringInv, StreamInv, Ordered, Waited
<1>2. stream[r] # "closed"
  BY DEF GatheringInv, StreamInv, Ordered, Ended
<1>3. stream[r] # "none"
  BY <1>1 DEF GatheringInv, Opened
<1> QED BY <1>2, <1>3 DEF Phase

(* A plain tag that is not sent is not there *)
LEMMA PlainMissing ==
    ASSUME StreamInv, NEW r \in Requests, NEW t \in PlainTags, sender[r][t] # "sent"
    PROVE  ~Gathering!Has(r, t)
<1> SUFFICES ASSUME NEW d \in DataTags, d.tag = t, received[r][d] > 0 PROVE FALSE
  BY SameTags DEF Gathering!Has
<1> USE DEF StreamInv
<1>1. d \in Sent(r) \cup Shared(r)
  BY DEF Counted
<1>2. d \in Sent(r)
  BY <1>1, Apart, StreamAssumption
<1> QED BY <1>2 DEF Sent, TagOf

(* A coalesced tag is there only if the flight has shared it *)
LEMMA CoalescedMissing ==
    ASSUME StreamInv, NEW r \in Requests, NEW t \in CoalescedTags,
           \A d \in Shared(r) : d.tag # t
    PROVE  ~Gathering!Has(r, t)
<1> SUFFICES ASSUME NEW d \in DataTags, d.tag = t, received[r][d] > 0 PROVE FALSE
  BY SameTags DEF Gathering!Has
<1> USE DEF StreamInv
<1>1. d \in Sent(r) \cup Shared(r)
  BY DEF Counted
<1> QED BY <1>1, Apart, StreamAssumption

(* A lost tag is not there *)
LEMMA LostMissing ==
    ASSUME GatheringInv, NEW r \in Requests, NEW t \in Dropped(r)
    PROVE  ~Gathering!Has(r, t)
<1>1. StreamInv
  BY DEF GatheringInv
<1>2. CASE t \in PlainTags /\ sender[r][t] = "aborted"
  BY <1>1, <1>2, PlainMissing
<1>3. CASE t \in CoalescedTags /\ lead[r] # NoRequest /\ fetch[lead[r]][t] = "aborted"
  <2>1. \A d \in Shared(r) : d.tag # t
    BY <1>1, <1>3 DEF StreamInv, Shared, ResultOK, TagOf
  <2> QED BY <1>1, <1>3, <2>1, CoalescedMissing
<1> QED BY <1>2, <1>3 DEF Dropped

(* When all has been sent and shared, a tag is there or lost *)
LEMMA NothingElseMissing ==
    ASSUME GatheringInv, NEW r \in Requests, stream[r] = "waiting", coal[r] = "done",
           NEW t \in Tags, t \notin Dropped(r)
    PROVE  Gathering!Has(r, t)
<1> USE DEF GatheringInv, StreamInv
<1>1. \A d \in Sent(r) \cup Shared(r) : d \in DataTags => received[r][d] = 1
  BY DEF Counted
<1>2. CASE t \in PlainTags
  <2>1. sender[r][t] = "sent"
    BY <1>2 DEF Ordered, Ended, Dropped
  <2>2. TagOf(r, t) \in Sent(r)
    BY <1>2, <2>1 DEF Sent
  <2> QED BY <1>1, <2>2, TagOfType, SameTags DEF Gathering!Has, TagOf
<1>3. CASE t \in CoalescedTags
  <2>1. lead[r] \in Requests /\ lead[lead[r]] = lead[r]
    BY <1>3 DEF LeadersOK, DataOK
  <2>2. fetch[lead[r]][t] = "sent"
    BY <1>3, <2>1, StreamAssumption DEF LeadersOK, ResultOK, Ended, Dropped
  <2>3. TagOf(lead[r], t) \in Shared(r)
    BY <1>3, <2>1, <2>2 DEF Shared, Ordered, ResultOK
  <2>4. TagOf(lead[r], t).tag = t
    BY DEF TagOf
  <2> QED BY <1>1, <2>1, <2>3, <2>4, TagOfType, SameTags DEF Gathering!Has
<1> QED BY <1>2, <1>3 DEF Tags

(* Initially nothing has been gathered *)
LEMMA GatheringInit == Init => Gathering!Init
<1> SUFFICES ASSUME Init PROVE Gathering!Init
  OBVIOUS
<1>1. \A r \in Requests : Dropped(r) = {}
  BY DEF Init, Dropped
<1> QED BY <1>1, SameTags DEF Init, Gathering!Init, Phase, Writer, Lost

(* The page's own steps are those of the writer *)
LEMMA WriterStep ==
    ASSUME GatheringInv, NEW r \in Requests,
           Arrive(r) \/ Collect(r) \/ Inject(r) \/ Return(r) \/ ClientLeaves(r)
    PROVE  Gathering!Next
<1> USE DEF GatheringInv, StreamInv, ControlOK
<1>1. CASE Arrive(r)
  <2>1. \A q \in Requests : Dropped(q)' = Dropped(q)
    BY <1>1 DEF Arrive, Dropped, Waited
  <2>2. Lost' = Lost
    BY <2>1 DEF Lost
  <2>3. Gathering!Open(r)
    BY <1>1, <2>2 DEF Arrive, Gathering!Open, Phase, Writer, Opened
  <2> QED BY <2>3 DEF Gathering!Next
<1>2. CASE Collect(r)
  <2>1. Lost' = Lost
    BY <1>2, LostKept DEF Collect
  <2>2. Gathering!Wait(r)
    BY <1>2, <2>1 DEF Collect, Gathering!Wait, Phase, Writer, Opened
  <2> QED BY <2>2 DEF Gathering!Next
<1>3. CASE Inject(r)
  <2>1. Lost' = Lost
    BY <1>3, LostKept DEF Inject
  <2>2. Gathering!Write(r)
    BY <1>3, <2>1 DEF Inject, Gathering!Write, Phase, Writer
  <2> QED BY <2>2 DEF Gathering!Next
<1>4. CASE Return(r)
  <2>1. Lost' = Lost
    BY <1>4, LostKept DEF Return
  <2>2. Gathering!Leave(r)
    BY <1>4, <2>1 DEF Return, Gathering!Leave, Phase, Writer, Opened
  <2> QED BY <2>2 DEF Gathering!Next
<1>5. CASE ClientLeaves(r)
  <2>1. Lost' = Lost
    BY <1>5, LostKept DEF ClientLeaves, goroutines
  <2>2. Gathering!Leave(r)
    BY <1>5, <2>1 DEF ClientLeaves, goroutines, Gathering!Leave, Phase, Writer, Opened
  <2> QED BY <2>2 DEF Gathering!Next
<1> QED BY <1>1, <1>2, <1>3, <1>4, <1>5

(* A sender hands over its tag, loses it, or does nothing that shows *)
LEMMA SenderStep ==
    ASSUME GatheringInv, NEW r \in Requests, NEW t \in PlainTags,
           QueryEnds(r, t) \/ Send(r, t) \/ Abort(r, t)
    PROVE  [Gathering!Next]_Gathering!gathering
<1> USE DEF GatheringInv
<1>1. StreamInv /\ ControlOK /\ DataOK
  BY DEF StreamInv
<1>2. Phase[r] = "open" /\ ~Gathering!Has(r, t)
  BY OpenStream, PlainMissing DEF QueryEnds, Send, Abort
<1>3. CASE QueryEnds(r, t)
  <2>1. \A q \in Requests : Dropped(q)' = Dropped(q)
    BY <1>1, <1>3 DEF QueryEnds, Dropped, ControlOK
  <2> QED BY <1>3, <2>1, HiddenKept DEF QueryEnds, Lost
<1>4. CASE Send(r, t)
  <2> DEFINE d == TagOf(r, t)
  <2>1. \A q \in Requests : Dropped(q)' = Dropped(q)
    BY <1>1, <1>4 DEF Send, Dropped, ControlOK
  <2>2. Lost' = Lost
    BY <2>1 DEF Lost
  <2>3. d \in DataTags /\ d.tag = t
    BY TagOfType DEF Tags, TagOf
  <2>4. t \notin Lost[r]
    BY <1>4, StreamAssumption DEF Send, Lost, Dropped
  <2>5. received[r][d] = 0
    BY <1>1, <1>2, <2>3, SameTags DEF Gathering!Has, DataOK
  <2>6. received' = [received EXCEPT ![r][d] = 1]
    BY <1>1, <1>4, <2>3, <2>5 DEF Send, Deliver, DataOK
  <2>7. Phase' = Phase /\ Writer' = Writer /\ done' = done /\ Writer[r] = "waiting"
    BY <1>4 DEF Send, Receives, Phase, Writer
  <2> HIDE DEF d
  <2>8. Gathering!Gather(r)
    BY <1>2, <2>2, <2>3, <2>4, <2>6, <2>7, SameTags DEF Gathering!Gather
  <2> QED BY <2>8 DEF Gathering!Next
<1>5. CASE Abort(r, t)
  <2>1. \A q \in Requests : Dropped(q)' = IF q = r THEN Dropped(q) \cup {t} ELSE Dropped(q)
    BY <1>1, <1>5 DEF Abort, Dropped, ControlOK
  <2>2. done # {} /\ UNCHANGED <<Phase, Writer, received, done>>
    BY <1>5 DEF Abort, Phase, Writer
  <2>3. \A q \in Requests : \A u \in Lost[q] : ~Gathering!Has(q, u)
    BY LostMissing DEF Lost
  <2>4. Lost \in [Requests -> SUBSET Tags] /\ Lost' \in [Requests -> SUBSET Tags]
    BY DEF Lost, Dropped, Tags
  <2>5. Gathering!Lose
    BY <1>2, <2>1, <2>2, <2>3, <2>4 DEF Gathering!Lose, Lost
  <2> QED BY <2>5 DEF Gathering!Next
<1> QED BY <1>3, <1>4, <1>5

(* The loop of a flight hands over what the flight has collected, loses    *)
(* tags for all that share it, or does nothing that shows                  *)
LEMMA FlightStep ==
    ASSUME GatheringInv, NEW r \in Requests,
           \/ PlainEnds(r) \/ CloseStream(r)
           \/ Lead(r) \/ Join(r) \/ FlightEnds(r) \/ ForgetFlight(r)
           \/ Wake(r) \/ Share(r) \/ ShareEnds(r)
    PROVE  [Gathering!Next]_Gathering!gathering
<1> USE DEF GatheringInv
<1>1. StreamInv /\ ControlOK /\ DataOK
  BY DEF StreamInv
<1>2. CASE PlainEnds(r)
  <2>1. Phase' = Phase /\ Lost' = Lost
    BY <1>1, <1>2, LostKept DEF PlainEnds, Phase, ControlOK
  <2> QED BY <1>2, <2>1 DEF PlainEnds, Gathering!gathering, Writer
<1>3. CASE CloseStream(r)
  <2>1. Lost' = Lost /\ Writer' = Writer /\ received' = received /\ done' = done
    BY <1>3, LostKept DEF CloseStream, Writer
  <2>2. Phase[r] = "open" /\ Phase' = [Phase EXCEPT ![r] = "sealed"]
    BY <1>1, <1>3 DEF CloseStream, Phase, ControlOK
  <2>3. \A t \in Tags : Gathering!Has(r, t) \/ t \in Lost[r]
    BY <1>3, NothingElseMissing DEF CloseStream, Lost
  <2>4. Gathering!Seal(r)
    BY <2>1, <2>2, <2>3 DEF Gathering!Seal
  <2> QED BY <2>4 DEF Gathering!Next
<1>4. CASE Lead(r)
  <2>1. lead[r] = NoRequest /\ \A q \in Requests : lead[q] # r
    BY <1>1, <1>4, StreamAssumption DEF Lead, StreamInv, LeadersOK, DataOK
  <2>2. ASSUME NEW q \in Requests PROVE Dropped(q)' = Dropped(q)
    BY <1>1, <1>4, <2>1, <2>2 DEF Lead, Dropped, DataOK, ControlOK
  <2>3. Lost' = Lost
    BY <2>2 DEF Lost
  <2> QED BY <1>4, <2>3, HiddenKept DEF Lead
<1>5. CASE Join(r)
  <2>1. lead[r] = NoRequest
    BY <1>1, <1>5 DEF Join, StreamInv, LeadersOK
  <2>2. \A q \in Requests : /\ Dropped(q) \subseteq Dropped(q)'
                            /\ q # r => Dropped(q)' = Dropped(q)
    BY <1>1, <1>5, <2>1 DEF Join, Dropped, DataOK
  <2>3. \A t \in Dropped(r)' \ Dropped(r) : ~Gathering!Has(r, t)
    <3>1. \A t \in Dropped(r)' \ Dropped(r) : t \in CoalescedTags
      BY <1>5 DEF Join, Dropped
    <3>2. Shared(r) = {}
      BY <1>5 DEF Join, Shared
    <3> QED BY <3>1, <3>2, CoalescedMissing
  <2>4. Dropped(r)' # Dropped(r) => done # {}
    <3>1. flight \in Requests /\ lead'[r] = flight
      BY <1>1, <1>5 DEF Join, ControlOK, DataOK
    <3>2. ASSUME NEW t \in Dropped(r)' \ Dropped(r) PROVE flight \in done
      BY <1>5, <3>1, <3>2 DEF Join, Dropped, LostForSomebody
    <3> QED BY <2>2, <3>2
  <2>5. UNCHANGED <<Phase, Writer, received, done>> /\ Phase[r] = "open"
    BY <1>5, OpenStream DEF Join, Phase, Writer
  <2>6. CASE Dropped(r)' = Dropped(r)
    BY <1>5, <2>2, <2>6, HiddenKept DEF Join, Lost
  <2>7. CASE Dropped(r)' # Dropped(r)
    <3>2. \A q \in Requests : \A u \in Lost[q] : ~Gathering!Has(q, u)
      BY LostMissing DEF Lost
    <3>3. Lost \in [Requests -> SUBSET Tags] /\ Lost' \in [Requests -> SUBSET Tags]
      BY DEF Lost, Dropped, Tags
    <3>4. Gathering!Lose
      BY <2>2, <2>3, <2>4, <2>5, <2>7, <3>2, <3>3 DEF Gathering!Lose, Lost
    <3> QED BY <3>4 DEF Gathering!Next
  <2> QED BY <2>6, <2>7
<1>6. CASE FlightEnds(r) \/ ForgetFlight(r) \/ Wake(r) \/ ShareEnds(r)
  <2>1. UNCHANGED <<next, stream, sender, lead, fetch, received, done>>
    BY <1>6 DEF FlightEnds, ForgetFlight, Wake, ShareEnds
  <2> QED BY <2>1, LostKept, HiddenKept
<1>7. CASE Share(r)
  <2>1. PICK d \in toShare[r] : /\ Deliver(r, d)
                                /\ toShare' = [toShare EXCEPT ![r] = @ \ {d}]
    BY <1>7 DEF Share
  <2>2. /\ coal[r] = "sharing" /\ Writer[r] = "waiting"
        /\ UNCHANGED <<Phase, Writer, sender, lead, fetch, done>>
    BY <1>7 DEF Share, goroutines, Receives, Phase, Writer
  <2>3. Lost' = Lost
    BY <2>2, LostKept
  <2>4. /\ lead[r] \in Requests /\ lead[lead[r]] = lead[r]
        /\ d \in result[lead[r]] /\ d \in DataTags /\ d.tag \in CoalescedTags
    BY <1>1, <2>2, Apart DEF StreamInv, LeadersOK, ResultOK, DataOK
  <2>5. /\ \A e \in result[lead[r]] : e = TagOf(lead[r], e.tag)
        /\ fetch[lead[r]][d.tag] = "sent"
    BY <1>1, <2>4 DEF StreamInv, ResultOK, TagOf
  <2>6. \A e \in Shared(r) : e.tag # d.tag
    BY <1>1, <2>1, <2>2, <2>4, <2>5 DEF Shared, TagOf
  <2>7. ~Gathering!Has(r, d.tag)
    BY <1>1, <2>4, <2>6, CoalescedMissing
  <2>8. d.tag \notin Lost[r]
    BY <2>4, <2>5, StreamAssumption DEF Lost, Dropped
  <2>9. received' = [received EXCEPT ![r][d] = 1]
    <3>1. received[r][d] = 0
      BY <1>1, <2>4, <2>7, SameTags DEF Gathering!Has, DataOK
    <3> QED BY <1>1, <2>1, <2>4, <3>1 DEF Deliver, DataOK
  <2>10. Phase[r] = "open"
    BY <2>2, OpenStream
  <2>11. Gathering!Gather(r)
    BY <2>2, <2>3, <2>4, <2>7, <2>8, <2>9, <2>10, SameTags DEF Gathering!Gather
  <2> QED BY <2>11 DEF Gathering!Next
<1> QED BY <1>2, <1>3, <1>4, <1>5, <1>6, <1>7

(* A fetch hands its tag to the flight, or loses it for all that share it *)
LEMMA FetchStep ==
    ASSUME GatheringInv, NEW r \in Requests, NEW t \in CoalescedTags,
           FetchEnds(r, t) \/ FetchSend(r, t) \/ FetchAbort(r, t)
    PROVE  [Gathering!Next]_Gathering!gathering
<1> USE DEF GatheringInv
<1>1. StreamInv /\ ControlOK /\ DataOK
  BY DEF StreamInv
<1>2. UNCHANGED <<next, stream, sender, lead, received, done>>
  BY DEF FetchEnds, FetchSend, FetchAbort
<1>3. CASE FetchEnds(r, t) \/ FetchSend(r, t)
  <2>1. PICK s \in {"sending", "sent"} : fetch' = [fetch EXCEPT ![r][t] = s]
    BY <1>3 DEF FetchEnds, FetchSend
  <2>2. fetch[r][t] # "aborted"
    BY <1>3 DEF FetchEnds, FetchSend
  <2>3. ASSUME NEW q \in Requests PROVE Dropped(q)' = Dropped(q)
    BY <1>1, <1>2, <2>1, <2>2 DEF Dropped, ControlOK, DataOK
  <2> QED BY <1>2, <2>3, HiddenKept DEF Lost
<1>4. CASE FetchAbort(r, t)
  <2>1. \A q \in Requests :
           Dropped(q)' = IF lead[q] = r THEN Dropped(q) \cup {t} ELSE Dropped(q)
    BY <1>1, <1>2, <1>4, StreamAssumption DEF FetchAbort, Dropped, ControlOK, DataOK
  <2>2. coal[r] = "leading" /\ done # {}
    BY <1>1, <1>4 DEF FetchAbort, StreamInv, Led
  <2>3. ASSUME NEW q \in Requests, lead[q] = r
        PROVE  Phase[q] = "open" /\ ~Gathering!Has(q, t)
    <3>1. coal[q] \in {"joined", "leading", "ending"}
      BY <1>1, <2>2, <2>3, StreamAssumption DEF StreamInv, LeadersOK, ControlOK, CoalStates
    <3> QED BY <1>1, <3>1, OpenStream, CoalescedMissing DEF Shared
  <2>4. \A q \in Requests : \A u \in Lost[q] : ~Gathering!Has(q, u)
    BY LostMissing DEF Lost
  <2>5. Lost \in [Requests -> SUBSET Tags] /\ Lost' \in [Requests -> SUBSET Tags]
    BY DEF Lost, Dropped, Tags
  <2>6. UNCHANGED <<Phase, Writer, received, done>>
    BY <1>2 DEF Phase, Writer
  <2>7. Gathering!Lose
    BY <2>1, <2>2, <2>3, <2>4, <2>5, <2>6 DEF Gathering!Lose, Lost
  <2> QED BY <2>7 DEF Gathering!Next
<1> QED BY <1>3, <1>4

(* The fast path implements what the writer of a page relies on, for every *)
(* number of requests, pages and tags: whatever the goroutines do, a tag   *)
(* is handed over once and before the stream is sealed, and none is        *)
(* missing unless a client has left.                                       *)
THEOREM StreamGathers == Spec => Gathers
<1>1. GatheringInv /\ [Next]_vars => [Gathering!Next]_Gathering!gathering
  <2> SUFFICES ASSUME GatheringInv, [Next]_vars
               PROVE  [Gathering!Next]_Gathering!gathering
    OBVIOUS
  <2>1. CASE UNCHANGED vars
    <3>1. UNCHANGED <<next, stream, sender, lead, fetch, received, done>>
      BY <2>1 DEF vars, goroutines
    <3> QED BY <3>1, LostKept, HiddenKept
  <2>2. CASE Next
    BY <2>2, WriterStep, SenderStep, FlightStep, FetchStep DEF Next, Goroutines
  <2> QED BY <2>1, <2>2
<1> QED BY GatheringInit, GatheringInvariant, <1>1, PTL DEF Spec, Gathers, Gathering!Spec
================================================================================
