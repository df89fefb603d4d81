------------------------------ MODULE TagStream ------------------------------
(***************************************************************************)
(* The fast path of Middleware.ServeHTTP (middleware.go): the ESI tags of  *)
(* the page are known, and while the next handler renders the page their   *)
(* contents are fetched and sent over an unbuffered channel, chanTag, to   *)
(* the injectingWriter that wraps the response.                            *)
(*                                                                         *)
(* Goroutines of one request r:                                            *)
(*   next[r]      ServeHTTP itself: the next handler and, called by it,    *)
(*                the injectingWriter that drains chanTag (initLazyTags)   *)
(*   stream[r]    queries the plain tags, waits for coal[r], closes        *)
(*                chanTag                                                  *)
(*   sender[r][t] one per plain tag t, started by Entities.QueryResources  *)
(*   coal[r]      asks the singleflight group for the coalesced tags and   *)
(*                sends them to chanTag                                    *)
(*   fetch[r][t]  one per coalesced tag t, for the flight that r leads     *)
(*                                                                         *)
(* A page lists all tags, each at a position of its own.  A tag that has   *)
(* been fetched carries the position the fetching request knows for it, so *)
(* a DataTag is a tag with the page it was parsed from.  All pages have    *)
(* the same coalesced tags, hence the same Entities.UniqueID, hence one    *)
(* singleflight key.                                                       *)
(***************************************************************************)
EXTENDS Naturals, FiniteSets

CONSTANTS Requests, Pages,
          PageOf,           \* [Requests -> Pages]: the page a request asks for
          PlainTags, CoalescedTags,
          NoRequest

ASSUME StreamAssumption == /\ PageOf \in [Requests -> Pages]
                           /\ PlainTags \cap CoalescedTags = {}
                           /\ NoRequest \notin Requests

Tags     == PlainTags \cup CoalescedTags
DataTags == [tag : Tags, page : Pages]

VARIABLES
    next, stream, sender, coal, fetch,   \* the goroutines
    flight,     \* the request that leads the flight in the group, or NoRequest
    lead,       \* [Requests -> ...]: the leader of the flight a request takes part in
    result,     \* [Requests -> SUBSET DataTags]: what the flight led by r collected
    toShare,    \* [Requests -> SUBSET DataTags]: what coal[r] has yet to send
    received,   \* [Requests -> [DataTags -> Nat]]: lazyTags of the injectingWriter
    done        \* the requests whose context is done

goroutines == <<next, stream, sender, coal, fetch>>
vars == <<goroutines, flight, lead, result, toShare, received, done>>

SenderStates == {"none", "querying", "sending", "sent", "aborted"}
Ended == {"sent", "aborted"}

TypeOK ==
    /\ next \in [Requests -> {"idle", "serving", "collecting", "injecting", "returned"}]
    /\ stream \in [Requests -> {"none", "querying", "waiting", "closed"}]
    /\ sender \in [Requests -> [PlainTags -> SenderStates]]
    /\ coal \in [Requests -> {"none", "calling", "joined", "leading", "ending",
                              "sharing", "done"}]
    /\ fetch \in [Requests -> [CoalescedTags -> SenderStates]]
    /\ flight \in Requests \cup {NoRequest}
    /\ lead \in [Requests -> Requests \cup {NoRequest}]
    /\ result \in [Requests -> SUBSET DataTags]
    /\ toShare \in [Requests -> SUBSET DataTags]
    /\ received \in [Requests -> [DataTags -> Nat]]
    /\ done \subseteq Requests

Init ==
    /\ next     = [r \in Requests |-> "idle"]
    /\ stream   = [r \in Requests |-> "none"]
    /\ sender   = [r \in Requests |-> [t \in PlainTags |-> "none"]]
    /\ coal     = [r \in Requests |-> "none"]
    /\ fetch    = [r \in Requests |-> [t \in CoalescedTags |-> "none"]]
    /\ flight   = NoRequest
    /\ lead     = [r \in Requests |-> NoRequest]
    /\ result   = [r \in Requests |-> {}]
    /\ toShare  = [r \in Requests |-> {}]
    /\ received = [r \in Requests |-> [d \in DataTags |-> 0]]
    /\ done     = {}

(* Variant of TagOf: the tag carries the request instead of the page *)
BadTagOf(r, t) == [tag |-> t, page |-> r]

TagOf(r, t) == [tag |-> t, page |-> PageOf[r]]

(* A send on the unbuffered chanTag happens when the writer receives *)
Receives(r) == next[r] = "collecting"
Deliver(r, d) == received' = [received EXCEPT ![r][d] = @ + 1]

-------------------------------------------------------------------------------
(* The request and the next handler *)

(* ServeHTTP starts its goroutines; without coalesced tags there is none   *)
(* for them                                                                *)
Arrive(r) ==
    /\ next[r] = "idle"
    /\ next'   = [next EXCEPT ![r] = "serving"]
    /\ stream' = [stream EXCEPT ![r] = "querying"]
    /\ sender' = [sender EXCEPT ![r] = [t \in PlainTags |-> "querying"]]
    /\ coal'   = [coal EXCEPT ![r] = IF CoalescedTags = {} THEN "done" ELSE "calling"]
    /\ UNCHANGED <<fetch, flight, lead, result, toShare, received, done>>

(* The first WriteHeader, or the first Write of text: initLazyTags ranges  *)
(* over chanTag                                                            *)
Collect(r) ==
    /\ next[r] = "serving"
    /\ next' = [next EXCEPT ![r] = "collecting"]
    /\ UNCHANGED <<stream, sender, coal, fetch, flight, lead, result, toShare, received, done>>

(* chanTag is closed: the tags are sorted and the page is written *)
Inject(r) ==
    /\ next[r] = "collecting" /\ stream[r] = "closed"
    /\ next' = [next EXCEPT ![r] = "injecting"]
    /\ UNCHANGED <<stream, sender, coal, fetch, flight, lead, result, toShare, received, done>>

(* The next handler returns, also without having written anything or with  *)
(* a body that is no text; the server then ends the request's context.     *)
Return(r) ==
    /\ next[r] \in {"serving", "injecting"}
    /\ next' = [next EXCEPT ![r] = "returned"]
    /\ done' = done \cup {r}
    /\ UNCHANGED <<stream, sender, coal, fetch, flight, lead, result, toShare, received>>

(* The client closes its connection: the server ends the context *)
ClientLeaves(r) ==
    /\ next[r] \in {"serving", "collecting", "injecting"} /\ r \notin done
    /\ done' = done \cup {r}
    /\ UNCHANGED <<goroutines, flight, lead, result, toShare, received>>

-------------------------------------------------------------------------------
(* Entities.QueryResources of the plain tags *)

(* Entity.QueryResources returns: with the data or the onerror text *)
QueryEnds(r, t) ==
    /\ sender[r][t] = "querying"
    /\ sender' = [sender EXCEPT ![r][t] = "sending"]
    /\ UNCHANGED <<next, stream, coal, fetch, flight, lead, result, toShare, received, done>>

(* select: the send ... *)
Send(r, t) ==
    /\ sender[r][t] = "sending" /\ Receives(r)
    /\ sender' = [sender EXCEPT ![r][t] = "sent"]
    /\ Deliver(r, TagOf(r, t))
    /\ UNCHANGED <<next, stream, coal, fetch, flight, lead, result, toShare, done>>

(* Variant of Abort: the sender sees the end of the context and tries again *)
BadAbort(r, t) ==
    /\ sender[r][t] = "sending" /\ r \in done
    /\ UNCHANGED vars

(* ... or the end of the context *)
Abort(r, t) ==
    /\ sender[r][t] = "sending" /\ r \in done
    /\ sender' = [sender EXCEPT ![r][t] = "aborted"]
    /\ UNCHANGED <<next, stream, coal, fetch, flight, lead, result, toShare, received, done>>

(* g.Wait() returns *)
PlainEnds(r) ==
    /\ stream[r] = "querying" /\ \A t \in PlainTags : sender[r][t] \in Ended
    /\ stream' = [stream EXCEPT ![r] = "waiting"]
    /\ UNCHANGED <<next, sender, coal, fetch, flight, lead, result, toShare, received, done>>

(* Variant of CloseStream: it does not wait for the goroutine of the coalesced tags *)
BadCloseStream(r) ==
    /\ stream[r] = "waiting"
    /\ stream' = [stream EXCEPT ![r] = "closed"]
    /\ UNCHANGED <<next, sender, coal, fetch, flight, lead, result, toShare, received, done>>

(* wg.Wait(), close(chanTag) *)
CloseStream(r) ==
    /\ stream[r] = "waiting" /\ coal[r] = "done"
    /\ stream' = [stream EXCEPT ![r] = "closed"]
    /\ UNCHANGED <<next, sender, coal, fetch, flight, lead, result, toShare, received, done>>

-------------------------------------------------------------------------------
(* The coalesced tags: mw.coalesce.Do *)

(* Variant of Lead: every request queries the backend itself *)
BadLead(r) ==
    /\ coal[r] = "calling"
    /\ flight' = r
    /\ lead'   = [lead EXCEPT ![r] = r]
    /\ coal'   = [coal EXCEPT ![r] = "leading"]
    /\ fetch'  = [fetch EXCEPT ![r] = [t \in CoalescedTags |-> "querying"]]
    /\ UNCHANGED <<next, stream, sender, result, toShare, received, done>>

(* No flight is under way: the request leads one and starts the queries,   *)
(* with its own request and context, for all that join                     *)
Lead(r) ==
    /\ coal[r] = "calling" /\ flight = NoRequest
    /\ flight' = r
    /\ lead'   = [lead EXCEPT ![r] = r]
    /\ coal'   = [coal EXCEPT ![r] = "leading"]
    /\ fetch'  = [fetch EXCEPT ![r] = [t \in CoalescedTags |-> "querying"]]
    /\ UNCHANGED <<next, stream, sender, result, toShare, received, done>>

Join(r) ==
    /\ coal[r] = "calling" /\ flight # NoRequest
    /\ lead' = [lead EXCEPT ![r] = flight]
    /\ coal' = [coal EXCEPT ![r] = "joined"]
    /\ UNCHANGED <<next, stream, sender, fetch, flight, result, toShare, received, done>>

FetchEnds(r, t) ==
    /\ fetch[r][t] = "querying"
    /\ fetch' = [fetch EXCEPT ![r][t] = "sending"]
    /\ UNCHANGED <<next, stream, sender, coal, flight, lead, result, toShare, received, done>>

(* The leader's loop receives from coaChanTag *)
FetchSend(r, t) ==
    /\ fetch[r][t] = "sending" /\ coal[r] = "leading"
    /\ fetch'  = [fetch EXCEPT ![r][t] = "sent"]
    /\ result' = [result EXCEPT ![r] = @ \cup {TagOf(r, t)}]
    /\ UNCHANGED <<next, stream, sender, coal, flight, lead, toShare, received, done>>

(* The leader's context is done: the fetched tag is dropped *)
FetchAbort(r, t) ==
    /\ fetch[r][t] = "sending" /\ r \in done
    /\ fetch' = [fetch EXCEPT ![r][t] = "aborted"]
    /\ UNCHANGED <<next, stream, sender, coal, flight, lead, result, toShare, received, done>>

(* Variant of FlightEnds: the function does not wait for its fetches *)
BadFlightEnds(r) ==
    /\ coal[r] = "leading"
    /\ coal' = [coal EXCEPT ![r] = "ending"]
    /\ UNCHANGED <<next, stream, sender, fetch, flight, lead, result, toShare, received, done>>

(* coaChanTag is closed: the leader's function returns the collected tags *)
FlightEnds(r) ==
    /\ coal[r] = "leading" /\ \A t \in CoalescedTags : fetch[r][t] \in Ended
    /\ coal' = [coal EXCEPT ![r] = "ending"]
    /\ UNCHANGED <<next, stream, sender, fetch, flight, lead, result, toShare, received, done>>

(* The group forgets the flight, which a request could join up to now *)
ForgetFlight(r) ==
    /\ coal[r] = "ending"
    /\ flight'  = NoRequest
    /\ coal'    = [coal EXCEPT ![r] = "sharing"]
    /\ toShare' = [toShare EXCEPT ![r] = result[r]]
    /\ UNCHANGED <<next, stream, sender, fetch, lead, result, received, done>>

(* Variant of Wake: a request that joined does not wait for the flight *)
BadWake(r) ==
    /\ coal[r] = "joined"
    /\ coal'    = [coal EXCEPT ![r] = "sharing"]
    /\ toShare' = [toShare EXCEPT ![r] = result[lead[r]]]
    /\ UNCHANGED <<next, stream, sender, fetch, flight, lead, result, received, done>>

(* Do returns the leader's tags to a request that joined *)
Wake(r) ==
    /\ coal[r] = "joined" /\ coal[lead[r]] \in {"ending", "sharing", "done"}
    /\ coal'    = [coal EXCEPT ![r] = "sharing"]
    /\ toShare' = [toShare EXCEPT ![r] = result[lead[r]]]
    /\ UNCHANGED <<next, stream, sender, fetch, flight, lead, result, received, done>>

(* chanTag <- tag, whether or not the context is done *)
Share(r) ==
    /\ coal[r] = "sharing" /\ Receives(r)
    /\ \E d \in toShare[r] :
          /\ Deliver(r, d)
          /\ toShare' = [toShare EXCEPT ![r] = @ \ {d}]
    /\ UNCHANGED <<goroutines, flight, lead, result, done>>

(* Variant of ShareEnds: no wg.Done() for a request whose context is done *)
BadShareEnds(r) ==
    /\ coal[r] = "sharing" /\ toShare[r] = {} /\ r \notin done
    /\ coal' = [coal EXCEPT ![r] = "done"]
    /\ UNCHANGED <<next, stream, sender, fetch, flight, lead, result, toShare, received, done>>

(* wg.Done() *)
ShareEnds(r) ==
    /\ coal[r] = "sharing" /\ toShare[r] = {}
    /\ coal' = [coal EXCEPT ![r] = "done"]
    /\ UNCHANGED <<next, stream, sender, fetch, flight, lead, result, toShare, received, done>>

-------------------------------------------------------------------------------
(* What the goroutines of a request do by themselves, once they run *)
Goroutines(r) ==
    \/ Inject(r) \/ PlainEnds(r) \/ CloseStream(r)
    \/ Lead(r) \/ Join(r) \/ FlightEnds(r) \/ ForgetFlight(r) \/ Wake(r)
    \/ Share(r) \/ ShareEnds(r)
    \/ \E t \in PlainTags : QueryEnds(r, t) \/ Send(r, t) \/ Abort(r, t)
    \/ \E t \in CoalescedTags : FetchEnds(r, t) \/ FetchSend(r, t) \/ FetchAbort(r, t)

Next == \E r \in Requests :
    \/ Arrive(r) \/ Collect(r) \/ Return(r) \/ ClientLeaves(r)
    \/ Goroutines(r)

Spec == Init /\ [][Next]_vars

(* Every goroutine that can take a step takes it: the runtime schedules    *)
(* it, and a backend call ends by its timeout at the latest.  Nothing is   *)
(* assumed of the client or of the page the next handler renders.          *)
Fairness == \A r \in Requests :
    /\ WF_vars(Inject(r)) /\ WF_vars(PlainEnds(r)) /\ WF_vars(CloseStream(r))
    /\ WF_vars(Lead(r) \/ Join(r)) /\ WF_vars(FlightEnds(r))
    /\ WF_vars(ForgetFlight(r) \/ Wake(r) \/ Share(r) \/ ShareEnds(r))
    /\ \A t \in PlainTags : WF_vars(QueryEnds(r, t) \/ Send(r, t) \/ Abort(r, t))
    /\ \A t \in CoalescedTags : WF_vars(FetchEnds(r, t) \/ FetchSend(r, t) \/ FetchAbort(r, t))

FairSpec == Spec /\ Fairness

-------------------------------------------------------------------------------
(* Properties *)

(* chanTag is closed after the last send, whatever the order in which the  *)
(* plain senders, the flight and the goroutine that shares its tags end:   *)
(* a send on a closed channel panics and takes the server down.            *)
ClosedAfterLastSend ==
    \A r \in Requests :
        stream[r] = "closed" =>
            /\ \A t \in PlainTags : sender[r][t] \in Ended
            /\ coal[r] = "done" /\ toShare[r] = {}

(* The tags of r that got lost: the select chose the end of the context,   *)
(* in a sender of r or in a fetch of the flight that r took part in        *)
Dropped(r) ==
    {t \in PlainTags : sender[r][t] = "aborted"}
    \cup {t \in CoalescedTags : lead[r] # NoRequest /\ fetch[lead[r]][t] = "aborted"}

(* A page is written with every tag that no ended context dropped, and     *)
(* with each of them once.                                                 *)
CompleteUnlessDropped ==
    \A r \in Requests :
        next[r] = "injecting" =>
            \A t \in Tags :
                LET copies == {d \in DataTags : d.tag = t /\ received[r][d] > 0}
                IN  IF t \in Dropped(r) THEN copies = {}
                    ELSE \E d \in copies : copies = {d} /\ received[r][d] = 1

(* The stream of tags, as the writer of a page sees it *)
Phase == [r \in Requests |-> IF stream[r] = "none" THEN "none"
                             ELSE IF stream[r] = "closed" THEN "sealed" ELSE "open"]

Writer == [r \in Requests |-> CASE next[r] = "collecting" -> "waiting"
                                [] next[r] = "injecting" -> "writing"
                                [] next[r] = "returned" -> "gone"
                                [] OTHER -> "away"]

Lost == [r \in Requests |-> Dropped(r)]

Gathering == INSTANCE TagGathering
             WITH phase <- Phase, writer <- Writer, lost <- Lost, left <- done

(* The senders, the flights and the channels together do what the writer   *)
(* relies on: it is handed every tag once and while it waits, it writes    *)
(* after the last, and a tag goes missing only after some client has left. *)
Gathers == Gathering!Spec

(* While a flight is under way nobody else queries the coalesced tags: at  *)
(* any time one request at most has them fetched from the backends.        *)
OneFlight ==
    Cardinality({r \in Requests :
        \E t \in CoalescedTags : fetch[r][t] \in {"querying", "sending"}}) <= 1

(* All that share a flight are given the same tags, all of them.           *)
SharedAlike ==
    \A r \in Requests :
        coal[r] = "done" /\ lead[r] # NoRequest =>
            {d \in DataTags : d.tag \in CoalescedTags /\ received[r][d] > 0} = result[lead[r]]

(* A writer that waits for its tags gets to write the page, although its   *)
(* own client or the client of the flight it joined may have left.         *)
WriterProceeds == \A r \in Requests : next[r] = "collecting" ~> next[r] # "collecting"

(* No sender of a plain tag outlives its request for ever, also when the   *)
(* next handler wrote nothing and nobody drains chanTag.                   *)
SendersEnd ==
    \A r \in Requests :
        next[r] = "returned" ~> \A t \in PlainTags : sender[r][t] \in Ended

(* The channel of a request is closed in the end.                          *)
StreamCloses == \A r \in Requests : next[r] = "returned" ~> stream[r] = "closed"
===============================================================================
