------------------------------ MODULE PageCache ------------------------------
(***************************************************************************)
(* The ESI tags of one page in the cache of a PathConfig: the lookup of    *)
(* Middleware.ServeHTTP, the slow path serveBuffered, which parses the     *)
(* page in a singleflight group and stores its tags, and the purge command *)
(* (middleware.go, config.go).                                             *)
(*                                                                         *)
(* The page has versions, and editors change which one the next handler    *)
(* renders.  A set of tags is named by the version it was parsed from:     *)
(* only with the tags of the version that a request has buffered do the    *)
(* positions of the tags fit.                                              *)
(***************************************************************************)
EXTENDS Naturals

CONSTANTS Requests,
          Versions,       \* of the page
          Tagless,        \* versions without ESI tags
          Malformed,      \* versions whose tags the parser rejects
          None,           \* nothing cached, rendered or parsed
          MaxEdits, MaxPurges

ASSUME PageAssumption ==
    /\ Tagless \cup Malformed \subseteq Versions
    /\ Tagless \cap Malformed = {}
    /\ Versions \cap {None, "none", "running", "failed"} = {}
    /\ MaxEdits \in Nat /\ MaxPurges \in Nat

Tagged == Versions \ (Tagless \cup Malformed)

VARIABLES
    content,    \* the version the next handler renders
    cache,      \* esiCache[pageID]
    pc,         \* [Requests -> States]: where in ServeHTTP a request is
    buf,        \* [Requests -> Versions or None]: the page it has rendered
    ents,       \* [Requests -> Versions or None]: the tags it will inject
    flight,     \* the group's call for the page: "none", "running" or its result
    edits, purges,   \* how many there were
    edited,     \* the page was edited after the last purge
    late,       \* the requests that were in progress at the last purge
    quiet       \* no request was in progress at the last purge

history == <<edits, purges, edited, late, quiet>>
vars == <<content, cache, pc, buf, ents, flight, history>>

States == {"idle", "arrived", "fast", "slow", "buffered", "waiting", "parsing",
           "parsed", "ending", "forgetting", "responding"}

TypeOK ==
    /\ content \in Versions
    /\ cache \in Versions \cup {None}
    /\ pc \in [Requests -> States]
    /\ buf \in [Requests -> Versions \cup {None}]
    /\ ents \in [Requests -> Versions \cup {None}]
    /\ flight \in Versions \cup {"none", "running", "failed"}
    /\ edits \in 0..MaxEdits /\ purges \in 0..MaxPurges
    /\ edited \in BOOLEAN /\ late \subseteq Requests /\ quiet \in BOOLEAN

Init ==
    /\ content \in Versions
    /\ cache  = None
    /\ pc     = [r \in Requests |-> "idle"]
    /\ buf    = [r \in Requests |-> None]
    /\ ents   = [r \in Requests |-> None]
    /\ flight = "none"
    /\ edits = 0 /\ purges = 0
    /\ edited = FALSE /\ late = {} /\ quiet = TRUE

Goto(r, state) == pc' = [pc EXCEPT ![r] = state]

InProgress == {r \in Requests : pc[r] # "idle"}

(* The end of a request, which puts its buffer back into the pool; the     *)
(* slot is free for another request                                        *)
Finish(r) ==
    /\ pc'   = [pc EXCEPT ![r] = "idle"]
    /\ buf'  = [buf EXCEPT ![r] = None]
    /\ ents' = [ents EXCEPT ![r] = None]
    /\ late' = late \ {r}

-------------------------------------------------------------------------------
(* An editor changes the page *)
Edit(v) ==
    /\ edits < MaxEdits /\ v # content
    /\ content' = v
    /\ edits'   = edits + 1
    /\ edited'  = TRUE
    /\ UNCHANGED <<cache, pc, buf, ents, flight, purges, late, quiet>>

Arrive(r) ==
    /\ pc[r] = "idle"
    /\ Goto(r, "arrived")
    /\ UNCHANGED <<content, cache, buf, ents, flight, history>>

(* A request with the purge command: handleHeaderCommands clears the cache *)
(* before the request goes on like any other                               *)
Purge(r) ==
    /\ pc[r] = "idle" /\ purges < MaxPurges
    /\ Goto(r, "arrived")
    /\ cache'  = None
    /\ purges' = purges + 1
    /\ edited' = FALSE
    /\ late'   = InProgress
    /\ quiet'  = (InProgress = {})
    /\ UNCHANGED <<content, buf, ents, flight, edits>>

(* ESITagsByRequest, under the read lock; tags of a page without any count *)
(* as a miss                                                               *)
ESITagsByRequest(r) ==
    /\ pc[r] = "arrived"
    /\ \/ /\ cache \in Tagged
          /\ Goto(r, "fast")
          /\ ents' = [ents EXCEPT ![r] = cache]
       \/ /\ cache \notin Tagged
          /\ Goto(r, "slow")
          /\ UNCHANGED ents
    /\ UNCHANGED <<content, cache, buf, flight, history>>

(* The next handler renders the page, into the injecting writer or into    *)
(* the buffer                                                              *)
Render(r) ==
    /\ pc[r] \in {"fast", "slow"}
    /\ Goto(r, IF pc[r] = "fast" THEN "responding" ELSE "buffered")
    /\ buf' = [buf EXCEPT ![r] = content]
    /\ UNCHANGED <<content, cache, ents, flight, history>>

(* The next handler fails, or answers with something that is no text and   *)
(* goes to the client as it is                                             *)
EndUninjected(r) ==
    /\ pc[r] \in {"fast", "slow"}
    /\ Finish(r)
    /\ UNCHANGED <<content, cache, flight, edits, purges, edited, quiet>>

-------------------------------------------------------------------------------
(* The singleflight group *)

(* Variant of Lead: every request parses its buffer itself *)
BadLead(r) ==
    /\ pc[r] = "buffered"
    /\ Goto(r, "parsing")
    /\ flight' = "running"
    /\ UNCHANGED <<content, cache, buf, ents, history>>

Lead(r) ==
    /\ pc[r] = "buffered" /\ flight = "none"
    /\ Goto(r, "parsing")
    /\ flight' = "running"
    /\ UNCHANGED <<content, cache, buf, ents, history>>

Join(r) ==
    /\ pc[r] = "buffered" /\ flight = "running"
    /\ Goto(r, "waiting")
    /\ UNCHANGED <<content, cache, buf, ents, flight, history>>

(* The call has its result but is not yet forgotten: it is shared at once *)
JoinEnded(r) ==
    /\ pc[r] = "buffered" /\ flight \in Versions
    /\ Goto(r, "responding")
    /\ ents' = [ents EXCEPT ![r] = flight]
    /\ UNCHANGED <<content, cache, buf, flight, history>>

JoinFailed(r) ==
    /\ pc[r] = "buffered" /\ flight = "failed"
    /\ Finish(r)
    /\ UNCHANGED <<content, cache, flight, edits, purges, edited, quiet>>

(* The leader parses its own buffer: a parse error is the flight's result *)
Parse(r) ==
    /\ pc[r] = "parsing"
    /\ \/ /\ buf[r] \in Malformed
          /\ Goto(r, "ending")
          /\ UNCHANGED ents
       \/ /\ buf[r] \notin Malformed
          /\ Goto(r, "parsed")
          /\ ents' = [ents EXCEPT ![r] = buf[r]]
    /\ UNCHANGED <<content, cache, buf, flight, history>>

(* Variant of UpsertESITags: the entities are set up but not stored *)
BadUpsertESITags(r) ==
    /\ pc[r] = "parsed"
    /\ Goto(r, "ending")
    /\ UNCHANGED <<content, cache, buf, ents, flight, history>>

(* The tags enter the cache, under the write lock *)
UpsertESITags(r) ==
    /\ pc[r] = "parsed"
    /\ Goto(r, "ending")
    /\ cache' = ents[r]
    /\ UNCHANGED <<content, buf, ents, flight, history>>

(* Variant of FlightEnds: an error is a result like another, and nobody is *)
(* told about it                                                           *)
BadFlightEnds(r) ==
    LET waiters == {q \in Requests : pc[q] = "waiting" /\ ents[r] # None}
    IN
    /\ pc[r] = "ending"
    /\ flight' = ents[r]
    /\ pc' = [q \in Requests |-> IF q = r THEN "forgetting"
                                ELSE IF q \in waiters THEN "responding" ELSE pc[q]]
    /\ ents' = [q \in Requests |-> IF q \in waiters THEN ents[r] ELSE ents[q]]
    /\ UNCHANGED <<content, cache, buf, history>>

(* The leader's function has returned; everyone who waits shares its       *)
(* result, the tags of the leader's buffer or the error                    *)
FlightEnds(r) ==
    LET waiters == {q \in Requests : pc[q] = "waiting"}
        failed  == ents[r] = None
    IN
    /\ pc[r] = "ending"
    /\ flight' = IF failed THEN "failed" ELSE ents[r]
    /\ pc' = [q \in Requests |->
                 IF q = r THEN "forgetting"
                 ELSE IF q \notin waiters THEN pc[q]
                 ELSE IF failed THEN "idle" ELSE "responding"]
    /\ ents' = [q \in Requests |-> IF q \in waiters THEN ents[r] ELSE ents[q]]
    /\ buf'  = [q \in Requests |-> IF q \in waiters /\ failed THEN None ELSE buf[q]]
    /\ late' = IF failed THEN late \ waiters ELSE late
    /\ UNCHANGED <<content, cache, edits, purges, edited, quiet>>

(* Variant of ForgetFlight: the result stays in the group *)
BadForgetFlight(r) ==
    /\ pc[r] = "forgetting"
    /\ \/ /\ ents[r] # None
          /\ Goto(r, "responding")
          /\ UNCHANGED <<buf, ents, late>>
       \/ /\ ents[r] = None
          /\ Finish(r)
    /\ UNCHANGED <<content, cache, flight, edits, purges, edited, quiet>>

(* The group drops the call, and Do returns to the leader *)
ForgetFlight(r) ==
    /\ pc[r] = "forgetting"
    /\ flight' = "none"
    /\ \/ /\ ents[r] # None
          /\ Goto(r, "responding")
          /\ UNCHANGED <<buf, ents, late>>
       \/ /\ ents[r] = None
          /\ Finish(r)
    /\ UNCHANGED <<content, cache, edits, purges, edited, quiet>>

(* The tags are queried, sorted and injected into the buffered page *)
Respond(r) ==
    /\ pc[r] = "responding"
    /\ Finish(r)
    /\ UNCHANGED <<content, cache, flight, edits, purges, edited, quiet>>

-------------------------------------------------------------------------------
(* What a request does once it has arrived *)
Step(r) ==
    \/ ESITagsByRequest(r) \/ Render(r) \/ EndUninjected(r)
    \/ Lead(r) \/ Join(r) \/ JoinEnded(r) \/ JoinFailed(r)
    \/ Parse(r) \/ UpsertESITags(r) \/ FlightEnds(r) \/ ForgetFlight(r)
    \/ Respond(r)

Next ==
    \/ \E v \in Versions : Edit(v)
    \/ \E r \in Requests : Arrive(r) \/ Purge(r) \/ Step(r)

Spec == Init /\ [][Next]_vars

(* Every goroutine is scheduled and the next handler returns; no request,  *)
(* edit or purge has to come                                               *)
FairSpec == Spec /\ \A r \in Requests : WF_vars(Step(r))

-------------------------------------------------------------------------------
(* Properties *)

(* The group lets one request at a time parse the page *)
OneParse ==
    \A q, r \in Requests :
        /\ pc[q] \in {"parsing", "parsed", "ending", "forgetting"}
        /\ pc[r] \in {"parsing", "parsed", "ending", "forgetting"}
        => q = r

Fits(r) == pc[r] = "responding" => ents[r] = buf[r]

(* After a purge while no other request was in progress, and until the     *)
(* page is edited again, every response injects the tags of the page it    *)
(* contains: neither the cache nor a flight brings tags of another version *)
QuietPurgeWorks == quiet /\ ~edited => \A r \in Requests : Fits(r)

(* A purge clears the cache for the requests that come after it: until the *)
(* page is edited again, their responses inject the tags of the page they  *)
(* contain (README.md:248-250)                                             *)
PurgeWorks == ~edited => \A r \in Requests \ late : Fits(r)

(* Once a page that has tags is neither edited nor purged any more, a time *)
(* comes after which no request has to parse it                            *)
EventuallyCached ==
    <>[](content \in Tagged) => <>[](\A r \in Requests : pc[r] # "parsing")

(* A request that waits for the parse of another one is answered, and so   *)
(* is one that leads it: a failed parse leaves no call behind              *)
Answered == \A r \in Requests : (pc[r] # "idle") ~> (pc[r] = "idle")
===============================================================================
