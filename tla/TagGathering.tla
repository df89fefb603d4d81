---------------------------- MODULE TagGathering ----------------------------
(***************************************************************************)
(* What the fast path of Middleware.ServeHTTP promises the writer of a     *)
(* page, without its goroutines, channels and flights: while the writer    *)
(* waits, it is handed the contents of the tags one by one, none twice;    *)
(* then its stream is sealed, and only then it writes.  A tag that it is   *)
(* not handed was lost, and none is lost before some client has left.      *)
(* TagStream implements this module.                                       *)
(***************************************************************************)
EXTENDS Naturals

CONSTANTS Requests, Tags, Pages

DataTags == [tag : Tags, page : Pages]

VARIABLES
    phase,      \* [Requests -> {"none", "open", "sealed"}]: the stream of tags
    writer,     \* [Requests -> {"away", "waiting", "writing", "gone"}]
    received,   \* [Requests -> [DataTags -> Nat]]: what the writer was handed
    lost,       \* [Requests -> SUBSET Tags]: what it will not be handed
    left        \* the requests that are over for their clients

gathering == <<phase, writer, received, lost, left>>

Init ==
    /\ phase    = [r \in Requests |-> "none"]
    /\ writer   = [r \in Requests |-> "away"]
    /\ received = [r \in Requests |-> [d \in DataTags |-> 0]]
    /\ lost     = [r \in Requests |-> {}]
    /\ left     = {}

Has(r, t) == \E d \in DataTags : d.tag = t /\ received[r][d] > 0

Open(r) ==
    /\ phase[r] = "none" /\ writer[r] = "away"
    /\ phase' = [phase EXCEPT ![r] = "open"]
    /\ UNCHANGED <<writer, received, lost, left>>

Wait(r) ==
    /\ phase[r] # "none" /\ writer[r] = "away"
    /\ writer' = [writer EXCEPT ![r] = "waiting"]
    /\ UNCHANGED <<phase, received, lost, left>>

(* A tag is handed over once, and only to a writer that waits *)
Gather(r) ==
    /\ phase[r] = "open" /\ writer[r] = "waiting"
    /\ \E d \in DataTags :
          /\ ~Has(r, d.tag) /\ d.tag \notin lost[r]
          /\ received' = [received EXCEPT ![r][d] = 1]
    /\ UNCHANGED <<phase, writer, lost, left>>

(* Some requests lose tags that they have not been handed, for a client    *)
(* that has left: their own or another                                     *)
Lose ==
    /\ left # {}
    /\ \A r \in Requests :
          /\ lost[r] \subseteq lost'[r]
          /\ lost'[r] # lost[r] => phase[r] = "open"
          /\ \A t \in lost'[r] : ~Has(r, t)
    /\ lost' \in [Requests -> SUBSET Tags]
    /\ UNCHANGED <<phase, writer, received, left>>

(* Nothing is missing but what was lost *)
Seal(r) ==
    /\ phase[r] = "open" /\ \A t \in Tags : Has(r, t) \/ t \in lost[r]
    /\ phase' = [phase EXCEPT ![r] = "sealed"]
    /\ UNCHANGED <<writer, received, lost, left>>

Write(r) ==
    /\ writer[r] = "waiting" /\ phase[r] = "sealed"
    /\ writer' = [writer EXCEPT ![r] = "writing"]
    /\ UNCHANGED <<phase, received, lost, left>>

(* The client leaves, or gets its answer: with the page, or without one *)
Leave(r) ==
    /\ phase[r] # "none" /\ writer[r] # "gone"
    /\ left' = left \cup {r}
    /\ \/ writer' = writer
       \/ writer[r] # "waiting" /\ writer' = [writer EXCEPT ![r] = "gone"]
    /\ UNCHANGED <<phase, received, lost>>

Next == \/ Lose
        \/ \E r \in Requests :
              Open(r) \/ Wait(r) \/ Gather(r) \/ Seal(r) \/ Write(r) \/ Leave(r)

Spec == Init /\ [][Next]_gathering
==============================================================================
