---------------------------- MODULE InjectContent ----------------------------
(***************************************************************************)
(* DataTags.InjectContent (esitag/data_tag.go): the page arrives in        *)
(* chunks, one per Write of the next handler, and every call replaces the  *)
(* ESI tags it finds in its chunk with the data fetched for them.  The     *)
(* object remembers the position in the stream and, for each tag, whether  *)
(* it was replaced, so that a tag may begin in one chunk and end in a      *)
(* later one.                                                              *)
(*                                                                         *)
(* A byte of the page is the number of its position, from 0.  The data of  *)
(* tag i is one symbol, TagData(i).  Positions count from 0 and an end is  *)
(* exclusive, as in Go; the tags are indexed from 1.                       *)
(***************************************************************************)
EXTENDS Integers, Sequences

CONSTANTS PageLen,    \* length of the page
          MaxTags,    \* bound: number of tags
          MinTagLen,  \* length of the shortest tag
          MaxTagLen,  \* bound: length of the longest tag
          FirstTag,   \* the first position at which a tag may start
          MinChunk    \* the shortest chunk, but for the last

ASSUME InjectAssumption ==
    PageLen \in Nat /\ MaxTags \in Nat /\ MaxTagLen \in Nat /\ MinTagLen \in Nat \ {0} /\ FirstTag \in Nat
    /\ MinChunk \in Nat \ {0}

VARIABLES
    tags,         \* the sorted Slice: [start, end) of each tag
    streamPrev,   \* length of the stream before the chunk of the next call
    streamCur,    \* length of the stream after the chunk of the last call
    writeStates,  \* per tag: "waiting", "progress" or "done"
    out,          \* what was written to w
    cuts          \* history: the positions at which a chunk ended

vars == <<tags, streamPrev, streamCur, writeStates, out, cuts>>

Spans == {s \in [start : FirstTag..PageLen, end : 0..(PageLen + MaxTagLen)] :
             s.end - s.start \in MinTagLen..MaxTagLen}

(* Variant of Layouts: the coalesced tags are appended, and never sorted *)
BadLayouts == {ts \in UNION {[1..n -> Spans] : n \in 1..MaxTags} :
                  \E own \in 0..Len(ts) : \A i, j \in DOMAIN ts :
                     i < j /\ (i <= own <=> j <= own) => ts[i].end <= ts[j].start}

(* The tags of a request, sorted by their starts.  They are those of its   *)
(* page, but the coalesced ones come from the request that leads the       *)
(* flight, with the positions they have on the page of that one            *)
(* (Entity.UniqueID leaves positions out): the tags of either origin do    *)
(* not overlap, those of different origin may.  Both may lie behind the    *)
(* end of the page, as the ones in the cache may be older than it is.      *)
(* Without any tag the chunks go to w as they are and nothing is tracked.  *)
Layouts == {ts \in UNION {[1..n -> Spans] : n \in 1..MaxTags} :
               /\ \A i \in 2..Len(ts) : ts[i - 1].start <= ts[i].start
               /\ \E own \in SUBSET DOMAIN ts : \A i, j \in DOMAIN ts :
                     i < j /\ (i \in own <=> j \in own) => ts[i].end <= ts[j].start}

TagData(i) == -i
Panic      == -(MaxTags + 1)     \* a slice expression out of range
Panics(o)  == \E k \in DOMAIN o : o[k] = Panic

Init ==
    /\ tags \in Layouts
    /\ streamPrev = 0 /\ streamCur = 0
    /\ writeStates = [i \in DOMAIN tags |-> "waiting"]
    /\ out = <<>>
    /\ cuts = {}

-------------------------------------------------------------------------------
(* One call.  c is the chunk: the stream's length before and after it.     *)

(* data[from:to] of the chunk *)
Slice(c, from, to) ==
    IF 0 <= from /\ from <= to /\ to <= c.cur - c.prev
    THEN [k \in 1..(to - from) |-> c.prev + from + k - 1]
    ELSE <<Panic>>

ChunkLen(c)    == c.cur - c.prev
RelStart(c, t) == t.start - c.prev
RelEnd(c, t)   == ChunkLen(c) - (c.cur - t.end)

StartsIn(c, t) == /\ RelStart(c, t) < ChunkLen(c) /\ RelEnd(c, t) > ChunkLen(c)
                  /\ t.start < c.cur
(* Variant of EndsIn: the end may lie behind the chunk *)
BadEndsIn(c, t) == RelStart(c, t) < 0 /\ RelEnd(c, t) > 0

EndsIn(c, t)   == /\ RelStart(c, t) < 0 /\ RelEnd(c, t) > 0
                  /\ RelEnd(c, t) < ChunkLen(c) /\ t.end <= c.cur
FullyIn(c, t)  == /\ t.start >= c.prev /\ t.end <= c.cur
                  /\ RelStart(c, t) > 0 /\ RelEnd(c, t) > 0
                  /\ RelStart(c, t) < ChunkLen(c) /\ RelEnd(c, t) <= ChunkLen(c)

(* A tag that lies in the chunk as a whole.  When the next one does so too *)
(* the text between them is left to it, after the last tag the rest of the *)
(* chunk is written; otherwise this is taken for the only tag of the chunk.*)
ReplaceFull(c, i, acc) ==
    LET t    == tags[i]
        last == i = Len(tags)
        next == last \/ FullyIn(c, tags[i + 1])      \* fullNextTag
        text == IF next
                THEN Slice(c, acc.prevEnd, RelStart(c, t)) \o <<TagData(i)>>
                     \o (IF last THEN Slice(c, RelEnd(c, t), ChunkLen(c)) ELSE <<>>)
                ELSE Slice(c, 0, RelStart(c, t)) \o <<TagData(i)>>
                     \o Slice(c, RelEnd(c, t), ChunkLen(c))
    IN  [states |-> [acc.states EXCEPT ![i] = "done"], out |-> acc.out \o text,
         prevEnd |-> RelEnd(c, t), tagWritten |-> TRUE]

(* A tag of which the chunk has the start only *)
ReplaceStart(c, i, acc) ==
    [acc EXCEPT !.out = @ \o Slice(c, 0, RelStart(c, tags[i])) \o <<TagData(i)>>,
                !.states[i] = "progress", !.tagWritten = TRUE]

(* Variant of ReplaceEnd: the last byte of the tag stays in the page *)
BadReplaceEnd(c, i, acc) ==
    IF EndsIn(c, tags[i])
    THEN [acc EXCEPT !.out = @ \o Slice(c, RelEnd(c, tags[i]) - 1, ChunkLen(c)),
                     !.states[i] = "done", !.tagWritten = TRUE]
    ELSE [acc EXCEPT !.tagWritten = TRUE]

(* The end of a tag whose data was written with an earlier chunk, or a     *)
(* chunk from its middle, which is dropped                                 *)
ReplaceEnd(c, i, acc) ==
    IF EndsIn(c, tags[i])
    THEN [acc EXCEPT !.out = @ \o Slice(c, RelEnd(c, tags[i]), ChunkLen(c)),
                     !.states[i] = "done", !.tagWritten = TRUE]
    ELSE [acc EXCEPT !.tagWritten = TRUE]

(* The cases of the loop over the tags *)
ReplaceTag(c, i, acc) ==
    CASE acc.states[i] = "done"     -> acc
      [] acc.states[i] = "progress" -> ReplaceEnd(c, i, acc)
      [] acc.states[i] = "waiting" /\ FullyIn(c, tags[i])  -> ReplaceFull(c, i, acc)
      [] acc.states[i] = "waiting" /\ ~FullyIn(c, tags[i]) ->
            IF StartsIn(c, tags[i]) THEN ReplaceStart(c, i, acc) ELSE acc

(* Its body: a panic ends the call, with what was written by then *)
Visit(c, i, acc) ==
    LET new == ReplaceTag(c, i, acc)
    IN  IF Panics(acc.out) THEN acc
        ELSE IF Panics(new.out) THEN [acc EXCEPT !.out = Append(@, Panic)]
        ELSE new

(* The loop, then the chunk itself when no tag had to do with it *)
Injected(c) ==
    LET upto[i \in 0..Len(tags)] ==
            IF i = 0 THEN [states |-> writeStates, out |-> out, prevEnd |-> 0,
                           tagWritten |-> FALSE]
                     ELSE Visit(c, i, upto[i - 1])
        all == upto[Len(tags)]
    IN  IF all.tagWritten \/ Panics(all.out) THEN all
        ELSE [all EXCEPT !.out = @ \o Slice(c, 0, ChunkLen(c))]

(* Variant of Call: the position of the next chunk is left behind *)
BadCall(n) ==
    LET c   == [prev |-> streamPrev, cur |-> streamCur + n]
        res == Injected(c)
    IN  /\ out' = res.out
        /\ writeStates' = res.states
        /\ streamCur' = c.cur
        /\ streamPrev' = streamCur
        /\ cuts' = cuts \cup {c.cur}
        /\ UNCHANGED tags

(* The next handler calls Write, and the writer InjectContent *)
Call(n) ==
    LET c   == [prev |-> streamPrev, cur |-> streamCur + n]
        res == Injected(c)
    IN  /\ out' = res.out
        /\ writeStates' = res.states
        /\ streamCur' = c.cur
        /\ streamPrev' = IF Panics(res.out) THEN streamPrev ELSE streamPrev + n
        /\ cuts' = cuts \cup {c.cur}
        /\ UNCHANGED tags

(* The next handler writes the next part of the page *)
Write == \E n \in 1..(PageLen - streamCur) :
            ~Panics(out) /\ (n >= MinChunk \/ n = PageLen - streamCur) /\ Call(n)

Next == Write

Spec == Init /\ [][Next]_vars

-------------------------------------------------------------------------------
(* The reference: what a page with its tags replaced looks like *)

StartingAt(p) == {i \in DOMAIN tags : tags[i].start = p}
InsideTag(p)  == \E i \in DOMAIN tags : tags[i].start <= p /\ p < tags[i].end

(* The first n bytes of the page, replaced *)
Replaced(n) ==
    LET upto[p \in 0..n] ==
            IF p = 0 THEN <<>>
            ELSE upto[p - 1] \o
                 (IF StartingAt(p - 1) # {} THEN <<TagData(CHOOSE i \in StartingAt(p - 1) : TRUE)>>
                  ELSE IF InsideTag(p - 1) THEN <<>> ELSE <<p - 1>>)
    IN  upto[n]

-------------------------------------------------------------------------------
(* Properties *)

TypeOK ==
    /\ tags \in Layouts
    /\ streamPrev \in 0..PageLen /\ streamCur \in 0..PageLen
    /\ IF Panics(out) THEN streamPrev < streamCur ELSE streamPrev = streamCur
    /\ writeStates \in [DOMAIN tags -> {"waiting", "progress", "done"}]
    /\ \A k \in DOMAIN out : out[k] \in -(MaxTags + 1)..(PageLen - 1)
    /\ cuts \subseteq 1..PageLen

(* The tags are those that a parse of this page finds *)
OwnTags == /\ \A i \in 2..Len(tags) : tags[i - 1].end <= tags[i].start
           /\ \A i \in DOMAIN tags : tags[i].end <= PageLen

(* A slice of a chunk is taken out of its range only when two tags overlap *)
(* and lie in that chunk, which no two tags of one page do: the text       *)
(* between them has a negative length.  Whatever else the chunks and the   *)
(* positions of the tags are, InjectContent does not panic.                *)
PanicsOnlyOnOverlap ==
    Panics(out) => \E i, j \in DOMAIN tags :
                      /\ i < j /\ tags[j].start < tags[i].end
                      /\ streamPrev < tags[i].start
                      /\ tags[i].end <= streamCur /\ tags[j].end <= streamCur

(* Whatever the chunks and the tags are, the data of a tag is not written  *)
(* twice, and not before that of an earlier tag.                           *)
TagsOnceInOrder ==
    \A j, k \in DOMAIN out : j < k /\ out[j] < 0 /\ out[k] < 0 => out[j] > out[k]

(* The chunk ends that lie inside tag i *)
CutsIn(i) == {p \in cuts : tags[i].start < p /\ p < tags[i].end}
SameChunk(p, q) == \A b \in cuts : b <= p \/ q < b      \* p < q are not separated

(* The chunks respect the tags: no chunk starts with a tag; a tag that     *)
(* spans chunks shares neither its first nor its last chunk with another   *)
(* and does not end with a chunk; and a chunk that has more than one tag   *)
(* has the last tag of the page.                                           *)
ChunksRespectTags ==
    \A i \in DOMAIN tags :
        /\ tags[i].start \notin cuts \cup {0}
        /\ CutsIn(i) # {} => tags[i].end \notin cuts
        /\ \A j \in (i + 1)..Len(tags) :
              SameChunk(tags[i].end - 1, tags[j].start) =>
                  /\ CutsIn(i) = {} /\ CutsIn(j) = {}
                  /\ SameChunk(tags[i].end - 1, tags[Len(tags)].start)

(* As long as the tags are those of the page and the chunks respect them,  *)
(* what was written is the page so far with the tags replaced, each byte   *)
(* once and in its place.                                                  *)
ReplacedIfRespected == OwnTags /\ ChunksRespectTags => out = Replaced(streamCur)

(* The whole page comes out with its tags replaced, whatever the chunks    *)
(* are: the function "tracks the stream position and inserts the ESI tag   *)
(* once the correct position has been reached".                            *)
PageReplaced == OwnTags /\ streamCur = PageLen => out = Replaced(PageLen)
===============================================================================
