------------------------ MODULE ResponseWritersProofs ------------------------
(***************************************************************************)
(* Proofs about InjectContent and ResponseWriters, for every page, layout  *)
(* of tags and way of writing the page in chunks:                          *)
(*   - either writer sends the status that the handler set first;          *)
(*   - a slice of a chunk is out of range only when two tags overlap in    *)
(*     it, and the data of each tag is written once at most and in order,  *)
(*     whatever the chunks and the tags are;                               *)
(*   - chunks that respect the tags of their page come out with the tags   *)
(*     replaced;                                                           *)
(*   - a declared length is corrected to that of what is written.          *)
(***************************************************************************)
EXTENDS ResponseWriters, RecursionLemmas, SequenceTheorems, TLAPS

-------------------------------------------------------------------------------
(* The status *)

AskedCode == asked = <<>> \/ \E c \in Codes : asked = <<c>>

HeadHas(status) == head # <<>> /\ head[1].status = status

(* The injecting writer: what the handler has asked for has been sent.     *)
(* Before the first byte no head is sent but by the handler.               *)
SentAtOnce ==
    kind = "injecting" =>
        /\ asked = <<>> /\ written = 0 => ~wroteHeader /\ head = <<>>
        /\ asked # <<>> => HeadHas(asked[1])

(* The buffered writer: it is kept until the handler has returned *)
KeptForLater ==
    kind = "buffered" =>
        /\ asked = <<>> /\ written = 0 => code = 0
        /\ asked # <<>> => code = asked[1]
        /\ returned = "no" => head = <<>>
        /\ returned = "ok" => HeadHas(code)

StatusInv ==
    /\ kind \in {"injecting", "buffered"} /\ written \in Nat
    /\ AskedCode /\ SentAtOnce /\ KeptForLater

LEMMA StatusInit == WriterInit => StatusInv
BY DEF WriterInit, StatusInv, AskedCode, SentAtOnce, KeptForLater

(* The first head stays *)
LEMMA SentFirst ==
    ASSUME NEW status, NEW length
    PROVE  /\ head = <<>> => Sent(status, length)[1].status = status
                             /\ Sent(status, length) # <<>>
           /\ head # <<>> => Sent(status, length) = head
BY DEF Sent

LEMMA HeaderStep ==
    ASSUME StatusInv, NEW c \in Codes, WriteHeader(c)
    PROVE  StatusInv'
<1> USE DEF StatusInv, AskedCode, HeadHas
<1>1. /\ AskedCode' /\ kind' = kind /\ written' = written /\ returned' = returned
      /\ returned = "no"
    BY DEF WriteHeader, handler, Handling
<1>2. CASE SendHeader(c)
    <2>1. /\ kind = "injecting" /\ kind' = "injecting"
          /\ head' = Sent(c, Corrected(declared, DataLen))
        BY <1>1, <1>2 DEF SendHeader
    <2>2. CASE asked = <<>> /\ written = 0
        <3>1. asked' = <<c>> /\ head = <<>>
            BY <2>1, <2>2 DEF WriteHeader, SentAtOnce
        <3>2. head' # <<>> /\ head'[1].status = c
            BY <2>1, <3>1, SentFirst
        <3> QED BY <1>1, <2>1, <3>1, <3>2 DEF SentAtOnce, KeptForLater
    <2>3. CASE ~(asked = <<>> /\ written = 0)
        <3>1. asked' = asked
            BY <2>3 DEF WriteHeader
        <3>2. asked # <<>> => head' = head /\ head # <<>>
            BY <2>1, SentFirst DEF SentAtOnce
        <3> QED BY <1>1, <2>1, <2>3, <3>1, <3>2 DEF SentAtOnce, KeptForLater
    <2> QED BY <2>2, <2>3
<1>3. CASE RememberStatus(c)
    <2>1. kind = "buffered" /\ code = 0 /\ code' = c /\ head' = head /\ c # 0
        BY <1>3, WriterAssumption DEF RememberStatus
    <2>2. asked = <<>>
        BY <2>1, WriterAssumption DEF KeptForLater
    <2>3. asked' = IF written = 0 THEN <<c>> ELSE <<>>
        BY <2>2 DEF WriteHeader
    <2> QED BY <1>1, <2>1, <2>2, <2>3 DEF SentAtOnce, KeptForLater
<1> QED BY <1>2, <1>3 DEF WriteHeader

LEMMA PartStep == StatusInv /\ WritePart => StatusInv'
<1> SUFFICES ASSUME StatusInv, WritePart PROVE StatusInv'
    OBVIOUS
<1> USE DEF StatusInv, AskedCode, HeadHas
<1>1. PICK n \in 1..(PageLen - written) : WriteNext(n)
    BY DEF WritePart
<1>2. /\ written' \in Nat /\ written' # 0 /\ kind' = kind /\ asked' = asked
      /\ code' = code /\ returned' = returned /\ returned = "no"
    BY <1>1 DEF WriteNext, handler, Handling
<1>3. CASE WriteInjecting(n)
    <2>1. kind = "injecting" /\ head' = Sent(200, <<>>)
        BY <1>3 DEF WriteInjecting
    <2>2. asked # <<>> => head' = head /\ head # <<>>
        BY <2>1, SentFirst DEF SentAtOnce
    <2> QED BY <1>2, <2>1, <2>2 DEF SentAtOnce, KeptForLater
<1>4. CASE kind = "buffered" /\ head' = head
    BY <1>2, <1>4 DEF SentAtOnce, KeptForLater
<1> QED BY <1>1, <1>3, <1>4 DEF WriteNext

LEMMA ReturnStep == StatusInv /\ (Return \/ Fail) => StatusInv'
<1> SUFFICES ASSUME StatusInv, Return \/ Fail PROVE StatusInv'
    OBVIOUS
<1> USE DEF StatusInv, AskedCode, HeadHas
<1>1. /\ kind' = kind /\ asked' = asked /\ written' = written /\ code' = code
      /\ wroteHeader' = wroteHeader /\ returned = "no"
    BY DEF Return, Fail, handler, Handling
<1>2. CASE Fail \/ (Return /\ kind = "injecting" /\ head' = head)
    BY <1>1, <1>2 DEF Return, Fail, SentAtOnce, KeptForLater
<1>3. CASE Return /\ kind = "buffered" /\ TriggerRealWrite
    <2>1. PICK length : head' = Sent(code, length)
        BY <1>3 DEF TriggerRealWrite
    <2>2. head = <<>> /\ returned' = "ok"
        BY <1>1, <1>3 DEF KeptForLater, Return
    <2>3. head' # <<>> /\ head'[1].status = code
        BY <2>1, <2>2, SentFirst
    <2> QED BY <1>1, <1>3, <2>2, <2>3 DEF SentAtOnce, KeptForLater
<1> QED BY <1>2, <1>3 DEF Return

LEMMA StatusStep == StatusInv /\ [WriterNext]_writerVars => StatusInv'
<1> SUFFICES ASSUME StatusInv, [WriterNext]_writerVars PROVE StatusInv'
    OBVIOUS
<1>1. CASE UNCHANGED writerVars
    BY <1>1 DEF writerVars, handler, StatusInv, AskedCode, SentAtOnce, KeptForLater, HeadHas
<1> QED BY <1>1, HeaderStep, PartStep, ReturnStep DEF WriterNext

(* StatusKept: the status that the handler sets first, and before its      *)
(* page, is the one that the client gets when the handler returns.         *)
THEOREM StatusIsKept == WriterSpec => []StatusKept
<1>1. StatusInv => StatusKept
    BY DEF StatusInv, SentAtOnce, KeptForLater, StatusKept, HeadHas
<1> QED BY <1>1, StatusInit, StatusStep, PTL DEF WriterSpec

-------------------------------------------------------------------------------
(* The tags of a page *)

(* Not only neighbours: of any two tags the first starts not behind the second *)
LEMMA TagsOrdered ==
    ASSUME tags \in Layouts
    PROVE  /\ Len(tags) \in 1..MaxTags /\ DOMAIN tags = 1..Len(tags)
           /\ tags \in [1..Len(tags) -> Spans]
           /\ \A i \in DOMAIN tags : /\ tags[i].start \in Nat /\ tags[i].end \in Nat
                                     /\ tags[i].start < tags[i].end
           /\ \A i, j \in DOMAIN tags : i < j => tags[i].start <= tags[j].start
<1>1. PICK n \in 1..MaxTags : tags \in [1..n -> Spans]
    BY DEF Layouts
<1>2. Len(tags) = n /\ n \in Nat /\ DOMAIN tags = 1..n
    BY <1>1, InjectAssumption
<1>3. \A i \in 1..n : tags[i].start \in Nat /\ tags[i].end \in Nat /\ tags[i].start < tags[i].end
    <2>1. ASSUME NEW s \in Spans PROVE s.start \in Nat /\ s.end \in Nat /\ s.start < s.end
        BY InjectAssumption DEF Spans
    <2> QED BY <1>1, <2>1
<1>4. ASSUME NEW i \in 1..n PROVE \A j \in (i + 1)..n : tags[i].start <= tags[j].start
    <2> DEFINE S == {j \in Int : j \in i..n => tags[i].start <= tags[j].start}
    <2>1. \A j \in 2..n : tags[j - 1].start <= tags[j].start
        BY <1>2 DEF Layouts
    <2>2. i \in S
        BY <1>3
    <2>3. ASSUME NEW j \in (i + 1)..n, j - 1 \in S PROVE j \in S
        <3>1. j - 1 \in i..n /\ j \in 2..n /\ j - 1 \in 1..n /\ j \in 1..n
            BY <1>2
        <3>2. tags[i].start <= tags[j - 1].start /\ tags[j - 1].start <= tags[j].start
            BY <2>1, <2>3, <3>1
        <3> QED BY <1>3, <3>1, <3>2
    <2> HIDE DEF S
    <2>4. \A j \in i..n : j \in S
        <3>1. i \in Int /\ n \in Int
            BY <1>2
        <3> QED BY <2>2, <2>3, <3>1, Induction
    <2> QED BY <1>2, <2>4 DEF S
<1>5. \A i, j \in 1..n : i < j => j \in (i + 1)..n
    BY <1>2
<1> QED BY <1>1, <1>2, <1>3, <1>4, <1>5

(* Of two tags of the page the first ends before the second *)
LEMMA TagsApart ==
    ASSUME tags \in Layouts, OwnTags
    PROVE  /\ Len(tags) \in 1..MaxTags /\ DOMAIN tags = 1..Len(tags)
           /\ tags \in [1..Len(tags) -> Spans]
           /\ \A i \in DOMAIN tags : /\ tags[i].start \in Nat /\ tags[i].end \in Nat
                                     /\ tags[i].start < tags[i].end /\ tags[i].end <= PageLen
           /\ \A i, j \in DOMAIN tags : i < j => tags[i].end <= tags[j].start
<1>1. /\ Len(tags) \in 1..MaxTags /\ DOMAIN tags = 1..Len(tags)
      /\ tags \in [1..Len(tags) -> Spans]
      /\ \A i \in DOMAIN tags : /\ tags[i].start \in Nat /\ tags[i].end \in Nat
                                /\ tags[i].start < tags[i].end /\ tags[i].end <= PageLen
      /\ \A i, j \in DOMAIN tags : i < j => tags[i].start <= tags[j].start
    BY TagsOrdered DEF OwnTags
<1>2. ASSUME NEW i \in DOMAIN tags, NEW j \in DOMAIN tags, i < j
      PROVE  tags[i].end <= tags[j].start
    <2>1. i + 1 \in 2..Len(tags) /\ i + 1 \in DOMAIN tags /\ (i + 1) - 1 = i
        BY <1>1, <1>2
    <2>2. tags[i].end <= tags[i + 1].start
        BY <2>1 DEF OwnTags
    <2>3. i + 1 = j \/ tags[i + 1].start <= tags[j].start
        <3>1. i + 1 = j \/ i + 1 < j
            BY <1>1, <1>2
        <3> QED BY <1>1, <2>1, <3>1
    <2>4. tags[i].end \in Nat /\ tags[i + 1].start \in Nat /\ tags[j].start \in Nat
        BY <1>1, <2>1
    <2> QED BY <2>2, <2>3, <2>4
<1> QED BY <1>1, <1>2

-------------------------------------------------------------------------------
(* What is written *)

Byte == 0..(PageLen - 1)

(* The data in o is that of tags which are no longer waiting in states, in *)
(* the order of the tags; the rest are bytes of the page                   *)
Known(o, states) ==
    /\ o \in Seq(Int)
    /\ \A k \in DOMAIN o : o[k] \notin Byte => /\ o[k] < 0 /\ -o[k] \in DOMAIN tags
                                               /\ states[-o[k]] # "waiting"
    /\ \A j, k \in DOMAIN o : j < k /\ o[j] < 0 /\ o[k] < 0 => o[j] > o[k]

States == [DOMAIN tags -> {"waiting", "progress", "done"}]

LEMMA KnownBytes ==
    ASSUME NEW o, NEW states, Known(o, states), NEW s \in Seq(Byte)
    PROVE  Known(o \o s, states)
<1> USE DEF Known
<1>1. Byte \subseteq Int /\ s \in Seq(Int)
    BY InjectAssumption, SeqMonotonic DEF Byte
<1>2. /\ o \o s \in Seq(Int) /\ Len(o \o s) = Len(o) + Len(s)
      /\ DOMAIN (o \o s) = 1..(Len(o) + Len(s)) /\ Len(o) \in Nat /\ Len(s) \in Nat
      /\ DOMAIN o = 1..Len(o)
    BY <1>1
<1>3. ASSUME NEW k \in DOMAIN (o \o s)
      PROVE  \/ k \in DOMAIN o /\ (o \o s)[k] = o[k]
             \/ k \notin DOMAIN o /\ (o \o s)[k] \in Byte
    BY <1>1, <1>2
<1>4. \A k \in DOMAIN (o \o s) : (o \o s)[k] < 0 => k \in DOMAIN o /\ (o \o s)[k] = o[k]
    BY <1>3, InjectAssumption DEF Byte
<1> HIDE DEF Byte
<1> QED BY <1>2, <1>3, <1>4

(* A tag is added that has been waiting, and none behind it has been written *)
LEMMA KnownTag ==
    ASSUME NEW states \in States, NEW o, Known(o, states),
           tags \in Layouts, NEW i \in DOMAIN tags, states[i] = "waiting",
           \A j \in DOMAIN tags : j > i => states[j] = "waiting",
           NEW state \in {"progress", "done"}
    PROVE  Known(o \o <<TagData(i)>>, [states EXCEPT ![i] = state])
<1> DEFINE t == o \o <<TagData(i)>>
<1>1. i \in 1..Len(tags) /\ DOMAIN tags = 1..Len(tags) /\ Len(tags) \in Nat
    BY TagsOrdered
<1>2. /\ t \in Seq(Int) /\ Len(o) \in Nat /\ DOMAIN o = 1..Len(o)
      /\ DOMAIN t = 1..(Len(o) + 1) /\ t[Len(o) + 1] = -i
      /\ \A k \in DOMAIN o : t[k] = o[k]
    BY <1>1 DEF Known, TagData
<1>3. \A k \in DOMAIN o : o[k] < 0 => o[k] > -i
    <2>1. ASSUME NEW k \in DOMAIN o, o[k] < 0 PROVE o[k] > -i
        <3>1. o[k] \in Int /\ -o[k] \in DOMAIN tags /\ states[-o[k]] # "waiting"
            BY <2>1, <1>2 DEF Known, Byte
        <3>2. -o[k] < i
            BY <1>1, <3>1
        <3> QED BY <1>1, <3>1, <3>2
    <2> QED BY <2>1
<1> HIDE DEF t
<1>4. \A k \in DOMAIN t : k = Len(o) + 1 \/ k \in DOMAIN o
    BY <1>2
<1>5. ASSUME NEW k \in DOMAIN t, t[k] \notin Byte
      PROVE  /\ t[k] < 0 /\ -t[k] \in DOMAIN tags
             /\ [states EXCEPT ![i] = state][-t[k]] # "waiting"
    <2>1. CASE k = Len(o) + 1
        BY <1>1, <1>2, <2>1 DEF States
    <2>2. CASE k \in DOMAIN o
        BY <1>1, <1>2, <1>5, <2>2 DEF States, Known
    <2> QED BY <1>4, <2>1, <2>2
<1>6. ASSUME NEW j \in DOMAIN t, NEW k \in DOMAIN t, j < k, t[j] < 0, t[k] < 0
      PROVE  t[j] > t[k]
    <2>1. j \in DOMAIN o
        BY <1>2, <1>6
    <2>2. CASE k = Len(o) + 1
        BY <1>2, <1>3, <1>6, <2>1, <2>2
    <2>3. CASE k \in DOMAIN o
        BY <1>2, <1>6, <2>1, <2>3 DEF Known
    <2> QED BY <1>4, <2>2, <2>3
<1>7. t \in Seq(Int)
    BY <1>2
<1> QED BY <1>5, <1>6, <1>7 DEF Known, t

-------------------------------------------------------------------------------
(* The loop over the tags *)

(* A chunk of the page *)
IsChunk(c) == c = [prev |-> c.prev, cur |-> c.cur] /\ c.prev \in Nat /\ c.cur \in Nat /\ c.prev < c.cur /\ c.cur <= PageLen

LEMMA Relative ==
    ASSUME NEW c, IsChunk(c), NEW t, t.start \in Nat, t.end \in Nat
    PROVE  /\ RelStart(c, t) = t.start - c.prev /\ RelEnd(c, t) = t.end - c.prev
           /\ ChunkLen(c) = c.cur - c.prev
           /\ RelStart(c, t) \in Int /\ RelEnd(c, t) \in Int /\ ChunkLen(c) \in Nat
           /\ c.prev \in Nat /\ c.cur \in Nat /\ c.prev < c.cur
<1>1. c.prev \in Nat /\ c.cur \in Nat /\ c.prev < c.cur
    BY DEF IsChunk
<1>2. ChunkLen(c) = c.cur - c.prev /\ RelStart(c, t) = t.start - c.prev
      /\ RelEnd(c, t) = ChunkLen(c) - (c.cur - t.end)
    BY DEF ChunkLen, RelStart, RelEnd
<1>3. (c.cur - c.prev) - (c.cur - t.end) = t.end - c.prev
    BY <1>1
<1> QED BY <1>1, <1>2, <1>3

LEMMA SliceInRange ==
    ASSUME NEW c, IsChunk(c), NEW to \in 0..ChunkLen(c), NEW from \in 0..to
    PROVE  Slice(c, from, to) \in Seq(Byte)
<1>1. to - from \in Nat
    BY DEF IsChunk, ChunkLen
<1>2. \A k \in 1..(to - from) : c.prev + from + k - 1 \in Byte
    BY InjectAssumption DEF IsChunk, ChunkLen, Byte
<1>3. Slice(c, from, to) = [k \in 1..(to - from) |-> c.prev + from + k - 1]
    BY DEF Slice, ChunkLen, IsChunk
<1>4. Slice(c, from, to) \in [1..(to - from) -> Byte]
    BY <1>2, <1>3
<1> QED BY <1>1, <1>4, SeqDef

(* What the loop works on *)
Acc == [states : States, out : Seq(Int), prevEnd : Int, tagWritten : BOOLEAN]

(* The state of tag j when the stream has come to pos: a tag in which this *)
(* is has been begun                                                       *)
Passed(j, pos, state) ==
    /\ state # "waiting" => tags[j].start < pos
    /\ state = "waiting" => tags[j].start >= pos \/ tags[j].end <= pos

(* The chunk is done with as far as the tags up to i are concerned *)
Reached(c, i, states) ==
    \A j \in DOMAIN tags : Passed(j, IF j <= i THEN c.cur ELSE c.prev, states[j])

(* e is zero or the end of a tag up to i that is in the chunk as a whole *)
FromFull(c, i, e) ==
    e # 0 => \E k \in DOMAIN tags : k <= i /\ FullyIn(c, tags[k]) /\ e = RelEnd(c, tags[k])

(* The loop has done with the tags up to i *)
LoopInv(c, i, acc) ==
    /\ acc \in Acc /\ Known(acc.out, acc.states) /\ Reached(c, i, acc.states)
    /\ acc.prevEnd \in Nat /\ FromFull(c, i, acc.prevEnd)

(* Two tags that overlap are in the chunk as a whole *)
Overlap(c) ==
    \E i, j \in DOMAIN tags : /\ i < j /\ tags[j].start < tags[i].end /\ c.prev < tags[i].start
                             /\ tags[i].end <= c.cur /\ tags[j].end <= c.cur

(* A tag is not written after one behind it *)
LEMMA RestIsWaiting ==
    ASSUME tags \in Layouts, NEW c, IsChunk(c), NEW i \in DOMAIN tags, NEW acc,
           LoopInv(c, i - 1, acc), c.prev <= tags[i].start
    PROVE  \A j \in DOMAIN tags : j > i => acc.states[j] = "waiting"
<1> SUFFICES ASSUME NEW j \in DOMAIN tags, j > i, acc.states[j] # "waiting" PROVE FALSE
    OBVIOUS
<1>1. i \in Nat /\ j \in Nat /\ ~(j <= i - 1)
    BY TagsOrdered
<1>2. tags[j].start < c.prev
    BY <1>1 DEF LoopInv, Reached, Passed
<1>3. tags[i].start <= tags[j].start /\ tags[i].start \in Nat /\ tags[j].start \in Nat
    BY <1>1, TagsOrdered
<1> QED BY <1>2, <1>3 DEF IsChunk

(* A tag in the chunk is replaced, with some bytes before it and after it *)
LEMMA TagStep ==
    ASSUME tags \in Layouts, NEW c, IsChunk(c), NEW i \in DOMAIN tags, NEW acc,
           LoopInv(c, i - 1, acc), acc.states[i] = "waiting",
           c.prev <= tags[i].start, tags[i].start < c.cur,
           NEW state \in {"progress", "done"},
           NEW before \in Seq(Byte), NEW after \in Seq(Byte), NEW prevEnd,
           prevEnd = acc.prevEnd \/ (FullyIn(c, tags[i]) /\ prevEnd = RelEnd(c, tags[i]))
    PROVE  LoopInv(c, i, [states |-> [acc.states EXCEPT ![i] = state],
                          out |-> ((acc.out \o before) \o <<TagData(i)>>) \o after,
                          prevEnd |-> prevEnd, tagWritten |-> TRUE])
<1> DEFINE o == ((acc.out \o before) \o <<TagData(i)>>) \o after
           states == [acc.states EXCEPT ![i] = state]
<1>1. /\ i \in 1..Len(tags) /\ DOMAIN tags = 1..Len(tags) /\ Len(tags) \in Nat
      /\ \A j \in DOMAIN tags : /\ tags[j].start \in Nat /\ tags[j].end \in Nat
                                /\ tags[j].start < tags[j].end
    BY TagsOrdered
<1>2. c.prev \in Nat /\ c.cur \in Nat /\ c.prev < c.cur
    BY DEF IsChunk
<1>3. acc.states \in States /\ Known(acc.out, acc.states) /\ Reached(c, i - 1, acc.states)
    BY DEF LoopInv, Acc
<1>4. Known(o, states)
    <2>1. Known(acc.out \o before, acc.states)
        BY <1>3, KnownBytes, Zenon
    <2>2. \A j \in DOMAIN tags : j > i => acc.states[j] = "waiting"
        <3> QED BY RestIsWaiting, Zenon
    <2>3. Known((acc.out \o before) \o <<TagData(i)>>, states)
        BY <1>3, <2>1, <2>2, KnownTag
    <2> QED BY <2>3, KnownBytes
<1>5. states \in States /\ states[i] = state
      /\ \A j \in DOMAIN tags : j # i => states[j] = acc.states[j]
    BY <1>3 DEF States
<1> HIDE DEF o, states
<1>6. Reached(c, i, states)
    <2> SUFFICES ASSUME NEW j \in DOMAIN tags
                 PROVE  Passed(j, IF j <= i THEN c.cur ELSE c.prev, states[j])
        BY DEF Reached
    <2>1. CASE j = i
        BY <1>1, <1>2, <1>5, <2>1 DEF Passed
    <2>2. CASE j < i
        <3>1. j <= i - 1 /\ states[j] = acc.states[j]
            BY <1>1, <1>5, <2>2
        <3>2. Passed(j, c.cur, states[j])
            BY <1>3, <3>1 DEF Reached
        <3> QED BY <1>1, <2>2, <3>2
    <2>3. CASE j > i
        <3>1. ~(j <= i - 1) /\ ~(j <= i) /\ states[j] = acc.states[j]
            BY <1>1, <1>5, <2>3
        <3> QED BY <1>3, <3>1 DEF Reached
    <2> QED BY <1>1, <2>1, <2>2, <2>3
<1>7. prevEnd \in Nat /\ FromFull(c, i, prevEnd)
    <2>1. CASE prevEnd = acc.prevEnd
        <3>1. \A k \in DOMAIN tags : k <= i - 1 => k <= i
            BY <1>1
        <3> QED BY <2>1, <3>1 DEF LoopInv, FromFull
    <2>2. CASE FullyIn(c, tags[i]) /\ prevEnd = RelEnd(c, tags[i])
        <3>1. RelEnd(c, tags[i]) \in Int /\ i <= i
            BY <1>1, Relative
        <3> QED BY <2>2, <3>1 DEF FullyIn, FromFull
    <2> QED BY <2>1, <2>2
<1>8. o \in Seq(Int)
    BY <1>4 DEF Known
<1> DEFINE new == [states |-> states, out |-> o, prevEnd |-> prevEnd, tagWritten |-> TRUE]
<1>9. new \in Acc
    BY <1>5, <1>7, <1>8 DEF Acc
<1>10. new.states = states /\ new.out = o /\ new.prevEnd = prevEnd
    OBVIOUS
<1> HIDE DEF new
<1>11. LoopInv(c, i, new)
    BY <1>4, <1>6, <1>7, <1>9, <1>10 DEF LoopInv
<1> QED BY <1>11 DEF new, o, states

LEMMA Associative ==
    \A s1, s2, s3 \in Seq(Int) : (s1 \o s2) \o s3 = s1 \o (s2 \o s3)
<1> TAKE s1, s2, s3 \in Seq(Int)
<1> DEFINE S == Int
<1>1. s1 \in Seq(S) /\ s2 \in Seq(S) /\ s3 \in Seq(S)
    OBVIOUS
<1> HIDE DEF S
<1> QED BY <1>1, ConcatAssociative

LEMMA TagText ==
    ASSUME NEW i \in DOMAIN tags, tags \in Layouts, NEW o \in Seq(Int),
           NEW before \in Seq(Byte), NEW after \in Seq(Byte)
    PROVE  /\ o \o (before \o <<TagData(i)>> \o after)
                 = ((o \o before) \o <<TagData(i)>>) \o after
           /\ o \o (before \o <<TagData(i)>>)
                 = ((o \o before) \o <<TagData(i)>>) \o <<>>
           /\ (o \o before) \o <<TagData(i)>>
                 = ((o \o before) \o <<TagData(i)>>) \o <<>>
<1> DEFINE t == <<TagData(i)>>
<1>1. Byte \subseteq Int /\ i \in Int
    BY TagsOrdered, InjectAssumption DEF Byte
<1>2. before \in Seq(Int) /\ after \in Seq(Int)
    BY <1>1, SeqMonotonic
<1>3. t \in Seq(Int)
    BY <1>1 DEF TagData
<1> HIDE DEF t
<1>4. before \o t \in Seq(Int) /\ o \o before \in Seq(Int)
    BY <1>2, <1>3, ConcatProperties
<1>5. (o \o before) \o t \in Seq(Int)
    BY <1>3, <1>4, ConcatProperties
<1>6. ((o \o before) \o t) \o <<>> = (o \o before) \o t
    BY <1>5, ConcatEmptySeq
<1>7. \A s1, s2, s3 \in Seq(Int) : (s1 \o s2) \o s3 = s1 \o (s2 \o s3)
    BY Associative
<1>8. (o \o before) \o t = o \o (before \o t)
    BY <1>2, <1>3, <1>7, Zenon
<1>9. (o \o (before \o t)) \o after = o \o ((before \o t) \o after)
    BY <1>2, <1>4, <1>7, Zenon
<1> QED BY <1>6, <1>8, <1>9 DEF t

(* A panic in what is written *)
LEMMA PanicInText ==
    ASSUME NEW o \in Seq(Int), NEW s \in Seq(Int) PROVE Panics(o \o (<<Panic>> \o s))
<1>1. Panic \in Int
    BY InjectAssumption DEF Panic
<1> DEFINE p == Panic
<1> HIDE DEF p
<1>2. <<p>> \o s \in Seq(Int) /\ Len(<<p>> \o s) >= 1 /\ (<<p>> \o s)[1] = p
    BY <1>1 DEF p
<1> DEFINE t == <<p>> \o s
<1> HIDE DEF t
<1>3. Len(o) + 1 \in DOMAIN (o \o t) /\ (o \o t)[Len(o) + 1] = p
    BY <1>2 DEF t
<1> QED BY <1>3 DEF Panics, p, t

(* The text up to a tag that overlaps the one before it *)
LEMMA FullOverlap ==
    ASSUME tags \in Layouts, NEW c, IsChunk(c), NEW i \in DOMAIN tags, NEW acc,
           LoopInv(c, i - 1, acc), FullyIn(c, tags[i]), acc.prevEnd > RelStart(c, tags[i])
    PROVE  Overlap(c) /\ Slice(c, acc.prevEnd, RelStart(c, tags[i])) = <<Panic>>
<1>1. /\ i \in Nat /\ tags[i].start \in Nat /\ tags[i].end \in Nat
      /\ RelStart(c, tags[i]) = tags[i].start - c.prev /\ RelStart(c, tags[i]) > 0
      /\ acc.prevEnd \in Nat /\ c.prev \in Nat /\ tags[i].end <= c.cur
    BY TagsOrdered, Relative DEF LoopInv, FullyIn
<1>2. PICK k \in DOMAIN tags : /\ k <= i - 1 /\ FullyIn(c, tags[k])
                               /\ acc.prevEnd = RelEnd(c, tags[k])
    BY <1>1 DEF LoopInv, FromFull
<1>3. /\ k \in Nat /\ tags[k].start \in Nat /\ tags[k].end \in Nat
      /\ RelEnd(c, tags[k]) = tags[k].end - c.prev
      /\ RelStart(c, tags[k]) = tags[k].start - c.prev
      /\ RelStart(c, tags[k]) > 0 /\ tags[k].end <= c.cur
    BY <1>2, TagsOrdered, Relative DEF FullyIn
<1>4. k < i /\ tags[i].start < tags[k].end /\ c.prev < tags[k].start
    BY <1>1, <1>2, <1>3
<1>5. Slice(c, acc.prevEnd, RelStart(c, tags[i])) = <<Panic>>
    <2>1. ~(acc.prevEnd <= RelStart(c, tags[i]))
        BY <1>1
    <2> QED BY <2>1 DEF Slice
<1> QED BY <1>1, <1>3, <1>4, <1>5 DEF Overlap

LEMMA FullStep ==
    ASSUME tags \in Layouts, NEW c, IsChunk(c), NEW i \in DOMAIN tags, NEW acc,
           LoopInv(c, i - 1, acc), acc.states[i] = "waiting", FullyIn(c, tags[i])
    PROVE  \/ LoopInv(c, i, ReplaceFull(c, i, acc))
           \/ Overlap(c) /\ Panics(ReplaceFull(c, i, acc).out)
<1> DEFINE t == tags[i]
           rec(o, e) == [states |-> [acc.states EXCEPT ![i] = "done"], out |-> o,
                         prevEnd |-> e, tagWritten |-> TRUE]
<1>1. /\ i \in 1..Len(tags) /\ t.start \in Nat /\ t.end \in Nat /\ t.start < t.end
    BY TagsOrdered
<1>2. /\ RelStart(c, t) = t.start - c.prev /\ RelEnd(c, t) = t.end - c.prev
      /\ ChunkLen(c) = c.cur - c.prev
      /\ c.prev \in Nat /\ c.cur \in Nat /\ c.prev < c.cur
    BY <1>1, Relative
<1>3. c.prev <= t.start /\ t.end <= c.cur /\ t.start < c.cur
    BY <1>1, <1>2 DEF FullyIn
<1>4. /\ RelStart(c, t) \in 0..ChunkLen(c) /\ RelEnd(c, t) \in 0..ChunkLen(c)
      /\ ChunkLen(c) \in 0..ChunkLen(c) /\ 0 \in 0..RelStart(c, t)
      /\ acc.prevEnd <= RelStart(c, t) => acc.prevEnd \in 0..RelStart(c, t)
    <2>1. acc.prevEnd \in Nat
        BY DEF LoopInv
    <2> DEFINE s == RelStart(c, t)
               e == RelEnd(c, t)
               l == ChunkLen(c)
               p == acc.prevEnd
    <2>2. s \in Nat /\ e \in Nat /\ l \in Nat /\ s <= l /\ e <= l
        <3>1. /\ t.start \in Nat /\ t.end \in Nat /\ c.prev \in Nat /\ c.cur \in Nat
              /\ c.prev <= t.start /\ t.start < t.end /\ t.end <= c.cur
            BY <1>1, <1>2, <1>3
        <3>2. s = t.start - c.prev /\ e = t.end - c.prev /\ l = c.cur - c.prev
            BY <1>2
        <3> HIDE DEF s, e, l, t
        <3> QED BY <3>1, <3>2
    <2>3. p \in Nat
        BY <2>1
    <2> HIDE DEF s, e, l, p
    <2>4. s \in 0..l /\ e \in 0..l /\ l \in 0..l /\ 0 \in 0..s /\ (p <= s => p \in 0..s)
        BY <2>2, <2>3
    <2> QED BY <2>4 DEF s, e, l, p
<1> DEFINE far   == Slice(c, acc.prevEnd, RelStart(c, t))
           near  == Slice(c, 0, RelStart(c, t))
           after == Slice(c, RelEnd(c, t), ChunkLen(c))
           e     == RelEnd(c, t)
           new   == ReplaceFull(c, i, acc)
<1>5. near \in Seq(Byte) /\ after \in Seq(Byte)
    BY <1>4, SliceInRange, Zenon
<1>6. <<>> \in Seq(Byte) /\ acc.out \in Seq(Int)
    BY DEF LoopInv, Acc
<1>7. \/ new = rec(acc.out \o (far \o <<TagData(i)>> \o after), e)
      \/ new = rec(acc.out \o (far \o <<TagData(i)>> \o <<>>), e)
      \/ new = rec(acc.out \o (near \o <<TagData(i)>> \o after), e)
    BY Zenon DEF ReplaceFull
<1>8. acc.prevEnd <= RelStart(c, t) \/ acc.prevEnd > RelStart(c, t)
    BY <1>1, <1>2 DEF LoopInv
<1> HIDE DEF far, near, after, new
<1>10. \A b, a \in Seq(Byte) :
         LoopInv(c, i, rec(((acc.out \o b) \o <<TagData(i)>>) \o a, e))
    BY <1>2, <1>3, TagStep
<1> HIDE DEF rec, e, t
<1>11. \A b, a \in Seq(Byte) : LoopInv(c, i, rec(acc.out \o (b \o <<TagData(i)>> \o a), e))
    BY <1>6, <1>10, TagText
<1>12. CASE far \in Seq(Byte)
    <2>1. LoopInv(c, i, new)
        BY <1>5, <1>6, <1>7, <1>11, <1>12
    <2> QED BY <2>1 DEF new
<1>13. CASE Overlap(c) /\ far = <<Panic>>
    <2>1. CASE new = rec(acc.out \o (near \o <<TagData(i)>> \o after), e)
        <3>1. LoopInv(c, i, new)
            BY <1>5, <1>11, <2>1
        <3> QED BY <3>1 DEF new
    <2>2. CASE \E a \in Seq(Byte) : new = rec(acc.out \o (far \o <<TagData(i)>> \o a), e)
        <3>1. PICK a \in Seq(Byte) : new = rec(acc.out \o (far \o <<TagData(i)>> \o a), e)
            BY <2>2
        <3>2. Panics(acc.out \o (far \o <<TagData(i)>> \o a))
            <4> DEFINE d == TagData(i)
                       p == Panic
            <4>1. d \in Int /\ Byte \subseteq Int /\ p \in Int
                BY <1>1, InjectAssumption DEF TagData, Byte, Panic
            <4>2. a \in Seq(Int)
                BY <4>1, SeqMonotonic
            <4> HIDE DEF d, p
            <4>3. <<d>> \o a \in Seq(Int) /\ <<p>> \in Seq(Int) /\ <<d>> \in Seq(Int)
                BY <4>1, <4>2
            <4>4. (<<p>> \o <<d>>) \o a = <<p>> \o (<<d>> \o a)
                BY <4>2, <4>3, Associative
            <4>5. Panics(acc.out \o (<<p>> \o (<<d>> \o a)))
                BY <1>6, <4>3, PanicInText DEF p
            <4> QED BY <1>13, <4>4, <4>5 DEF p, d
        <3>3. new.out = acc.out \o (far \o <<TagData(i)>> \o a)
            BY <3>1 DEF rec
        <3> QED BY <1>13, <3>2, <3>3 DEF new
    <2> QED BY <1>5, <1>6, <1>7, <2>1, <2>2
<1>14. CASE acc.prevEnd <= RelStart(c, tags[i])
    <2>1. far \in Seq(Byte)
        BY <1>4, <1>14, SliceInRange, Zenon DEF far, t
    <2> QED BY <1>12, <2>1
<1>15. CASE acc.prevEnd > RelStart(c, tags[i])
    <2>1. Overlap(c) /\ far = <<Panic>>
        BY <1>15, FullOverlap DEF far, t
    <2> QED BY <1>13, <2>1
<1> QED BY <1>8, <1>14, <1>15 DEF t

(* What ReplaceStart makes, field by field *)
LEMMA StartRecord ==
    ASSUME NEW c, NEW i, NEW acc \in Acc
    PROVE  ReplaceStart(c, i, acc) =
               [states |-> [acc.states EXCEPT ![i] = "progress"],
                out |-> (acc.out \o Slice(c, 0, RelStart(c, tags[i]))) \o <<TagData(i)>>,
                prevEnd |-> acc.prevEnd, tagWritten |-> TRUE]
<1> DEFINE sts == acc.states
           o   == acc.out
           p   == acc.prevEnd
           w   == acc.tagWritten
           x   == (o \o Slice(c, 0, RelStart(c, tags[i]))) \o <<TagData(i)>>
<1>1. acc = [states |-> sts, out |-> o, prevEnd |-> p, tagWritten |-> w]
    BY DEF Acc
<1>2. ReplaceStart(c, i, acc) = [acc EXCEPT !.out = x, !.states[i] = "progress",
                                            !.tagWritten = TRUE]
    BY DEF ReplaceStart
<1> HIDE DEF sts, o, p, w, x
<1>3. [acc EXCEPT !.out = x]
         = [states |-> sts, out |-> x, prevEnd |-> p, tagWritten |-> w]
    BY <1>1
<1>4. [acc EXCEPT !.out = x, !.states[i] = "progress"]
         = [states |-> [sts EXCEPT ![i] = "progress"], out |-> x, prevEnd |-> p,
            tagWritten |-> w]
    <2>1. [[states |-> sts, out |-> x, prevEnd |-> p, tagWritten |-> w]
              EXCEPT !.states = [sts EXCEPT ![i] = "progress"]]
             = [states |-> [sts EXCEPT ![i] = "progress"], out |-> x, prevEnd |-> p,
                tagWritten |-> w]
        OBVIOUS
    <2> QED BY <1>3, <2>1
<1>5. ReplaceStart(c, i, acc) = [states |-> [sts EXCEPT ![i] = "progress"], out |-> x,
                                 prevEnd |-> p, tagWritten |-> TRUE]
    BY <1>2, <1>4
<1> QED BY <1>5 DEF sts, o, p, x

LEMMA StartStep ==
    ASSUME tags \in Layouts, NEW c, IsChunk(c), NEW i \in DOMAIN tags, NEW acc,
           LoopInv(c, i - 1, acc), acc.states[i] = "waiting", StartsIn(c, tags[i])
    PROVE  LoopInv(c, i, ReplaceStart(c, i, acc))
<1> DEFINE t == tags[i]
           before == Slice(c, 0, RelStart(c, t))
<1>1. i \in 1..Len(tags) /\ t.start \in Nat /\ t.end \in Nat /\ t.start < t.end
    BY TagsOrdered
<1>2. /\ RelStart(c, t) = t.start - c.prev /\ RelEnd(c, t) = t.end - c.prev
      /\ ChunkLen(c) = c.cur - c.prev
      /\ c.prev \in Nat /\ c.cur \in Nat /\ c.prev < c.cur
    BY <1>1, Relative
<1>3. t.end > c.cur /\ t.start < c.cur
    BY <1>1, <1>2 DEF StartsIn
<1>4. c.prev <= t.start
    BY <1>1, <1>2, <1>3 DEF LoopInv, Reached, Passed
<1>5. before \in Seq(Byte)
    <2>1. RelStart(c, t) \in 0..ChunkLen(c) /\ 0 \in 0..RelStart(c, t)
        BY <1>1, <1>2, <1>3, <1>4
    <2> QED BY <2>1, SliceInRange, Zenon
<1>6. <<>> \in Seq(Byte) /\ acc.out \in Seq(Int) /\ acc \in Acc
    BY DEF LoopInv, Acc
<1>7. ReplaceStart(c, i, acc) =
         [states |-> [acc.states EXCEPT ![i] = "progress"],
          out |-> (acc.out \o before) \o <<TagData(i)>>,
          prevEnd |-> acc.prevEnd, tagWritten |-> TRUE]
    BY <1>6, StartRecord
<1> HIDE DEF before, t
<1>8. (acc.out \o before) \o <<TagData(i)>> = ((acc.out \o before) \o <<TagData(i)>>) \o <<>>
    BY <1>5, <1>6, TagText
<1>9. \A a \in Seq(Byte) :
         LoopInv(c, i, [states |-> [acc.states EXCEPT ![i] = "progress"],
                        out |-> ((acc.out \o before) \o <<TagData(i)>>) \o a,
                        prevEnd |-> acc.prevEnd, tagWritten |-> TRUE])
    BY <1>3, <1>4, <1>5, TagStep DEF t
<1> QED BY <1>6, <1>7, <1>8, <1>9

(* A tag with which nothing is done, or whose end only is in the chunk *)
LEMMA OtherStep ==
    ASSUME tags \in Layouts, NEW c, IsChunk(c), NEW i \in DOMAIN tags, NEW acc,
           LoopInv(c, i - 1, acc), NEW new \in Acc,
           new.prevEnd = acc.prevEnd, Known(new.out, new.states),
           \A j \in DOMAIN tags : j # i => new.states[j] = acc.states[j],
           new.states[i] # "waiting" => acc.states[i] # "waiting",
           new.states[i] = "waiting" => tags[i].start >= c.cur \/ tags[i].end <= c.cur
    PROVE  LoopInv(c, i, new)
<1>1. /\ i \in 1..Len(tags) /\ DOMAIN tags = 1..Len(tags) /\ Len(tags) \in Nat
      /\ \A j \in DOMAIN tags : tags[j].start \in Nat /\ tags[j].end \in Nat
    BY TagsOrdered
<1>2. c.prev \in Nat /\ c.cur \in Nat /\ c.prev < c.cur
    BY DEF IsChunk
<1>3. ASSUME NEW j \in DOMAIN tags
      PROVE  Passed(j, IF j <= i THEN c.cur ELSE c.prev, new.states[j])
    <2>1. CASE j = i
        <3>1. acc.states[i] # "waiting" => tags[i].start < c.prev
            BY <1>1 DEF LoopInv, Reached, Passed
        <3> QED BY <1>1, <1>2, <2>1, <3>1 DEF Passed
    <2>2. CASE j < i
        BY <1>1, <2>2 DEF LoopInv, Reached, Passed
    <2>3. CASE j > i
        BY <1>1, <2>3 DEF LoopInv, Reached, Passed
    <2> QED BY <1>1, <2>1, <2>2, <2>3
<1>4. FromFull(c, i, new.prevEnd)
    <2>1. \A k \in DOMAIN tags : k <= i - 1 => k <= i
        BY <1>1
    <2> QED BY <2>1 DEF LoopInv, FromFull
<1> QED BY <1>3, <1>4 DEF LoopInv, Reached

(* What ReplaceEnd makes *)
LEMMA EndRecord ==
    ASSUME NEW c, NEW i, NEW acc \in Acc
    PROVE  ReplaceEnd(c, i, acc) =
               IF EndsIn(c, tags[i])
               THEN [states |-> [acc.states EXCEPT ![i] = "done"],
                     out |-> acc.out \o Slice(c, RelEnd(c, tags[i]), ChunkLen(c)),
                     prevEnd |-> acc.prevEnd, tagWritten |-> TRUE]
               ELSE [states |-> acc.states, out |-> acc.out, prevEnd |-> acc.prevEnd,
                     tagWritten |-> TRUE]
<1> DEFINE sts  == acc.states
           o    == acc.out
           p    == acc.prevEnd
           w    == acc.tagWritten
           x    == o \o Slice(c, RelEnd(c, tags[i]), ChunkLen(c))
           done == [sts EXCEPT ![i] = "done"]
<1>1. acc = [states |-> sts, out |-> o, prevEnd |-> p, tagWritten |-> w]
    BY DEF Acc
<1>2. CASE EndsIn(c, tags[i])
    <2>1. ReplaceEnd(c, i, acc) = [[[acc EXCEPT !.out = x] EXCEPT
              !.states = [[acc EXCEPT !.out = x].states EXCEPT ![i] = "done"]] EXCEPT
              !.tagWritten = TRUE]
        BY <1>2 DEF ReplaceEnd
    <2> HIDE DEF sts, o, p, w, x, done
    <2>2. [acc EXCEPT !.out = x]
             = [states |-> sts, out |-> x, prevEnd |-> p, tagWritten |-> w]
        BY <1>1
    <2>3. [[states |-> sts, out |-> x, prevEnd |-> p, tagWritten |-> w] EXCEPT !.states = done]
             = [states |-> done, out |-> x, prevEnd |-> p, tagWritten |-> w]
        OBVIOUS
    <2>4. [acc EXCEPT !.out = x].states = sts
        BY <2>2
    <2>5. ReplaceEnd(c, i, acc)
             = [[states |-> done, out |-> x, prevEnd |-> p, tagWritten |-> w] EXCEPT
                   !.tagWritten = TRUE]
        BY <2>1, <2>2, <2>3, <2>4 DEF done
    <2>6. ReplaceEnd(c, i, acc) = [states |-> done, out |-> x, prevEnd |-> p, tagWritten |-> TRUE]
        BY <2>5
    <2> QED BY <1>2, <2>6 DEF sts, o, p, x, done
<1>3. CASE ~EndsIn(c, tags[i])
    <2>1. ReplaceEnd(c, i, acc) = [acc EXCEPT !.tagWritten = TRUE]
        BY <1>3 DEF ReplaceEnd
    <2>2. ReplaceEnd(c, i, acc)
             = [states |-> sts, out |-> o, prevEnd |-> p, tagWritten |-> TRUE]
        BY <1>1, <2>1
    <2> QED BY <1>3, <2>2
<1> QED BY <1>2, <1>3

LEMMA EndStep ==
    ASSUME tags \in Layouts, NEW c, IsChunk(c), NEW i \in DOMAIN tags, NEW acc,
           LoopInv(c, i - 1, acc), acc.states[i] = "progress"
    PROVE  LoopInv(c, i, ReplaceEnd(c, i, acc))
<1> DEFINE t   == tags[i]
           sts == acc.states
           o   == acc.out
           p   == acc.prevEnd
           end == Slice(c, RelEnd(c, t), ChunkLen(c))
           rec(s, x) == [states |-> s, out |-> x, prevEnd |-> p, tagWritten |-> TRUE]
           done == [sts EXCEPT ![i] = "done"]
<1>1. sts \in States /\ Known(o, sts) /\ p \in Int /\ o \in Seq(Int)
    BY DEF LoopInv, Acc
<1>2. acc = [states |-> sts, out |-> o, prevEnd |-> p, tagWritten |-> acc.tagWritten]
    BY DEF LoopInv, Acc
<1>3. CASE EndsIn(c, t)
    <2>1. end \in Seq(Byte)
        <3>1. t.start \in Nat /\ t.end \in Nat
            BY TagsOrdered
        <3>2. RelEnd(c, t) \in 0..ChunkLen(c) /\ ChunkLen(c) \in 0..ChunkLen(c)
            BY <1>3, <3>1, Relative DEF EndsIn
        <3> QED BY <3>2, SliceInRange, Zenon
    <2>3. ReplaceEnd(c, i, acc) = rec(done, o \o end)
        <3>1. acc \in Acc
            BY DEF LoopInv
        <3> QED BY <1>3, <3>1, EndRecord
    <2> HIDE DEF sts, o, p, end, t
    <2>4. done \in States /\ done[i] = "done" /\ \A j \in DOMAIN tags : j # i => done[j] = sts[j]
        BY <1>1 DEF States
    <2>5. Known(o \o end, sts)
        BY <1>1, <2>1, KnownBytes
    <2>6. Known(o \o end, done)
        <3> HIDE DEF done
        <3>1. \A j \in DOMAIN tags : sts[j] # "waiting" => done[j] # "waiting"
            BY <2>4
        <3> QED BY <2>5, <3>1 DEF Known
    <2> DEFINE new == rec(done, o \o end)
    <2>7. /\ new.states = done /\ new.out = o \o end /\ new.prevEnd = p
          /\ o \o end \in Seq(Int)
        BY <2>6 DEF Known
    <2>8. new \in Acc
        BY <1>1, <2>4, <2>7 DEF Acc
    <2> HIDE DEF new, done
    <2>9. LoopInv(c, i, new)
        BY <2>4, <2>6, <2>7, <2>8, OtherStep DEF sts, p
    <2> QED BY <2>3, <2>9 DEF new
<1>4. CASE ~EndsIn(c, t)
    <2> DEFINE new == ReplaceEnd(c, i, acc)
    <2>1. acc \in Acc
        BY DEF LoopInv
    <2>2. new = rec(sts, o)
        BY <1>4, <2>1, EndRecord
    <2> HIDE DEF new
    <2>3. new.states = acc.states /\ new.out = acc.out /\ new.prevEnd = acc.prevEnd
        BY <2>2
    <2>4. new \in Acc
        BY <1>1, <2>2 DEF Acc
    <2>5. LoopInv(c, i, new)
        BY <1>1, <2>3, <2>4, OtherStep
    <2> QED BY <2>5 DEF new
<1> QED BY <1>3, <1>4

(* Whatever the loop does with a tag *)
LEMMA TagDone ==
    ASSUME tags \in Layouts, NEW c, IsChunk(c), NEW i \in DOMAIN tags, NEW acc,
           LoopInv(c, i - 1, acc)
    PROVE  \/ LoopInv(c, i, ReplaceTag(c, i, acc))
           \/ Overlap(c) /\ Panics(ReplaceTag(c, i, acc).out)
<1>1. acc \in Acc /\ acc.states[i] \in {"waiting", "progress", "done"}
      /\ Known(acc.out, acc.states)
    BY DEF LoopInv, Acc, States
<1>2. CASE acc.states[i] = "done"
    <2>1. ReplaceTag(c, i, acc) = acc
        BY <1>2 DEF ReplaceTag
    <2>2. LoopInv(c, i, acc)
        BY <1>1, <1>2, OtherStep
    <2> QED BY <2>1, <2>2
<1>3. CASE acc.states[i] = "progress"
    BY <1>3, EndStep DEF ReplaceTag
<1>4. CASE acc.states[i] = "waiting" /\ FullyIn(c, tags[i])
    BY <1>4, FullStep DEF ReplaceTag
<1>5. CASE acc.states[i] = "waiting" /\ ~FullyIn(c, tags[i]) /\ StartsIn(c, tags[i])
    BY <1>5, StartStep DEF ReplaceTag
<1>6. CASE acc.states[i] = "waiting" /\ ~FullyIn(c, tags[i]) /\ ~StartsIn(c, tags[i])
    <2>1. ReplaceTag(c, i, acc) = acc
        BY <1>6 DEF ReplaceTag
    <2> DEFINE t == tags[i]
    <2>2. /\ t.start \in Nat /\ t.end \in Nat /\ i \in 1..Len(tags)
          /\ RelStart(c, t) = t.start - c.prev /\ RelEnd(c, t) = t.end - c.prev
          /\ ChunkLen(c) = c.cur - c.prev
          /\ c.prev \in Nat /\ c.cur \in Nat /\ c.prev < c.cur
        BY TagsOrdered, Relative
    <2>3. t.start >= c.prev \/ t.end <= c.prev
        BY <1>6, <2>2 DEF LoopInv, Reached, Passed
    <2>4. t.start >= c.cur \/ t.end <= c.cur
        <3>1. \/ RelStart(c, t) >= ChunkLen(c) \/ RelEnd(c, t) <= ChunkLen(c)
              \/ t.start >= c.cur
            BY <1>6, <2>2 DEF StartsIn
        <3> HIDE DEF t
        <3> QED BY <2>2, <3>1
    <2>5. LoopInv(c, i, acc)
        BY <1>1, <1>6, <2>4, OtherStep
    <2> QED BY <2>1, <2>5
<1> QED BY <1>1, <1>2, <1>3, <1>4, <1>5, <1>6

-------------------------------------------------------------------------------
(* A call *)

LEMMA KnownNoPanic ==
    ASSUME tags \in Layouts, NEW o, NEW states, Known(o, states) PROVE ~Panics(o)
<1> SUFFICES ASSUME NEW k \in DOMAIN o, o[k] = Panic PROVE FALSE
    BY DEF Panics
<1>1. Panic < 0 /\ Panic = -(MaxTags + 1) /\ MaxTags \in Nat
    BY InjectAssumption DEF Panic
<1>2. o[k] \notin Byte
    BY <1>1 DEF Byte
<1>3. -o[k] \in 1..Len(tags) /\ Len(tags) \in 1..MaxTags
    BY <1>2, TagsOrdered DEF Known
<1>4. -o[k] = MaxTags + 1
    BY <1>1
<1> QED BY <1>1, <1>3, <1>4

(* What was written by then, and the panic *)
Broken(o, states) == \E s : o = Append(s, Panic) /\ Known(s, states)

LEMMA BrokenPanics ==
    ASSUME NEW o, NEW states, Broken(o, states) PROVE Panics(o) /\ o \in Seq(Int)
<1>1. PICK s : o = Append(s, Panic) /\ s \in Seq(Int)
    BY DEF Broken, Known
<1>2. Panic \in Int
    BY InjectAssumption DEF Panic
<1> DEFINE p == Panic
<1> HIDE DEF p
<1>3. Append(s, p) \in Seq(Int) /\ Len(s) + 1 \in DOMAIN Append(s, p)
      /\ Append(s, p)[Len(s) + 1] = p
    BY <1>1, <1>2 DEF p
<1>4. o = Append(s, p)
    BY <1>1 DEF p
<1> QED BY <1>3, <1>4 DEF Panics, p

(* The loop has ended early *)
Stopped(c, acc) == acc \in Acc /\ Overlap(c) /\ Broken(acc.out, acc.states)

(* Whatever the body of the loop does with a tag *)
LEMMA VisitDone ==
    ASSUME tags \in Layouts, NEW c, IsChunk(c), NEW i \in DOMAIN tags, NEW acc,
           LoopInv(c, i - 1, acc) \/ Stopped(c, acc)
    PROVE  LoopInv(c, i, Visit(c, i, acc)) \/ Stopped(c, Visit(c, i, acc))
<1> DEFINE new == ReplaceTag(c, i, acc)
<1>1. Visit(c, i, acc) = IF Panics(acc.out) THEN acc
                         ELSE IF Panics(new.out) THEN [acc EXCEPT !.out = Append(acc.out, Panic)]
                         ELSE new
    BY DEF Visit
<1>2. CASE Stopped(c, acc)
    BY <1>1, <1>2, BrokenPanics DEF Stopped
<1>3. CASE LoopInv(c, i - 1, acc)
    <2>1. ~Panics(acc.out)
        BY <1>3, KnownNoPanic DEF LoopInv
    <2>2. LoopInv(c, i, new) \/ (Overlap(c) /\ Panics(new.out))
        BY <1>3, TagDone
    <2>3. CASE Panics(new.out)
        <3> DEFINE o == Append(acc.out, Panic)
                   v == [acc EXCEPT !.out = o]
        <3>1. Visit(c, i, acc) = v
            BY <1>1, <2>1, <2>3
        <3>2. Overlap(c)
            BY <2>2, <2>3, KnownNoPanic DEF LoopInv
        <3>3. acc \in Acc /\ Known(acc.out, acc.states)
            BY <1>3 DEF LoopInv
        <3>4. Broken(o, acc.states)
            BY <3>3 DEF Broken
        <3>5. o \in Seq(Int)
            BY <3>4, BrokenPanics
        <3> HIDE DEF o
        <3>6. v \in Acc /\ v.out = o /\ v.states = acc.states
            BY <3>3, <3>5 DEF Acc
        <3> HIDE DEF v
        <3> QED BY <3>1, <3>2, <3>4, <3>6 DEF Stopped
    <2>4. CASE ~Panics(new.out)
        BY <1>1, <2>1, <2>2, <2>4
    <2> QED BY <2>3, <2>4
<1> QED BY <1>2, <1>3

(* Between two calls; after a panic there is none *)
Steady ==
    /\ streamCur = streamPrev
    /\ Known(out, writeStates)
    /\ \A j \in DOMAIN tags : Passed(j, streamCur, writeStates[j])

InjectInv ==
    /\ tags \in Layouts
    /\ streamPrev \in 0..PageLen /\ streamCur \in 0..PageLen
    /\ writeStates \in States
    /\ cuts \subseteq 1..PageLen
    /\ \/ Steady
       \/ /\ streamPrev < streamCur /\ Broken(out, writeStates)
          /\ Overlap([prev |-> streamPrev, cur |-> streamCur])

LEMMA SteadyUnlessPanic == InjectInv => (Steady <=> ~Panics(out))
BY KnownNoPanic, BrokenPanics DEF InjectInv, Steady

(* What the loop starts with *)
LoopStart == [states |-> writeStates, out |-> out, prevEnd |-> 0, tagWritten |-> FALSE]

(* all is what the loop has when it has done with each tag *)
LoopRuns(c, all) ==
    /\ DOMAIN all = 0..Len(tags) /\ all[0] = LoopStart
    /\ \A i \in 1..Len(tags) : all[i] = Visit(c, i, all[i - 1])

LEMMA LoopSteps ==
    ASSUME InjectInv, Steady, NEW c, IsChunk(c), c.prev = streamPrev
    PROVE  \E all : /\ LoopRuns(c, all)
                    /\ LoopInv(c, 0, all[0])
                    /\ \A i \in 0..Len(tags) : LoopInv(c, i, all[i]) \/ Stopped(c, all[i])
                    /\ Injected(c) =
                          IF all[Len(tags)].tagWritten \/ Panics(all[Len(tags)].out)
                          THEN all[Len(tags)]
                          ELSE [all[Len(tags)] EXCEPT !.out = @ \o Slice(c, 0, ChunkLen(c))]
<1> DEFINE n     == Len(tags)
           start == LoopStart
           Body(f) == [i \in 0..n |-> IF i = 0 THEN start ELSE Visit(c, i, f[i - 1])]
           upto  == CHOOSE f : f = Body(f)
           all   == upto[n]
           Inv   == [i \in 0..n |-> {acc \in Acc : LoopInv(c, i, acc) \/ Stopped(c, acc)}]
           next  == [i \in 1..n |-> [acc \in Inv[i - 1] |-> Visit(c, i, acc)]]
<1>1. tags \in Layouts /\ n \in Nat /\ DOMAIN tags = 1..n /\ 0 <= n
    BY TagsOrdered DEF InjectInv
<1>2. Injected(c) = IF all.tagWritten \/ Panics(all.out) THEN all
                    ELSE [all EXCEPT !.out = @ \o Slice(c, 0, ChunkLen(c))]
    BY DEF Injected, LoopStart
<1>3. LoopInv(c, 0, start)
    <2>1. start \in Acc
        BY DEF InjectInv, Steady, Known, Acc, LoopStart
    <2>2. start.states = writeStates /\ start.out = out /\ start.prevEnd = 0
        BY DEF LoopStart
    <2>3. \A j \in DOMAIN tags : ~(j <= 0)
        BY <1>1
    <2> HIDE DEF start
    <2> QED BY <2>1, <2>2, <2>3 DEF LoopInv, Reached, FromFull, InjectInv, Steady
<1>11. start \in Inv[0]
    <2> HIDE DEF start
    <2> QED BY <1>1, <1>3 DEF LoopInv
<1> HIDE DEF start
<1>4. ASSUME NEW i \in (0 + 1)..n, NEW acc \in Inv[i - 1]
      PROVE  next[i][acc] = Visit(c, i, acc) /\ next[i][acc] \in Inv[i]
    <2>1. i \in DOMAIN tags /\ i \in 1..n /\ i \in 0..n /\ i - 1 \in 0..n
        BY <1>1
    <2>2. LoopInv(c, i - 1, acc) \/ Stopped(c, acc)
        BY <2>1
    <2>3. LoopInv(c, i, Visit(c, i, acc)) \/ Stopped(c, Visit(c, i, acc))
        BY <1>1, <2>1, <2>2, VisitDone
    <2>4. Visit(c, i, acc) \in Inv[i]
        BY <2>1, <2>3 DEF LoopInv, Stopped
    <2>5. next[i][acc] = Visit(c, i, acc)
        BY <2>1
    <2> QED BY <2>4, <2>5
<1> HIDE DEF Inv, next
<1>5. \E f : Iterates(f, start, next, Inv, 0, n)
    <2>1. 0 \in Int /\ n \in Int /\ 0 <= n
        BY <1>1
    <2>2. Leads(next, Inv, 0, n)
        BY <1>4 DEF Leads
    <2> HIDE DEF n
    <2> QED BY <1>11, <2>1, <2>2, Iteration
<1>6. \E f : f = Body(f)
    <2>1. PICK f : Iterates(f, start, next, Inv, 0, n)
        BY <1>5
    <2>2. \A i \in 0..n : i # 0 => i \in (0 + 1)..n /\ i - 1 \in 0..n
        BY <1>1
    <2>3. \A i \in 0..n : f[i] = IF i = 0 THEN start ELSE Visit(c, i, f[i - 1])
        BY <1>4, <2>1, <2>2 DEF Iterates
    <2> QED BY <2>1, <2>3 DEF Iterates
<1>7. upto = Body(upto)
    BY <1>6
<1> HIDE DEF upto
<1>8. upto[0] = start /\ \A i \in (0 + 1)..n : upto[i] = Visit(c, i, upto[i - 1])
    <2>1. 0 \in 0..n /\ \A i \in (0 + 1)..n : i \in 0..n /\ i # 0
        BY <1>1
    <2> QED BY <1>7, <2>1
<1>9. \A i \in 0..n : LoopInv(c, i, upto[i]) \/ Stopped(c, upto[i])
    <2> DEFINE S == {i \in Int : upto[i] \in Inv[i]}
    <2>1. 0 \in S
        BY <1>11, <1>8
    <2>2. ASSUME NEW i \in (0 + 1)..n, i - 1 \in S PROVE i \in S
        BY <1>4, <1>8, <2>2
    <2> HIDE DEF S
    <2>3. n \in Int /\ 0 \in Int
        BY <1>1
    <2> HIDE DEF n
    <2>4. \A i \in 0..n : i \in S
        BY <2>1, <2>2, <2>3, Induction
    <2> QED BY <2>4 DEF S, Inv
<1>10. LoopRuns(c, upto) /\ LoopInv(c, 0, upto[0])
    <2>1. DOMAIN upto = 0..n
        BY <1>7
    <2> QED BY <1>3, <1>8, <2>1 DEF LoopRuns, start
<1> QED BY <1>2, <1>9, <1>10

LEMMA LoopDone ==
    ASSUME InjectInv, Steady, NEW c, IsChunk(c), c.prev = streamPrev
    PROVE  LoopInv(c, Len(tags), Injected(c)) \/ Stopped(c, Injected(c))
<1> DEFINE n == Len(tags)
<1>1. PICK upto : /\ \A i \in 0..n : LoopInv(c, i, upto[i]) \/ Stopped(c, upto[i])
                  /\ Injected(c) =
                        IF upto[n].tagWritten \/ Panics(upto[n].out) THEN upto[n]
                        ELSE [upto[n] EXCEPT !.out = @ \o Slice(c, 0, ChunkLen(c))]
    BY LoopSteps
<1> DEFINE all == upto[n]
<1>2. Injected(c) = IF all.tagWritten \/ Panics(all.out) THEN all
                    ELSE [all EXCEPT !.out = @ \o Slice(c, 0, ChunkLen(c))]
    BY <1>1
<1>10. LoopInv(c, n, all) \/ Stopped(c, all)
    <2>1. n \in 0..n
        BY TagsOrdered DEF InjectInv
    <2> QED BY <1>1, <2>1
<1> HIDE DEF all
<1>11. CASE all.tagWritten \/ Panics(all.out)
    BY <1>2, <1>10, <1>11
<1>12. CASE ~(all.tagWritten \/ Panics(all.out))
    <2> DEFINE chunk == Slice(c, 0, ChunkLen(c))
               new   == [all EXCEPT !.out = all.out \o chunk]
    <2>0. LoopInv(c, n, all) /\ all \in Acc
        BY <1>10, <1>12, BrokenPanics DEF Stopped, LoopInv
    <2>1. chunk \in Seq(Byte)
        <3>1. ChunkLen(c) \in 0..ChunkLen(c) /\ 0 \in 0..ChunkLen(c)
            BY DEF IsChunk, ChunkLen
        <3> QED BY <3>1, SliceInRange, Zenon
    <2>2. Known(all.out \o chunk, all.states)
        BY <2>0, <2>1, KnownBytes DEF LoopInv
    <2>3. new.states = all.states /\ new.out = all.out \o chunk /\ new.prevEnd = all.prevEnd
          /\ new \in Acc
        BY <2>0, <2>2 DEF Acc, Known
    <2> HIDE DEF new
    <2>4. LoopInv(c, n, new)
        BY <2>0, <2>2, <2>3 DEF LoopInv
    <2> QED BY <1>2, <1>12, <2>4 DEF new
<1> QED BY <1>11, <1>12

(* A call of InjectContent *)
LEMMA CallStep ==
    ASSUME InjectInv, ~Panics(out), NEW n \in 1..(PageLen - streamCur), Call(n)
    PROVE  InjectInv' /\ streamCur' = streamCur + n
<1> DEFINE c   == [prev |-> streamPrev, cur |-> streamCur + n]
           res == Injected(c)
<1>1. /\ out' = res.out /\ writeStates' = res.states /\ streamCur' = streamCur + n
      /\ streamPrev' = (IF Panics(res.out) THEN streamPrev ELSE streamPrev + n)
      /\ cuts' = cuts \cup {streamCur + n} /\ tags' = tags
    BY DEF Call
<1>2. Steady /\ tags \in Layouts
    BY SteadyUnlessPanic DEF InjectInv
<1>3. IsChunk(c) /\ c.prev = streamPrev /\ c.cur = streamCur'
    BY <1>1, <1>2, InjectAssumption DEF IsChunk, InjectInv, Steady
<1>4. LoopInv(c, Len(tags), res) \/ Stopped(c, res)
    BY <1>2, <1>3, LoopDone
<1>5. c = [prev |-> streamPrev, cur |-> streamCur']
    BY <1>1
<1> HIDE DEF c, res
<1>6. /\ streamPrev \in Nat /\ streamPrev = streamCur /\ streamCur' \in 1..PageLen
      /\ streamPrev < streamCur' /\ streamPrev \in 0..PageLen /\ streamCur' \in 0..PageLen
      /\ cuts' \subseteq 1..PageLen
    BY <1>1, <1>2, InjectAssumption DEF InjectInv, Steady
<1>7. writeStates' \in States
    BY <1>1, <1>4 DEF LoopInv, Stopped, Acc
<1>8. CASE LoopInv(c, Len(tags), res)
    <2>1. ~Panics(res.out)
        BY <1>2, <1>8, KnownNoPanic DEF LoopInv
    <2>2. streamPrev' = streamCur'
        BY <1>1, <1>6, <2>1
    <2>3. Known(out', writeStates')
        BY <1>1, <1>8 DEF LoopInv
    <2>4. \A j \in DOMAIN tags : Passed(j, streamCur', writeStates'[j])
        <3>1. \A j \in DOMAIN tags : j <= Len(tags)
            BY <1>2, TagsOrdered
        <3> QED BY <1>1, <1>3, <1>8, <3>1 DEF LoopInv, Reached
    <2>5. Steady'
        BY <1>1, <2>2, <2>3, <2>4 DEF Steady, Known, Passed
    <2> QED BY <1>1, <1>2, <1>6, <1>7, <2>2, <2>5 DEF InjectInv, States
<1>9. CASE Stopped(c, res)
    <2>1. Panics(res.out)
        BY <1>9, BrokenPanics DEF Stopped
    <2>2. streamPrev' = streamPrev
        BY <1>1, <2>1
    <2>3. Broken(out', writeStates')
        BY <1>1, <1>9 DEF Stopped
    <2>4. Broken(out, writeStates)'
        BY <1>1, <2>3 DEF Broken, Known
    <2>5. Overlap([prev |-> streamPrev', cur |-> streamCur'])
        BY <1>5, <1>9, <2>2 DEF Stopped
    <2>6. Overlap([prev |-> streamPrev, cur |-> streamCur])'
        BY <1>1, <2>5 DEF Overlap
    <2> QED BY <1>1, <1>2, <1>6, <1>7, <2>2, <2>4, <2>6 DEF InjectInv, States
<1> QED BY <1>1, <1>4, <1>8, <1>9

LEMMA InjectInit == Init => InjectInv
<1> SUFFICES ASSUME Init PROVE InjectInv
    OBVIOUS
<1>1. /\ tags \in Layouts /\ streamPrev = 0 /\ streamCur = 0 /\ out = <<>> /\ cuts = {}
      /\ writeStates = [i \in DOMAIN tags |-> "waiting"]
    BY DEF Init
<1>2. \A j \in DOMAIN tags : tags[j].start >= 0
    BY <1>1, TagsOrdered
<1>3. writeStates \in States /\ \A j \in DOMAIN tags : writeStates[j] = "waiting"
    BY <1>1 DEF States
<1>4. Known(out, writeStates)
    BY <1>1 DEF Known
<1>5. Steady
    BY <1>1, <1>2, <1>3, <1>4 DEF Steady, Passed
<1> QED BY <1>1, <1>3, <1>5, InjectAssumption DEF InjectInv

LEMMA UnchangedInject == InjectInv /\ UNCHANGED vars => InjectInv'
BY DEF vars, InjectInv, Steady, Broken, Overlap, States, Known, Passed

LEMMA InjectStep == InjectInv /\ [Next]_vars => InjectInv'
<1>1. ASSUME InjectInv, Next PROVE InjectInv'
    BY <1>1, CallStep DEF Next, Write
<1> QED BY <1>1, UnchangedInject

(* The tags of one page do not overlap *)
LEMMA OwnNoOverlap ==
    ASSUME tags \in Layouts, OwnTags, NEW c PROVE ~Overlap(c)
<1> SUFFICES ASSUME NEW i \in DOMAIN tags, NEW j \in DOMAIN tags, i < j,
                    tags[j].start < tags[i].end
             PROVE  FALSE
    BY DEF Overlap
<1>1. tags[i].end <= tags[j].start /\ tags[i].end \in Nat /\ tags[j].start \in Nat
    BY TagsApart
<1> QED BY <1>1

LEMMA OwnSteady == InjectInv /\ OwnTags => Steady /\ ~Panics(out)
BY OwnNoOverlap, SteadyUnlessPanic DEF InjectInv

LEMMA KnownValues ==
    ASSUME tags \in Layouts, NEW o, NEW states, Known(o, states)
    PROVE  /\ \A k \in DOMAIN o : o[k] \in Int /\ o[k] \in -MaxTags..(PageLen - 1)
           /\ \A j, k \in DOMAIN o : j < k /\ o[j] < 0 /\ o[k] < 0 => o[j] > o[k]
<1>1. Len(tags) \in 1..MaxTags /\ DOMAIN tags = 1..Len(tags)
    BY TagsOrdered
<1>2. ASSUME NEW k \in DOMAIN o PROVE o[k] \in Int /\ o[k] \in -MaxTags..(PageLen - 1)
    <2>1. CASE o[k] \in Byte
        BY <2>1, InjectAssumption DEF Byte
    <2>2. CASE o[k] \notin Byte
        <3>1. o[k] \in Int /\ o[k] < 0 /\ -o[k] \in 1..Len(tags)
            BY <1>1, <2>2 DEF Known
        <3> QED BY <1>1, <3>1, InjectAssumption
    <2> QED BY <2>1, <2>2
<1> QED BY <1>2 DEF Known

LEMMA InjectImplies == InjectInv => TypeOK /\ PanicsOnlyOnOverlap /\ TagsOnceInOrder
<1> SUFFICES ASSUME InjectInv PROVE TypeOK /\ PanicsOnlyOnOverlap /\ TagsOnceInOrder
    OBVIOUS
<1>1. PageLen \in Nat /\ MaxTags \in Nat /\ tags \in Layouts
    BY InjectAssumption DEF InjectInv
<1>2. PanicsOnlyOnOverlap
    BY SteadyUnlessPanic DEF PanicsOnlyOnOverlap, InjectInv, Overlap
<1>3. IF Panics(out) THEN streamPrev < streamCur ELSE streamPrev = streamCur
    BY SteadyUnlessPanic DEF InjectInv, Steady
<1>4. CASE Steady
    <2>1. \A k \in DOMAIN out : out[k] \in -MaxTags..(PageLen - 1)
        BY <1>1, <1>4, KnownValues DEF Steady
    <2>2. TypeOK
        BY <1>1, <1>3, <2>1 DEF TypeOK, InjectInv, States
    <2>3. TagsOnceInOrder
        BY <1>4 DEF TagsOnceInOrder, Steady, Known
    <2> QED BY <1>2, <2>2, <2>3
<1>5. CASE Broken(out, writeStates)
    <2>1. PICK s : out = Append(s, Panic) /\ Known(s, writeStates)
        BY <1>5 DEF Broken
    <2>2. Panic = -(MaxTags + 1) /\ Panic \in Int
        BY <1>1 DEF Panic
    <2> DEFINE p == Panic
    <2> HIDE DEF p
    <2>3. s \in Seq(Int) /\ out = Append(s, p) /\ p \in Int
        BY <2>1, <2>2 DEF Known, p
    <2>4. /\ DOMAIN out = 1..(Len(s) + 1) /\ out[Len(s) + 1] = p /\ Len(s) \in Nat
          /\ DOMAIN s = 1..Len(s)
          /\ \A k \in DOMAIN s : out[k] = s[k]
        BY <2>3
    <2>5. \A k \in DOMAIN s : s[k] \in Int /\ s[k] \in -MaxTags..(PageLen - 1)
        BY <1>1, <2>1, KnownValues
    <2>6. ASSUME NEW k \in DOMAIN out
          PROVE  (k = Len(s) + 1 /\ out[k] = -(MaxTags + 1)) \/ (k \in DOMAIN s /\ out[k] = s[k])
        BY <2>2, <2>4 DEF p
    <2>7. \A k \in DOMAIN out : out[k] \in -(MaxTags + 1)..(PageLen - 1)
        BY <1>1, <2>5, <2>6
    <2>8. TypeOK
        BY <1>1, <1>3, <2>7 DEF TypeOK, InjectInv, States
    <2>9. ASSUME NEW j \in DOMAIN out, NEW k \in DOMAIN out, j < k, out[j] < 0, out[k] < 0
          PROVE  out[j] > out[k]
        <3>1. j \in DOMAIN s /\ out[j] = s[j]
            BY <2>4, <2>6, <2>9
        <3>2. CASE k \in DOMAIN s /\ out[k] = s[k]
            <4>1. s[j] > s[k]
                BY <2>1, <2>9, <3>1, <3>2 DEF Known
            <4> QED BY <3>1, <3>2, <4>1
        <3>3. CASE out[k] = -(MaxTags + 1)
            BY <1>1, <2>5, <3>1, <3>3
        <3> QED BY <2>6, <3>2, <3>3
    <2>10. TagsOnceInOrder
        BY <2>9 DEF TagsOnceInOrder
    <2> QED BY <1>2, <2>8, <2>10
<1> QED BY <1>4, <1>5 DEF InjectInv

(* InjectContent keeps its types: the stream position moves with the       *)
(* chunks, and what is written are bytes of the page and data of its tags. *)
THEOREM InjectTypeCorrect == Spec => []TypeOK
BY InjectInit, InjectStep, InjectImplies, PTL DEF Spec

(* Whatever the chunks and the tags are, InjectContent takes a slice of a  *)
(* chunk out of its range only when two tags overlap that are both in the  *)
(* chunk.                                                                  *)
THEOREM InjectPanicsOnlyOnOverlap == Spec => []PanicsOnlyOnOverlap
BY InjectInit, InjectStep, InjectImplies, PTL DEF Spec

(* Whatever the chunks and the tags are, InjectContent writes the data of  *)
(* a tag not twice, and not before that of an earlier tag.                 *)
THEOREM InjectOnceInOrder == Spec => []TagsOnceInOrder
BY InjectInit, InjectStep, InjectImplies, PTL DEF Spec

-------------------------------------------------------------------------------
(* Either writer *)

AskedAndSent ==
    /\ kind \in {"injecting", "buffered"} /\ isText \in BOOLEAN
    /\ declared \in {<<>>, <<PageLen>>}
    /\ asked = <<>> \/ \E c \in Codes : asked = <<c>>
    /\ written \in 0..PageLen
    /\ code \in Codes \cup {0} /\ wroteHeader \in BOOLEAN
    /\ returned \in {"no", "ok", "failed"}
    /\ head = <<>> \/ head[1].status \in Codes \cup {0, 200}

(* How far the injection has come *)
InjectedSoFar ==
    streamCur = IF isText /\ (kind = "injecting" \/ returned = "ok") THEN written ELSE 0

(* The page is parsed by the buffered writer itself.  A panic goes through *)
(* the handler, which then does not return.                                *)
OwnOrShared ==
    /\ kind = "buffered" => OwnTags
    /\ Panics(out) => returned = "no"

WriterInv == InjectInv /\ AskedAndSent /\ InjectedSoFar /\ OwnOrShared

LEMMA WriterInvInit == WriterInit => WriterInv
<1> SUFFICES ASSUME WriterInit PROVE WriterInv
    OBVIOUS
<1>1. InjectInv
    BY InjectInit DEF WriterInit
<1>2. written = 0 /\ 0 \in 0..PageLen /\ streamCur = 0
    BY InjectAssumption DEF WriterInit, Init
<1>3. AskedAndSent /\ InjectedSoFar
    BY <1>2 DEF WriterInit, AskedAndSent, InjectedSoFar
<1>4. OwnOrShared
    BY DEF WriterInit, Init, OwnOrShared
<1> QED BY <1>1, <1>3, <1>4 DEF WriterInv

LEMMA BytesOfPage ==
    ASSUME NEW from \in Nat, NEW to \in 0..PageLen
    PROVE  Bytes(from, to) \in Seq(Byte)
<1> USE InjectAssumption DEF Bytes, Byte
<1>1. CASE to <= from
    <2>1. 1..(to - from) = {}
        BY <1>1
    <2>2. Bytes(from, to) = <<>>
        BY <2>1
    <2> QED BY <2>2
<1>2. CASE to > from
    <2>1. to - from \in Nat /\ \A k \in 1..(to - from) : from + k - 1 \in Byte
        BY <1>2
    <2>2. Bytes(from, to) \in [1..(to - from) -> Byte]
        BY <2>1
    <2> QED BY <2>1, <2>2, SeqDef
<1> QED BY <1>1, <1>2

(* Bytes that go to the client as they are *)
LEMMA PassedThrough ==
    ASSUME InjectInv, ~Panics(out),
           UNCHANGED <<tags, streamPrev, streamCur, writeStates, cuts>>,
           NEW s \in Seq(Byte), out' = out \o s \/ out' = s
    PROVE  InjectInv' /\ ~Panics(out')
<1>1. Known(out', writeStates)
    <2>1. CASE out' = out \o s
        BY <2>1, KnownBytes, SteadyUnlessPanic DEF Steady
    <2>2. CASE out' = s
        <3>1. Known(<<>>, writeStates)
            BY DEF Known
        <3>2. Byte \subseteq Int
            BY InjectAssumption DEF Byte
        <3>3. <<>> \o s = s
            BY <3>2, ConcatEmptySeq
        <3> QED BY <2>2, <3>1, <3>3, KnownBytes
    <2> QED BY <2>1, <2>2
<1>2. Steady /\ tags \in Layouts
    BY SteadyUnlessPanic DEF InjectInv
<1>3. Steady'
    BY <1>1, <1>2 DEF Steady, Known, Passed
<1>4. ~Panics(out')
    BY <1>1, <1>2, KnownNoPanic
<1> QED BY <1>3, <1>4 DEF InjectInv, States

(* What the handler does without writing a byte *)
LEMMA SameOwnOrShared ==
    ASSUME OwnOrShared, UNCHANGED <<kind, tags>>, ~Panics(out') \/ returned' = "no"
    PROVE  OwnOrShared'
BY DEF OwnOrShared, OwnTags, Panics

LEMMA WriterInvStep == WriterInv /\ [WriterNext]_writerVars => WriterInv'
<1> SUFFICES ASSUME WriterInv, [WriterNext]_writerVars PROVE WriterInv'
    OBVIOUS
<1> USE DEF WriterInv
<1>1. ASSUME NEW c \in Codes, WriteHeader(c) PROVE WriterInv'
    <2>1. InjectInv' /\ streamCur' = streamCur
        BY <1>1, UnchangedInject DEF WriteHeader, vars
    <2>2. AskedAndSent'
        <3>1. /\ UNCHANGED <<kind, isText, declared, written, returned>>
              /\ asked' = <<c>> \/ asked' = asked
            BY <1>1 DEF WriteHeader, handler
        <3>2. CASE SendHeader(c)
            BY <3>1, <3>2, SentFirst DEF SendHeader, AskedAndSent
        <3>3. CASE RememberStatus(c)
            BY <3>1, <3>3 DEF RememberStatus, AskedAndSent
        <3> QED BY <1>1, <3>2, <3>3 DEF WriteHeader
    <2>3. InjectedSoFar'
        BY <1>1, <2>1 DEF WriteHeader, handler, InjectedSoFar
    <2>4. OwnOrShared'
        BY <1>1, SameOwnOrShared DEF WriteHeader, Handling, handler, vars
    <2> QED BY <2>1, <2>2, <2>3, <2>4
<1>2. ASSUME WritePart PROVE WriterInv'
    <2>1. PICK n \in 1..(PageLen - written) : WriteNext(n)
        BY <1>2 DEF WritePart
    <2>2. written \in Nat /\ written + n \in 0..PageLen /\ n \in Nat
        BY InjectAssumption DEF AskedAndSent
    <2>3. AskedAndSent'
        BY <2>1, <2>2 DEF WriteNext, WriteInjecting, AskedAndSent, handler, Sent
    <2>4. ~Panics(out) /\ returned = "no"
        BY <2>1 DEF WriteNext, Handling
    <2>5. OwnOrShared'
        <3>1. tags' = tags
            BY <2>1 DEF WriteNext, WriteInjecting, Call, vars
        <3> QED BY <2>1, <2>4, <3>1, SameOwnOrShared DEF WriteNext, handler
    <2>6. CASE kind = "buffered" /\ UNCHANGED <<head, vars>>
        <3>1. InjectInv' /\ streamCur' = streamCur
            BY <2>6, UnchangedInject DEF vars
        <3>2. InjectedSoFar'
            BY <2>1, <2>6, <3>1 DEF WriteNext, Handling, handler, InjectedSoFar
        <3> QED BY <2>3, <2>5, <3>1, <3>2
    <2>7. CASE kind = "injecting" /\ isText /\ Call(n)
        <3>1. n \in 1..(PageLen - streamCur)
            BY <2>7 DEF InjectedSoFar
        <3>2. InjectInv' /\ streamCur' = streamCur + n
            BY <2>4, <2>7, <3>1, CallStep
        <3>3. InjectedSoFar'
            BY <2>1, <2>7, <3>2 DEF WriteNext, handler, InjectedSoFar
        <3> QED BY <2>3, <2>5, <3>2, <3>3
    <2>8. CASE /\ kind = "injecting" /\ ~isText
               /\ out' = out \o Bytes(written, written + n)
               /\ UNCHANGED <<tags, streamPrev, streamCur, writeStates, cuts>>
        <3>1. Bytes(written, written + n) \in Seq(Byte)
            BY <2>2, BytesOfPage
        <3>2. InjectInv'
            BY <2>4, <2>8, <3>1, PassedThrough
        <3>3. InjectedSoFar'
            BY <2>1, <2>8 DEF WriteNext, handler, InjectedSoFar
        <3> QED BY <2>3, <2>5, <3>2, <3>3
    <2> QED BY <2>1, <2>6, <2>7, <2>8 DEF WriteNext, WriteInjecting
<1>3. ASSUME Return PROVE WriterInv'
    <2>1. AskedAndSent'
        BY <1>3 DEF Return, TriggerRealWrite, AskedAndSent, handler, Sent
    <2>2. ~Panics(out) /\ UNCHANGED <<kind, tags>>
        BY <1>3 DEF Return, Handling, TriggerRealWrite, Call, handler, vars
    <2>3. CASE kind = "injecting" /\ UNCHANGED <<head, vars>>
        <3>1. InjectInv' /\ streamCur' = streamCur /\ out' = out
            BY <2>3, UnchangedInject DEF vars
        <3>2. InjectedSoFar'
            BY <1>3, <2>3, <3>1 DEF Return, handler, InjectedSoFar
        <3>3. OwnOrShared'
            BY <2>2, <3>1, SameOwnOrShared
        <3> QED BY <2>1, <3>1, <3>2, <3>3
    <2>4. CASE kind = "buffered" /\ written > 0 /\ isText /\ Call(PageLen)
        <3>1. written = PageLen /\ streamCur = 0
            BY <1>3, <2>4 DEF Return, Handling, InjectedSoFar
        <3>2. PageLen \in 1..(PageLen - streamCur)
            BY <2>4, <3>1, InjectAssumption
        <3>3. InjectInv' /\ streamCur' = streamCur + PageLen
            BY <2>2, <2>4, <3>2, CallStep
        <3>4. InjectedSoFar'
            BY <1>3, <2>4, <3>1, <3>3, InjectAssumption DEF Return, handler, InjectedSoFar
        <3>5. ~Panics(out')
            <4>1. OwnTags'
                BY <2>2, <2>4 DEF OwnOrShared, OwnTags
            <4>2. InjectInv' /\ OwnTags' => ~Panics(out)'
                BY OwnSteady, PTL
            <4> QED BY <3>3, <4>1, <4>2 DEF Panics
        <3>6. OwnOrShared'
            BY <2>2, <3>5, SameOwnOrShared
        <3> QED BY <2>1, <3>3, <3>4, <3>6
    <2>5. CASE /\ kind = "buffered" /\ (written = 0 \/ ~isText)
               /\ out' = Bytes(0, written)
               /\ UNCHANGED <<tags, streamPrev, streamCur, writeStates, cuts>>
        <3>1. Bytes(0, written) \in Seq(Byte)
            BY BytesOfPage DEF AskedAndSent
        <3>2. InjectInv' /\ ~Panics(out')
            BY <2>2, <2>5, <3>1, PassedThrough
        <3>3. InjectedSoFar'
            BY <1>3, <2>5 DEF Return, Handling, handler, InjectedSoFar
        <3>4. OwnOrShared'
            BY <2>2, <3>2, SameOwnOrShared
        <3> QED BY <2>1, <3>2, <3>3, <3>4
    <2> QED BY <1>3, <2>3, <2>4, <2>5 DEF Return, TriggerRealWrite
<1>4. ASSUME Fail PROVE WriterInv'
    <2>1. InjectInv' /\ streamCur' = streamCur /\ out' = out /\ UNCHANGED <<kind, tags>>
        BY <1>4, UnchangedInject DEF Fail, handler, vars
    <2>2. OwnOrShared'
        BY <1>4, <2>1, SameOwnOrShared DEF Fail, Handling
    <2> QED BY <1>4, <2>1, <2>2 DEF Fail, Handling, AskedAndSent, InjectedSoFar, handler
<1>5. ASSUME UNCHANGED writerVars PROVE WriterInv'
    <2>1. InjectInv' /\ streamCur' = streamCur /\ UNCHANGED <<kind, tags, out, returned>>
        BY <1>5, UnchangedInject DEF writerVars, handler, vars
    <2>2. OwnOrShared'
        BY <2>1, SameOwnOrShared DEF OwnOrShared
    <2> QED BY <1>5, <2>1, <2>2 DEF writerVars, AskedAndSent, InjectedSoFar, handler
<1> QED BY <1>1, <1>2, <1>3, <1>4, <1>5 DEF WriterNext

LEMMA WriterInvImplies == WriterInv => WritersTypeOK
<1> SUFFICES ASSUME WriterInv PROVE WritersTypeOK
    OBVIOUS
<1>1. TypeOK
    BY InjectImplies DEF WriterInv
<1>2. Len(asked) <= 1
    <2>1. CASE asked = <<>>
        BY <2>1
    <2>2. ASSUME NEW c \in Codes, asked = <<c>> PROVE Len(asked) <= 1
        BY <2>2
    <2> QED BY <2>1, <2>2 DEF WriterInv, AskedAndSent
<1> QED BY <1>1, <1>2 DEF WritersTypeOK, WriterInv, AskedAndSent, InjectedSoFar, OwnOrShared

(* The types of both writers, and how far the injection has come in each.  *)
THEOREM WritersTypeCorrect == WriterSpec => []WritersTypeOK
BY WriterInvInit, WriterInvStep, WriterInvImplies, PTL DEF WriterSpec

(* Neither writer makes InjectContent take a slice out of its range but    *)
(* for two tags that overlap in one chunk: never with tags that are those  *)
(* of the page, so that a buffered page never panics.                      *)
THEOREM WritersPanicOnlyOnOverlap ==
    WriterSpec => [](PanicsOnlyOnOverlap /\ (OwnTags \/ kind = "buffered" => ~Panics(out)))
<1>1. WriterInv => PanicsOnlyOnOverlap /\ (OwnTags \/ kind = "buffered" => ~Panics(out))
    BY InjectImplies, OwnSteady DEF WriterInv, OwnOrShared
<1> QED BY <1>1, WriterInvInit, WriterInvStep, PTL DEF WriterSpec

(* Through either writer the data of a tag reaches the client once at most,*)
(* and in the order of the tags, whatever the chunks are.                  *)
THEOREM TagsAreOnceInOrder == WriterSpec => []TagsOnceInOrder
<1>1. WriterInv => TagsOnceInOrder
    BY InjectImplies DEF WriterInv
<1> QED BY <1>1, WriterInvInit, WriterInvStep, PTL DEF WriterSpec

-------------------------------------------------------------------------------
(* The page with its tags replaced *)

(* What the byte at p becomes *)
Becomes(p) ==
    IF StartingAt(p) # {} THEN <<TagData(CHOOSE i \in StartingAt(p) : TRUE)>>
    ELSE IF InsideTag(p) THEN <<>> ELSE <<p>>

(* The definition of Replaced holds of it *)
LEMMA ReplacedStep ==
    ASSUME tags \in Layouts
    PROVE  /\ Replaced(0) = <<>>
           /\ \A p \in 1..PageLen : Replaced(p) = Replaced(p - 1) \o Becomes(p - 1)
           /\ \A p \in 0..PageLen : Replaced(p) \in Seq(Int)
<1> DEFINE Inv  == [p \in 0..PageLen |-> Seq(Int)]
           next == [p \in 1..PageLen |-> [o \in Seq(Int) |-> o \o Becomes(p - 1)]]
           Body(f, n) == [p \in 0..n |-> IF p = 0 THEN <<>> ELSE f[p - 1] \o Becomes(p - 1)]
<1> USE InjectAssumption
<1>1. \A p \in Nat : Becomes(p) \in Seq(Int)
    <2> SUFFICES ASSUME NEW p \in Nat PROVE Becomes(p) \in Seq(Int)
        OBVIOUS
    <2>1. CASE StartingAt(p) # {}
        <3>1. (CHOOSE i \in StartingAt(p) : TRUE) \in StartingAt(p)
            BY <2>1
        <3>2. \A i \in StartingAt(p) : -i \in Int
            BY TagsOrdered DEF StartingAt
        <3> QED BY <2>1, <3>1, <3>2 DEF Becomes, TagData
    <2>2. CASE StartingAt(p) = {}
        BY <2>2 DEF Becomes
    <2> QED BY <2>1, <2>2
<1>2. PICK F : Iterates(F, <<>>, next, Inv, 0, PageLen)
    <2>1. <<>> \in Inv[0] /\ 0 \in Int /\ PageLen \in Int /\ 0 <= PageLen
        OBVIOUS
    <2>2. Leads(next, Inv, 0, PageLen)
        <3>1. ASSUME NEW p \in (0 + 1)..PageLen, NEW o \in Inv[p - 1]
              PROVE  next[p][o] \in Inv[p]
            <4>1. o \in Seq(Int) /\ p \in 1..PageLen /\ p - 1 \in Nat /\ p \in 0..PageLen
                OBVIOUS
            <4>2. next[p][o] = o \o Becomes(p - 1) /\ Inv[p] = Seq(Int)
                BY <4>1
            <4> HIDE DEF next, Inv
            <4> QED BY <1>1, <4>1, <4>2
        <3> QED BY <3>1 DEF Leads
    <2> HIDE DEF next, Inv
    <2> QED BY <2>1, <2>2, Iteration
<1>3. /\ F[0] = <<>> /\ \A p \in 0..PageLen : F[p] \in Seq(Int)
      /\ \A p \in 1..PageLen : F[p] = F[p - 1] \o Becomes(p - 1)
    <2>1. F[0] = <<>> /\ \A p \in 0..PageLen : F[p] \in Seq(Int)
        BY <1>2 DEF Iterates
    <2>2. ASSUME NEW p \in 1..PageLen PROVE F[p] = F[p - 1] \o Becomes(p - 1)
        <3>1. p \in (0 + 1)..PageLen /\ p - 1 \in 0..PageLen
            OBVIOUS
        <3>2. F[p] = next[p][F[p - 1]] /\ F[p - 1] \in Seq(Int)
            BY <1>2, <2>1, <3>1 DEF Iterates
        <3> QED BY <3>2
    <2> QED BY <2>1, <2>2
<1>4. ASSUME NEW n \in 0..PageLen PROVE Replaced(n) = F[n]
    <2> DEFINE upto == CHOOSE f : f = Body(f, n)
               G    == [p \in 0..n |-> F[p]]
               S    == {p \in Int : upto[p] = F[p]}
    <2>1. Replaced(n) = upto[n]
        BY DEF Replaced, Becomes
    <2>2. G = Body(G, n)
        <3>1. ASSUME NEW p \in 0..n
              PROVE  G[p] = IF p = 0 THEN <<>> ELSE G[p - 1] \o Becomes(p - 1)
            <4>1. p # 0 => p \in 1..PageLen /\ p - 1 \in 0..n
                OBVIOUS
            <4> QED BY <1>3, <4>1
        <3> QED BY <3>1
    <2>3. upto = Body(upto, n)
        <3> HIDE DEF G
        <3> QED BY <2>2
    <2> HIDE DEF upto, G
    <2>4. 0 \in S
        <3>1. upto[0] = <<>>
            BY <2>3
        <3> QED BY <1>3, <3>1
    <2>5. ASSUME NEW p \in (0 + 1)..n, p - 1 \in S PROVE p \in S
        <3>1. p \in 0..n /\ p # 0 /\ p \in 1..PageLen
            OBVIOUS
        <3>2. upto[p] = upto[p - 1] \o Becomes(p - 1)
            BY <2>3, <3>1
        <3>3. upto[p - 1] = F[p - 1] /\ p \in Int
            BY <2>5
        <3>4. upto[p] = F[p]
            BY <1>3, <3>1, <3>2, <3>3
        <3> QED BY <3>3, <3>4
    <2> HIDE DEF S
    <2>6. n \in S
        <3>1. 0 \in Int /\ n \in Int /\ n \in 0..n
            OBVIOUS
        <3> QED BY <2>4, <2>5, <3>1, Induction
    <2> QED BY <2>1, <2>6 DEF S
<1>5. \A p \in 1..PageLen : p \in 0..PageLen /\ p - 1 \in 0..PageLen
    OBVIOUS
<1>6. 0 \in 0..PageLen
    OBVIOUS
<1> QED BY <1>3, <1>4, <1>5, <1>6

LEMMA TextOfReplaced ==
    ASSUME tags \in Layouts, NEW p \in 0..PageLen PROVE Replaced(p) \in Seq(Int)
BY ReplacedStep

(* Bytes between the tags stay *)
LEMMA ReplacedBetween ==
    ASSUME tags \in Layouts, OwnTags, NEW to \in 0..PageLen, NEW from \in 0..to,
           \A j \in DOMAIN tags : tags[j].end <= from \/ tags[j].start >= to
    PROVE  Replaced(to) = Replaced(from) \o Bytes(from, to)
<1> DEFINE S == {p \in Int : Replaced(p) = Replaced(from) \o Bytes(from, p)}
           R == Replaced(from)
<1> USE InjectAssumption
<1>1. R \in Seq(Int)
    BY ReplacedStep
<1>2. from \in S
    <2>1. Bytes(from, from) = <<>>
        <3>1. 1..(from - from) = {}
            OBVIOUS
        <3> QED BY <3>1 DEF Bytes
    <2> HIDE DEF R
    <2>2. R \o <<>> = R
        BY <1>1
    <2>3. R = R \o Bytes(from, from) /\ from \in Int
        BY <2>1, <2>2
    <2> QED BY <2>3 DEF R
<1>3. ASSUME NEW p \in (from + 1)..to, p - 1 \in S PROVE p \in S
    <2>1. p \in 1..PageLen /\ p - 1 \in Nat /\ p \in Int
        OBVIOUS
    <2>2. \A j \in DOMAIN tags : /\ tags[j].start \in Nat /\ tags[j].end \in Nat
                                 /\ tags[j].start < tags[j].end
        BY TagsApart
    <2>3. StartingAt(p - 1) = {} /\ ~InsideTag(p - 1)
        BY <2>1, <2>2 DEF StartingAt, InsideTag
    <2>4. Becomes(p - 1) = <<p - 1>>
        BY <2>3 DEF Becomes
    <2>5. Replaced(p) = Replaced(p - 1) \o <<p - 1>>
        BY <2>1, <2>4, ReplacedStep
    <2>6. Replaced(p - 1) = R \o Bytes(from, p - 1)
        BY <1>3
    <2>7. Bytes(from, p - 1) \in Seq(Int) /\ Bytes(from, p - 1) \o <<p - 1>> = Bytes(from, p)
        BY <2>1 DEF Bytes
    <2> DEFINE b == Bytes(from, p - 1)
               l == <<p - 1>>
    <2>8. l \in Seq(Int)
        BY <2>1
    <2> HIDE DEF b, l, R
    <2>9. \A s1, s2, s3 \in Seq(Int) : (s1 \o s2) \o s3 = s1 \o (s2 \o s3)
        BY Associative
    <2>10. (R \o b) \o l = R \o (b \o l)
        BY <1>1, <2>7, <2>8, <2>9 DEF b
    <2>11. Replaced(p) = R \o Bytes(from, p)
        BY <2>5, <2>6, <2>7, <2>10 DEF b, l
    <2> QED BY <2>1, <2>11 DEF R
<1> HIDE DEF S
<1>4. to \in S
    <2>1. from \in Int /\ to \in Int /\ to \in from..to
        OBVIOUS
    <2> QED BY <1>2, <1>3, <2>1, Induction
<1> QED BY <1>4 DEF S

(* The tag at its start, and nothing of the rest of it *)
LEMMA ReplacedInside ==
    ASSUME tags \in Layouts, OwnTags, NEW i \in DOMAIN tags,
           NEW to \in 0..tags[i].end, NEW from \in (tags[i].start + 1)..to
    PROVE  Replaced(to) = Replaced(from)
<1> DEFINE S == {p \in Int : Replaced(p) = Replaced(from)}
<1>1. /\ i \in 1..Len(tags) /\ DOMAIN tags = 1..Len(tags) /\ Len(tags) \in Nat
      /\ \A j \in DOMAIN tags : /\ tags[j].start \in Nat /\ tags[j].end \in Nat
                                /\ tags[j].start < tags[j].end /\ tags[j].end <= PageLen
      /\ \A j \in DOMAIN tags : j > i => tags[i].end <= tags[j].start
      /\ \A j \in DOMAIN tags : j < i => tags[j].end <= tags[i].start
    BY TagsApart
<1>2. from \in S
    BY <1>1
<1>3. ASSUME NEW p \in (from + 1)..to, p - 1 \in S PROVE p \in S
    <2>1. p \in 1..PageLen /\ p - 1 \in Nat /\ p \in Int /\ p - 1 \in 0..PageLen
        BY <1>1, InjectAssumption
    <2>2. tags[i].start < p - 1 /\ p - 1 < tags[i].end
        BY <1>1
    <2>3. StartingAt(p - 1) = {}
        <3> SUFFICES ASSUME NEW j \in DOMAIN tags, tags[j].start = p - 1 PROVE FALSE
            BY DEF StartingAt
        <3>1. j < i \/ j = i \/ j > i
            BY <1>1
        <3> QED BY <1>1, <2>1, <2>2, <3>1
    <2>4. InsideTag(p - 1)
        BY <1>1, <2>1, <2>2 DEF InsideTag
    <2>5. Becomes(p - 1) = <<>>
        BY <2>3, <2>4 DEF Becomes
    <2>6. Replaced(p) = Replaced(p - 1) \o <<>> /\ Replaced(p - 1) \in Seq(Int)
        BY <2>1, <2>5, ReplacedStep
    <2> DEFINE R == Replaced(p - 1)
    <2>7. Replaced(p - 1) = Replaced(from)
        BY <1>3
    <2> HIDE DEF R
    <2>8. R \o <<>> = R
        BY <2>6 DEF R
    <2> QED BY <2>1, <2>6, <2>7, <2>8 DEF R
<1> HIDE DEF S
<1>4. to \in S
    <2>1. from \in Int /\ to \in Int /\ to \in from..to
        BY <1>1
    <2> QED BY <1>2, <1>3, <2>1, Induction
<1> QED BY <1>4 DEF S

LEMMA ReplacedTag ==
    ASSUME tags \in Layouts, OwnTags, NEW i \in DOMAIN tags, NEW p \in (tags[i].start + 1)..tags[i].end
    PROVE  Replaced(p) = Replaced(tags[i].start) \o <<TagData(i)>>
<1> DEFINE s == tags[i].start
<1>1. /\ i \in 1..Len(tags) /\ DOMAIN tags = 1..Len(tags) /\ Len(tags) \in Nat
      /\ \A j \in DOMAIN tags : /\ tags[j].start \in Nat /\ tags[j].end \in Nat
                                /\ tags[j].start < tags[j].end /\ tags[j].end <= PageLen
      /\ \A j \in DOMAIN tags : j > i => tags[i].end <= tags[j].start
      /\ \A j \in DOMAIN tags : j < i => tags[j].end <= tags[i].start
    BY TagsApart
<1>2. StartingAt(s) = {i}
    <2>1. ASSUME NEW j \in DOMAIN tags, tags[j].start = s PROVE j = i
        <3>1. j < i \/ j = i \/ j > i
            BY <1>1
        <3> QED BY <1>1, <2>1, <3>1
    <2> QED BY <2>1 DEF StartingAt
<1>3. Becomes(s) = <<TagData(i)>>
    BY <1>2 DEF Becomes
<1>4. s + 1 \in 1..PageLen /\ (s + 1) - 1 = s
    BY <1>1, InjectAssumption
<1>5. Replaced(s + 1) = Replaced(s) \o <<TagData(i)>>
    BY <1>3, <1>4, ReplacedStep
<1>6. Replaced(p) = Replaced(s + 1)
    <2>1. p \in 0..tags[i].end /\ s + 1 \in (tags[i].start + 1)..p
        BY <1>1
    <2> HIDE DEF s
    <2> QED BY <2>1, ReplacedInside
<1> QED BY <1>5, <1>6

(* A slice of a chunk is a part of the page *)
LEMMA SliceOfPage ==
    ASSUME NEW c, IsChunk(c), NEW to \in c.prev..c.cur, NEW from \in c.prev..to
    PROVE  Slice(c, from - c.prev, to - c.prev) = Bytes(from, to)
<1> USE DEF IsChunk
<1>1. /\ 0 <= from - c.prev /\ from - c.prev <= to - c.prev
      /\ to - c.prev <= c.cur - c.prev /\ (to - c.prev) - (from - c.prev) = to - from
    OBVIOUS
<1>2. \A k \in 1..(to - from) : c.prev + (from - c.prev) + k - 1 = from + k - 1
    OBVIOUS
<1> QED BY <1>1, <1>2 DEF Slice, Bytes

-------------------------------------------------------------------------------
(* Chunks that respect the tags *)

(* A chunk whose ends do not meet the start of a tag, in which no tag ends *)
(* that began before it and has its end with the chunk's, and that has     *)
(* more than one tag only when it has the last one, and all of each        *)
TidyChunk(c) ==
    /\ \A i \in DOMAIN tags : tags[i].start # c.prev /\ tags[i].start # c.cur
    /\ \A i \in DOMAIN tags : tags[i].start < c.prev /\ c.prev < tags[i].end => tags[i].end # c.cur
    /\ \A i, j \in DOMAIN tags :
          i < j /\ tags[i].end > c.prev /\ tags[j].start < c.cur =>
             tags[i].start > c.prev /\ tags[Len(tags)].end <= c.cur

(* The state of a tag when the stream has come to pos *)
StateAt(t, pos) == IF t.start >= pos THEN "waiting"
                   ELSE IF t.end <= pos THEN "done" ELSE "progress"

(* No tag has had to do with the chunk so far *)
Untouched(c, i, acc) ==
    /\ ~acc.tagWritten /\ acc.prevEnd = 0 /\ acc.out = Replaced(c.prev)
    /\ \A j \in DOMAIN tags : j <= i => tags[j].end <= c.prev \/ tags[j].start >= c.cur

(* The chunk has been written *)
Finished(c, i, acc) ==
    /\ acc.tagWritten /\ acc.out = Replaced(c.cur)
    /\ \A j \in DOMAIN tags : j > i => tags[j].start >= c.cur

(* It has been written up to the end of tag i, and the rest of the tags is in it *)
Between(c, i, acc) ==
    /\ i \in DOMAIN tags /\ i # Len(tags)
    /\ acc.tagWritten /\ acc.out = Replaced(tags[i].end) /\ acc.prevEnd = tags[i].end - c.prev
    /\ c.prev < tags[i].start /\ tags[Len(tags)].end <= c.cur

Exact(c, i, acc) ==
    /\ \A j \in DOMAIN tags : acc.states[j] = StateAt(tags[j], IF j <= i THEN c.cur ELSE c.prev)
    /\ Untouched(c, i, acc) \/ Finished(c, i, acc) \/ Between(c, i, acc)

(* Beside a tag that is in the chunk as a whole *)
LEMMA ExactFull ==
    ASSUME tags \in Layouts, OwnTags, NEW c, IsChunk(c), TidyChunk(c), NEW i \in DOMAIN tags, NEW acc,
           acc \in Acc, acc.states[i] = "waiting", FullyIn(c, tags[i]),
           \A j \in DOMAIN tags :
               acc.states[j] = StateAt(tags[j], IF j <= i - 1 THEN c.cur ELSE c.prev),
           NEW from \in c.prev..tags[i].start, acc.prevEnd = from - c.prev,
           acc.out = Replaced(from), from = c.prev \/ tags[Len(tags)].end <= c.cur,
           \A j \in DOMAIN tags : j < i => tags[j].end <= from
    PROVE  Exact(c, i, ReplaceFull(c, i, acc))
<1> DEFINE t    == tags[i]
           n    == Len(tags)
           next == i = n \/ FullyIn(c, tags[i + 1])
           new  == ReplaceFull(c, i, acc)
<1>1. /\ i \in 1..n /\ DOMAIN tags = 1..n /\ n \in Nat /\ n \in DOMAIN tags
      /\ t.start \in Nat /\ t.end \in Nat /\ t.start < t.end /\ t.end <= PageLen
      /\ \A j \in DOMAIN tags : /\ tags[j].start \in Nat /\ tags[j].end \in Nat
                                /\ tags[j].start < tags[j].end /\ tags[j].end <= PageLen
      /\ \A j \in DOMAIN tags : j > i => t.end <= tags[j].start
      /\ \A j \in DOMAIN tags : j < i => tags[j].end <= t.start
    BY TagsApart
<1>2. /\ RelStart(c, t) = t.start - c.prev /\ RelEnd(c, t) = t.end - c.prev
      /\ ChunkLen(c) = c.cur - c.prev
      /\ c.prev \in Nat /\ c.cur \in Nat /\ c.prev < c.cur /\ c.cur <= PageLen
      /\ PageLen \in Nat
    BY <1>1, Relative, InjectAssumption DEF IsChunk
<1>3. c.prev < t.start /\ t.end <= c.cur /\ t.start < c.cur
    BY <1>1, <1>2 DEF FullyIn
<1>4. /\ t.start \in 0..PageLen /\ t.end \in 0..PageLen /\ c.cur \in 0..PageLen
      /\ t.start \in c.prev..c.cur /\ t.end \in c.prev..c.cur /\ c.cur \in c.prev..c.cur
      /\ from \in 0..t.start /\ t.end \in 0..c.cur /\ t.end \in (t.start + 1)..t.end
    <2> DEFINE s == t.start
               e == t.end
               p == c.prev
               q == c.cur
    <2>1. /\ s \in Nat /\ e \in Nat /\ s < e /\ e <= PageLen /\ p \in Nat /\ q \in Nat /\ p < q
          /\ q <= PageLen /\ PageLen \in Nat /\ p < s /\ e <= q /\ s < q
        BY <1>1, <1>2, <1>3
    <2>2. from \in p..s
        OBVIOUS
    <2> HIDE DEF s, e, p, q
    <2>3. /\ s \in 0..PageLen /\ e \in 0..PageLen /\ q \in 0..PageLen
          /\ s \in p..q /\ e \in p..q /\ q \in p..q
          /\ from \in 0..s /\ e \in 0..q /\ e \in (s + 1)..e
        BY <2>1, <2>2
    <2> QED BY <2>3 DEF s, e, p, q
<1>5. /\ Slice(c, acc.prevEnd, RelStart(c, t)) = Bytes(from, t.start)
      /\ Slice(c, RelEnd(c, t), ChunkLen(c)) = Bytes(t.end, c.cur)
    <2>1. from \in c.prev..t.start /\ t.end \in c.prev..c.cur
        BY <1>4
    <2> HIDE DEF t
    <2> QED BY <1>2, <1>4, <2>1, SliceOfPage
(* What comes before the tag, and the tag *)
<1>6. (Replaced(from) \o Bytes(from, t.start)) \o <<TagData(i)>> = Replaced(t.end)
    <2>1. \A j \in DOMAIN tags : tags[j].end <= from \/ tags[j].start >= t.start
        <3>1. ASSUME NEW j \in DOMAIN tags PROVE tags[j].end <= from \/ tags[j].start >= t.start
            <4>1. j < i \/ j = i \/ j > i
                BY <1>1
            <4> QED BY <1>1, <1>4, <4>1
        <3> QED BY <3>1
    <2>2. Replaced(t.start) = Replaced(from) \o Bytes(from, t.start)
        BY <1>4, <2>1, ReplacedBetween
    <2>3. Replaced(t.end) = Replaced(t.start) \o <<TagData(i)>>
        BY <1>4, ReplacedTag
    <2> QED BY <2>2, <2>3
<1>7. /\ Replaced(from) \in Seq(Int) /\ Bytes(from, t.start) \in Seq(Byte)
      /\ Bytes(t.end, c.cur) \in Seq(Byte) /\ <<>> \in Seq(Byte)
    <2>1. from \in 0..PageLen /\ from \in Nat /\ t.end \in Nat
        BY <1>1, <1>2, <1>4
    <2>2. t.start \in 0..PageLen /\ c.cur \in 0..PageLen
        BY <1>4
    <2>3. Replaced(from) \in Seq(Int)
        BY <2>1, TextOfReplaced
    <2>4. Bytes(from, t.start) \in Seq(Byte) /\ Bytes(t.end, c.cur) \in Seq(Byte)
        BY <2>1, <2>2, BytesOfPage, Zenon
    <2> QED BY <2>3, <2>4
<1> DEFINE R == Replaced(from)
           b == Bytes(from, t.start)
           a == Bytes(t.end, c.cur)
<1>8. /\ R \o (b \o <<TagData(i)>> \o a) = Replaced(t.end) \o a
      /\ R \o (b \o <<TagData(i)>> \o <<>>) = Replaced(t.end)
    <2> HIDE DEF R, b, a, t
    <2>1. \A x \in Seq(Byte) : R \o (b \o <<TagData(i)>> \o x) = ((R \o b) \o <<TagData(i)>>) \o x
        BY <1>7, TagText DEF R, b
    <2>2. (R \o b) \o <<TagData(i)>> = Replaced(t.end)
        BY <1>6 DEF R, b
    <2>3. Replaced(t.end) \o <<>> = Replaced(t.end)
        BY <1>4, TextOfReplaced, ConcatEmptySeq
    <2> QED BY <1>7, <2>1, <2>2, <2>3 DEF a
<1>9. /\ new.states = [acc.states EXCEPT ![i] = "done"] /\ new.tagWritten = TRUE
      /\ new.prevEnd = t.end - c.prev
    BY <1>2 DEF ReplaceFull
<1>10. \A j \in DOMAIN tags : new.states[j] = StateAt(tags[j], IF j <= i THEN c.cur ELSE c.prev)
    <2> HIDE DEF new, n
    <2> SUFFICES ASSUME NEW j \in DOMAIN tags
                 PROVE  new.states[j] = StateAt(tags[j], IF j <= i THEN c.cur ELSE c.prev)
        OBVIOUS
    <2>1. acc.states \in States
        BY DEF Acc
    <2>2. CASE j = i
        <3>1. new.states[i] = "done"
            BY <1>9, <2>1 DEF States
        <3>2. StateAt(t, c.cur) = "done"
            BY <1>1, <1>2, <1>3 DEF StateAt
        <3> QED BY <1>1, <2>2, <3>1, <3>2
    <2>3. CASE j # i
        <3>1. new.states[j] = acc.states[j]
            BY <1>9, <2>1, <2>3 DEF States
        <3>2. j <= i <=> j <= i - 1
            BY <1>1, <2>3
        <3> QED BY <3>1, <3>2
    <2> QED BY <2>2, <2>3
<1>11. CASE i = n
    <2>1. new.out = R \o (b \o <<TagData(i)>> \o a)
        BY <1>5, <1>11 DEF ReplaceFull
    <2>2. \A j \in DOMAIN tags : tags[j].end <= t.end \/ tags[j].start >= c.cur
        <3>1. ASSUME NEW j \in DOMAIN tags PROVE tags[j].end <= t.end
            <4>1. j < i \/ j = i
                BY <1>1, <1>11
            <4> QED BY <1>1, <4>1
        <3> QED BY <3>1
    <2>3. Replaced(c.cur) = Replaced(t.end) \o a
        BY <1>4, <2>2, ReplacedBetween
    <2>4. \A j \in DOMAIN tags : ~(j > i)
        BY <1>1, <1>11
    <2> HIDE DEF new, R, b, a
    <2>5. Finished(c, i, new)
        BY <1>8, <1>9, <2>1, <2>3, <2>4 DEF Finished
    <2> QED BY <1>10, <2>5 DEF Exact, new
<1>12. CASE i # n /\ FullyIn(c, tags[i + 1])
    <2>1. new.out = R \o (b \o <<TagData(i)>> \o <<>>)
        BY <1>5, <1>12 DEF ReplaceFull
    <2>2. tags[n].end <= c.cur
        <3>1. i + 1 \in DOMAIN tags /\ i < i + 1
            BY <1>1, <1>12
        <3>2. tags[i + 1].start < c.cur
            <4>1. tags[i + 1].start \in Nat /\ tags[i + 1].end \in Nat
                BY <1>1, <3>1
            <4>2. RelStart(c, tags[i + 1]) = tags[i + 1].start - c.prev
                BY <4>1, Relative
            <4> QED BY <1>2, <1>12, <4>1, <4>2 DEF FullyIn
        <3>3. t.end > c.prev
            BY <1>1, <1>2, <1>3
        <3> QED BY <3>1, <3>2, <3>3 DEF TidyChunk
    <2> HIDE DEF new, R, b, a
    <2>3. Between(c, i, new)
        BY <1>3, <1>8, <1>9, <1>12, <2>1, <2>2 DEF Between
    <2> QED BY <1>10, <2>3 DEF Exact, new
<1>13. CASE i # n /\ ~FullyIn(c, tags[i + 1])
    <2>1. \A j \in DOMAIN tags : j > i => tags[j].start >= c.cur
        <3> SUFFICES ASSUME NEW j \in DOMAIN tags, j > i, ~(tags[j].start >= c.cur)
                     PROVE  FALSE
            OBVIOUS
        <3>1. tags[n].end <= c.cur
            <4>1. t.end > c.prev /\ i < j
                BY <1>1, <1>2, <1>3
            <4>2. tags[j].start < c.cur
                BY <1>1, <1>2
            <4> QED BY <4>1, <4>2 DEF TidyChunk
        <3> DEFINE u == tags[i + 1]
        <3>2. i + 1 \in DOMAIN tags /\ i + 1 > i
            BY <1>1, <1>13
        <3>3. c.prev < u.start /\ u.start < u.end /\ u.end <= c.cur
              /\ u.start \in Nat /\ u.end \in Nat
            <4>1. t.end <= u.start /\ u.start < u.end /\ u.start \in Nat /\ u.end \in Nat
                BY <1>1, <3>2
            <4>2. u.end <= tags[n].end
                <5>1. i + 1 = n \/ i + 1 < n
                    BY <1>1, <3>2
                <5>2. i + 1 < n => u.end <= tags[n].start
                    BY <1>1, <3>2, TagsApart
                <5> QED BY <1>1, <5>1, <5>2
            <4>3. tags[n].end \in Nat
                BY <1>1
            <4>4. c.prev < t.start /\ t.start < t.end /\ t.start \in Nat /\ t.end \in Nat
                  /\ c.prev \in Nat /\ c.cur \in Nat
                BY <1>1, <1>2, <1>3
            <4> HIDE DEF u, t, n
            <4>5. c.prev < u.start
                BY <4>1, <4>4
            <4>6. u.end <= c.cur
                BY <3>1, <4>1, <4>2, <4>3, <4>4
            <4> QED BY <4>1, <4>5, <4>6
        <3>4. RelStart(c, u) = u.start - c.prev /\ RelEnd(c, u) = u.end - c.prev
            BY <3>3, Relative
        <3>5. FullyIn(c, u)
            BY <1>2, <3>3, <3>4 DEF FullyIn
        <3> QED BY <1>13, <3>5
    <2>2. from = c.prev
        <3> SUFFICES ASSUME tags[n].end <= c.cur PROVE FALSE
            OBVIOUS
        <3> DEFINE u == tags[n]
        <3>1. /\ n > i /\ u.start < u.end /\ u.start \in Nat /\ u.end \in Nat
              /\ u.end <= c.cur /\ c.cur \in Nat
            BY <1>1, <1>2, <1>13
        <3>2. u.start >= c.cur
            BY <1>1, <2>1, <3>1
        <3> HIDE DEF u
        <3> QED BY <3>1, <3>2
    <2>3. Slice(c, 0, RelStart(c, t)) = b
        <3>1. acc.prevEnd = 0
            BY <1>2, <2>2
        <3> QED BY <1>5, <3>1
    <2>4. new.out = R \o (b \o <<TagData(i)>> \o a)
        <3>1. new.out = acc.out \o (Slice(c, 0, RelStart(c, t)) \o <<TagData(i)>>
                                    \o Slice(c, RelEnd(c, t), ChunkLen(c)))
            BY <1>13 DEF ReplaceFull
        <3> HIDE DEF new
        <3> QED BY <1>5, <2>3, <3>1
    <2>5. \A j \in DOMAIN tags : tags[j].end <= t.end \/ tags[j].start >= c.cur
        <3>1. ASSUME NEW j \in DOMAIN tags PROVE tags[j].end <= t.end \/ tags[j].start >= c.cur
            <4>1. j < i \/ j = i \/ j > i
                BY <1>1
            <4> QED BY <1>1, <2>1, <4>1
        <3> QED BY <3>1
    <2>6. Replaced(c.cur) = Replaced(t.end) \o a
        BY <1>4, <2>5, ReplacedBetween
    <2> HIDE DEF new, R, b, a
    <2>7. Finished(c, i, new)
        BY <1>8, <1>9, <2>1, <2>4, <2>6 DEF Finished
    <2> QED BY <1>10, <2>7 DEF Exact, new
<1> QED BY <1>11, <1>12, <1>13

(* Beside a tag with which nothing is done *)
LEMMA ExactSame ==
    ASSUME tags \in Layouts, OwnTags, NEW c, IsChunk(c), NEW i \in DOMAIN tags, NEW acc,
           Exact(c, i - 1, acc), StateAt(tags[i], c.prev) = StateAt(tags[i], c.cur),
           \/ Untouched(c, i - 1, acc) /\ (tags[i].end <= c.prev \/ tags[i].start >= c.cur)
           \/ Finished(c, i - 1, acc)
    PROVE  Exact(c, i, acc)
<1>1. i \in 1..Len(tags) /\ DOMAIN tags = 1..Len(tags) /\ Len(tags) \in Nat
    BY TagsApart
<1>2. \A j \in DOMAIN tags : acc.states[j] = StateAt(tags[j], IF j <= i THEN c.cur ELSE c.prev)
    <2> SUFFICES ASSUME NEW j \in DOMAIN tags
                 PROVE  acc.states[j] = StateAt(tags[j], IF j <= i THEN c.cur ELSE c.prev)
        OBVIOUS
    <2>1. acc.states[j] = StateAt(tags[j], IF j <= i - 1 THEN c.cur ELSE c.prev)
        BY DEF Exact
    <2>2. CASE j = i
        <3>1. ~(j <= i - 1) /\ j <= i
            BY <1>1, <2>2
        <3> QED BY <2>1, <2>2, <3>1
    <2>3. CASE j # i
        <3>1. j <= i <=> j <= i - 1
            BY <1>1, <2>3
        <3> QED BY <2>1, <3>1
    <2> QED BY <2>2, <2>3
<1>3. CASE Untouched(c, i - 1, acc) /\ (tags[i].end <= c.prev \/ tags[i].start >= c.cur)
    <2>1. \A j \in DOMAIN tags : j <= i => j <= i - 1 \/ j = i
        BY <1>1
    <2>2. Untouched(c, i, acc)
        BY <1>3, <2>1 DEF Untouched
    <2> QED BY <1>2, <2>2 DEF Exact
<1>4. CASE Finished(c, i - 1, acc)
    <2>1. \A j \in DOMAIN tags : j > i => j > i - 1
        BY <1>1
    <2>2. Finished(c, i, acc)
        BY <1>4, <2>1 DEF Finished
    <2> QED BY <1>2, <2>2 DEF Exact
<1> QED BY <1>3, <1>4

(* Beside a tag that ends the part of the chunk which is replaced *)
LEMMA ExactLast ==
    ASSUME tags \in Layouts, OwnTags, NEW c, IsChunk(c), NEW i \in DOMAIN tags, NEW acc,
           Exact(c, i - 1, acc), NEW new,
           new.states[i] = StateAt(tags[i], c.cur),
           \A j \in DOMAIN tags : j # i => new.states[j] = acc.states[j],
           new.tagWritten, new.out = Replaced(c.cur),
           \A j \in DOMAIN tags : j > i => tags[j].start >= c.cur
    PROVE  Exact(c, i, new)
<1>1. i \in 1..Len(tags) /\ DOMAIN tags = 1..Len(tags) /\ Len(tags) \in Nat
    BY TagsApart
<1>2. \A j \in DOMAIN tags : new.states[j] = StateAt(tags[j], IF j <= i THEN c.cur ELSE c.prev)
    <2> SUFFICES ASSUME NEW j \in DOMAIN tags
                 PROVE  new.states[j] = StateAt(tags[j], IF j <= i THEN c.cur ELSE c.prev)
        OBVIOUS
    <2>1. CASE j = i
        <3>1. j <= i
            BY <1>1, <2>1
        <3> QED BY <2>1, <3>1
    <2>2. CASE j # i
        <3>1. j <= i <=> j <= i - 1
            BY <1>1, <2>2
        <3> QED BY <2>2, <3>1 DEF Exact
    <2> QED BY <2>1, <2>2
<1>3. Finished(c, i, new)
    BY DEF Finished
<1> QED BY <1>2, <1>3 DEF Exact

(* A tag that began in an earlier chunk *)
LEMMA ExactEnd ==
    ASSUME tags \in Layouts, OwnTags, NEW c, IsChunk(c), TidyChunk(c), NEW i \in DOMAIN tags, NEW acc,
           acc \in Acc, Exact(c, i - 1, acc), Untouched(c, i - 1, acc),
           tags[i].start < c.prev, c.prev < tags[i].end
    PROVE  Exact(c, i, ReplaceEnd(c, i, acc))
<1> DEFINE t   == tags[i]
           new == ReplaceEnd(c, i, acc)
<1>1. /\ i \in 1..Len(tags) /\ DOMAIN tags = 1..Len(tags) /\ Len(tags) \in Nat
      /\ t.start \in Nat /\ t.end \in Nat /\ t.start < t.end /\ t.end <= PageLen
      /\ \A j \in DOMAIN tags : /\ tags[j].start \in Nat /\ tags[j].end \in Nat
                                /\ tags[j].start < tags[j].end
      /\ \A j \in DOMAIN tags : j > i => t.end <= tags[j].start
      /\ \A j \in DOMAIN tags : j < i => tags[j].end <= t.start
    BY TagsApart
<1>2. /\ RelStart(c, t) = t.start - c.prev /\ RelEnd(c, t) = t.end - c.prev
      /\ ChunkLen(c) = c.cur - c.prev
      /\ c.prev \in Nat /\ c.cur \in Nat /\ c.prev < c.cur /\ c.cur <= PageLen
      /\ PageLen \in Nat
    BY <1>1, Relative, InjectAssumption DEF IsChunk
<1>3. t.end # c.cur
    BY DEF TidyChunk
<1>4. \A j \in DOMAIN tags : j > i => tags[j].start >= c.cur
    <2> SUFFICES ASSUME NEW j \in DOMAIN tags, j > i, tags[j].start < c.cur PROVE FALSE
        BY <1>1, <1>2
    <2>1. t.end > c.prev /\ ~(t.start > c.prev) /\ i < j
        BY <1>1, <1>2
    <2> QED BY <2>1 DEF TidyChunk
<1>5. acc.out = Replaced(c.prev) /\ acc.states \in States
    BY DEF Untouched, Acc
<1>6. CASE t.end < c.cur
    <2>1. EndsIn(c, t)
        BY <1>1, <1>2, <1>6 DEF EndsIn
    <2>2. /\ new.states = [acc.states EXCEPT ![i] = "done"] /\ new.tagWritten
          /\ new.out = acc.out \o Slice(c, RelEnd(c, t), ChunkLen(c))
        <3>1. new = [states |-> [acc.states EXCEPT ![i] = "done"],
                     out |-> acc.out \o Slice(c, RelEnd(c, t), ChunkLen(c)),
                     prevEnd |-> acc.prevEnd, tagWritten |-> TRUE]
            BY <2>1, EndRecord
        <3> HIDE DEF new
        <3> QED BY <3>1
    <2>3. /\ c.cur \in c.prev..c.cur /\ t.end \in c.prev..c.cur /\ c.cur \in 0..PageLen
          /\ t.end \in 0..c.cur /\ t.end \in 0..t.end /\ c.prev \in (t.start + 1)..t.end
        <3> DEFINE s == t.start
                   e == t.end
                   p == c.prev
                   q == c.cur
        <3>1. /\ s \in Nat /\ e \in Nat /\ p \in Nat /\ q \in Nat /\ PageLen \in Nat
              /\ s < p /\ p < e /\ e < q /\ p < q /\ q <= PageLen
            BY <1>1, <1>2, <1>6
        <3> HIDE DEF s, e, p, q
        <3>2. /\ q \in p..q /\ e \in p..q /\ q \in 0..PageLen
              /\ e \in 0..q /\ e \in 0..e /\ p \in (s + 1)..e
            BY <3>1
        <3> QED BY <3>2 DEF s, e, p, q
    <2>4. Slice(c, RelEnd(c, t), ChunkLen(c)) = Bytes(t.end, c.cur)
        BY <1>2, <2>3, SliceOfPage
    <2>5. Replaced(t.end) = Replaced(c.prev)
        BY <2>3, ReplacedInside
    <2>6. Replaced(c.cur) = Replaced(t.end) \o Bytes(t.end, c.cur)
        <3>1. \A j \in DOMAIN tags : tags[j].end <= t.end \/ tags[j].start >= c.cur
            <4>1. ASSUME NEW j \in DOMAIN tags PROVE tags[j].end <= t.end \/ tags[j].start >= c.cur
                <5>1. j < i \/ j = i \/ j > i
                    BY <1>1
                <5> QED BY <1>1, <1>4, <5>1
            <4> QED BY <4>1
        <3> QED BY <2>3, <3>1, ReplacedBetween
    <2> HIDE DEF new
    <2>7. new.states[i] = "done" /\ \A j \in DOMAIN tags : j # i => new.states[j] = acc.states[j]
        BY <1>5, <2>2 DEF States
    <2>8. StateAt(t, c.cur) = "done"
        BY <1>1, <1>2, <1>6 DEF StateAt
    <2>9. new.out = Replaced(c.cur)
        BY <1>5, <2>2, <2>4, <2>5, <2>6
    <2>10. Exact(c, i, new)
        BY <1>4, <2>2, <2>7, <2>8, <2>9, ExactLast
    <2> QED BY <2>10 DEF new
<1>7. CASE t.end > c.cur
    <2>1. ~EndsIn(c, t)
        BY <1>1, <1>2, <1>7 DEF EndsIn
    <2>2. new.states = acc.states /\ new.tagWritten /\ new.out = acc.out
        <3>1. new = [states |-> acc.states, out |-> acc.out, prevEnd |-> acc.prevEnd,
                     tagWritten |-> TRUE]
            BY <2>1, EndRecord
        <3> HIDE DEF new
        <3> QED BY <3>1
    <2>3. Replaced(c.cur) = Replaced(c.prev)
        <3>1. c.cur \in 0..t.end /\ c.prev \in (t.start + 1)..c.cur
            BY <1>1, <1>2, <1>7
        <3> QED BY <3>1, ReplacedInside
    <2>4. StateAt(t, c.cur) = "progress" /\ StateAt(t, c.prev) = "progress"
        BY <1>1, <1>2, <1>7 DEF StateAt
    <2>5. acc.states[i] = "progress"
        <3>1. ~(i <= i - 1)
            BY <1>1
        <3> QED BY <2>4, <3>1 DEF Exact
    <2> HIDE DEF new
    <2>6. Exact(c, i, new)
        BY <1>4, <1>5, <2>2, <2>3, <2>4, <2>5, ExactLast
    <2> QED BY <2>6 DEF new
<1> QED BY <1>1, <1>2, <1>3, <1>6, <1>7

(* A tag that ends in a later chunk *)
LEMMA ExactStart ==
    ASSUME tags \in Layouts, OwnTags, NEW c, IsChunk(c), TidyChunk(c), NEW i \in DOMAIN tags, NEW acc,
           acc \in Acc, Exact(c, i - 1, acc), Untouched(c, i - 1, acc),
           c.prev < tags[i].start, tags[i].start < c.cur, c.cur < tags[i].end
    PROVE  Exact(c, i, ReplaceStart(c, i, acc))
<1> DEFINE t   == tags[i]
           new == ReplaceStart(c, i, acc)
           b   == Bytes(c.prev, t.start)
<1>1. /\ i \in 1..Len(tags) /\ DOMAIN tags = 1..Len(tags) /\ Len(tags) \in Nat
      /\ t.start \in Nat /\ t.end \in Nat /\ t.start < t.end /\ t.end <= PageLen
      /\ \A j \in DOMAIN tags : /\ tags[j].start \in Nat /\ tags[j].end \in Nat
                                /\ tags[j].start < tags[j].end
      /\ \A j \in DOMAIN tags : j > i => t.end <= tags[j].start
      /\ \A j \in DOMAIN tags : j < i => tags[j].end <= t.start
    BY TagsApart
<1>2. /\ RelStart(c, t) = t.start - c.prev /\ ChunkLen(c) = c.cur - c.prev
      /\ c.prev \in Nat /\ c.cur \in Nat /\ c.prev < c.cur /\ c.cur <= PageLen
      /\ PageLen \in Nat
    BY <1>1, Relative, InjectAssumption DEF IsChunk
<1>3. /\ c.prev \in c.prev..t.start /\ t.start \in c.prev..c.cur /\ t.start \in 0..PageLen
      /\ c.prev \in 0..t.start /\ c.cur \in (t.start + 1)..t.end
    BY <1>1, <1>2
<1>4. \A j \in DOMAIN tags : j > i => tags[j].start >= c.cur
    BY <1>1, <1>2
<1>5. acc.out = Replaced(c.prev) /\ acc.states \in States
    BY DEF Untouched, Acc
<1>6. /\ new.states = [acc.states EXCEPT ![i] = "progress"] /\ new.tagWritten
      /\ new.out = (acc.out \o Slice(c, 0, RelStart(c, t))) \o <<TagData(i)>>
    <2>1. new = [states |-> [acc.states EXCEPT ![i] = "progress"],
                 out |-> (acc.out \o Slice(c, 0, RelStart(c, t))) \o <<TagData(i)>>,
                 prevEnd |-> acc.prevEnd, tagWritten |-> TRUE]
        BY StartRecord
    <2> HIDE DEF new
    <2> QED BY <2>1
<1>7. Slice(c, 0, RelStart(c, t)) = b
    <2>1. Slice(c, c.prev - c.prev, t.start - c.prev) = b
        BY <1>3, SliceOfPage
    <2>2. c.prev - c.prev = 0
        BY <1>2
    <2> QED BY <1>2, <2>1, <2>2
<1>8. Replaced(t.start) = Replaced(c.prev) \o b
    <2>1. \A j \in DOMAIN tags : tags[j].end <= c.prev \/ tags[j].start >= t.start
        <3>1. ASSUME NEW j \in DOMAIN tags, j < i PROVE tags[j].end <= c.prev
            <4> DEFINE u == tags[j]
            <4>1. /\ u.start \in Nat /\ u.end \in Nat /\ u.start < u.end /\ u.end <= t.start
                  /\ t.start \in Nat /\ c.cur \in Nat /\ t.start < c.cur /\ j <= i - 1
                BY <1>1, <1>2, <3>1
            <4>2. ~(u.start >= c.cur)
                <5> HIDE DEF u, t
                <5> QED BY <4>1
            <4> QED BY <4>1, <4>2 DEF Untouched
        <3>2. ASSUME NEW j \in DOMAIN tags, ~(j < i) PROVE tags[j].start >= t.start
            <4>1. j = i \/ j > i
                BY <1>1, <3>2
            <4> QED BY <1>1, <4>1
        <3> QED BY <3>1, <3>2
    <2> QED BY <1>3, <2>1, ReplacedBetween
<1>9. Replaced(c.cur) = Replaced(t.start) \o <<TagData(i)>>
    BY <1>3, ReplacedTag
<1> HIDE DEF new, b
<1>10. new.out = Replaced(c.cur)
    BY <1>5, <1>6, <1>7, <1>8, <1>9
<1>11. new.states[i] = "progress" /\ \A j \in DOMAIN tags : j # i => new.states[j] = acc.states[j]
    BY <1>5, <1>6 DEF States
<1>12. StateAt(t, c.cur) = "progress"
    BY <1>1, <1>2 DEF StateAt
<1>13. Exact(c, i, new)
    BY <1>4, <1>6, <1>10, <1>11, <1>12, ExactLast
<1> QED BY <1>13 DEF new

(* Whatever the loop does with a tag of a tidy chunk *)
LEMMA ExactStep ==
    ASSUME tags \in Layouts, OwnTags, NEW c, IsChunk(c), TidyChunk(c), NEW i \in DOMAIN tags, NEW acc,
           acc \in Acc, Exact(c, i - 1, acc)
    PROVE  Exact(c, i, ReplaceTag(c, i, acc))
<1> DEFINE t == tags[i]
           n == Len(tags)
<1>1. /\ i \in 1..n /\ DOMAIN tags = 1..n /\ n \in Nat
      /\ t.start \in Nat /\ t.end \in Nat /\ t.start < t.end
    BY TagsApart
<1>2. /\ RelStart(c, t) = t.start - c.prev /\ RelEnd(c, t) = t.end - c.prev
      /\ ChunkLen(c) = c.cur - c.prev
      /\ c.prev \in Nat /\ c.cur \in Nat /\ c.prev < c.cur
    BY <1>1, Relative DEF IsChunk
<1>3. t.start # c.prev /\ t.start # c.cur
    BY DEF TidyChunk
<1>4. acc.states[i] = StateAt(t, c.prev)
    <2>1. ~(i <= i - 1)
        BY <1>1
    <2> QED BY <2>1 DEF Exact
(* The tag is behind the chunk *)
<1>5. ASSUME t.start >= c.cur
      PROVE  /\ ReplaceTag(c, i, acc) = acc /\ StateAt(t, c.prev) = StateAt(t, c.cur)
    <2>1. StateAt(t, c.prev) = "waiting" /\ StateAt(t, c.cur) = "waiting"
        BY <1>1, <1>2, <1>5 DEF StateAt
    <2>2. ~FullyIn(c, t) /\ ~StartsIn(c, t)
        BY <1>1, <1>2, <1>5 DEF FullyIn, StartsIn
    <2> QED BY <1>4, <2>1, <2>2 DEF ReplaceTag
<1>6. ASSUME c.prev < t.start, t.end <= c.cur
      PROVE  /\ FullyIn(c, t) /\ acc.states[i] = "waiting"
             /\ ReplaceTag(c, i, acc) = ReplaceFull(c, i, acc)
    <2>1. StateAt(t, c.prev) = "waiting"
        BY <1>1, <1>2, <1>6 DEF StateAt
    <2>2. /\ t.start >= c.prev /\ t.end <= c.cur /\ RelStart(c, t) > 0 /\ RelEnd(c, t) > 0
          /\ RelStart(c, t) < ChunkLen(c) /\ RelEnd(c, t) <= ChunkLen(c)
        <3> HIDE DEF t
        <3> QED BY <1>1, <1>2, <1>6
    <2>3. FullyIn(c, t)
        BY <2>2 DEF FullyIn
    <2> QED BY <1>4, <2>1, <2>3 DEF ReplaceTag
<1>7. CASE Untouched(c, i - 1, acc)
    <2>1. CASE t.start >= c.cur
        BY <1>5, <1>7, <2>1, ExactSame
    <2>2. CASE t.end <= c.prev
        <3>1. StateAt(t, c.prev) = "done" /\ StateAt(t, c.cur) = "done"
            BY <1>1, <1>2, <2>2 DEF StateAt
        <3>2. ReplaceTag(c, i, acc) = acc
            BY <1>4, <3>1 DEF ReplaceTag
        <3> QED BY <1>7, <2>2, <3>1, <3>2, ExactSame
    <2>3. CASE t.start < c.prev /\ c.prev < t.end
        <3>1. StateAt(t, c.prev) = "progress"
            BY <1>1, <1>2, <2>3 DEF StateAt
        <3>2. ReplaceTag(c, i, acc) = ReplaceEnd(c, i, acc)
            BY <1>4, <3>1 DEF ReplaceTag
        <3> QED BY <1>7, <2>3, <3>2, ExactEnd
    <2>4. CASE c.prev < t.start /\ t.end <= c.cur
        <3>1. c.prev \in c.prev..t.start /\ acc.prevEnd = c.prev - c.prev
            BY <1>1, <1>2, <1>7, <2>4 DEF Untouched
        <3>2. acc.out = Replaced(c.prev)
            BY <1>7 DEF Untouched
        <3>3. \A j \in DOMAIN tags : j < i => tags[j].end <= c.prev
            <4> SUFFICES ASSUME NEW j \in DOMAIN tags, j < i PROVE tags[j].end <= c.prev
                OBVIOUS
            <4>1. /\ tags[j].start \in Nat /\ tags[j].end \in Nat
                  /\ tags[j].start < tags[j].end /\ tags[j].end <= t.start
                BY TagsApart
            <4> DEFINE u == tags[j]
            <4>2. j <= i - 1 /\ ~(u.start >= c.cur)
                <5>1. j \in Int /\ i \in Int /\ u.start \in Nat /\ u.end \in Nat
                    BY <1>1, <4>1
                <5> HIDE DEF u, t
                <5> QED BY <1>1, <1>2, <2>4, <4>1, <5>1 DEF u
            <4> QED BY <1>7, <4>2 DEF Untouched
        <3>4. Exact(c, i, ReplaceFull(c, i, acc))
            BY <1>6, <2>4, <3>1, <3>2, <3>3, ExactFull DEF Exact
        <3> QED BY <1>6, <2>4, <3>4
    <2>5. CASE c.prev < t.start /\ t.start < c.cur /\ c.cur < t.end
        <3>1. StateAt(t, c.prev) = "waiting"
            BY <1>1, <1>2, <2>5 DEF StateAt
        <3>2. ~FullyIn(c, t)
            BY <1>1, <1>2, <2>5 DEF FullyIn
        <3>3. StartsIn(c, t)
            BY <1>1, <1>2, <2>5 DEF StartsIn
        <3>4. ReplaceTag(c, i, acc) = ReplaceStart(c, i, acc)
            BY <1>4, <3>1, <3>2, <3>3 DEF ReplaceTag
        <3> QED BY <1>7, <2>5, <3>4, ExactStart
    <2> QED BY <1>1, <1>2, <1>3, <2>1, <2>2, <2>3, <2>4, <2>5
<1>8. CASE Finished(c, i - 1, acc)
    <2>1. t.start >= c.cur
        BY <1>1, <1>8 DEF Finished
    <2> QED BY <1>5, <1>8, <2>1, ExactSame
<1>9. CASE Between(c, i - 1, acc)
    <2> DEFINE p == tags[i - 1]
    <2>1. /\ i - 1 \in DOMAIN tags /\ p.start \in Nat /\ p.end \in Nat /\ p.start < p.end
          /\ p.end <= t.start /\ c.prev < p.start
          /\ acc.prevEnd = p.end - c.prev /\ acc.out = Replaced(p.end)
        <3>1. i - 1 \in DOMAIN tags /\ i - 1 < i
            BY <1>1, <1>9 DEF Between
        <3> QED BY <1>9, <3>1, TagsApart DEF Between
    <2>2. tags[n].end <= c.cur /\ t.end <= c.cur
        <3>1. i = n \/ i < n
            BY <1>1
        <3>2. n \in DOMAIN tags /\ tags[n].end \in Nat /\ tags[n].start \in Nat
              /\ tags[n].start < tags[n].end
              /\ (i < n => t.end <= tags[n].start)
            BY <1>1, TagsApart
        <3>3. tags[n].end <= c.cur
            BY <1>9 DEF Between
        <3> QED BY <1>1, <1>2, <3>1, <3>2, <3>3
    <2>3. p.end \in c.prev..t.start /\ c.prev < t.start
        BY <1>1, <1>2, <2>1
    <2>4. \A j \in DOMAIN tags : j < i => tags[j].end <= p.end
        <3> SUFFICES ASSUME NEW j \in DOMAIN tags, j < i PROVE tags[j].end <= p.end
            OBVIOUS
        <3>1. j = i - 1 \/ j < i - 1
            BY <1>1
        <3>2. /\ tags[j].end \in Nat
              /\ j < i - 1 => tags[j].end <= p.start
            BY <2>1, TagsApart
        <3> QED BY <2>1, <3>1, <3>2
    <2>5. Exact(c, i, ReplaceFull(c, i, acc))
        BY <1>6, <2>1, <2>2, <2>3, <2>4, ExactFull DEF Exact
    <2> QED BY <1>6, <2>2, <2>3, <2>5
<1> QED BY <1>7, <1>8, <1>9 DEF Exact

LEMMA ExactLoop ==
    ASSUME InjectInv, OwnTags, NEW c, IsChunk(c), TidyChunk(c), c.prev = streamPrev,
           out = Replaced(streamPrev),
           \A j \in DOMAIN tags : writeStates[j] = StateAt(tags[j], streamPrev)
    PROVE  /\ Injected(c).out = Replaced(c.cur)
           /\ \A j \in DOMAIN tags : Injected(c).states[j] = StateAt(tags[j], c.cur)
<1> DEFINE n == Len(tags)
<1>1. PICK all : /\ LoopRuns(c, all)
                 /\ \A i \in 0..n : LoopInv(c, i, all[i]) \/ Stopped(c, all[i])
                 /\ Injected(c) =
                       IF all[n].tagWritten \/ Panics(all[n].out) THEN all[n]
                       ELSE [all[n] EXCEPT !.out = @ \o Slice(c, 0, ChunkLen(c))]
    BY LoopSteps, OwnSteady
<1>2. tags \in Layouts /\ n \in Nat /\ n \in 0..n /\ DOMAIN tags = 1..n
    BY TagsApart DEF InjectInv
<1>3. /\ c.prev \in Nat /\ c.cur \in Nat /\ c.prev < c.cur /\ c.cur <= PageLen
      /\ PageLen \in Nat
    BY InjectAssumption DEF IsChunk
<1>4. Exact(c, 0, all[0])
    <2>1. all[0].states = writeStates /\ all[0].out = out /\ all[0].prevEnd = 0
          /\ all[0].tagWritten = FALSE
        BY <1>1 DEF LoopRuns, LoopStart
    <2>2. \A j \in DOMAIN tags : ~(j <= 0)
        BY <1>2
    <2> QED BY <2>1, <2>2 DEF Exact, Untouched
(* No tag overlaps another, so that the loop runs to its end *)
<1>13. \A i \in 0..n : LoopInv(c, i, all[i]) /\ ~Panics(all[i].out)
    BY <1>1, <1>2, OwnNoOverlap, KnownNoPanic DEF Stopped, LoopInv
<1>5. ASSUME NEW i \in (0 + 1)..n, Exact(c, i - 1, all[i - 1]) PROVE Exact(c, i, all[i])
    <2>1. i \in DOMAIN tags /\ i \in 1..n /\ i - 1 \in 0..n
        BY <1>2
    <2>2. all[i - 1] \in Acc /\ LoopInv(c, i - 1, all[i - 1]) /\ ~Panics(all[i - 1].out)
        BY <1>13, <2>1 DEF LoopInv
    <2>3. all[i] = ReplaceTag(c, i, all[i - 1])
        <3>1. ~Panics(ReplaceTag(c, i, all[i - 1]).out)
            BY <1>2, <2>1, <2>2, TagDone, OwnNoOverlap, KnownNoPanic DEF LoopInv
        <3>2. all[i] = Visit(c, i, all[i - 1])
            BY <1>1, <2>1 DEF LoopRuns
        <3> QED BY <2>2, <3>1, <3>2 DEF Visit
    <2> QED BY <1>2, <1>5, <2>1, <2>2, <2>3, ExactStep
<1>6. Exact(c, n, all[n])
    <2> DEFINE S == {i \in Int : Exact(c, i, all[i])}
    <2>1. 0 \in S /\ \A i \in (0 + 1)..n : i - 1 \in S => i \in S
        BY <1>4, <1>5
    <2> HIDE DEF S
    <2>2. n \in Int /\ 0 \in Int
        BY <1>2
    <2> HIDE DEF n
    <2>3. n \in S
        BY <1>2, <2>1, <2>2, Induction
    <2> QED BY <2>3 DEF S
<1> DEFINE acc == all[n]
<1>7. acc \in Acc /\ ~Panics(acc.out)
    BY <1>2, <1>13 DEF LoopInv
<1>8. \A j \in DOMAIN tags : acc.states[j] = StateAt(tags[j], c.cur)
    <2>1. \A j \in DOMAIN tags : j <= n
        BY <1>2
    <2> QED BY <1>6, <2>1 DEF Exact
<1>9. Injected(c) = IF acc.tagWritten THEN acc
                    ELSE [acc EXCEPT !.out = acc.out \o Slice(c, 0, ChunkLen(c))]
    BY <1>1, <1>7
<1>10. Untouched(c, n, acc) \/ Finished(c, n, acc)
    BY <1>6 DEF Exact, Between
<1> HIDE DEF acc
<1>11. CASE Finished(c, n, acc)
    BY <1>8, <1>9, <1>11 DEF Finished
<1>12. CASE Untouched(c, n, acc)
    <2>1. Slice(c, 0, ChunkLen(c)) = Bytes(c.prev, c.cur)
        <3>1. c.cur \in c.prev..c.cur /\ c.prev \in c.prev..c.cur /\ c.prev - c.prev = 0
            BY <1>3
        <3>2. Slice(c, c.prev - c.prev, c.cur - c.prev) = Bytes(c.prev, c.cur)
            BY <3>1, SliceOfPage
        <3> QED BY <3>1, <3>2 DEF ChunkLen
    <2>2. Replaced(c.cur) = Replaced(c.prev) \o Bytes(c.prev, c.cur)
        <3>1. c.cur \in 0..PageLen /\ c.prev \in 0..c.cur
            BY <1>3
        <3>2. \A j \in DOMAIN tags : tags[j].end <= c.prev \/ tags[j].start >= c.cur
            BY <1>2, <1>12 DEF Untouched
        <3> QED BY <1>2, <3>1, <3>2, ReplacedBetween
    <2>3. acc.out \o Slice(c, 0, ChunkLen(c)) = Replaced(c.cur)
        BY <1>12, <2>1, <2>2 DEF Untouched
    <2>4. Injected(c) = [acc EXCEPT !.out = Replaced(c.cur)]
        BY <1>9, <1>12, <2>3 DEF Untouched
    <2> HIDE DEF n
    <2>5. Injected(c).out = Replaced(c.cur) /\ Injected(c).states = acc.states
        BY <1>7, <2>4 DEF Acc
    <2> QED BY <1>8, <2>5
<1> QED BY <1>10, <1>11, <1>12

-------------------------------------------------------------------------------
(* The chunks of a page *)

CutBy(cs, i)      == \E b \in cs : tags[i].start < b /\ b < tags[i].end
Joined(cs, p, q)  == \A b \in cs : b <= p \/ q < b

(* The tags are those of the page, and                                     *)
(* ChunksRespectTags of chunks that end at cs, so far as it concerns tags  *)
(* that share a chunk with one which starts before p                       *)
Respected(cs, p) ==
    /\ OwnTags
    /\ \A i \in DOMAIN tags : /\ tags[i].start \notin cs /\ tags[i].start # 0
                              /\ CutBy(cs, i) => tags[i].end \notin cs
    /\ \A i, j \in DOMAIN tags :
          i < j /\ tags[j].start < p /\ Joined(cs, tags[i].end - 1, tags[j].start) =>
             /\ ~CutBy(cs, i) /\ ~CutBy(cs, j)
             /\ Joined(cs, tags[i].end - 1, tags[Len(tags)].start)

LEMMA RespectedWhole ==
    ASSUME tags \in Layouts, OwnTags, ChunksRespectTags, NEW p PROVE Respected(cuts, p)
<1>1. /\ DOMAIN tags = 1..Len(tags) /\ Len(tags) \in Nat
      /\ \A i, j \in DOMAIN tags : i < j => j \in (i + 1)..Len(tags)
    BY TagsApart
<1>2. \A i \in DOMAIN tags : CutsIn(i) = {} <=> ~CutBy(cuts, i)
    BY DEF CutsIn, CutBy
<1>3. \A a, b : SameChunk(a, b) <=> Joined(cuts, a, b)
    BY DEF SameChunk, Joined
<1>4. \A i \in DOMAIN tags : /\ tags[i].start \notin cuts /\ tags[i].start # 0
                             /\ CutBy(cuts, i) => tags[i].end \notin cuts
    BY <1>2 DEF ChunksRespectTags
<1>5. ASSUME NEW i \in DOMAIN tags, NEW j \in DOMAIN tags, i < j,
             Joined(cuts, tags[i].end - 1, tags[j].start)
      PROVE  /\ ~CutBy(cuts, i) /\ ~CutBy(cuts, j)
             /\ Joined(cuts, tags[i].end - 1, tags[Len(tags)].start)
    <2>1. j \in (i + 1)..Len(tags) /\ SameChunk(tags[i].end - 1, tags[j].start)
        BY <1>1, <1>3, <1>5
    <2>2. /\ CutsIn(i) = {} /\ CutsIn(j) = {}
          /\ SameChunk(tags[i].end - 1, tags[Len(tags)].start)
        BY <2>1 DEF ChunksRespectTags
    <2> QED BY <1>2, <1>3, <2>2
<1> QED BY <1>4, <1>5 DEF Respected

(* Before the last chunk it was so too *)
LEMMA RespectedBefore ==
    ASSUME tags \in Layouts, OwnTags, NEW cs \in SUBSET Nat, NEW prev \in Nat, NEW cur \in Nat,
           prev < cur, Respected(cs \cup {cur}, cur)
    PROVE  Respected(cs, prev)
<1> DEFINE new == cs \cup {cur}
<1>1. \A i \in DOMAIN tags : tags[i].start \in Nat /\ tags[i].end \in Nat
    BY TagsApart
<1>2. \A i \in DOMAIN tags : CutBy(cs, i) => CutBy(new, i)
    BY DEF CutBy
<1>3. \A a, b : Joined(new, a, b) => Joined(cs, a, b)
    BY DEF Joined
<1>4. ASSUME NEW i \in DOMAIN tags, NEW j \in DOMAIN tags, i < j, tags[j].start < prev,
             Joined(cs, tags[i].end - 1, tags[j].start)
      PROVE  /\ ~CutBy(cs, i) /\ ~CutBy(cs, j)
             /\ Joined(cs, tags[i].end - 1, tags[Len(tags)].start)
    <2>1. tags[j].start < cur
        BY <1>1, <1>4
    <2>2. Joined(new, tags[i].end - 1, tags[j].start)
        BY <1>4, <2>1 DEF Joined
    <2>3. /\ ~CutBy(new, i) /\ ~CutBy(new, j)
          /\ Joined(new, tags[i].end - 1, tags[Len(tags)].start)
        BY <1>4, <2>1, <2>2 DEF Respected
    <2> QED BY <1>2, <1>3, <2>3
<1>5. \A i \in DOMAIN tags : /\ tags[i].start \notin cs /\ tags[i].start # 0
                             /\ CutBy(cs, i) => tags[i].end \notin cs
    BY <1>2 DEF Respected
<1> QED BY <1>4, <1>5 DEF Respected

(* What it says of the last chunk *)
LEMMA RespectedTidy ==
    ASSUME tags \in Layouts, OwnTags, NEW c, IsChunk(c), NEW cs, cs \subseteq 1..c.prev,
           c.prev \in cs \cup {0}, Respected(cs \cup {c.cur}, c.cur)
    PROVE  TidyChunk(c)
<1> DEFINE new == cs \cup {c.cur}
           n   == Len(tags)
<1>1. /\ DOMAIN tags = 1..n /\ n \in Nat /\ n \in DOMAIN tags
      /\ \A i \in DOMAIN tags : /\ tags[i].start \in Nat /\ tags[i].end \in Nat
                                /\ tags[i].start < tags[i].end
      /\ \A i, j \in DOMAIN tags : i < j => tags[i].end <= tags[j].start
    BY TagsApart
<1>2. c.prev \in Nat /\ c.cur \in Nat /\ c.prev < c.cur
    BY DEF IsChunk
<1>3. \A b \in new : b <= c.prev \/ b = c.cur
    BY <1>2
<1>4. \A i \in DOMAIN tags : tags[i].start # c.prev /\ tags[i].start # c.cur
    BY DEF Respected
<1>5. ASSUME NEW i \in DOMAIN tags, tags[i].start < c.prev, c.prev < tags[i].end
      PROVE  CutBy(new, i)
    <2>1. c.prev # 0 /\ c.prev \in new
        BY <1>1, <1>2, <1>5
    <2> QED BY <1>5, <2>1 DEF CutBy
<1>6. \A i \in DOMAIN tags : tags[i].start < c.prev /\ c.prev < tags[i].end => tags[i].end # c.cur
    BY <1>5 DEF Respected
<1>7. ASSUME NEW i \in DOMAIN tags, NEW j \in DOMAIN tags, i < j,
             tags[i].end > c.prev, tags[j].start < c.cur
      PROVE  /\ ~CutBy(new, i) /\ ~CutBy(new, j) /\ tags[n].start < c.cur
    <2>1. Joined(new, tags[i].end - 1, tags[j].start)
        <3>1. ASSUME NEW b \in new PROVE b <= tags[i].end - 1 \/ tags[j].start < b
            <4>1. b <= c.prev \/ b = c.cur
                BY <1>3
            <4>2. b \in Int
                BY <1>2
            <4> QED BY <1>1, <1>2, <1>7, <4>1, <4>2
        <3> QED BY <3>1 DEF Joined
    <2>2. /\ ~CutBy(new, i) /\ ~CutBy(new, j)
          /\ Joined(new, tags[i].end - 1, tags[n].start)
        BY <1>7, <2>1 DEF Respected
    <2>3. c.cur <= tags[i].end - 1 \/ tags[n].start < c.cur
        BY <2>2 DEF Joined
    <2>4. tags[i].end <= tags[j].start
        BY <1>1, <1>7
    <2> QED BY <1>1, <1>2, <1>7, <2>2, <2>3, <2>4
<1>8. ASSUME NEW i \in DOMAIN tags, NEW j \in DOMAIN tags, i < j,
             tags[i].end > c.prev, tags[j].start < c.cur
      PROVE  tags[i].start > c.prev /\ tags[n].end <= c.cur
    <2>1. tags[i].start > c.prev
        <3>1. ~(tags[i].start < c.prev /\ c.prev < tags[i].end)
            BY <1>5, <1>7, <1>8
        <3> QED BY <1>1, <1>2, <1>4, <1>8, <3>1
    <2>2. i < n
        BY <1>1, <1>8
    <2>3. tags[n].start < c.cur
        BY <1>7, <1>8
    <2>4. ~CutBy(new, n)
        BY <1>1, <1>7, <1>8, <2>2, <2>3
    <2>5. ~(tags[n].start < c.cur /\ c.cur < tags[n].end)
        BY <2>4 DEF CutBy
    <2> QED BY <1>1, <1>2, <2>1, <2>3, <2>5
<1> QED BY <1>4, <1>6, <1>8 DEF TidyChunk

(* The chunks end where the stream was, and as long as they respected the  *)
(* tags each tag is in the state that its place in the stream asks for     *)
ChunksInv ==
    /\ cuts \subseteq 1..streamCur /\ streamCur \in cuts \cup {0}
    /\ Respected(cuts, streamCur) =>
          \A j \in DOMAIN tags : writeStates[j] = StateAt(tags[j], streamCur)

(* What has been written *)
TextInv == Respected(cuts, streamCur) => out = Replaced(streamCur)

LEMMA ChunksInit == Init => ChunksInv /\ out = Replaced(0)
<1> SUFFICES ASSUME Init PROVE ChunksInv /\ out = Replaced(0)
    OBVIOUS
<1>1. /\ tags \in Layouts /\ streamPrev = 0 /\ streamCur = 0 /\ out = <<>> /\ cuts = {}
      /\ writeStates = [i \in DOMAIN tags |-> "waiting"]
    BY DEF Init
<1>2. \A j \in DOMAIN tags : StateAt(tags[j], 0) = "waiting"
    BY <1>1, TagsOrdered DEF StateAt
<1>3. out = Replaced(0)
    BY <1>1, ReplacedStep
<1> QED BY <1>1, <1>2, <1>3 DEF ChunksInv

LEMMA ChunksCall ==
    ASSUME InjectInv, ChunksInv, TextInv, ~Panics(out),
           NEW n \in 1..(PageLen - streamCur), Call(n)
    PROVE  ChunksInv' /\ TextInv'
<1> DEFINE c   == [prev |-> streamPrev, cur |-> streamCur + n]
           res == Injected(c)
<1>1. /\ out' = res.out /\ writeStates' = res.states /\ streamCur' = streamCur + n
      /\ cuts' = cuts \cup {streamCur + n} /\ tags' = tags
    BY DEF Call
<1>2. /\ IsChunk(c) /\ c.prev = streamPrev /\ c.cur = streamCur' /\ streamPrev = streamCur
      /\ tags \in Layouts /\ streamCur \in Nat /\ streamCur' \in Nat /\ streamCur < streamCur'
    BY <1>1, SteadyUnlessPanic, InjectAssumption DEF IsChunk, InjectInv, Steady
<1> HIDE DEF c, res
<1>3. cuts' \subseteq 1..streamCur' /\ streamCur' \in cuts' \cup {0}
    BY <1>1, <1>2 DEF ChunksInv
<1>4. ASSUME Respected(cuts', streamCur')
      PROVE  /\ out' = Replaced(streamCur')
             /\ \A j \in DOMAIN tags : writeStates'[j] = StateAt(tags[j], streamCur')
    <2>1. cuts' = cuts \cup {streamCur'}
        BY <1>1
    <2>2. cuts \in SUBSET Nat /\ cuts \subseteq 1..c.prev /\ c.prev \in cuts \cup {0}
        BY <1>2 DEF ChunksInv
    <2>3. OwnTags /\ Respected(cuts, streamCur)
        BY <1>2, <1>4, <2>1, <2>2, RespectedBefore DEF Respected
    <2>4. TidyChunk(c)
        BY <1>2, <1>4, <2>1, <2>2, <2>3, RespectedTidy
    <2>5. /\ out = Replaced(streamPrev)
          /\ \A j \in DOMAIN tags : writeStates[j] = StateAt(tags[j], streamPrev)
        BY <1>2, <2>3 DEF ChunksInv, TextInv
    <2> QED BY <1>1, <1>2, <1>4, <2>4, <2>5, ExactLoop DEF res, Respected
<1>5. /\ Respected(cuts, streamCur)' = Respected(cuts', streamCur')
      /\ Replaced(streamCur)' = Replaced(streamCur')
    BY <1>1 DEF Respected, OwnTags, CutBy, Joined, Replaced, StartingAt, InsideTag
<1>6. \A j \in DOMAIN tags : StateAt(tags[j], streamCur)' = StateAt(tags[j], streamCur')
    BY <1>1 DEF StateAt
<1> QED BY <1>1, <1>3, <1>4, <1>5, <1>6 DEF ChunksInv, TextInv

LEMMA UnchangedChunks ==
    ASSUME ChunksInv, UNCHANGED <<tags, streamCur, writeStates, cuts>>
    PROVE  ChunksInv' /\ (Respected(cuts, streamCur)' <=> Respected(cuts, streamCur))
           /\ Replaced(streamCur)' = Replaced(streamCur)
BY DEF ChunksInv, Respected, OwnTags, CutBy, Joined, StateAt, Replaced, StartingAt, InsideTag

LEMMA ReplacedImplied == InjectInv /\ TextInv => ReplacedIfRespected
BY RespectedWhole DEF InjectInv, TextInv, ReplacedIfRespected

(* InjectContent by itself: when the tags are those of the page and the    *)
(* chunks respect them, what has been written is the page so far with its  *)
(* tags replaced.                                                          *)
THEOREM InjectReplaces == Spec => []ReplacedIfRespected
<1> DEFINE Inv == InjectInv /\ ChunksInv /\ TextInv
<1>1. Init => Inv
    <2>1. ASSUME Init PROVE Inv
        BY <2>1, InjectInit, ChunksInit DEF TextInv, Init
    <2> QED BY <2>1
<1>2. Inv /\ [Next]_vars => Inv'
    <2>1. ASSUME Inv, Next PROVE Inv'
        BY <2>1, CallStep, ChunksCall DEF Next, Write
    <2>2. ASSUME Inv, UNCHANGED vars PROVE Inv'
        <3>1. UNCHANGED <<tags, streamCur, writeStates, cuts>> /\ out' = out
            BY <2>2 DEF vars
        <3> QED BY <2>2, <3>1, UnchangedInject, UnchangedChunks DEF TextInv
    <2> QED BY <2>1, <2>2
<1>3. Inv => ReplacedIfRespected
    BY ReplacedImplied
<1> HIDE DEF Inv
<1> QED BY <1>1, <1>2, <1>3, PTL DEF Spec

(* What has reached the client through either writer *)
BodyInv ==
    /\ ChunksInv
    /\ isText => TextInv /\ (streamCur = 0 => out = <<>>)
    /\ ~isText => out = IF kind = "buffered" /\ returned # "ok" THEN <<>> ELSE Bytes(0, written)

LEMMA NoBytes == \A from \in Int : Bytes(from, from) = <<>>
<1>1. \A from \in Int : 1..(from - from) = {}
    OBVIOUS
<1> QED BY <1>1 DEF Bytes

LEMMA BodyInit == WriterInit => BodyInv
<1> SUFFICES ASSUME WriterInit PROVE BodyInv
    OBVIOUS
<1>1. ChunksInv /\ out = Replaced(0) /\ streamCur = 0 /\ out = <<>> /\ written = 0
      /\ returned = "no"
    BY ChunksInit DEF WriterInit, Init
<1>2. Bytes(0, 0) = <<>>
    BY NoBytes
<1> QED BY <1>1, <1>2 DEF BodyInv, TextInv

(* The page has grown by what was not looked at *)
LEMMA BytesGrow ==
    ASSUME NEW from \in Nat, NEW n \in Nat
    PROVE  Bytes(0, from) \o Bytes(from, from + n) = Bytes(0, from + n)
<1>1. from - 0 \in Nat /\ (from + n) - from = n /\ (from + n) - 0 = from + n
    OBVIOUS
<1>2. /\ Bytes(0, from) = [k \in 1..from |-> 0 + k - 1]
      /\ Bytes(from, from + n) = [k \in 1..n |-> from + k - 1]
      /\ Bytes(0, from + n) = [k \in 1..(from + n) |-> 0 + k - 1]
    BY <1>1 DEF Bytes
<1>3. /\ Bytes(0, from) \in Seq(Int) /\ Bytes(from, from + n) \in Seq(Int)
      /\ Len(Bytes(0, from)) = from /\ Len(Bytes(from, from + n)) = n
    BY <1>2
<1> DEFINE a == Bytes(0, from)
           b == Bytes(from, from + n)
           l == a \o b
<1>4. \A k \in 1..(from + n) : l[k] = 0 + k - 1
    <2> SUFFICES ASSUME NEW k \in 1..(from + n) PROVE l[k] = 0 + k - 1
        OBVIOUS
    <2>1. CASE k <= from
        <3>1. k \in 1..from /\ a[k] = 0 + k - 1
            BY <1>2, <2>1
        <3> HIDE DEF a, b
        <3> QED BY <1>3, <2>1, <3>1 DEF a, b
    <2>2. CASE k > from
        <3>1. k - from \in 1..n /\ b[k - from] = from + (k - from) - 1
            BY <1>2, <2>2
        <3>2. l[k] = b[k - from]
            BY <1>3, <2>2
        <3>3. from + (k - from) - 1 = 0 + k - 1
            OBVIOUS
        <3> HIDE DEF l, b
        <3> QED BY <3>1, <3>2, <3>3
    <2>3. k <= from \/ k > from
        OBVIOUS
    <2> HIDE DEF l, a, b
    <2> QED BY <2>1, <2>2, <2>3
<1>5. l \in Seq(Int) /\ Len(l) = from + n
    BY <1>3
<1> HIDE DEF l
<1>6. l = [k \in 1..(from + n) |-> 0 + k - 1]
    <2>1. l = [k \in 1..(from + n) |-> l[k]]
        BY <1>5
    <2> QED BY <1>4, <2>1
<1> QED BY <1>2, <1>6 DEF l, a, b

LEMMA BodyStep ==
    WriterInv /\ BodyInv /\ [WriterNext]_writerVars => BodyInv'
<1> SUFFICES ASSUME WriterInv, BodyInv, [WriterNext]_writerVars PROVE BodyInv'
    OBVIOUS
<1>1. /\ InjectInv /\ InjectedSoFar /\ ChunksInv
      /\ written \in Nat /\ written \in 0..PageLen /\ PageLen \in Nat
      /\ kind \in {"injecting", "buffered"} /\ isText \in BOOLEAN
    BY InjectAssumption DEF WriterInv, AskedAndSent, BodyInv
(* The injection does not take part *)
<1>2. ASSUME UNCHANGED vars, UNCHANGED <<kind, isText, written>>,
             \/ returned' = returned \/ kind = "injecting"
             \/ returned' # "ok" /\ returned # "ok"
      PROVE  BodyInv'
    <2>1. UNCHANGED <<tags, streamCur, writeStates, cuts>> /\ out' = out
        BY <1>2 DEF vars
    <2>2. ChunksInv' /\ (Respected(cuts, streamCur)' <=> Respected(cuts, streamCur))
          /\ Replaced(streamCur)' = Replaced(streamCur)
        BY <1>1, <2>1, UnchangedChunks
    <2>3. Bytes(0, written)' = Bytes(0, written)
        BY <1>2
    <2> QED BY <1>2, <2>1, <2>2, <2>3 DEF BodyInv, TextInv
<1>3. ASSUME NEW c \in Codes, WriteHeader(c) PROVE BodyInv'
    BY <1>2, <1>3 DEF WriteHeader, handler
<1>4. ASSUME WritePart PROVE BodyInv'
    <2>1. PICK n \in 1..(PageLen - written) : WriteNext(n)
        BY <1>4 DEF WritePart
    <2>2. /\ written' = written + n /\ returned = "no" /\ returned' = returned
          /\ UNCHANGED <<kind, isText>> /\ n \in Nat /\ ~Panics(out)
        BY <1>1, <2>1 DEF WriteNext, Handling, handler
    <2>3. CASE kind = "buffered" /\ UNCHANGED <<head, vars>>
        <3>1. UNCHANGED <<tags, streamCur, writeStates, cuts>> /\ out' = out
            BY <2>3 DEF vars
        <3>2. ChunksInv' /\ (Respected(cuts, streamCur)' <=> Respected(cuts, streamCur))
              /\ Replaced(streamCur)' = Replaced(streamCur)
            BY <1>1, <3>1, UnchangedChunks
        <3> QED BY <2>2, <2>3, <3>1, <3>2 DEF BodyInv, TextInv
    <2>4. CASE kind = "injecting" /\ isText /\ Call(n)
        <3>1. n \in 1..(PageLen - streamCur)
            BY <1>1, <2>4 DEF InjectedSoFar
        <3>2. InjectInv' /\ streamCur' = streamCur + n /\ streamCur \in Nat
            BY <1>1, <2>2, <2>4, <3>1, CallStep DEF InjectInv
        <3>3. ChunksInv' /\ TextInv'
            BY <1>1, <2>2, <2>4, <3>1, ChunksCall DEF BodyInv
        <3>4. streamCur' # 0
            BY <3>1, <3>2
        <3> QED BY <2>2, <2>4, <3>3, <3>4 DEF BodyInv
    <2>5. CASE /\ kind = "injecting" /\ ~isText
               /\ out' = out \o Bytes(written, written + n)
               /\ UNCHANGED <<tags, streamPrev, streamCur, writeStates, cuts>>
        <3>1. ChunksInv'
            BY <1>1, <2>5, UnchangedChunks
        <3>2. out' = Bytes(0, written + n)
            BY <1>1, <2>2, <2>5, BytesGrow DEF BodyInv
        <3> QED BY <2>2, <2>5, <3>1, <3>2 DEF BodyInv
    <2> QED BY <2>1, <2>3, <2>4, <2>5 DEF WriteNext, WriteInjecting
<1>5. ASSUME Return PROVE BodyInv'
    <2>1. /\ returned' = "ok" /\ UNCHANGED <<kind, isText, written>> /\ written \in {0, PageLen}
          /\ ~Panics(out) /\ returned = "no"
        BY <1>5 DEF Return, Handling, handler
    <2>2. CASE kind = "injecting" /\ UNCHANGED <<head, vars>>
        <3>1. UNCHANGED vars
            BY <2>2
        <3> QED BY <1>2, <2>1, <2>2, <3>1
    <2>3. CASE kind = "buffered" /\ written > 0 /\ isText /\ Call(PageLen)
        <3>1. written = PageLen /\ streamCur = 0
            BY <1>1, <2>1, <2>3 DEF InjectedSoFar
        <3>2. PageLen \in 1..(PageLen - streamCur)
            BY <1>1, <2>3, <3>1
        <3>3. ChunksInv' /\ TextInv'
            BY <1>1, <2>1, <2>3, <3>2, ChunksCall DEF BodyInv
        <3>4. streamCur' # 0
            BY <1>1, <2>1, <2>3, <3>1, <3>2, CallStep
        <3> QED BY <2>1, <2>3, <3>3, <3>4 DEF BodyInv
    <2>4. CASE /\ kind = "buffered" /\ (written = 0 \/ ~isText)
               /\ out' = Bytes(0, written)
               /\ UNCHANGED <<tags, streamPrev, streamCur, writeStates, cuts>>
        <3>1. ChunksInv' /\ (Respected(cuts, streamCur)' <=> Respected(cuts, streamCur))
              /\ Replaced(streamCur)' = Replaced(streamCur)
            BY <1>1, <2>4, UnchangedChunks
        <3>2. CASE ~isText
            BY <2>1, <2>4, <3>1, <3>2 DEF BodyInv
        <3>3. CASE isText
            <4>1. written = 0 /\ streamCur = 0
                BY <1>1, <2>1, <2>4, <3>3 DEF InjectedSoFar
            <4>2. out = <<>> /\ out' = <<>>
                BY <2>4, <3>3, <4>1, NoBytes DEF BodyInv
            <4> QED BY <2>1, <2>4, <3>1, <3>3, <4>2 DEF BodyInv, TextInv
        <3> QED BY <1>1, <3>2, <3>3
    <2> QED BY <1>5, <2>2, <2>3, <2>4 DEF Return, TriggerRealWrite
<1>6. ASSUME Fail PROVE BodyInv'
    BY <1>2, <1>6 DEF Fail, Handling, handler
<1>7. ASSUME UNCHANGED writerVars PROVE BodyInv'
    <2>1. UNCHANGED vars /\ UNCHANGED <<kind, isText, written>> /\ returned' = returned
        BY <1>7 DEF writerVars, handler
    <2> QED BY <1>2, <2>1
<1> QED BY <1>3, <1>4, <1>5, <1>6, <1>7 DEF WriterNext

(* Chunks that respect the tags come out with the tags replaced, each byte *)
(* once and in its place, through either writer; what is no text comes out *)
(* as it was.                                                              *)
THEOREM PageIsAsItShouldBe == WriterSpec => []PageAsItShouldBe
<1>1. WriterInv /\ BodyInv => PageAsItShouldBe
    <2> SUFFICES ASSUME WriterInv, BodyInv PROVE PageAsItShouldBe
        OBVIOUS
    <2>1. CASE Injects
        BY <2>1, ReplacedImplied DEF PageAsItShouldBe, Injects, WriterInv, BodyInv
    <2>2. CASE ~Injects /\ isText
        <3>1. written = 0 /\ streamCur = 0
            BY <2>2 DEF Injects, WriterInv, InjectedSoFar, AskedAndSent
        <3>2. out = <<>> /\ Bytes(0, written) = <<>>
            BY <2>2, <3>1, NoBytes DEF BodyInv
        <3> QED BY <2>2, <3>2 DEF PageAsItShouldBe
    <2>3. CASE ~isText
        BY <2>3 DEF PageAsItShouldBe, Injects, BodyInv
    <2> QED BY <2>1, <2>2, <2>3 DEF WriterInv, AskedAndSent
<1> QED BY <1>1, WriterInvInit, WriterInvStep, BodyInit, BodyStep, PTL DEF WriterSpec

(* The buffered writer injects into the whole page at once *)
OnePiece ==
    kind = "buffered" => /\ cuts \subseteq {PageLen}
                         /\ returned = "ok" => written \in {0, PageLen}

LEMMA OnePieceInit == WriterInit => OnePiece
BY DEF WriterInit, Init, OnePiece

LEMMA OnePieceStep == WriterInv /\ OnePiece /\ [WriterNext]_writerVars => OnePiece'
<1> SUFFICES ASSUME WriterInv, OnePiece, [WriterNext]_writerVars PROVE OnePiece'
    OBVIOUS
<1>1. ASSUME NEW c \in Codes, WriteHeader(c) PROVE OnePiece'
    BY <1>1 DEF WriteHeader, handler, vars, OnePiece
<1>2. ASSUME NEW n \in 1..(PageLen - written), WriteNext(n) PROVE OnePiece'
    BY <1>2 DEF WriteNext, WriteInjecting, Handling, handler, vars, OnePiece
<1>3. ASSUME Return PROVE OnePiece'
    <2>1. /\ UNCHANGED <<kind, written>> /\ written \in {0, PageLen}
          /\ kind = "buffered" => TriggerRealWrite
        BY <1>3 DEF Return, handler
    <2>2. CASE kind = "buffered" /\ written > 0 /\ isText /\ Call(PageLen)
        <3>1. streamCur = 0 /\ PageLen \in Nat
            BY <1>3, <2>2, InjectAssumption DEF Return, Handling, WriterInv, InjectedSoFar
        <3>2. cuts' = cuts \cup {PageLen}
            BY <2>2, <3>1 DEF Call
        <3> QED BY <2>1, <2>2, <3>2 DEF OnePiece
    <2>3. CASE kind = "buffered" /\ cuts' = cuts
        BY <2>1, <2>3 DEF OnePiece
    <2>4. CASE kind # "buffered"
        BY <2>1, <2>4 DEF OnePiece
    <2> QED BY <2>1, <2>2, <2>3, <2>4 DEF TriggerRealWrite
<1>4. ASSUME Fail PROVE OnePiece'
    BY <1>4 DEF Fail, handler, vars, OnePiece
<1>5. ASSUME UNCHANGED writerVars PROVE OnePiece'
    BY <1>5 DEF writerVars, handler, vars, OnePiece
<1> QED BY <1>1, <1>2, <1>3, <1>4, <1>5 DEF WriterNext, WritePart

(* What the buffered writer has sent of a page of text *)
BufferedReplaced ==
    kind = "buffered" /\ returned = "ok" /\ Injects /\ (\A i \in DOMAIN tags : tags[i].start # 0)
       => out = Replaced(PageLen)

(* A page that is sent in one piece comes out with its tags replaced, if   *)
(* only no tag stands at its start: no condition on the chunks is left.    *)
THEOREM BufferedPageIsReplaced == WriterSpec => []BufferedReplaced
<1>1. WriterInv /\ BodyInv /\ OnePiece => BufferedReplaced
    <2> SUFFICES ASSUME WriterInv, BodyInv, OnePiece, kind = "buffered", returned = "ok",
                        Injects, \A i \in DOMAIN tags : tags[i].start # 0
                 PROVE  out = Replaced(PageLen)
        BY DEF BufferedReplaced
    <2>1. /\ tags \in Layouts /\ OwnTags /\ streamCur = PageLen /\ PageLen \in Nat
          /\ cuts \subseteq {PageLen}
        BY InjectAssumption
        DEF OnePiece, Injects, WriterInv, InjectedSoFar, InjectInv, OwnOrShared
    <2>2. \A i \in DOMAIN tags : /\ tags[i].start \in Nat /\ tags[i].end \in Nat
                                 /\ tags[i].start < PageLen /\ tags[i].end <= PageLen
        BY <2>1, TagsApart
    <2>3. \A i \in DOMAIN tags : ~CutBy(cuts, i) /\ tags[i].start \notin cuts
        BY <2>1, <2>2 DEF CutBy
    <2>4. \A i \in DOMAIN tags : Joined(cuts, tags[i].end - 1, tags[Len(tags)].start)
        <3>1. tags[Len(tags)].start < PageLen
            BY <2>1, <2>2, TagsApart
        <3> QED BY <2>1, <3>1 DEF Joined
    <2>5. Respected(cuts, streamCur)
        BY <2>1, <2>3, <2>4 DEF Respected
    <2> QED BY <2>1, <2>5 DEF BodyInv, Injects, TextInv
<1> QED BY <1>1, WriterInvInit, WriterInvStep, BodyInit, BodyStep, OnePieceInit,
           OnePieceStep, PTL DEF WriterSpec

-------------------------------------------------------------------------------
(* Lengths *)

(* What the data of tag i adds to the page *)
TagAdds == [i \in DOMAIN tags |-> DataLens[i] - (tags[i].end - tags[i].start)]

LEMMA TagAddsType ==
    ASSUME tags \in Layouts, OwnTags
    PROVE  /\ TagAdds \in [1..Len(tags) -> Int] /\ DOMAIN tags = 1..Len(tags)
           /\ Len(tags) \in Nat /\ \A i \in DOMAIN tags : DataLens[i] \in Nat
<1>1. /\ DOMAIN tags = 1..Len(tags) /\ Len(tags) \in 1..MaxTags /\ MaxTags \in Nat
      /\ \A i \in DOMAIN tags : tags[i].start \in Nat /\ tags[i].end \in Nat
    BY TagsApart, InjectAssumption
<1>2. ASSUME NEW i \in DOMAIN tags PROVE DataLens[i] \in Nat
    <2>1. i \in 1..Len(DataLens)
        BY <1>1, WriterAssumption
    <2> QED BY <2>1, WriterAssumption
<1>3. \A i \in DOMAIN tags : DataLens[i] - (tags[i].end - tags[i].start) \in Int
    BY <1>1, <1>2
<1> QED BY <1>1, <1>2, <1>3 DEF TagAdds

(* DataLen adds them up *)
LEMMA DataLenIs ==
    ASSUME tags \in Layouts, OwnTags, NEW G, AddsUp(G, TagAdds, 1..Len(tags), Len(tags))
    PROVE  DataLen = G[Len(tags)]
<1> DEFINE S == DOMAIN tags
           Body(sum) ==
             [s \in SUBSET S |->
                IF s = {} THEN 0
                ELSE (DataLens[CHOOSE x \in s : TRUE]
                        - (tags[CHOOSE x \in s : TRUE].end - tags[CHOOSE x \in s : TRUE].start))
                     + sum[s \ {CHOOSE x \in s : TRUE}]]
           chosen == CHOOSE sum : sum = Body(sum)
<1>1. DataLen = chosen[S]
    BY DEF DataLen, MapThenSumSet, MapThenFoldSet
<1>2. ASSUME NEW sum PROVE Body(sum) = [s \in SUBSET S |->
                  IF s = {} THEN 0
                  ELSE TagAdds[CHOOSE x \in s : TRUE] + sum[s \ {CHOOSE x \in s : TRUE}]]
    <2>1. ASSUME NEW s \in SUBSET S, s # {}
          PROVE  TagAdds[CHOOSE x \in s : TRUE] =
                    DataLens[CHOOSE x \in s : TRUE]
                      - (tags[CHOOSE x \in s : TRUE].end - tags[CHOOSE x \in s : TRUE].start)
        <3>1. (CHOOSE x \in s : TRUE) \in DOMAIN tags
            BY <2>1
        <3> QED BY <3>1 DEF TagAdds
    <2> QED BY <2>1
<1>3. \A sum : sum = Body(sum) <=> IsSum(sum, TagAdds, S)
    BY <1>2 DEF IsSum
<1> HIDE DEF Body
<1>4. \E sum : IsSum(sum, TagAdds, S)
    BY SumExists, TagAddsType
<1>5. IsSum(chosen, TagAdds, S)
    BY <1>3, <1>4
<1> HIDE DEF chosen
<1> QED BY <1>1, <1>5, TagAddsType, SumIs

(* The length of what an element of out stands for *)
Weight(x)  == IF x < 0 THEN DataLens[-x] ELSE 1
Weights(o) == [k \in 1..Len(o) |-> Weight(o[k])]

Weighed(o) == o \in Seq(Int) /\ \A k \in 1..Len(o) : Weight(o[k]) \in Nat

HasLen(o, length) ==
    /\ Weighed(o) /\ length \in Int
    /\ \E G : AddsUp(G, Weights(o), 1..Len(o), Len(o)) /\ G[Len(o)] = length

LEMMA WeightsType ==
    ASSUME NEW o, Weighed(o)
    PROVE  Weights(o) \in [1..Len(o) -> Int] /\ DOMAIN o = 1..Len(o) /\ Len(o) \in Nat
BY DEF Weighed, Weights

(* BodyLen adds them up *)
LEMMA BodyLenIs ==
    ASSUME NEW length, HasLen(out, length)
    PROVE  BodyLen = length
<1> DEFINE S == DOMAIN out
           Body(sum) ==
             [s \in SUBSET S |->
                IF s = {} THEN 0
                ELSE (IF out[CHOOSE x \in s : TRUE] < 0
                      THEN DataLens[-out[CHOOSE x \in s : TRUE]] ELSE 1)
                     + sum[s \ {CHOOSE x \in s : TRUE}]]
           chosen == CHOOSE sum : sum = Body(sum)
<1>1. BodyLen = chosen[S]
    BY DEF BodyLen, MapThenSumSet, MapThenFoldSet
<1>2. ASSUME NEW sum PROVE Body(sum) = [s \in SUBSET S |->
                  IF s = {} THEN 0
                  ELSE Weights(out)[CHOOSE x \in s : TRUE] + sum[s \ {CHOOSE x \in s : TRUE}]]
    <2>1. ASSUME NEW s \in SUBSET S, s # {}
          PROVE  Weights(out)[CHOOSE x \in s : TRUE] =
                    IF out[CHOOSE x \in s : TRUE] < 0
                    THEN DataLens[-out[CHOOSE x \in s : TRUE]] ELSE 1
        <3>1. (CHOOSE x \in s : TRUE) \in 1..Len(out)
            BY <2>1, WeightsType DEF HasLen
        <3> QED BY <3>1 DEF Weights, Weight
    <2> QED BY <2>1
<1>3. \A sum : sum = Body(sum) <=> IsSum(sum, Weights(out), S)
    BY <1>2 DEF IsSum
<1> HIDE DEF Body
<1> DEFINE n == Len(out)
           F == Weights(out)
<1>4. n \in Nat /\ F \in [1..n -> Int] /\ S = 1..n
    BY WeightsType DEF HasLen
<1>5. PICK G : AddsUp(G, F, 1..n, n) /\ G[n] = length
    BY DEF HasLen
<1> HIDE DEF n, F
<1>6. \E sum : IsSum(sum, F, 1..n)
    BY <1>4, SumExists
<1>7. IsSum(chosen, F, 1..n)
    BY <1>3, <1>4, <1>6 DEF F
<1> HIDE DEF chosen
<1>8. chosen[1..n] = G[n]
    BY <1>4, <1>5, <1>7, SumIs
<1> QED BY <1>1, <1>4, <1>5, <1>8

LEMMA LenNone == HasLen(<<>>, 0)
<1>1. Weighed(<<>>)
    BY DEF Weighed
<1> DEFINE o == <<>>
           G == [i \in 0..0 |-> 0]
<1>2. Len(o) = 0 /\ 1..0 = {}
    OBVIOUS
<1>3. AddsUp(G, Weights(o), 1..0, 0)
    BY DEF AddsUp
<1> HIDE DEF G
<1>4. G[0] = 0
    BY <1>3 DEF AddsUp
<1> QED BY <1>1, <1>2, <1>3, <1>4 DEF HasLen

LEMMA LenOne ==
    ASSUME NEW o, NEW length, HasLen(o, length), NEW x \in Int, Weight(x) \in Nat
    PROVE  HasLen(o \o <<x>>, length + Weight(x))
<1> DEFINE n == Len(o)
           p == o \o <<x>>
           w == Weight(x)
<1>1. o \in Seq(Int) /\ n \in Nat /\ (\A k \in 1..n : Weight(o[k]) \in Nat) /\ length \in Int
    BY DEF HasLen, Weighed
<1>2. PICK G : AddsUp(G, Weights(o), 1..n, n) /\ G[n] = length
    BY DEF HasLen
<1>3. /\ p \in Seq(Int) /\ Len(p) = n + 1 /\ p[n + 1] = x /\ \A k \in 1..n : p[k] = o[k]
    BY <1>1
<1> HIDE DEF p, n
<1>4. Weighed(p)
    <2>1. \A k \in 1..(n + 1) : k \in 1..n \/ k = n + 1
        BY <1>1
    <2> QED BY <1>1, <1>3, <2>1 DEF Weighed
<1>5. /\ G \in [0..n -> Int] /\ G[0] = 0
      /\ \A i \in 1..n : G[i] = G[i - 1] + Weight(o[i])
    BY <1>2 DEF AddsUp, Weights, n
<1> DEFINE H == [i \in 0..(n + 1) |-> IF i = n + 1 THEN length + w ELSE G[i]]
<1>6. H \in [0..(n + 1) -> Int] /\ H[0] = 0 /\ H[n + 1] = length + w
    <2>1. \A i \in 0..(n + 1) : i # n + 1 => i \in 0..n
        BY <1>1
    <2>2. 0 \in 0..(n + 1) /\ 0 # n + 1 /\ n + 1 \in 0..(n + 1)
        BY <1>1
    <2>3. \A i \in 0..n : G[i] \in Int
        BY <1>5
    <2>4. length + w \in Int
        BY <1>1
    <2> HIDE DEF w
    <2> QED BY <1>5, <2>1, <2>2, <2>3, <2>4
<1>7. ASSUME NEW i \in 1..(n + 1) PROVE H[i] = H[i - 1] + Weight(p[i])
    <2>1. i \in 0..(n + 1) /\ i - 1 \in 0..(n + 1) /\ i - 1 # n + 1 /\ H[i - 1] = G[i - 1]
        BY <1>1
    <2>2. CASE i = n + 1
        <3>1. H[i] = length + w /\ i - 1 = n /\ p[i] = x
            BY <1>1, <1>3, <1>6, <2>2
        <3> HIDE DEF H
        <3> QED BY <1>2, <2>1, <3>1
    <2>3. CASE i # n + 1
        <3>1. i \in 1..n /\ H[i] = G[i]
            BY <1>1, <2>1, <2>3
        <3> HIDE DEF H
        <3> QED BY <1>3, <1>5, <2>1, <3>1
    <2> QED BY <2>2, <2>3
<1> HIDE DEF H
<1>8. AddsUp(H, Weights(p), 1..(n + 1), n + 1)
    <2>1. \A i \in 1..(n + 1) : Weights(p)[i] = Weight(p[i])
        BY <1>3 DEF Weights
    <2> QED BY <1>6, <1>7, <2>1 DEF AddsUp
<1>9. length + w \in Int
    BY <1>1
<1>10. HasLen(p, length + w)
    BY <1>3, <1>4, <1>6, <1>8, <1>9 DEF HasLen
<1> QED BY <1>10 DEF p

LEMMA LenBytes ==
    ASSUME NEW o, NEW length, HasLen(o, length), NEW to \in Nat, NEW from \in 0..to
    PROVE  HasLen(o \o Bytes(from, to), length + (to - from))
<1> DEFINE S == {p \in Int : HasLen(o \o Bytes(from, p), length + (p - from))}
<1>1. o \in Seq(Int) /\ length \in Int
    BY DEF HasLen, Weighed
<1>2. from \in S
    <2>1. Bytes(from, from) = <<>> /\ length + (from - from) = length
        BY <1>1, NoBytes
    <2>2. o \o <<>> = o
        BY <1>1
    <2> QED BY <2>1, <2>2
<1>3. ASSUME NEW p \in (from + 1)..to, p - 1 \in S PROVE p \in S
    <2> DEFINE b == Bytes(from, p - 1)
               l == <<p - 1>>
               q == o \o b
    <2>1. p \in Int /\ p - 1 \in Nat /\ ~(p - 1 < 0)
        OBVIOUS
    <2>2. b \in Seq(Int) /\ b \o l = Bytes(from, p) /\ l \in Seq(Int)
        BY <2>1 DEF Bytes
    <2>3. HasLen(q, length + ((p - 1) - from))
        BY <1>3
    <2>4. Weight(p - 1) = 1
        BY <2>1 DEF Weight
    <2> HIDE DEF q, b
    <2>5. HasLen(q \o l, (length + ((p - 1) - from)) + 1)
        BY <2>1, <2>3, <2>4, LenOne
    <2>6. (length + ((p - 1) - from)) + 1 = length + (p - from)
        BY <1>1, <2>1
    <2> HIDE DEF l
    <2>7. q \o l = o \o Bytes(from, p)
        <3>1. (o \o b) \o l = o \o (b \o l)
            BY <1>1, <2>2, Associative, Zenon
        <3> QED BY <2>2, <3>1 DEF q
    <2> QED BY <2>1, <2>5, <2>6, <2>7
<1> HIDE DEF S
<1>4. to \in S
    <2>1. from \in Int /\ to \in Int /\ to \in from..to
        OBVIOUS
    <2> QED BY <1>2, <1>3, <2>1, Induction
<1> QED BY <1>4 DEF S

(* A page with its tags replaced is longer by DataLen *)
LEMMA LenReplaced ==
    ASSUME tags \in Layouts, OwnTags
    PROVE  HasLen(Replaced(PageLen), PageLen + DataLen) /\ DataLen \in Int
<1> DEFINE n == Len(tags)
           E(i) == IF i = 0 THEN 0 ELSE tags[i].end
<1>1. /\ DOMAIN tags = 1..n /\ n \in Nat /\ PageLen \in Nat
      /\ \A i \in DOMAIN tags : /\ tags[i].start \in Nat /\ tags[i].end \in Nat
                                /\ tags[i].start < tags[i].end /\ tags[i].end <= PageLen
      /\ \A i, j \in DOMAIN tags : i < j => tags[i].end <= tags[j].start
    BY TagsApart, InjectAssumption
<1>2. PICK D : AddsUp(D, TagAdds, 1..n, n)
    BY AddingUp, TagAddsType
<1>3. DataLen = D[n] /\ D \in [0..n -> Int] /\ D[0] = 0
    BY <1>2, DataLenIs DEF AddsUp
<1> DEFINE S == {i \in Int : HasLen(Replaced(E(i)), E(i) + D[i])}
<1>4. 0 \in S
    <2>1. Replaced(0) = <<>> /\ 0 + D[0] = 0 /\ E(0) = 0
        BY <1>3, ReplacedStep
    <2> HIDE DEF E
    <2> QED BY <2>1, LenNone
<1>5. ASSUME NEW i \in (0 + 1)..n, i - 1 \in S PROVE i \in S
    <2> DEFINE t    == tags[i]
               from == E(i - 1)
               d    == D[i - 1]
    <2>1. /\ i \in DOMAIN tags /\ i \in Int /\ i # 0 /\ i \in 1..n /\ i - 1 \in 0..n
          /\ t.start \in Nat /\ t.end \in Nat /\ t.start < t.end /\ t.end <= PageLen
        BY <1>1
    <2>2. /\ from \in Nat /\ from <= t.start
          /\ \A j \in DOMAIN tags : tags[j].end <= from \/ tags[j].start >= t.start
        <3>1. CASE i = 1
            <4>1. from = 0
                BY <3>1
            <4>2. ASSUME NEW j \in DOMAIN tags PROVE tags[j].start >= t.start
                <5>1. j = i \/ i < j
                    BY <1>1, <3>1
                <5> QED BY <1>1, <2>1, <5>1
            <4> QED BY <2>1, <4>1, <4>2
        <3>2. CASE i # 1
            <4> DEFINE u == tags[i - 1]
            <4>1. i - 1 \in DOMAIN tags /\ i - 1 # 0 /\ i - 1 < i
                BY <1>1, <2>1, <3>2
            <4>2. /\ from = u.end /\ u.start \in Nat /\ u.end \in Nat /\ u.start < u.end
                  /\ u.end <= t.start
                BY <1>1, <2>1, <4>1
            <4>3. ASSUME NEW j \in DOMAIN tags
                  PROVE  tags[j].end <= u.end \/ tags[j].start >= t.start
                <5> DEFINE v == tags[j]
                <5>1. /\ j < i - 1 \/ j = i - 1 \/ j = i \/ i < j
                      /\ v.start \in Nat /\ v.end \in Nat /\ v.start < v.end
                    BY <1>1, <2>1
                <5>2. /\ j < i - 1 => v.end <= u.start
                      /\ i < j => t.end <= v.start
                    BY <1>1, <2>1, <4>1
                <5>3. CASE j = i - 1 \/ j = i
                    BY <2>1, <4>2, <5>3
                <5>4. CASE j < i - 1 \/ i < j
                    <6> HIDE DEF u, v, t
                    <6>1. v.end <= u.end \/ v.start >= t.start
                        BY <2>1, <4>2, <5>1, <5>2, <5>4
                    <6> QED BY <6>1 DEF v
                <5> QED BY <5>1, <5>3, <5>4
            <4> QED BY <4>2, <4>3
        <3> QED BY <3>1, <3>2
    <2>3. t.start \in 0..PageLen /\ from \in 0..t.start /\ t.end \in (t.start + 1)..t.end
        <3>1. /\ t.start \in Nat /\ t.end \in Nat /\ t.start < t.end /\ t.end <= PageLen
              /\ PageLen \in Nat /\ from \in Nat /\ from <= t.start
            BY <1>1, <2>1, <2>2
        <3> HIDE DEF t, from
        <3> QED BY <3>1
    <2>4. Replaced(t.start) = Replaced(from) \o Bytes(from, t.start)
        <3> HIDE DEF from, t
        <3> QED BY <2>2, <2>3, ReplacedBetween
    <2>5. Replaced(t.end) = Replaced(t.start) \o <<TagData(i)>>
        BY <2>1, <2>3, ReplacedTag
    <2>6. HasLen(Replaced(from), from + d) /\ d \in Int
        BY <1>3, <1>5, <2>1
    <2>7. HasLen(Replaced(t.start), (from + d) + (t.start - from))
        <3>1. t.start \in Nat
            BY <2>1
        <3> HIDE DEF from, d, t
        <3> QED BY <2>3, <2>4, <2>6, <3>1, LenBytes
    <2>8. Weight(TagData(i)) = DataLens[i] /\ DataLens[i] \in Nat /\ TagData(i) \in Int
        <3>1. -i < 0 /\ -(-i) = i
            BY <1>1, <2>1
        <3> QED BY <2>1, <3>1, TagAddsType DEF Weight, TagData
    <2>9. HasLen(Replaced(t.end), ((from + d) + (t.start - from)) + DataLens[i])
        <3> HIDE DEF from, d, t
        <3> QED BY <2>5, <2>7, <2>8, LenOne
    <2>10. D[i] = d + (DataLens[i] - (t.end - t.start))
        BY <1>2, <2>1 DEF AddsUp, TagAdds
    <2>11. ((from + d) + (t.start - from)) + DataLens[i] = t.end + D[i]
        <3> DEFINE a == t.start
                   e == t.end
                   w == DataLens[i]
        <3>1. a \in Nat /\ e \in Nat /\ w \in Nat /\ from \in Nat /\ d \in Int
            BY <2>1, <2>2, <2>6, <2>8
        <3>2. D[i] = d + (w - (e - a))
            BY <2>10
        <3> HIDE DEF a, e, w, from, d
        <3>3. ((from + d) + (a - from)) + w = e + D[i]
            BY <3>1, <3>2
        <3> QED BY <3>3 DEF a, e, w
    <2>12. E(i) = t.end
        BY <2>1
    <2> HIDE DEF E, t
    <2> QED BY <2>1, <2>9, <2>11, <2>12
<1>6. n \in S
    <2>1. 0 \in Int /\ n \in Int /\ n \in 0..n
        BY <1>1
    <2> HIDE DEF S, n
    <2> QED BY <1>4, <1>5, <2>1, Induction
<1> DEFINE e == E(n)
<1>7. HasLen(Replaced(e), e + DataLen) /\ DataLen \in Int
    BY <1>1, <1>3, <1>6
<1>8. /\ e \in 0..PageLen
      /\ \A j \in DOMAIN tags : tags[j].end <= e \/ tags[j].start >= PageLen
    <2>1. n # 0 /\ n \in DOMAIN tags
        BY <1>1, TagsApart
    <2>2. e = tags[n].end
        BY <2>1
    <2>3. \A j \in DOMAIN tags : tags[j].end <= tags[n].end
        <3> SUFFICES ASSUME NEW j \in DOMAIN tags PROVE tags[j].end <= tags[n].end
            OBVIOUS
        <3>1. j = n \/ j < n
            BY <1>1
        <3>2. j < n => tags[j].end <= tags[n].start
            BY <1>1, <2>1
        <3>3. /\ tags[j].end \in Nat /\ tags[n].start \in Nat /\ tags[n].end \in Nat
              /\ tags[n].start < tags[n].end
            BY <1>1, <2>1
        <3> HIDE DEF n
        <3> QED BY <3>1, <3>2, <3>3
    <2>4. tags[n].end \in 0..PageLen
        BY <1>1, <2>1
    <2> HIDE DEF e
    <2> QED BY <2>2, <2>3, <2>4
<1> HIDE DEF e
<1>9. Replaced(PageLen) = Replaced(e) \o Bytes(e, PageLen)
    <2>1. PageLen \in 0..PageLen
        BY <1>1
    <2> QED BY <1>8, <2>1, ReplacedBetween
<1>10. HasLen(Replaced(PageLen), (e + DataLen) + (PageLen - e))
    BY <1>1, <1>7, <1>8, <1>9, LenBytes
<1>11. (e + DataLen) + (PageLen - e) = PageLen + DataLen
    BY <1>1, <1>7, <1>8
<1> QED BY <1>7, <1>10, <1>11

-------------------------------------------------------------------------------
(* The declared length *)

(* The length that is sent ahead.  The injecting writer decides on it when *)
(* the handler sets a status, the buffered one when the page is complete.  *)
LengthInv ==
    /\ kind = "injecting" =>
          /\ asked = <<>> /\ written = 0 => ~wroteHeader /\ head = <<>>
          /\ asked # <<>> => head # <<>> /\ head[1].length = Corrected(declared, DataLen)
    /\ kind = "buffered" =>
          /\ returned # "ok" => head = <<>>
          /\ returned = "ok" =>
                /\ head # <<>>
                /\ head[1].length = IF Injects THEN Corrected(declared, DataLen) ELSE declared

LEMMA LengthInit == WriterInit => LengthInv
BY DEF WriterInit, LengthInv

(* The first head stays, and its length *)
LEMMA SentLength ==
    ASSUME NEW status, NEW length
    PROVE  /\ Sent(status, length) # <<>>
           /\ head = <<>> => Sent(status, length)[1].length = length
           /\ head # <<>> => Sent(status, length) = head
BY DEF Sent

LEMMA SameLength ==
    ASSUME UNCHANGED <<tags, declared>>
    PROVE  Corrected(declared, DataLen)' = Corrected(declared, DataLen)
BY DEF Corrected, DataLen, MapThenSumSet, MapThenFoldSet

LEMMA LengthStep == WriterInv /\ LengthInv /\ [WriterNext]_writerVars => LengthInv'
<1> SUFFICES ASSUME WriterInv, LengthInv, [WriterNext]_writerVars PROVE LengthInv'
    OBVIOUS
<1> DEFINE Length == Corrected(declared, DataLen)
<1>1. /\ kind \in {"injecting", "buffered"} /\ written \in Nat /\ PageLen \in Nat
      /\ returned \in {"no", "ok", "failed"}
    BY InjectAssumption DEF WriterInv, AskedAndSent
<1>2. ASSUME NEW c \in Codes, WriteHeader(c) PROVE LengthInv'
    <2>1. /\ UNCHANGED <<kind, written, isText, returned, tags, declared>> /\ returned = "no"
          /\ asked' = IF asked = <<>> /\ written = 0 THEN <<c>> ELSE asked
        BY <1>2 DEF WriteHeader, Handling, handler, vars
    <2>2. Length' = Length
        BY <2>1, SameLength
    <2> HIDE DEF Length
    <2>3. CASE SendHeader(c)
        <3>1. kind = "injecting" /\ head' = Sent(c, Length)
            BY <2>3 DEF SendHeader, Length
        <3>2. head' # <<>> /\ (asked' # <<>> => head'[1].length = Length)
            <4>1. CASE asked = <<>> /\ written = 0
                <5>1. head = <<>>
                    BY <3>1, <4>1 DEF LengthInv
                <5> QED BY <3>1, <5>1, SentLength
            <4>2. CASE ~(asked = <<>> /\ written = 0)
                <5>1. asked' = asked
                    BY <2>1, <4>2
                <5> QED BY <3>1, <5>1, SentLength DEF LengthInv, Length
            <4> QED BY <4>1, <4>2
        <3>3. ~(asked' = <<>> /\ written' = 0)
            BY <2>1
        <3> QED BY <2>1, <2>2, <3>1, <3>2, <3>3 DEF LengthInv, Length
    <2>4. CASE RememberStatus(c)
        BY <2>1, <2>4 DEF RememberStatus, LengthInv
    <2> QED BY <1>2, <2>3, <2>4 DEF WriteHeader
<1>3. ASSUME NEW n \in 1..(PageLen - written), WriteNext(n) PROVE LengthInv'
    <2>1. /\ UNCHANGED <<kind, isText, returned, asked, declared, wroteHeader>>
          /\ returned = "no" /\ written' = written + n /\ tags' = tags
        BY <1>3 DEF WriteNext, WriteInjecting, Handling, Call, handler, vars
    <2>2. Length' = Length
        BY <2>1, SameLength
    <2> HIDE DEF Length
    <2>3. CASE WriteInjecting(n)
        <3>1. kind = "injecting" /\ head' = Sent(200, <<>>) /\ written' # 0
            BY <1>1, <2>1, <2>3 DEF WriteInjecting
        <3>2. asked' # <<>> => head' # <<>> /\ head'[1].length = Length
            BY <2>1, <3>1, SentLength DEF LengthInv, Length
        <3> QED BY <2>1, <2>2, <3>1, <3>2 DEF LengthInv, Length
    <2>4. CASE kind = "buffered" /\ UNCHANGED <<head, vars>>
        BY <2>1, <2>4 DEF LengthInv
    <2> QED BY <1>3, <2>3, <2>4 DEF WriteNext
<1>4. ASSUME Return PROVE LengthInv'
    <2>1. /\ UNCHANGED <<kind, isText, written, asked, declared, wroteHeader>>
          /\ returned = "no" /\ returned' = "ok" /\ tags' = tags
        BY <1>4 DEF Return, TriggerRealWrite, Handling, Call, handler, vars
    <2>2. Length' = Length
        BY <2>1, SameLength
    <2> HIDE DEF Length
    <2>3. CASE kind = "injecting" /\ UNCHANGED <<head, vars>>
        BY <2>1, <2>2, <2>3 DEF LengthInv, Length
    <2>4. CASE kind = "buffered" /\ TriggerRealWrite
        <3>1. head = <<>> /\ Injects' = Injects
            BY <2>1, <2>4 DEF LengthInv, Injects
        <3>2. CASE Injects
            <4>1. head' = Sent(code, Length)
                BY <1>1, <2>4, <3>2 DEF TriggerRealWrite, Injects, Length
            <4>2. head' # <<>> /\ head'[1].length = Length
                BY <3>1, <4>1, SentLength
            <4> QED BY <2>1, <2>2, <2>4, <3>1, <3>2, <4>2 DEF LengthInv, Length
        <3>3. CASE ~Injects
            <4>1. head' = Sent(code, declared)
                BY <1>1, <2>4, <3>3 DEF TriggerRealWrite, Injects
            <4>2. head' # <<>> /\ head'[1].length = declared
                BY <3>1, <4>1, SentLength
            <4> QED BY <2>1, <2>4, <3>1, <3>3, <4>2 DEF LengthInv
        <3> QED BY <3>2, <3>3
    <2> QED BY <1>4, <2>3, <2>4 DEF Return
<1>5. ASSUME UNCHANGED <<kind, isText, written, asked, declared, wroteHeader, head, tags>>,
             returned' = returned \/ (returned = "no" /\ returned' = "failed")
      PROVE  LengthInv'
    <2>1. Length' = Length
        BY <1>5, SameLength
    <2> HIDE DEF Length
    <2> QED BY <1>5, <2>1 DEF LengthInv, Injects, Length
<1>6. ASSUME Fail PROVE LengthInv'
    BY <1>5, <1>6 DEF Fail, Handling, handler, vars
<1>7. ASSUME UNCHANGED writerVars PROVE LengthInv'
    <2>1. /\ UNCHANGED <<kind, isText, written, asked, declared, wroteHeader, head, tags>>
          /\ returned' = returned
        BY <1>7 DEF writerVars, handler, vars
    <2> QED BY <1>5, <2>1
<1> QED BY <1>2, <1>3, <1>4, <1>6, <1>7 DEF WriterNext, WritePart

(* The length that was declared is corrected to the length of what is sent *)
(* afterwards: DataLen foresees what InjectContent adds to the page, for   *)
(* all data, any tags, and all chunks that respect them.                   *)
THEOREM DeclaredLengthMatches == WriterSpec => []LengthMatches
<1>1. WriterInv /\ BodyInv /\ LengthInv => LengthMatches
    <2> SUFFICES ASSUME WriterInv, BodyInv, LengthInv,
                        returned = "ok", written = PageLen, asked # <<>>,
                        declared = <<PageLen>>, OwnTags, ChunksRespectTags,
                        kind = "buffered" \/ isText
                 PROVE  head[1].length = <<BodyLen>>
        BY DEF LengthMatches
    <2>1. /\ tags \in Layouts /\ PageLen \in Nat /\ written > 0 /\ Injects = isText
          /\ kind \in {"injecting", "buffered"} /\ isText \in BOOLEAN
        <3>1. tags \in Layouts
            BY DEF WriterInv, InjectInv
        <3>2. PageLen \in Nat /\ PageLen > 0
            <4>1. 1 \in DOMAIN tags
                BY <3>1, TagsApart
            <4> QED BY <3>1, <4>1, TagsApart, InjectAssumption
        <3> QED BY <3>1, <3>2 DEF Injects, WriterInv, AskedAndSent
    <2>2. CASE isText
        <3>1. head[1].length = Corrected(declared, DataLen)
            BY <2>1, <2>2 DEF LengthInv
        <3>2. streamCur = PageLen
            BY <2>1, <2>2 DEF WriterInv, InjectedSoFar
        <3>3. out = Replaced(PageLen)
            BY <2>1, <2>2, <3>2, RespectedWhole DEF BodyInv, TextInv
        <3>4. HasLen(out, PageLen + DataLen) /\ DataLen \in Int
            BY <2>1, <3>3, LenReplaced
        <3>5. BodyLen = PageLen + DataLen
            BY <3>4, BodyLenIs
        <3>6. Corrected(declared, DataLen) = <<PageLen + DataLen>>
            <4>1. <<PageLen>> # <<>> /\ <<PageLen>>[1] = PageLen
                OBVIOUS
            <4>2. DataLen + PageLen = PageLen + DataLen
                BY <2>1, <3>4
            <4>3. DataLen = 0 => PageLen + DataLen = PageLen
                BY <2>1
            <4> QED BY <4>1, <4>2, <4>3 DEF Corrected
        <3> QED BY <3>1, <3>5, <3>6
    <2>3. CASE ~isText
        <3>1. head[1].length = <<PageLen>> /\ out = Bytes(0, PageLen)
            BY <2>1, <2>3 DEF LengthInv, BodyInv
        <3>2. HasLen(<<>> \o Bytes(0, PageLen), 0 + (PageLen - 0))
            <4>1. 0 \in 0..PageLen
                BY <2>1
            <4> QED BY <2>1, <4>1, LenNone, LenBytes
        <3>3. <<>> \o Bytes(0, PageLen) = Bytes(0, PageLen) /\ 0 + (PageLen - 0) = PageLen
            <4>1. Bytes(0, PageLen) \in Seq(Byte)
                BY <2>1, BytesOfPage
            <4> QED BY <2>1, <4>1
        <3>4. BodyLen = PageLen
            BY <3>1, <3>2, <3>3, BodyLenIs
        <3> QED BY <3>1, <3>4
    <2> QED BY <2>1, <2>2, <2>3
<1> QED BY <1>1, WriterInvInit, WriterInvStep, BodyInit, BodyStep, LengthInit,
           LengthStep, PTL DEF WriterSpec
==============================================================================
