------------------------------ MODULE TagFinder ------------------------------
(***************************************************************************)
(* Parse (esitag/esi_parser.go): a bufio.Scanner reads the page and hands  *)
(* its bytes to finder.split, whose state machine finds the ESI tags and   *)
(* their positions in the page.                                            *)
(*                                                                         *)
(* Positions count from 0 and an end is exclusive, as in Go.               *)
(***************************************************************************)
EXTENDS Naturals, SequencesExt

CONSTANTS Texts,     \* the pages: sequences of bytes
          MaxData    \* bound: bytes the scanner hands to one call of split

(* A page is a sequence of bytes, and the scanner reads on *)
ASSUME FinderAssumption == MaxData \in Nat \ {0} /\ Texts \subseteq Seq(STRING)

VARIABLES
    text,      \* the page
    read,      \* how far the scanner has got in it
    finder,    \* the finder
    found      \* the entities: RawTag and DataTag

vars == <<text, read, finder, found>>

TagStates == {"start", "tag", "tagE", "tagES", "tagESI", "data", "slash", "found"}

FinderInit ==
    /\ read = 0
    /\ finder = [tagState |-> "start", n |-> 0, begin |-> 0, end |-> 0, buf |-> <<>>]
    /\ found = <<>>

Init == text \in Texts /\ FinderInit

-------------------------------------------------------------------------------
(* finder.scan *)

(* The opening <esi: byte by byte: the state that waits for a byte, and the *)
(* state behind it                                                          *)
Opening == [tag   |-> [byte |-> "e", next |-> "tagE"],
            tagE  |-> [byte |-> "s", next |-> "tagES"],
            tagES |-> [byte |-> "i", next |-> "tagESI"],
            tagESI |-> [byte |-> ":", next |-> "data"]]

(* What a byte does to the state, the positions and the buffer *)
Change(f, b) ==
    CASE f.tagState \in {"start", "found"} ->
            IF b = "<" THEN [f EXCEPT !.tagState = "tag", !.begin = f.n] ELSE f
      [] f.tagState \in DOMAIN Opening ->
            IF b # Opening[f.tagState].byte THEN [f EXCEPT !.tagState = "start"]
            ELSE [f EXCEPT !.tagState = Opening[f.tagState].next,
                           !.buf = IF b = ":" THEN <<>> ELSE @]
      [] f.tagState = "data" ->
            [f EXCEPT !.tagState = IF b = "/" THEN "slash" ELSE "data",
                      !.buf = Append(@, b)]
      [] f.tagState = "slash" ->
            IF b = ">" THEN [f EXCEPT !.tagState = "found", !.end = f.n + 1]
            ELSE [f EXCEPT !.tagState = "data", !.buf = Append(@, b)]

(* Variant of EndsTag: any byte behind a / ends the tag *)
BadEndsTag(f, b) == f.tagState = "slash"

EndsTag(f, b) == f.tagState = "slash" /\ b = ">"

(* Variant of Scan: the state found is left by no byte *)
BadScan(f, b) == IF f.tagState = "found" THEN [f EXCEPT !.n = @ + 1]
                 ELSE IF EndsTag(f, b) THEN Change(f, b)
                 ELSE [Change(f, b) EXCEPT !.n = @ + 1]

(* scan returns true at the end of a tag, and then it does not count the byte *)
Scan(f, b) == IF EndsTag(f, b) THEN Change(f, b)
              ELSE [Change(f, b) EXCEPT !.n = @ + 1]

-------------------------------------------------------------------------------
(* The finder before byte i of data, from 1; it stops at the end of a tag *)
Scanned(data) ==
    LET upto[i \in 1..(Len(data) + 1)] ==
            IF i = 1 THEN [finder |-> finder, at |-> 1, ok |-> FALSE]
            ELSE LET prev == upto[i - 1]
                 IN  IF prev.ok THEN prev
                     ELSE [finder |-> Scan(prev.finder, data[i - 1]),
                           ok |-> EndsTag(prev.finder, data[i - 1]),
                           at |-> IF EndsTag(prev.finder, data[i - 1]) THEN i - 1 ELSE i]
    IN  upto[Len(data) + 1]

Data(k) == SubSeq(text, read + 1, read + k)

(* Variant of Split: the > of a tag is passed over *)
BadSplit(k) ==
    LET res == Scanned(Data(k))
    IN  /\ finder' = res.finder
        /\ read' = read + res.at - (IF res.ok THEN 0 ELSE 1)
        /\ found' = IF ~res.ok THEN found
                    ELSE Append(found, [start |-> res.finder.begin, end |-> res.finder.end,
                                        raw |-> Front(res.finder.buf)])
        /\ UNCHANGED text

(* split gets k bytes.  At the end of a tag the scanner advances up to its *)
(* >, which is scanned again, and Parse appends an entity; without one all *)
(* bytes are taken.                                                        *)
Split(k) ==
    LET res == Scanned(Data(k))
    IN  /\ finder' = res.finder
        /\ read' = read + res.at - 1
        /\ found' = IF ~res.ok THEN found
                    ELSE Append(found, [start |-> res.finder.begin, end |-> res.finder.end,
                                        raw |-> Front(res.finder.buf)])
        /\ UNCHANGED text

Next == \E k \in 1..MaxData : k <= Len(text) - read /\ Split(k)

Spec == Init /\ [][Next]_vars

-------------------------------------------------------------------------------
(* The reference: the tags of a page, each from <esi: to the next />, with *)
(* the text between *)

EsiOpen == <<"<", "e", "s", "i", ":">>
EsiEnd  == <<"/", ">">>

(* The first position from p on at which pattern occurs, or Len(text) *)
IsAt(pattern, q) == /\ q + Len(pattern) <= Len(text)
                    /\ SubSeq(text, q + 1, q + Len(pattern)) = pattern
FirstAt(pattern, p) ==
    LET at == {q \in p..Len(text) : IsAt(pattern, q)}
    IN  IF at = {} THEN Len(text) ELSE CHOOSE q \in at : \A q2 \in at : q <= q2

(* The first tag from p on, as a sequence of at most one *)
TagFrom(p) ==
    LET start == FirstAt(EsiOpen, p)
        close == FirstAt(EsiEnd, start + Len(EsiOpen))
    IN  IF start = Len(text) \/ close = Len(text) THEN <<>>
        ELSE <<[start |-> start, end |-> close + 2,
                raw |-> SubSeq(text, start + Len(EsiOpen) + 1, close)]>>

(* The tags from p on *)
TagsOfPage ==
    LET from[n \in 0..Len(text)] ==      \* n bytes are left
            LET first == TagFrom(Len(text) - n)
            IN  IF first = <<>> THEN <<>>
                ELSE first \o from[Len(text) - first[1].end]
    IN  from[Len(text)]

-------------------------------------------------------------------------------
(* Properties *)

(* The finder counts the bytes that the scanner has passed, although the > *)
(* of every tag is scanned twice: the positions of the tags are those of   *)
(* the page.                                                               *)
TypeOK ==
    /\ read \in 0..Len(text) /\ finder.n = read
    /\ finder.tagState \in TagStates
    /\ finder.begin \in 0..Len(text) /\ finder.end \in 0..Len(text)
    /\ Range(finder.buf) \subseteq Range(text)
    /\ \A i \in DOMAIN found : DOMAIN found[i] = {"start", "end", "raw"}

(* Whatever the page is and however it is read: what is found are stretches *)
(* <esi: ... /> of the page, with the right RawTag, in order and without    *)
(* overlap, as the injection of their contents presumes (InjectContent).    *)
FoundAreTags ==
    /\ \A i \in DOMAIN found :
          LET t == found[i]
          IN  SubSeq(text, t.start + 1, t.end) = EsiOpen \o t.raw \o EsiEnd
    /\ \A i \in 2..Len(found) : found[i - 1].end <= found[i].start

(* The finder gives up an opening when it meets a byte that does not fit,  *)
(* and a / when no > follows, without looking at this byte again: it misses *)
(* an opening right behind a part of one, and an end behind another slash.  *)
Stumbles ==
    \/ \E q \in 1..Len(text) :
          /\ IsAt(EsiOpen, q)
          /\ \E n \in 1..4 : n <= q /\ SubSeq(text, q - n + 1, q) = SubSeq(EsiOpen, 1, n)
    \/ \E q \in 0..Len(text) : IsAt(<<"/", "/", ">">>, q)

(* Every tag of a page in which the finder does not stumble is found, and  *)
(* nothing else.                                                           *)
FoundAll == read = Len(text) /\ ~Stumbles => found = TagsOfPage
===============================================================================
