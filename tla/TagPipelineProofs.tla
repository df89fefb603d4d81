------------------------- MODULE TagPipelineProofs -------------------------
(***************************************************************************)
(* Proofs about the way of a tag from any page to its resources, with any  *)
(* Caddyfile and requests, and every way in which the scanner cuts a page: *)
(*   - the positions of the finder are those of the bytes it has passed;   *)
(*   - what it finds are tags of the page, in order, with their text;      *)
(*   - it finds all tags of a page in which it does not stumble;           *)
(*   - the tags of a page are parsed as they were written;                 *)
(*   - every resource is asked with limits;                                *)
(*   - an ID that ends with the path tells the pages apart;                *)
(*   - all resources of a tag are asked for one key, the one that the page *)
(*     names, with the values of the request;                              *)
(*   - a program reads its arguments back whole from the JSON it is sent;  *)
(*   - a server gets the headers and the body that the tag asks for.       *)
(***************************************************************************)
EXTENDS TagPipeline, RecursionLemmas, SequenceTheorems, TLAPS

-------------------------------------------------------------------------------
(* The page *)

(* The strings, the ones that the program names among them *)
Symbols == STRING \cup Chars
           \cup {"<", "e", "s", "i", ":", "/", ">", "?", "@", "#", ",", "{", "}", "include", "cut",
                 "http", "https", "escaped", "hostname", "when", "when_iso"}

(* The page from p on begins with k bytes of <esi: *)
OpensAt(p, k) == /\ p + k <= Len(text)
                 /\ k >= 1 => text[p + 1] = "<"
                 /\ k >= 2 => text[p + 2] = "e"
                 /\ k >= 3 => text[p + 3] = "s"
                 /\ k >= 4 => text[p + 4] = "i"
                 /\ k >= 5 => text[p + 5] = ":"

ClosesAt(p) == p + 2 <= Len(text) /\ text[p + 1] = "/" /\ text[p + 2] = ">"

LEMMA OpenMarks ==
    /\ EsiOpen \in Seq(Symbols) /\ Len(EsiOpen) = 5
    /\ EsiOpen[1] = "<" /\ EsiOpen[2] = "e" /\ EsiOpen[3] = "s" /\ EsiOpen[4] = "i"
    /\ EsiOpen[5] = ":"
BY DEF EsiOpen, Symbols

LEMMA EndMarks ==
    /\ EsiEnd \in Seq(Symbols) /\ Len(EsiEnd) = 2 /\ EsiEnd[1] = "/" /\ EsiEnd[2] = ">"
BY DEF EsiEnd, Symbols

(* Two sequences are one if they have one length and the same elements *)
LEMMA Alike ==
    ASSUME NEW s \in Seq(Symbols), NEW t \in Seq(Symbols),
           Len(s) = Len(t), \A i \in 1..Len(s) : s[i] = t[i]
    PROVE  s = t
BY SeqEqual

LEMMA Parts ==
    ASSUME text \in Seq(Symbols), NEW p \in 0..Len(text), NEW q \in 0..Len(text)
    PROVE  /\ SubSeq(text, p + 1, q) \in Seq(Symbols)
           /\ Len(SubSeq(text, p + 1, q)) = IF p <= q THEN q - p ELSE 0
           /\ \A i \in 1..(q - p) : SubSeq(text, p + 1, q)[i] = text[p + i]
<1> DEFINE m == p + 1
<1>1. m \in Int /\ q \in Int /\ \A i \in m..q : text[i] \in Symbols
    BY ElementOfSeq
<1>2. /\ SubSeq(text, m, q) \in Seq(Symbols)
      /\ Len(SubSeq(text, m, q)) = IF m <= q THEN q - m + 1 ELSE 0
      /\ \A i \in 1..(q - m + 1) : SubSeq(text, m, q)[i] = text[m + i - 1]
    <2> HIDE DEF m
    <2> QED BY <1>1, SubSeqProperties
<1>3. /\ q - m + 1 = q - p /\ (m <= q <=> p < q)
      /\ \A i \in 1..(q - p) : m + i - 1 = p + i
    OBVIOUS
<1> HIDE DEF m
<1>4. /\ SubSeq(text, m, q) \in Seq(Symbols)
      /\ Len(SubSeq(text, m, q)) = IF p <= q THEN q - p ELSE 0
      /\ \A i \in 1..(q - p) : SubSeq(text, m, q)[i] = text[p + i]
    BY <1>2, <1>3
<1> QED BY <1>4 DEF m

LEMMA IsOpening ==
    ASSUME text \in Seq(Symbols), NEW q \in 0..Len(text)
    PROVE  IsAt(EsiOpen, q) <=> OpensAt(q, 5)
<1> DEFINE s == SubSeq(text, q + 1, q + 5)
<1>1. IsAt(EsiOpen, q) <=> q + 5 <= Len(text) /\ s = EsiOpen
    BY OpenMarks DEF IsAt
<1>2. ASSUME q + 5 <= Len(text)
      PROVE  s = EsiOpen <=> OpensAt(q, 5)
    <2> DEFINE e == q + 5
    <2>0. e \in 0..Len(text)
        BY <1>2
    <2>1. s \in Seq(Symbols) /\ Len(s) = 5 /\ \A i \in 1..5 : s[i] = text[q + i]
        <3>1. e - q = 5 /\ q <= e /\ s = SubSeq(text, q + 1, e)
            OBVIOUS
        <3> HIDE DEF e, s
        <3> QED BY <2>0, <3>1, Parts
    <2> HIDE DEF s
    <2>2. /\ s[1] = text[q + 1] /\ s[2] = text[q + 2] /\ s[3] = text[q + 3]
          /\ s[4] = text[q + 4] /\ s[5] = text[q + 5]
        BY <2>1
    <2>3. s = EsiOpen <=> \A i \in 1..5 : s[i] = EsiOpen[i]
        BY <2>1, OpenMarks, Alike
    <2>4. (\A i \in 1..5 : s[i] = EsiOpen[i]) <=>
              /\ s[1] = "<" /\ s[2] = "e" /\ s[3] = "s" /\ s[4] = "i" /\ s[5] = ":"
        BY OpenMarks
    <2> QED BY <1>2, <2>2, <2>3, <2>4 DEF OpensAt
<1> QED BY <1>1, <1>2 DEF OpensAt

LEMMA IsEnding ==
    ASSUME text \in Seq(Symbols), NEW q \in 0..Len(text)
    PROVE  IsAt(EsiEnd, q) <=> ClosesAt(q)
<1> DEFINE s == SubSeq(text, q + 1, q + 2)
<1>1. IsAt(EsiEnd, q) <=> q + 2 <= Len(text) /\ s = EsiEnd
    BY EndMarks DEF IsAt
<1>2. ASSUME q + 2 <= Len(text)
      PROVE  s = EsiEnd <=> ClosesAt(q)
    <2> DEFINE e == q + 2
    <2>0. e \in 0..Len(text)
        BY <1>2
    <2>1. s \in Seq(Symbols) /\ Len(s) = 2 /\ \A i \in 1..2 : s[i] = text[q + i]
        <3>1. e - q = 2 /\ q <= e /\ s = SubSeq(text, q + 1, e)
            OBVIOUS
        <3> HIDE DEF e, s
        <3> QED BY <2>0, <3>1, Parts
    <2> HIDE DEF s
    <2>2. s[1] = text[q + 1] /\ s[2] = text[q + 2]
        BY <2>1
    <2>3. s = EsiEnd <=> \A i \in 1..2 : s[i] = EsiEnd[i]
        BY <2>1, EndMarks, Alike
    <2>4. (\A i \in 1..2 : s[i] = EsiEnd[i]) <=> s[1] = "/" /\ s[2] = ">"
        BY EndMarks
    <2> QED BY <1>2, <2>2, <2>3, <2>4 DEF ClosesAt
<1> QED BY <1>1, <1>2 DEF ClosesAt

(* In a page in which the finder does not stumble, <esi: does not stand    *)
(* behind a part of it, nor a /> behind another slash                      *)
LEMMA NoStumbling ==
    ASSUME text \in Seq(Symbols), ~Stumbles
    PROVE  /\ \A p \in 0..Len(text) : \A k \in 1..4 : OpensAt(p, k) => ~OpensAt(p + k, 5)
           /\ \A q \in 1..(Len(text) - 2) :
                 ~(text[q] = "/" /\ text[q + 1] = "/" /\ text[q + 2] = ">")
<1>0. Len(text) \in Nat
    OBVIOUS
<1>1. ASSUME NEW p \in 0..Len(text), NEW k \in 1..4, OpensAt(p, k), OpensAt(p + k, 5)
      PROVE  FALSE
    <2> DEFINE q == p + k
    <2>1. q \in 1..Len(text) /\ k <= q /\ q \in 0..Len(text) /\ q - k = p
        BY <1>0, <1>1 DEF OpensAt
    <2>2. IsAt(EsiOpen, q)
        <3>1. OpensAt(q, 5)
            BY <1>1
        <3> HIDE DEF q
        <3> QED BY <2>1, <3>1, IsOpening
    <2>3. SubSeq(text, q - k + 1, q) = SubSeq(EsiOpen, 1, k)
        <3> DEFINE s == SubSeq(text, p + 1, q)
                   t == SubSeq(EsiOpen, 1, k)
        <3>1. s \in Seq(Symbols) /\ Len(s) = k /\ \A i \in 1..k : s[i] = text[p + i]
            <4>1. p <= q /\ q - p = k
                BY <1>0
            <4> HIDE DEF q
            <4> QED BY <2>1, <4>1, Parts
        <3>2. t \in Seq(Symbols) /\ Len(t) = k /\ \A i \in 1..k : t[i] = EsiOpen[i]
            <4>1. \A i \in 1..k : EsiOpen[i] \in Symbols
                <5>1. \A i \in 1..k : i \in 1..Len(EsiOpen)
                    BY OpenMarks
                <5> QED BY <5>1, OpenMarks, ElementOfSeq
            <4>2. /\ t \in Seq(Symbols)
                  /\ Len(t) = IF 1 <= k THEN k - 1 + 1 ELSE 0
                  /\ \A i \in 1..(k - 1 + 1) : t[i] = EsiOpen[1 + i - 1]
                <5>1. 1 \in Int /\ k \in Int
                    OBVIOUS
                <5> QED BY <4>1, <5>1, SubSeqProperties
            <4>3. k - 1 + 1 = k /\ 1 <= k /\ \A i \in 1..k : 1 + i - 1 = i
                OBVIOUS
            <4> HIDE DEF t
            <4> QED BY <4>2, <4>3
        <3>3. ASSUME NEW i \in 1..k PROVE text[p + i] = EsiOpen[i]
            <4>1. i = 1 \/ i = 2 \/ i = 3 \/ i = 4
                OBVIOUS
            <4>2. /\ k >= 1 => text[p + 1] = "<"
                  /\ k >= 2 => text[p + 2] = "e"
                  /\ k >= 3 => text[p + 3] = "s"
                  /\ k >= 4 => text[p + 4] = "i"
                BY <1>1 DEF OpensAt
            <4>3. k >= i
                OBVIOUS
            <4> QED BY <4>1, <4>2, <4>3, OpenMarks
        <3> HIDE DEF s, t
        <3>4. s = t
            BY <3>1, <3>2, <3>3, Alike
        <3> QED BY <2>1, <3>4 DEF s, t
    <2> HIDE DEF q
    <2> QED BY <2>1, <2>2, <2>3 DEF Stumbles
<1>2. ASSUME NEW q \in 1..(Len(text) - 2),
             text[q] = "/", text[q + 1] = "/", text[q + 2] = ">"
      PROVE  FALSE
    <2> DEFINE p == q - 1
               e == q + 2
               t == <<"/", "/", ">">>
               s == SubSeq(text, p + 1, e)
    <2>1. /\ p \in 0..Len(text) /\ e \in 0..Len(text) /\ e - p = 3 /\ p <= e
          /\ p + 1 = q /\ p + 2 = q + 1 /\ p + 3 = q + 2 /\ p + 3 = e
        BY <1>0
    <2>2. t \in Seq(Symbols) /\ Len(t) = 3 /\ t[1] = "/" /\ t[2] = "/" /\ t[3] = ">"
        <3>1. "/" \in Symbols /\ ">" \in Symbols
            BY Zenon DEF Symbols
        <3> QED BY <3>1
    <2> HIDE DEF p, e, t
    <2>3. s \in Seq(Symbols) /\ Len(s) = 3 /\ \A i \in 1..3 : s[i] = text[p + i]
        BY <2>1, Parts
    <2> HIDE DEF s
    <2>4. s[1] = "/" /\ s[2] = "/" /\ s[3] = ">"
        BY <1>2, <2>1, <2>3
    <2>5. s = t
        <3>1. \A i \in 1..3 : i = 1 \/ i = 2 \/ i = 3
            OBVIOUS
        <3>2. \A i \in 1..3 : s[i] = t[i]
            BY <2>2, <2>4, <3>1
        <3> QED BY <2>2, <2>3, <3>2, Alike
    <2>6. IsAt(t, p)
        BY <1>0, <2>1, <2>2, <2>5 DEF IsAt, s
    <2> QED BY <2>1, <2>6 DEF Stumbles, t
<1> QED BY <1>1, <1>2

-------------------------------------------------------------------------------
(* How a page is written *)

LEMMA PartTyped ==
    ASSUME NEW part \in ValueParts
    PROVE  /\ PartText(part) \in Seq(Symbols) /\ part.text \in Seq(Symbols)
           /\ part.hole \in BOOLEAN
<1>1. part.text \in Seq(Symbols) /\ part.hole \in BOOLEAN
    <2>1. part.text \in Seq(STRING) /\ part.hole \in BOOLEAN
        BY DEF ValueParts
    <2>2. STRING \subseteq Symbols
        BY DEF Symbols
    <2> QED BY <2>1, <2>2, SeqMonotonic
<1>2. <<"{">> \in Seq(Symbols) /\ <<"}">> \in Seq(Symbols)
    <2>1. "{" \in Symbols /\ "}" \in Symbols
        BY Zenon DEF Symbols
    <2>2. \A s \in Symbols : <<s>> \in Seq(Symbols)
        OBVIOUS
    <2> QED BY <2>1, <2>2, Zenon
<1> DEFINE open  == <<"{">> \o part.text
           whole == open \o <<"}">>
<1>3. open \in Seq(Symbols)
    BY <1>1, <1>2, ConcatProperties
<1>4. whole \in Seq(Symbols)
    <2> HIDE DEF open
    <2> QED BY <1>2, <1>3, ConcatProperties
<1> QED BY <1>1, <1>4 DEF PartText

LEMMA ValueTyped ==
    ASSUME NEW parts \in Seq(ValueParts)
    PROVE  /\ [i \in DOMAIN parts |-> PartText(parts[i])] \in Seq(Seq(Symbols))
           /\ Len([i \in DOMAIN parts |-> PartText(parts[i])]) = Len(parts)
           /\ ValueText(parts) \in Seq(Symbols)
<1> DEFINE texts == [i \in DOMAIN parts |-> PartText(parts[i])]
           S     == Seq(Symbols)
<1>1. \A i \in DOMAIN parts : parts[i] \in ValueParts
    BY ElementOfSeq
<1>2. \A i \in DOMAIN parts : texts[i] \in S
    BY <1>1, PartTyped
<1>3. texts = [i \in DOMAIN parts |-> texts[i]]
    OBVIOUS
<1> HIDE DEF texts, S
<1>4. texts \in Seq(S) /\ Len(texts) = Len(parts)
    BY <1>2, <1>3, Mapped
<1>5. FlattenSeq(texts) \in Seq(Symbols)
    BY <1>4, FlattenedTyped DEF S
<1> QED BY <1>4, <1>5 DEF ValueText, texts, S

LEMMA SignsAreSymbols ==
    /\ Seq(Spaces) \subseteq Seq(Symbols) /\ Seq(Separators) \subseteq Seq(Symbols)
    /\ Quotes \subseteq Symbols /\ <<"include">> \in Seq(Symbols)
<1>1. Chars \subseteq Symbols /\ "include" \in Symbols
    BY Zenon DEF Symbols
<1>2. Spaces \subseteq Chars /\ Separators \subseteq Chars /\ Quotes \subseteq Chars
    BY Zenon DEF Separators, Chars
<1>3. Spaces \subseteq Symbols /\ Separators \subseteq Symbols /\ Quotes \subseteq Symbols
    BY <1>1, <1>2
<1>4. <<"include">> \in Seq(Symbols)
    BY <1>1
<1> QED BY <1>3, <1>4, SeqMonotonic

LEMMA AttributeTyped ==
    ASSUME NEW a \in Attributes
    PROVE  /\ a.left \in Seq(Symbols) /\ a.right \in Seq(Symbols) /\ ValueText(a.value) \in Seq(Symbols)
           /\ <<a.name>> \in Seq(Symbols) /\ <<a.quote>> \in Seq(Symbols)
           /\ a.before \in Seq(Symbols) /\ a.equals \in Seq(Symbols)
           /\ Inside(a) \in Seq(Symbols)
           /\ <<a.quote>> \o Inside(a) \o <<a.quote>> \in Seq(Symbols)
           /\ AttributeText(a) \in Seq(Symbols)
<1>1. /\ a.left \in Seq(Spaces) /\ a.right \in Seq(Spaces) /\ a.value \in Seq(ValueParts)
      /\ a.before \in Seq(Separators) /\ a.equals \in Seq(Separators)
      /\ a.name \in STRING /\ a.quote \in Quotes
    BY DEF Attributes
<1> DEFINE S == Seq(Symbols)
           v == ValueText(a.value)
           b == a.left \o v
           c == <<a.quote>> \o Inside(a)
           q == c \o <<a.quote>>
           d == a.before \o <<a.name>>
           e == d \o a.equals
<1>2. \A s, t \in S : s \o t \in S
    BY ConcatProperties
<1>3. /\ a.left \in S /\ a.right \in S /\ v \in S /\ a.before \in S /\ a.equals \in S
      /\ <<a.quote>> \in S /\ <<a.name>> \in S
    <2>1. a.left \in S /\ a.right \in S /\ a.before \in S /\ a.equals \in S
        BY <1>1, SignsAreSymbols
    <2>2. v \in S
        BY <1>1, ValueTyped
    <2>3. a.quote \in Symbols /\ a.name \in Symbols
        BY <1>1, SignsAreSymbols DEF Symbols
    <2> QED BY <2>1, <2>2, <2>3
<1>4. Inside(a) = b \o a.right
    BY DEF Inside
<1>5. AttributeText(a) = e \o q
    BY DEF AttributeText
<1> HIDE DEF S, v
<1>6. b \in S /\ Inside(a) \in S
    <2>1. b \in S
        BY <1>2, <1>3
    <2> HIDE DEF b
    <2> QED BY <1>2, <1>3, <1>4, <2>1
<1>7. q \in S
    <2>1. c \in S
        BY <1>2, <1>3, <1>6
    <2> HIDE DEF c
    <2> QED BY <1>2, <1>3, <2>1
<1>8. AttributeText(a) \in S
    <2>1. d \in S
        BY <1>2, <1>3
    <2> HIDE DEF d
    <2>2. e \in S
        BY <1>2, <1>3, <2>1
    <2> HIDE DEF e, q
    <2> QED BY <1>2, <1>5, <1>7, <2>2
<1> QED BY <1>3, <1>6, <1>7, <1>8 DEF S, v

(* The attributes of a tag, one after the other, and its text *)
Spelled(attributes) == [i \in DOMAIN attributes |-> AttributeText(attributes[i])]

LEMMA SpelledTyped ==
    ASSUME NEW attributes \in Seq(Attributes)
    PROVE  /\ Spelled(attributes) \in Seq(Seq(Symbols))
           /\ Len(Spelled(attributes)) = Len(attributes)
           /\ FlattenSeq(Spelled(attributes)) \in Seq(Symbols)
<1> DEFINE texts == Spelled(attributes)
           S     == Seq(Symbols)
<1>1. \A i \in DOMAIN attributes : attributes[i] \in Attributes
    BY ElementOfSeq
<1>2. \A i \in DOMAIN attributes : texts[i] \in S
    BY <1>1, AttributeTyped DEF Spelled
<1>3. texts = [i \in DOMAIN attributes |-> texts[i]]
    BY DEF Spelled
<1> HIDE DEF texts, S
<1>4. texts \in Seq(S) /\ Len(texts) = Len(attributes)
    BY <1>2, <1>3, Mapped
<1>5. FlattenSeq(texts) \in Seq(Symbols)
    BY <1>4, FlattenedTyped DEF S
<1> QED BY <1>4, <1>5 DEF texts, S

LEMMA TagTyped ==
    ASSUME NEW tag \in WrittenTags
    PROVE  /\ tag.attributes \in Seq(Attributes) /\ tag.gap \in Seq(Symbols)
           /\ tag.end \in Seq(Separators) /\ tag.end \in Seq(Symbols)
           /\ RawText(tag) \in Seq(Symbols) /\ TagText(tag) \in Seq(Symbols)
<1> DEFINE S == Seq(Symbols)
           f == FlattenSeq(Spelled(tag.attributes))
           b == <<"include">> \o f
           c == EsiOpen \o RawText(tag)
           d == c \o EsiEnd
<1>1. tag.attributes \in Seq(Attributes) /\ tag.gap \in Seq(STRING) /\ tag.end \in Seq(Separators)
    BY DEF WrittenTags
<1>2. \A s, t \in S : s \o t \in S
    BY ConcatProperties
<1>3. /\ f \in S /\ <<"include">> \in S /\ tag.end \in S /\ tag.gap \in S
      /\ EsiOpen \in S /\ EsiEnd \in S
    <2>1. STRING \subseteq Symbols
        BY DEF Symbols
    <2>2. tag.gap \in S
        BY <1>1, <2>1, SeqMonotonic
    <2> QED BY <1>1, <2>2, SpelledTyped, SignsAreSymbols, OpenMarks, EndMarks
<1>4. RawText(tag) = b \o tag.end /\ TagText(tag) = tag.gap \o d
    BY DEF RawText, TagText, Spelled
<1> HIDE DEF S, f
<1>5. RawText(tag) \in S
    <2>1. b \in S
        BY <1>2, <1>3
    <2> HIDE DEF b
    <2> QED BY <1>2, <1>3, <1>4, <2>1
<1>6. TagText(tag) \in S
    <2>1. c \in S
        BY <1>2, <1>3, <1>5
    <2> HIDE DEF c
    <2>2. d \in S
        BY <1>2, <1>3, <2>1
    <2> HIDE DEF d
    <2> QED BY <1>2, <1>3, <1>4, <2>2
<1> QED BY <1>1, <1>3, <1>5, <1>6 DEF S

(* The tags of a page, one after the other, and its text *)
Tagged(page) == [i \in DOMAIN page.tags |-> TagText(page.tags[i])]

LEMMA PageTyped ==
    ASSUME NEW page \in WrittenPages
    PROVE  /\ page.tags \in Seq(WrittenTags) /\ page.rest \in Seq(Symbols)
           /\ Tagged(page) \in Seq(Seq(Symbols)) /\ Len(Tagged(page)) = Len(page.tags)
           /\ FlattenSeq(Tagged(page)) \in Seq(Symbols)
           /\ PageText(page) = FlattenSeq(Tagged(page)) \o page.rest
           /\ PageText(page) \in Seq(Symbols)
<1> DEFINE texts == Tagged(page)
           tags2 == page.tags
           S     == Seq(Symbols)
<1>1. tags2 \in Seq(WrittenTags) /\ page.rest \in Seq(STRING)
    BY WrittenAssumption
<1>2. page.rest \in Seq(Symbols)
    <2>1. STRING \subseteq Symbols
        BY DEF Symbols
    <2> QED BY <1>1, <2>1, SeqMonotonic
<1>3. \A i \in DOMAIN tags2 : texts[i] \in S
    <2>1. \A i \in DOMAIN tags2 : tags2[i] \in WrittenTags
        BY <1>1, ElementOfSeq
    <2> QED BY <2>1, TagTyped DEF Tagged
<1>4. texts = [i \in DOMAIN tags2 |-> texts[i]]
    BY DEF Tagged
<1>5. PageText(page) = FlattenSeq(texts) \o page.rest
    BY DEF PageText, Tagged
<1> HIDE DEF texts, S, tags2
<1>6. texts \in Seq(S) /\ Len(texts) = Len(tags2)
    BY <1>1, <1>3, <1>4, Mapped
<1>7. FlattenSeq(texts) \in Seq(Symbols)
    BY <1>6, FlattenedTyped DEF S
<1>8. PageText(page) \in Seq(Symbols)
    BY <1>2, <1>5, <1>7, ConcatProperties
<1> QED BY <1>1, <1>2, <1>5, <1>6, <1>7, <1>8 DEF texts, S, tags2

-------------------------------------------------------------------------------
(* The reference: the tags of a page *)

LEMMA FirstIsIn ==
    ASSUME text \in Seq(Symbols), NEW pattern, NEW p \in Nat
    PROVE  /\ FirstAt(pattern, p) \in Nat /\ FirstAt(pattern, p) <= Len(text)
           /\ FirstAt(pattern, p) # Len(text) =>
                 p <= FirstAt(pattern, p) /\ IsAt(pattern, FirstAt(pattern, p))
<1> DEFINE at == {q \in p..Len(text) : IsAt(pattern, q)}
<1>0. Len(text) \in Nat
    OBVIOUS
<1>1. CASE at = {}
    BY <1>0, <1>1 DEF FirstAt
<1>2. CASE at # {}
    <2>1. at \in SUBSET Nat
        BY <1>0
    <2>2. \E q \in at : \A q2 \in at : q <= q2
        <3> HIDE DEF at
        <3> QED BY <1>2, <2>1, Least
    <2>3. FirstAt(pattern, p) = CHOOSE q \in at : \A q2 \in at : q <= q2
        BY <1>2 DEF FirstAt
    <2>4. FirstAt(pattern, p) \in at
        <3> HIDE DEF at
        <3> QED BY <2>2, <2>3
    <2> QED BY <1>0, <2>4
<1> QED BY <1>1, <1>2

LEMMA FirstIs ==
    ASSUME text \in Seq(Symbols), NEW pattern, NEW p \in Nat, NEW q \in p..Len(text),
           IsAt(pattern, q), \A r \in p..(q - 1) : ~IsAt(pattern, r)
    PROVE  FirstAt(pattern, p) = q
<1> DEFINE at == {r \in p..Len(text) : IsAt(pattern, r)}
<1>1. q \in at /\ q \in Nat
    OBVIOUS
<1>2. ASSUME NEW r \in at PROVE q <= r /\ r \in Nat
    <2>1. r \in p..Len(text) /\ IsAt(pattern, r)
        OBVIOUS
    <2>2. r \notin p..(q - 1)
        BY <2>1
    <2> QED BY <2>1, <2>2
<1>3. FirstAt(pattern, p) = CHOOSE r \in at : \A r2 \in at : r <= r2
    BY <1>1 DEF FirstAt
<1> HIDE DEF at
<1>4. PICK c \in at : c = FirstAt(pattern, p) /\ \A r2 \in at : c <= r2
    BY <1>1, <1>2, <1>3
<1>5. c <= q /\ q <= c /\ c \in Nat
    BY <1>1, <1>2, <1>4
<1> QED BY <1>1, <1>4, <1>5

LEMMA FirstIsNone ==
    ASSUME NEW pattern, NEW p \in Nat, \A r \in p..Len(text) : ~IsAt(pattern, r)
    PROVE  FirstAt(pattern, p) = Len(text)
<1>1. {r \in p..Len(text) : IsAt(pattern, r)} = {}
    OBVIOUS
<1> QED BY <1>1 DEF FirstAt

(* What does not occur before q is first at the same place from there on *)
LEMMA FirstIsLater ==
    ASSUME text \in Seq(Symbols), NEW pattern, NEW p \in Nat, NEW q \in p..Len(text),
           \A r \in p..(q - 1) : ~IsAt(pattern, r)
    PROVE  FirstAt(pattern, p) = FirstAt(pattern, q)
<1>1. \A r \in p..Len(text) : r \in q..Len(text) \/ r \in p..(q - 1)
    OBVIOUS
<1>2. \A r \in q..Len(text) : r \in p..Len(text)
    OBVIOUS
<1> DEFINE near == {r \in p..Len(text) : IsAt(pattern, r)}
           far  == {r \in q..Len(text) : IsAt(pattern, r)}
           First(at) == IF at = {} THEN Len(text) ELSE CHOOSE r \in at : \A r2 \in at : r <= r2
<1>3. near = far
    BY <1>1, <1>2
<1>4. FirstAt(pattern, p) = First(near) /\ FirstAt(pattern, q) = First(far)
    BY DEF FirstAt
<1> HIDE DEF near, far, First
<1> QED BY <1>3, <1>4

Places == 0..Len(text)
Entities == [start : Places, end : Places, raw : Seq(Symbols)]

LEMMA TagIsAhead ==
    ASSUME text \in Seq(Symbols), NEW p \in Places
    PROVE  \/ TagFrom(p) = <<>>
           \/ \E t \in Entities : TagFrom(p) = <<t>> /\ t.end > p
<1> DEFINE start == FirstAt(EsiOpen, p)
           close == FirstAt(EsiEnd, start + 5)
           raw   == SubSeq(text, start + 6, close)
           t     == [start |-> start, end |-> close + 2, raw |-> raw]
<1>0. Len(text) \in Nat /\ p \in Nat
    BY DEF Places
<1>1. start \in Nat /\ start <= Len(text) /\ (start # Len(text) => p <= start)
    BY <1>0, FirstIsIn
<1>2. TagFrom(p) = IF start = Len(text) \/ close = Len(text) THEN <<>> ELSE <<t>>
    <2>1. start + 5 + 1 = start + 6
        BY <1>1
    <2> QED BY <2>1, OpenMarks DEF TagFrom
<1> SUFFICES ASSUME start # Len(text), close # Len(text) PROVE t \in Entities /\ t.end > p
    BY <1>2
<1>3. /\ close \in Nat /\ close <= Len(text) /\ start + 5 <= close
      /\ IsAt(EsiEnd, close)
    <2> DEFINE from == start + 5
    <2>1. from \in Nat
        BY <1>1
    <2> HIDE DEF start, from
    <2> QED BY <2>1, FirstIsIn DEF from
<1> HIDE DEF start, close
<1>4. close + 2 <= Len(text)
    BY <1>3, EndMarks DEF IsAt
<1>5. raw \in Seq(Symbols)
    <2> DEFINE from == start + 5
    <2>1. from \in 0..Len(text) /\ close \in 0..Len(text) /\ from + 1 = start + 6
        BY <1>0, <1>1, <1>3
    <2>2. SubSeq(text, from + 1, close) \in Seq(Symbols)
        <3> HIDE DEF from
        <3> QED BY <2>1, Parts
    <2> QED BY <2>1, <2>2
<1> HIDE DEF raw
<1>6. close + 2 > p /\ close + 2 \in Places /\ start \in Places
    BY <1>0, <1>1, <1>3, <1>4 DEF Places
<1> QED BY <1>5, <1>6 DEF Entities

LEMMA SameTag ==
    ASSUME text \in Seq(Symbols), NEW p \in Places, NEW q \in p..Len(text),
           \A r \in p..(q - 1) : ~OpensAt(r, 5)
    PROVE  TagFrom(p) = TagFrom(q)
<1>1. p \in Nat /\ \A r \in p..(q - 1) : r \in 0..Len(text)
    BY DEF Places
<1>2. \A r \in p..(q - 1) : ~IsAt(EsiOpen, r)
    BY <1>1, IsOpening
<1>3. FirstAt(EsiOpen, p) = FirstAt(EsiOpen, q)
    BY <1>1, <1>2, FirstIsLater
<1> QED BY <1>3 DEF TagFrom

(* A tag that opens at p and closes at q *)
LEMMA TagIs ==
    ASSUME text \in Seq(Symbols), NEW p \in Places, OpensAt(p, 5),
           NEW q \in (p + 5)..Len(text), ClosesAt(q), \A r \in (p + 5)..(q - 1) : ~ClosesAt(r)
    PROVE  TagFrom(p) = <<[start |-> p, end |-> q + 2, raw |-> SubSeq(text, p + 6, q)]>>
<1>1. p \in Nat /\ p \in p..Len(text) /\ p..(p - 1) = {} /\ p \in 0..Len(text)
    BY DEF Places
<1>2. FirstAt(EsiOpen, p) = p
    <2>1. IsAt(EsiOpen, p) /\ \A r \in p..(p - 1) : ~IsAt(EsiOpen, r)
        BY <1>1, IsOpening
    <2> QED BY <1>1, <2>1, FirstIs
<1> DEFINE from == p + 5
<1>3. FirstAt(EsiEnd, from) = q
    <2>1. /\ from \in Nat /\ q \in from..Len(text) /\ q \in 0..Len(text)
          /\ \A r \in from..(q - 1) : r \in 0..Len(text) /\ ~ClosesAt(r)
        BY <1>1
    <2> HIDE DEF from
    <2>2. IsAt(EsiEnd, q) /\ \A r \in from..(q - 1) : ~IsAt(EsiEnd, r)
        BY <2>1, IsEnding
    <2> QED BY <2>1, <2>2, FirstIs
<1>4. p # Len(text) /\ q # Len(text) /\ p + 5 + 1 = p + 6
    BY <1>1 DEF OpensAt, ClosesAt
<1> QED BY <1>2, <1>3, <1>4, OpenMarks DEF TagFrom

(* A tag that opens and does not close *)
LEMMA TagIsOpen ==
    ASSUME text \in Seq(Symbols), NEW p \in Places, OpensAt(p, 5),
           \A r \in (p + 5)..Len(text) : ~ClosesAt(r)
    PROVE  TagFrom(p) = <<>>
<1>1. p \in Nat /\ p \in p..Len(text) /\ p..(p - 1) = {} /\ p \in 0..Len(text)
    BY DEF Places
<1>2. FirstAt(EsiOpen, p) = p
    <2>1. IsAt(EsiOpen, p) /\ \A r \in p..(p - 1) : ~IsAt(EsiOpen, r)
        BY <1>1, IsOpening
    <2> QED BY <1>1, <2>1, FirstIs
<1> DEFINE from == p + 5
<1>3. FirstAt(EsiEnd, from) = Len(text)
    <2>1. from \in Nat /\ \A r \in from..Len(text) : r \in 0..Len(text) /\ ~ClosesAt(r)
        BY <1>1
    <2> HIDE DEF from
    <2>2. \A r \in from..Len(text) : ~IsAt(EsiEnd, r)
        BY <2>1, IsEnding
    <2> QED BY <2>1, <2>2, FirstIsNone
<1> QED BY <1>2, <1>3, OpenMarks DEF TagFrom

LEMMA NoTag ==
    ASSUME text \in Seq(Symbols), NEW p \in Places, \A r \in p..Len(text) : ~OpensAt(r, 5)
    PROVE  TagFrom(p) = <<>>
<1>1. p \in Nat /\ \A r \in p..Len(text) : r \in 0..Len(text)
    BY DEF Places
<1>2. \A r \in p..Len(text) : ~IsAt(EsiOpen, r)
    BY <1>1, IsOpening
<1>3. FirstAt(EsiOpen, p) = Len(text)
    BY <1>1, <1>2, FirstIsNone
<1> QED BY <1>3 DEF TagFrom

(* The tags of the page from every position on.  From[n] are those in the *)
(* last n bytes, as in TagsOfPage                                          *)
TagsIn(From, n) ==
    LET first == TagFrom(Len(text) - n)
    IN  IF first = <<>> THEN <<>> ELSE first \o From[Len(text) - first[1].end]
IsRest(From) == From = [n \in 0..Len(text) |-> TagsIn(From, n)]
Rest         == CHOOSE From : IsRest(From)
TagsAfter(p) == Rest[Len(text) - p]

LEMMA TagsFromEarlier ==
    ASSUME text \in Seq(Symbols), NEW i \in 0..Len(text)
    PROVE  \/ \A g : TagsIn(g, i) = <<>>
           \/ \E t \in Entities : \E k \in 0..(i - 1) : \A g : TagsIn(g, i) = <<t>> \o g[k]
<1> DEFINE n == Len(text)
<1>0. n \in Nat
    OBVIOUS
<1> DEFINE p == n - i
<1>1. p \in Places
    BY <1>0 DEF Places
<1>2. CASE TagFrom(p) = <<>>
    BY <1>2 DEF TagsIn
<1>3. CASE \E t \in Entities : TagFrom(p) = <<t>> /\ t.end > p
    <2>1. PICK t \in Entities : TagFrom(p) = <<t>> /\ t.end > p
        BY <1>3
    <2>2. t.end \in Places
        BY DEF Entities
    <2> DEFINE e == t.end
    <2>3. n - e \in 0..(i - 1)
        <3> e \in Places /\ e > p
            BY <2>1, <2>2
        <3> HIDE DEF e
        <3> QED BY <1>0 DEF Places
    <2>4. \A g : TagsIn(g, i) = <<t>> \o g[n - e]
        <3>1. TagFrom(Len(text) - i) = <<t>> /\ <<t>> # <<>> /\ <<t>>[1].end = e
            BY <2>1
        <3> QED BY <3>1 DEF TagsIn
    <2> QED BY <2>3, <2>4
<1> HIDE DEF p
<1> QED BY <1>1, <1>2, <1>3, TagIsAhead

LEMMA TagsTyped ==
    ASSUME text \in Seq(Symbols), NEW i \in 0..Len(text), NEW g,
           \A k \in 0..(i - 1) : g[k] \in Seq(Entities)
    PROVE  TagsIn(g, i) \in Seq(Entities)
<1>1. CASE TagsIn(g, i) = <<>>
    BY <1>1
<1>2. ASSUME NEW t \in Entities, NEW k \in 0..(i - 1), TagsIn(g, i) = <<t>> \o g[k]
      PROVE  TagsIn(g, i) \in Seq(Entities)
    <2>1. <<t>> \in Seq(Entities) /\ g[k] \in Seq(Entities)
        OBVIOUS
    <2> QED BY <1>2, <2>1, ConcatProperties
<1> QED BY <1>1, <1>2, TagsFromEarlier

LEMMA RestExists ==
    ASSUME text \in Seq(Symbols)
    PROVE  \E From : IsRest(From)
<1> DEFINE n    == Len(text)
           S    == Seq(Entities)
           next == [i \in 0..n |-> [g \in [0..(i - 1) -> S] |-> TagsIn(g, i)]]
<1>0. n \in Nat
    OBVIOUS
<1>1. ASSUME NEW i \in 0..n
      PROVE  \/ \A g : TagsIn(g, i) = <<>>
             \/ \E t \in Entities : \E k \in 0..(i - 1) :
                   \A g : TagsIn(g, i) = <<t>> \o g[k]
    BY TagsFromEarlier
<1>2. ASSUME NEW i \in 0..n, NEW g \in [0..(i - 1) -> S]
      PROVE  TagsIn(g, i) \in S
    BY TagsTyped
<1>3. ASSUME NEW i \in 0..n, NEW g \in [0..(i - 1) -> S]
      PROVE  next[i][g] = TagsIn(g, i) /\ next[i][g] \in S
    BY <1>2
<1> HIDE DEF next
<1>4. PICK f \in [0..n -> S] : Follows(f, next, n)
    <2>1. \A i \in 0..n : \A g \in [0..(i - 1) -> S] : next[i][g] \in S
        BY <1>3
    <2> HIDE DEF n, S
    <2> QED BY <1>0, <2>1, CourseOfValues
<1>5. ASSUME NEW i \in 0..n PROVE f[i] = TagsIn(f, i)
    <2> DEFINE g == [j \in 0..(i - 1) |-> f[j]]
    <2>1. g \in [0..(i - 1) -> S]
        <3>1. \A j \in 0..(i - 1) : j \in 0..n
            BY <1>0
        <3> QED BY <3>1
    <2>2. f[i] = TagsIn(g, i)
        <3>1. f[i] = next[i][g]
            BY <1>4 DEF Follows
        <3> HIDE DEF g
        <3> QED BY <1>3, <2>1, <3>1
    <2>3. TagsIn(g, i) = TagsIn(f, i)
        <3>1. CASE \A h : TagsIn(h, i) = <<>>
            BY <3>1
        <3>2. ASSUME NEW t \in Entities, NEW k \in 0..(i - 1),
                     \A h : TagsIn(h, i) = <<t>> \o h[k]
              PROVE  TagsIn(g, i) = TagsIn(f, i)
            <4>1. g[k] = f[k]
                OBVIOUS
            <4> HIDE DEF g
            <4> QED BY <3>2, <4>1
        <3> HIDE DEF g
        <3> QED BY <1>1, <3>1, <3>2
    <2> QED BY <2>2, <2>3
<1>6. IsRest(f)
    BY <1>4, <1>5 DEF IsRest
<1> QED BY <1>4, <1>6

LEMMA RestIs ==
    ASSUME text \in Seq(Symbols), NEW p \in Places
    PROVE  /\ TagsAfter(p) \in Seq(Entities)
           /\ TagsAfter(p) = IF TagFrom(p) = <<>> THEN <<>>
                             ELSE TagFrom(p) \o TagsAfter(TagFrom(p)[1].end)
           /\ TagsOfPage = TagsAfter(0)
<1>0. Len(text) \in Nat /\ Len(text) - p \in 0..Len(text) /\ Len(text) - (Len(text) - p) = p
    BY DEF Places
<1>1. IsRest(Rest)
    BY RestExists DEF Rest
<1>2. \A n \in 0..Len(text) : Rest[n] = TagsIn(Rest, n)
    BY <1>1 DEF IsRest
<1>3. TagsAfter(p) = IF TagFrom(p) = <<>> THEN <<>>
                     ELSE TagFrom(p) \o TagsAfter(TagFrom(p)[1].end)
    BY <1>0, <1>2 DEF TagsIn, TagsAfter
<1>4. TagsOfPage = TagsAfter(0)
    <2>1. Len(text) - 0 = Len(text)
        BY <1>0
    <2> QED BY <2>1 DEF TagsOfPage, TagsAfter, Rest, IsRest, TagsIn
<1> DEFINE S == {n \in 0..Len(text) : \A k \in 0..n : Rest[k] \in Seq(Entities)}
<1>5. 0 \in S
    <2>1. \A k \in 0..(0 - 1) : Rest[k] \in Seq(Entities)
        OBVIOUS
    <2>2. TagsIn(Rest, 0) \in Seq(Entities) /\ 0 \in 0..Len(text)
        BY <1>0, <2>1, TagsTyped
    <2> QED BY <1>2, <2>2
<1>6. ASSUME NEW i \in (0 + 1)..Len(text), i - 1 \in S PROVE i \in S
    <2>1. i \in 0..Len(text) /\ \A k \in 0..(i - 1) : Rest[k] \in Seq(Entities)
        BY <1>0, <1>6
    <2>2. TagsIn(Rest, i) \in Seq(Entities)
        BY <2>1, TagsTyped
    <2>3. \A k \in 0..i : k = i \/ k \in 0..(i - 1)
        BY <2>1
    <2> QED BY <1>2, <2>1, <2>2, <2>3
<1>7. Len(text) - p \in S
    <2>1. 0 \in Int /\ Len(text) \in Int
        BY <1>0
    <2> HIDE DEF S
    <2> QED BY <1>0, <1>5, <1>6, <2>1, Induction
<1>8. TagsAfter(p) \in Seq(Entities)
    BY <1>0, <1>7 DEF TagsAfter
<1> QED BY <1>3, <1>4, <1>8

(* Where no tag opens, the tags that follow are the same *)
LEMMA SameTags ==
    ASSUME text \in Seq(Symbols), NEW p \in Places, NEW q \in p..Len(text),
           \A r \in p..(q - 1) : ~OpensAt(r, 5)
    PROVE  TagsAfter(p) = TagsAfter(q)
<1>1. q \in Places
    BY DEF Places
<1>2. TagFrom(p) = TagFrom(q)
    BY SameTag
<1> QED BY <1>1, <1>2, RestIs

-------------------------------------------------------------------------------
(* The finder between two bytes *)

Finders == [tagState : TagStates, n : Places, begin : Places, end : Places, buf : Seq(Symbols)]

(* How many bytes of <esi: it has seen *)
Seen == [tag |-> 1, tagE |-> 2, tagES |-> 3, tagESI |-> 4]

(* It is in a tag, and keeps what has followed <esi: *)
InTag(f) == /\ OpensAt(f.begin, 5) /\ f.begin + 5 <= f.n
            /\ Len(f.buf) = f.n - f.begin - 5
            /\ \A i \in 1..Len(f.buf) : f.buf[i] = text[f.begin + 5 + i]

FinderOK(f) ==
    /\ f \in Finders /\ Range(f.buf) \subseteq Range(text)
    /\ f.tagState \in DOMAIN Opening =>
          f.n = f.begin + Seen[f.tagState] /\ OpensAt(f.begin, Seen[f.tagState])
    /\ f.tagState \in {"data", "slash"} => InTag(f)
    /\ f.tagState = "slash" => f.begin + 6 <= f.n /\ text[f.n] = "/"

(* The byte up to which it is done with the page *)
Base(f) == IF f.tagState \in {"start", "found"} THEN f.n ELSE f.begin

(* The > of the last tag is scanned again *)
Behind(f, tagsFound) ==
    \A i \in DOMAIN tagsFound :
       \/ tagsFound[i].end <= Base(f)
       \/ f.tagState = "found" /\ tagsFound[i].end = f.n + 1 /\ text[f.n + 1] = ">"

FoundOK(tagsFound) ==
    /\ tagsFound \in Seq(Entities)
    /\ \A i \in DOMAIN tagsFound :
          SubSeq(text, tagsFound[i].start + 1, tagsFound[i].end) =
             EsiOpen \o tagsFound[i].raw \o EsiEnd
    /\ \A i \in 2..Len(tagsFound) : tagsFound[i - 1].end <= tagsFound[i].start

(* Unless it stumbles, what it has found and the tags that follow are the  *)
(* tags of the page, and it has passed no end of the tag that it is in     *)
NothingMissed(f, tagsFound) == ~Stumbles =>
    /\ tagsFound \o TagsAfter(Base(f)) = TagsOfPage
    /\ f.tagState = "data" => \A q \in (f.begin + 5)..(f.n - 1) : ~ClosesAt(q)
    /\ f.tagState = "slash" => \A q \in (f.begin + 5)..(f.n - 2) : ~ClosesAt(q)

Scanning(f, tagsFound) == /\ FinderOK(f) /\ FoundOK(tagsFound)
                          /\ Behind(f, tagsFound) /\ NothingMissed(f, tagsFound)

(* It is at the > of a tag that is not among the entities yet *)
Closing(f, tagsFound) ==
    /\ f \in Finders /\ Range(f.buf) \subseteq Range(text)
    /\ f.tagState = "found" /\ InTag(f) /\ f.begin + 6 <= f.n /\ f.end = f.n + 1
    /\ text[f.n] = "/" /\ text[f.n + 1] = ">"
    /\ FoundOK(tagsFound) /\ \A i \in DOMAIN tagsFound : tagsFound[i].end <= f.begin
    /\ ~Stumbles => /\ tagsFound \o TagsAfter(f.begin) = TagsOfPage
                    /\ \A q \in (f.begin + 5)..(f.n - 2) : ~ClosesAt(q)

LEMMA OpeningStates ==
    /\ DOMAIN Opening = {"tag", "tagE", "tagES", "tagESI"}
    /\ Opening["tag"] = [byte |-> "e", next |-> "tagE"]
    /\ Opening["tagE"] = [byte |-> "s", next |-> "tagES"]
    /\ Opening["tagES"] = [byte |-> "i", next |-> "tagESI"]
    /\ Opening["tagESI"] = [byte |-> ":", next |-> "data"]
BY DEF Opening

LEMMA FoundEntity ==
    ASSUME NEW tagsFound, FoundOK(tagsFound), NEW i \in DOMAIN tagsFound
    PROVE  tagsFound[i] \in Entities /\ tagsFound[i].end \in Places
<1>1. tagsFound \in Seq(Entities) /\ i \in 1..Len(tagsFound)
    BY DEF FoundOK
<1>2. tagsFound[i] \in Entities
    BY <1>1, ElementOfSeq
<1> QED BY <1>2 DEF Entities

LEMMA ScanIdle ==
    ASSUME text \in Seq(Symbols), NEW f, NEW tagsFound, Scanning(f, tagsFound),
           f.tagState \in {"start", "found"}, f.n < Len(text)
    PROVE  Scanning(Scan(f, text[f.n + 1]), tagsFound) /\ Scan(f, text[f.n + 1]).n = f.n + 1
<1> DEFINE b == text[f.n + 1]
           g == Scan(f, b)
<1>0. /\ f \in Finders /\ f.n \in Nat /\ Len(text) \in Nat /\ f.n \in Places
      /\ f.n + 1 \in Places
    BY DEF Scanning, FinderOK, Finders, Places
<1>1. /\ g \in Finders /\ g.n = f.n + 1 /\ g.buf = f.buf
      /\ b = "<" => g.tagState = "tag" /\ g.begin = f.n
      /\ b # "<" => g.tagState = f.tagState /\ g.begin = f.begin
    <2>1. CASE b = "<"
        <3>1. g = [[f EXCEPT !.tagState = "tag", !.begin = f.n] EXCEPT !.n = @ + 1]
            BY <2>1, OpeningStates DEF Scan, Change, EndsTag
        <3> HIDE DEF g, b
        <3> QED BY <1>0, <2>1, <3>1 DEF Finders, TagStates
    <2>2. CASE b # "<"
        <3>1. g = [f EXCEPT !.n = @ + 1]
            BY <2>2, OpeningStates DEF Scan, Change, EndsTag
        <3> HIDE DEF g, b
        <3> QED BY <1>0, <2>2, <3>1 DEF Finders, TagStates
    <2> QED BY <2>1, <2>2
<1> HIDE DEF g
<1>2. FinderOK(g)
    <2>1. Range(g.buf) \subseteq Range(text)
        BY <1>1 DEF Scanning, FinderOK
    <2>2. g.tagState = "tag" => g.n = g.begin + Seen["tag"] /\ OpensAt(g.begin, Seen["tag"])
        BY <1>0, <1>1 DEF Seen, OpensAt
    <2>3. g.tagState \in {"start", "found", "tag"}
        BY <1>1
    <2> QED BY <1>1, <2>1, <2>2, <2>3 DEF FinderOK, Opening
<1>3. Behind(g, tagsFound)
    <2> SUFFICES ASSUME NEW i \in DOMAIN tagsFound PROVE tagsFound[i].end <= Base(g)
        BY DEF Behind
    <2>1. \/ tagsFound[i].end <= f.n
          \/ tagsFound[i].end = f.n + 1 /\ b = ">"
        BY DEF Scanning, Behind, Base
    <2>2. tagsFound[i].end \in Nat
        BY FoundEntity DEF Scanning, Places
    <2>3. Base(g) = IF b = "<" THEN f.n ELSE f.n + 1
        BY <1>1 DEF Base
    <2> HIDE DEF b
    <2> QED BY <1>0, <2>1, <2>2, <2>3
<1>4. NothingMissed(g, tagsFound)
    <2> SUFFICES ASSUME ~Stumbles PROVE tagsFound \o TagsAfter(Base(g)) = TagsOfPage
        BY <1>1 DEF NothingMissed
    <2>1. tagsFound \o TagsAfter(f.n) = TagsOfPage
        BY DEF Scanning, NothingMissed, Base
    <2>2. CASE b = "<"
        BY <1>1, <2>1, <2>2 DEF Base
    <2>3. CASE b # "<"
        <3>1. Base(g) = f.n + 1
            BY <1>1, <2>3 DEF Base
        <3> DEFINE p == f.n
                   q == f.n + 1
        <3>2. \A r \in p..(q - 1) : ~OpensAt(r, 5)
            <4>1. \A r \in p..(q - 1) : r = p
                BY <1>0
            <4> QED BY <2>3, <4>1 DEF OpensAt
        <3>3. TagsAfter(p) = TagsAfter(q)
            <4>1. p \in Places /\ q \in p..Len(text)
                BY <1>0
            <4> HIDE DEF p, q
            <4> QED BY <3>2, <4>1, SameTags
        <3> QED BY <2>1, <3>1, <3>3
    <2> QED BY <2>2, <2>3
<1> QED BY <1>1, <1>2, <1>3, <1>4 DEF Scanning, g

(* A byte that does not fit ends the opening *)
LEMMA GivesUp ==
    ASSUME text \in Seq(Symbols), NEW f, NEW tagsFound, Scanning(f, tagsFound),
           f.tagState \in DOMAIN Opening, f.n < Len(text),
           text[f.n + 1] # Opening[f.tagState].byte
    PROVE  Scanning(Scan(f, text[f.n + 1]), tagsFound) /\ Scan(f, text[f.n + 1]).n = f.n + 1
<1> DEFINE b == text[f.n + 1]
           g == Scan(f, b)
           k == Seen[f.tagState]
<1>0. /\ f \in Finders /\ f.n \in Nat /\ Len(text) \in Nat /\ f.n \in Places
      /\ f.begin \in Nat /\ f.begin \in Places /\ f.n + 1 \in Places
    BY DEF Scanning, FinderOK, Finders, Places
<1>1. /\ g \in Finders /\ g.n = f.n + 1 /\ g.buf = f.buf
      /\ g.tagState = "start" /\ g.begin = f.begin
    <2>1. g = [[f EXCEPT !.tagState = "start"] EXCEPT !.n = @ + 1]
        BY OpeningStates DEF Scan, Change, EndsTag
    <2> HIDE DEF g, b
    <2> QED BY <1>0, <2>1 DEF Finders, TagStates
<1>2. /\ k \in 1..4 /\ f.n = f.begin + k /\ OpensAt(f.begin, k)
      /\ k = 1 => b # "e"
      /\ k = 2 => b # "s"
      /\ k = 3 => b # "i"
      /\ k = 4 => b # ":"
    <2>1. f.n = f.begin + k /\ OpensAt(f.begin, k)
        BY DEF Scanning, FinderOK
    <2>2. \/ f.tagState = "tag" /\ k = 1 /\ b # "e"
          \/ f.tagState = "tagE" /\ k = 2 /\ b # "s"
          \/ f.tagState = "tagES" /\ k = 3 /\ b # "i"
          \/ f.tagState = "tagESI" /\ k = 4 /\ b # ":"
        BY OpeningStates DEF Seen
    <2> HIDE DEF b, k
    <2> QED BY <2>1, <2>2
<1>3. Base(g) = f.n + 1 /\ Base(f) = f.begin /\ f.tagState # "found"
    BY <1>1, OpeningStates DEF Base
<1> HIDE DEF g, k
<1>4. FinderOK(g)
    BY <1>1, OpeningStates DEF Scanning, FinderOK
<1>5. Behind(g, tagsFound)
    <2> SUFFICES ASSUME NEW i \in DOMAIN tagsFound PROVE tagsFound[i].end <= Base(g)
        BY DEF Behind
    <2>1. tagsFound[i].end <= f.begin
        BY <1>3 DEF Scanning, Behind
    <2>2. tagsFound[i].end \in Nat
        BY FoundEntity DEF Scanning, Places
    <2> QED BY <1>0, <1>2, <1>3, <2>1, <2>2
<1>6. NothingMissed(g, tagsFound)
    <2> SUFFICES ASSUME ~Stumbles PROVE tagsFound \o TagsAfter(f.n + 1) = TagsOfPage
        BY <1>1, <1>3 DEF NothingMissed
    <2>1. tagsFound \o TagsAfter(f.begin) = TagsOfPage
        BY <1>3 DEF Scanning, NothingMissed
    <2> DEFINE p == f.begin
               q == f.n + 1
    <2>2. ASSUME NEW r \in p..(q - 1), OpensAt(r, 5) PROVE FALSE
        <3>1. r = p \/ r = p + k \/ r \in (p + 1)..(p + k - 1)
            BY <1>0, <1>2
        <3>2. CASE r = p
            <4>1. text[p + 2] = "e" /\ text[p + 3] = "s" /\ text[p + 4] = "i" /\ text[p + 5] = ":"
                BY <2>2, <3>2 DEF OpensAt
            <4>2. \/ k = 1 /\ f.n + 1 = p + 2
                  \/ k = 2 /\ f.n + 1 = p + 3
                  \/ k = 3 /\ f.n + 1 = p + 4
                  \/ k = 4 /\ f.n + 1 = p + 5
                BY <1>0, <1>2, SMTT(30)
            <4> HIDE DEF p
            <4> QED BY <1>2, <4>1, <4>2
        <3>3. CASE r = p + k
            <4>1. p \in 0..Len(text)
                BY <1>0
            <4> HIDE DEF p
            <4> QED BY <1>2, <2>2, <3>3, <4>1, NoStumbling DEF p
        <3>4. CASE r \in (p + 1)..(p + k - 1)
            <4>1. (r = p + 1 /\ k >= 2) \/ (r = p + 2 /\ k >= 3) \/ (r = p + 3 /\ k >= 4)
                <5>1. k = 1 \/ k = 2 \/ k = 3 \/ k = 4
                    BY <1>2
                <5>2. p \in Nat /\ r \in Int /\ p + 1 <= r /\ r <= p + k - 1
                    BY <1>0, <1>2, <3>4
                <5> HIDE DEF p
                <5>3. CASE k = 1
                    BY <5>2, <5>3
                <5>4. CASE k = 2
                    BY <5>2, <5>4
                <5>5. CASE k = 3
                    BY <5>2, <5>5
                <5>6. CASE k = 4
                    BY <5>2, <5>6
                <5> QED BY <5>1, <5>3, <5>4, <5>5, <5>6
            <4>2. text[r + 1] = "<"
                BY <2>2 DEF OpensAt
            <4>3. k >= 2 => text[p + 2] = "e"
                BY <1>2 DEF OpensAt
            <4>4. k >= 3 => text[p + 3] = "s"
                BY <1>2 DEF OpensAt
            <4>5. k >= 4 => text[p + 4] = "i"
                BY <1>2 DEF OpensAt
            <4>6. p + 1 + 1 = p + 2 /\ p + 2 + 1 = p + 3 /\ p + 3 + 1 = p + 4
                BY <1>0
            <4> HIDE DEF p
            <4> QED BY <4>1, <4>2, <4>3, <4>4, <4>5, <4>6
        <3> QED BY <3>1, <3>2, <3>3, <3>4
    <2>3. TagsAfter(p) = TagsAfter(q)
        <3>1. p \in Places /\ q \in p..Len(text)
            BY <1>0, <1>2
        <3> HIDE DEF p, q
        <3> QED BY <2>2, <3>1, SameTags
    <2> QED BY <2>1, <2>3
<1> QED BY <1>1, <1>4, <1>5, <1>6 DEF Scanning, g

(* A byte that fits *)
LEMMA GoesOn ==
    ASSUME text \in Seq(Symbols), NEW f, NEW tagsFound, Scanning(f, tagsFound),
           f.tagState \in DOMAIN Opening, f.n < Len(text),
           text[f.n + 1] = Opening[f.tagState].byte
    PROVE  Scanning(Scan(f, text[f.n + 1]), tagsFound) /\ Scan(f, text[f.n + 1]).n = f.n + 1
<1> DEFINE b == text[f.n + 1]
           g == Scan(f, b)
           k == Seen[f.tagState]
<1>0. /\ f \in Finders /\ f.n \in Nat /\ Len(text) \in Nat /\ f.n \in Places
      /\ f.begin \in Nat /\ f.begin \in Places /\ f.n + 1 \in Places
    BY DEF Scanning, FinderOK, Finders, Places
<1>1. /\ g \in Finders /\ g.n = f.n + 1 /\ g.begin = f.begin
      /\ g.tagState = Opening[f.tagState].next
      /\ g.buf = IF g.tagState = "data" THEN <<>> ELSE f.buf
    <2>1. g = [[f EXCEPT !.tagState = Opening[f.tagState].next,
                         !.buf = IF b = ":" THEN <<>> ELSE @] EXCEPT !.n = @ + 1]
        BY OpeningStates DEF Scan, Change, EndsTag
    <2>2. (b = ":" <=> Opening[f.tagState].next = "data") /\ Opening[f.tagState].next \in TagStates
        BY OpeningStates DEF TagStates
    <2> DEFINE state == Opening[f.tagState].next
               buf   == IF b = ":" THEN <<>> ELSE f.buf
               h     == [f EXCEPT !.tagState = state, !.buf = buf]
    <2>3. buf \in Seq(Symbols) /\ state \in TagStates
        BY <1>0, <2>2 DEF Finders
    <2>4. buf = IF state = "data" THEN <<>> ELSE f.buf
        BY <2>2
    <2>5. g = [h EXCEPT !.n = @ + 1]
        BY <2>1
    <2> HIDE DEF g, state, buf
    <2>6. h \in Finders /\ h.n = f.n /\ h.begin = f.begin /\ h.tagState = state /\ h.buf = buf
        BY <1>0, <2>3 DEF Finders
    <2> HIDE DEF h
    <2>7. g \in Finders /\ g.n = f.n + 1 /\ g.begin = f.begin /\ g.tagState = state /\ g.buf = buf
        BY <1>0, <2>5, <2>6 DEF Finders
    <2> QED BY <2>4, <2>7 DEF state
<1>2. /\ k \in 1..4 /\ f.n = f.begin + k /\ OpensAt(f.begin, k)
      /\ \/ k = 1 /\ b = "e" /\ g.tagState = "tagE"
         \/ k = 2 /\ b = "s" /\ g.tagState = "tagES"
         \/ k = 3 /\ b = "i" /\ g.tagState = "tagESI"
         \/ k = 4 /\ b = ":" /\ g.tagState = "data"
    <2>1. f.n = f.begin + k /\ OpensAt(f.begin, k)
        BY DEF Scanning, FinderOK
    <2> HIDE DEF g
    <2>2. \/ f.tagState = "tag" /\ k = 1 /\ b = "e" /\ g.tagState = "tagE"
          \/ f.tagState = "tagE" /\ k = 2 /\ b = "s" /\ g.tagState = "tagES"
          \/ f.tagState = "tagES" /\ k = 3 /\ b = "i" /\ g.tagState = "tagESI"
          \/ f.tagState = "tagESI" /\ k = 4 /\ b = ":" /\ g.tagState = "data"
        BY <1>1, OpeningStates DEF Seen
    <2> HIDE DEF b, k
    <2> QED BY <2>1, <2>2
<1> HIDE DEF g
<1>3. Base(g) = f.begin /\ Base(f) = f.begin /\ f.tagState # "found"
    BY <1>1, <1>2, OpeningStates DEF Base
<1> HIDE DEF k
<1>4. OpensAt(f.begin, k + 1)
    <2>1. f.begin + (k + 1) <= Len(text) /\ b = text[f.begin + k + 1]
        BY <1>0, <1>2
    <2> HIDE DEF b
    <2>2. CASE k = 1 /\ b = "e"
        BY <1>0, <1>2, <2>1, <2>2 DEF OpensAt
    <2>3. CASE k = 2 /\ b = "s"
        BY <1>0, <1>2, <2>1, <2>3 DEF OpensAt
    <2>4. CASE k = 3 /\ b = "i"
        BY <1>0, <1>2, <2>1, <2>4 DEF OpensAt
    <2>5. CASE k = 4 /\ b = ":"
        BY <1>0, <1>2, <2>1, <2>5 DEF OpensAt
    <2> QED BY <1>2, <2>2, <2>3, <2>4, <2>5
<1>5. FinderOK(g)
    <2>1. Range(g.buf) \subseteq Range(text)
        <3>1. Range(<<>>) = {}
            BY DEF Range
        <3> QED BY <1>1, <3>1 DEF Scanning, FinderOK
    <2>2. CASE k = 4
        <3>1. g.tagState = "data" /\ g.buf = <<>>
            BY <1>1, <1>2, <2>2
        <3>2. g.n = g.begin + 5 /\ OpensAt(g.begin, 5)
            BY <1>0, <1>1, <1>2, <1>4, <2>2
        <3>3. InTag(g)
            <4>1. Len(g.buf) = 0 /\ g.begin \in Nat
                BY <1>0, <1>1, <3>1
            <4> QED BY <3>2, <4>1 DEF InTag
        <3> QED BY <1>1, <2>1, <3>1, <3>3, OpeningStates DEF FinderOK
    <2>3. CASE k # 4
        <3>1. g.tagState \in DOMAIN Opening /\ Seen[g.tagState] = k + 1
            BY <1>2, <2>3, OpeningStates DEF Seen
        <3>2. g.n = g.begin + (k + 1)
            BY <1>0, <1>1, <1>2
        <3>3. g.tagState \notin {"data", "slash"}
            BY <1>2, <2>3
        <3> QED BY <1>1, <1>4, <2>1, <3>1, <3>2, <3>3 DEF FinderOK
    <2> QED BY <2>2, <2>3
<1>6. Behind(g, tagsFound)
    BY <1>3 DEF Scanning, Behind
<1>7. NothingMissed(g, tagsFound)
    <2>1. g.tagState = "data" => (g.begin + 5)..(g.n - 1) = {}
        BY <1>0, <1>1, <1>2
    <2>2. g.tagState # "slash"
        BY <1>2
    <2> QED BY <1>3, <2>1, <2>2 DEF Scanning, NothingMissed
<1> QED BY <1>1, <1>5, <1>6, <1>7 DEF Scanning, g

(* A byte that goes to the buffer *)
LEMMA Collects ==
    ASSUME text \in Seq(Symbols), NEW f, f \in Finders, Range(f.buf) \subseteq Range(text),
           InTag(f), f.n < Len(text)
    PROVE  LET buf == Append(f.buf, text[f.n + 1])
           IN  /\ buf \in Seq(Symbols) /\ Range(buf) \subseteq Range(text)
               /\ Len(buf) = f.n - f.begin - 4
               /\ \A i \in 1..Len(buf) : buf[i] = text[f.begin + 5 + i]
<1> DEFINE b   == text[f.n + 1]
           buf == Append(f.buf, b)
           m   == Len(f.buf)
<1>0. /\ f.n \in Nat /\ f.begin \in Nat /\ Len(text) \in Nat /\ f.buf \in Seq(Symbols)
      /\ f.n + 1 \in 1..Len(text)
    BY DEF Finders, Places
<1>1. b \in Symbols /\ b \in Range(text)
    BY <1>0, ElementOfSeq DEF Range
<1>2. m \in Nat /\ m = f.n - f.begin - 5 /\ \A i \in 1..m : f.buf[i] = text[f.begin + 5 + i]
    BY <1>0 DEF InTag
<1> HIDE DEF b
<1>3. /\ buf \in Seq(Symbols) /\ Len(buf) = m + 1 /\ buf[m + 1] = b
      /\ \A i \in 1..m : buf[i] = f.buf[i]
    BY <1>0, <1>1, AppendProperties
<1> HIDE DEF buf, m
<1>4. Range(buf) \subseteq Range(text)
    <2>1. ASSUME NEW i \in 1..(m + 1) PROVE buf[i] \in Range(text)
        <3>1. CASE i = m + 1
            BY <1>1, <1>3, <3>1
        <3>2. CASE i # m + 1
            <4>1. i \in 1..m
                BY <1>2, <3>2
            <4>2. f.buf[i] \in Range(f.buf)
                BY <1>0, <4>1 DEF m, Range
            <4> QED BY <1>3, <4>1, <4>2
        <3> QED BY <3>1, <3>2
    <2>2. DOMAIN buf = 1..(m + 1)
        BY <1>3
    <2> QED BY <2>1, <2>2 DEF Range
<1>5. ASSUME NEW i \in 1..(m + 1) PROVE buf[i] = text[f.begin + 5 + i]
    <2>1. CASE i = m + 1
        <3>1. f.begin + 5 + i = f.n + 1
            BY <1>0, <1>2, <2>1, SMTT(30)
        <3> QED BY <1>3, <2>1, <3>1 DEF b
    <2>2. CASE i # m + 1
        <3>1. i \in 1..m
            BY <1>2, <2>2
        <3> QED BY <1>2, <1>3, <3>1
    <2> QED BY <2>1, <2>2
<1>6. Len(buf) = f.n - f.begin - 4
    BY <1>0, <1>2, <1>3
<1> QED BY <1>3, <1>4, <1>5, <1>6 DEF buf, b

LEMMA StaysInTag ==
    ASSUME text \in Seq(Symbols), NEW f, NEW tagsFound, Scanning(f, tagsFound),
           f.tagState \in {"data", "slash"}, f.n < Len(text), ~EndsTag(f, text[f.n + 1])
    PROVE  Scanning(Scan(f, text[f.n + 1]), tagsFound) /\ Scan(f, text[f.n + 1]).n = f.n + 1
<1> DEFINE b     == text[f.n + 1]
           g     == Scan(f, b)
           buf   == Append(f.buf, b)
           state == IF f.tagState = "data" /\ b = "/" THEN "slash" ELSE "data"
<1>0. /\ f \in Finders /\ f.n \in Nat /\ Len(text) \in Nat /\ f.n \in Places
      /\ f.begin \in Nat /\ f.begin \in Places /\ f.n + 1 \in Places
      /\ f.tagState = "slash" => b # ">"
    BY DEF Scanning, FinderOK, Finders, Places, EndsTag
<1>1. /\ buf \in Seq(Symbols) /\ Range(buf) \subseteq Range(text)
      /\ Len(buf) = f.n - f.begin - 4
      /\ \A i \in 1..Len(buf) : buf[i] = text[f.begin + 5 + i]
    <2>1. InTag(f) /\ Range(f.buf) \subseteq Range(text)
        BY DEF Scanning, FinderOK
    <2> QED BY <1>0, <2>1, Collects
<1>2. /\ g \in Finders /\ g.n = f.n + 1 /\ g.begin = f.begin
      /\ g.tagState = state /\ g.buf = buf
    <2>1. g = [[f EXCEPT !.tagState = state, !.buf = buf] EXCEPT !.n = @ + 1]
        <3>1. CASE f.tagState = "data"
            BY <3>1, OpeningStates DEF Scan, Change, EndsTag
        <3>2. CASE f.tagState = "slash"
            BY <1>0, <3>2, OpeningStates DEF Scan, Change, EndsTag
        <3> QED BY <3>1, <3>2
    <2>2. state \in TagStates
        BY DEF TagStates
    <2> HIDE DEF g, b, buf, state
    <2> DEFINE h == [f EXCEPT !.tagState = state, !.buf = buf]
    <2>3. h \in Finders /\ h.n = f.n /\ h.begin = f.begin /\ h.tagState = state /\ h.buf = buf
        BY <1>0, <1>1, <2>2 DEF Finders
    <2>4. g = [h EXCEPT !.n = @ + 1]
        BY <2>1
    <2> HIDE DEF h
    <2> QED BY <1>0, <2>3, <2>4 DEF Finders
<1> HIDE DEF g, buf
<1>3. OpensAt(f.begin, 5) /\ f.begin + 5 <= f.n
    BY DEF Scanning, FinderOK, InTag
<1>4. g.tagState \in {"data", "slash"} /\ Base(g) = f.begin /\ Base(f) = f.begin
    BY <1>2 DEF Base
<1>5. FinderOK(g)
    <2>1. InTag(g)
        <3>1. Len(g.buf) = g.n - g.begin - 5 /\ g.begin + 5 <= g.n
            BY <1>0, <1>1, <1>2, <1>3
        <3> QED BY <1>1, <1>2, <1>3, <3>1 DEF InTag
    <2>2. g.tagState = "slash" => g.begin + 6 <= g.n /\ text[g.n] = "/"
        <3>1. f.begin + 6 <= f.n + 1
            BY <1>0, <1>3
        <3> QED BY <1>2, <3>1
    <2>3. g.tagState \notin DOMAIN Opening
        BY <1>4, OpeningStates
    <2> QED BY <1>1, <1>2, <2>1, <2>2, <2>3 DEF FinderOK
<1>6. Behind(g, tagsFound)
    BY <1>4 DEF Scanning, Behind
<1>7. NothingMissed(g, tagsFound)
    <2> SUFFICES ASSUME ~Stumbles
                 PROVE  /\ tagsFound \o TagsAfter(Base(g)) = TagsOfPage
                        /\ state = "data" => \A q \in (f.begin + 5)..f.n : ~ClosesAt(q)
                        /\ state = "slash" => \A q \in (f.begin + 5)..(f.n - 1) : ~ClosesAt(q)
        <3>1. g.n - 1 = f.n /\ g.n - 2 = f.n - 1 /\ g.begin + 5 = f.begin + 5 /\ g.tagState = state
            BY <1>0, <1>2
        <3> HIDE DEF state
        <3> QED BY <3>1, Zenon DEF NothingMissed
    <2>1. /\ tagsFound \o TagsAfter(Base(f)) = TagsOfPage
          /\ f.tagState = "data" => \A q \in (f.begin + 5)..(f.n - 1) : ~ClosesAt(q)
          /\ f.tagState = "slash" => \A q \in (f.begin + 5)..(f.n - 2) : ~ClosesAt(q)
        BY DEF Scanning, NothingMissed
    <2>2. ASSUME NEW q \in (f.begin + 5)..f.n, state = "data", ClosesAt(q) PROVE FALSE
        <3>1. text[q + 1] = "/" /\ text[q + 2] = ">"
            BY <2>2 DEF ClosesAt
        <3>2. q = f.n \/ q \in (f.begin + 5)..(f.n - 1)
            BY <1>0
        <3>3. CASE f.tagState = "data"
            <4>1. b # "/"
                BY <2>2, <3>3
            <4> QED BY <2>1, <2>2, <3>1, <3>2, <3>3, <4>1
        <3>4. CASE f.tagState = "slash"
            <4>1. text[f.n] = "/" /\ b # ">"
                BY <1>0, <3>4 DEF Scanning, FinderOK
            <4>2. q = f.n \/ q = f.n - 1 \/ q \in (f.begin + 5)..(f.n - 2)
                BY <1>0
            <4>3. CASE q = f.n
                <5>1. f.n \in 1..(Len(text) - 2)
                    BY <1>0, <1>3, <2>2, <4>3 DEF ClosesAt
                <5> QED BY <3>1, <4>1, <4>3, <5>1, NoStumbling
            <4>4. CASE q = f.n - 1
                <5>1. q + 2 = f.n + 1
                    BY <1>0, <4>4
                <5> QED BY <3>1, <4>1, <5>1
            <4> QED BY <2>1, <2>2, <3>4, <4>2, <4>3, <4>4
        <3> QED BY <3>3, <3>4
    <2> QED BY <1>4, <2>1, <2>2
<1> QED BY <1>2, <1>5, <1>6, <1>7 DEF Scanning, g

(* The > of a tag *)
LEMMA Closes ==
    ASSUME text \in Seq(Symbols), NEW f, NEW tagsFound, Scanning(f, tagsFound),
           f.n < Len(text), EndsTag(f, text[f.n + 1])
    PROVE  Closing(Scan(f, text[f.n + 1]), tagsFound) /\ Scan(f, text[f.n + 1]).n = f.n
<1> DEFINE b == text[f.n + 1]
           g == Scan(f, b)
<1>0. /\ f \in Finders /\ f.n \in Nat /\ Len(text) \in Nat /\ f.n + 1 \in Places
      /\ f.tagState = "slash" /\ b = ">"
    BY DEF Scanning, FinderOK, Finders, Places, EndsTag
<1>1. /\ g \in Finders /\ g.n = f.n /\ g.begin = f.begin /\ g.end = f.n + 1
      /\ g.tagState = "found" /\ g.buf = f.buf
    <2>1. g = [f EXCEPT !.tagState = "found", !.end = f.n + 1]
        BY <1>0, OpeningStates DEF Scan, Change, EndsTag
    <2> HIDE DEF g, b
    <2> QED BY <1>0, <2>1 DEF Finders, TagStates
<1> HIDE DEF g
<1>2. /\ InTag(f) /\ f.begin + 6 <= f.n /\ text[f.n] = "/" /\ Range(f.buf) \subseteq Range(text)
      /\ FoundOK(tagsFound)
    BY <1>0 DEF Scanning, FinderOK
<1>3. InTag(g)
    BY <1>1, <1>2 DEF InTag
<1>4. \A i \in DOMAIN tagsFound : tagsFound[i].end <= f.begin
    BY <1>0 DEF Scanning, Behind, Base
<1>5. ~Stumbles => /\ tagsFound \o TagsAfter(f.begin) = TagsOfPage
                   /\ \A q \in (f.begin + 5)..(f.n - 2) : ~ClosesAt(q)
    BY <1>0 DEF Scanning, NothingMissed, Base
<1>6. Closing(g, tagsFound)
    BY <1>0, <1>1, <1>2, <1>3, <1>4, <1>5 DEF Closing
<1> QED BY <1>1, <1>6 DEF g

(* The entity of the tag that the finder has come to the end of *)
LEMMA ClosedTag ==
    ASSUME text \in Seq(Symbols), NEW f, NEW tagsFound, Closing(f, tagsFound)
    PROVE  LET t == [start |-> f.begin, end |-> f.end, raw |-> Front(f.buf)]
           IN  /\ t \in Entities
               /\ SubSeq(text, t.start + 1, t.end) = EsiOpen \o t.raw \o EsiEnd
               /\ t.raw = SubSeq(text, f.begin + 6, f.n - 1)
<1> DEFINE p   == f.begin
           m   == f.n - p - 6
           raw == Front(f.buf)
           t   == [start |-> p, end |-> f.end, raw |-> raw]
<1>0. /\ p \in Nat /\ f.n \in Nat /\ Len(text) \in Nat /\ f.end \in Places /\ p \in Places
      /\ f.n \in Places /\ f.end = f.n + 1 /\ p + 6 <= f.n /\ f.n + 1 <= Len(text)
      /\ f.buf \in Seq(Symbols)
    BY DEF Closing, Finders, Places
<1>1. /\ OpensAt(p, 5) /\ Len(f.buf) = f.n - p - 5
      /\ \A i \in 1..Len(f.buf) : f.buf[i] = text[p + 5 + i]
    BY DEF Closing, InTag
<1>2. m \in Nat /\ Len(f.buf) = m + 1
    BY <1>0, <1>1
<1>3. raw \in Seq(Symbols) /\ Len(raw) = m /\ \A i \in 1..m : raw[i] = text[p + 5 + i]
    <2>1. raw = SubSeq(f.buf, 1, m)
        BY <1>2 DEF Front
    <2>2. 1 \in Int /\ m \in Int /\ \A i \in 1..m : f.buf[i] \in Symbols
        BY <1>0, <1>2, ElementOfSeq
    <2>3. /\ SubSeq(f.buf, 1, m) \in Seq(Symbols)
          /\ Len(SubSeq(f.buf, 1, m)) = IF 1 <= m THEN m - 1 + 1 ELSE 0
          /\ \A i \in 1..(m - 1 + 1) : SubSeq(f.buf, 1, m)[i] = f.buf[1 + i - 1]
        <3> HIDE DEF m
        <3> QED BY <2>2, SubSeqProperties
    <2>4. (IF 1 <= m THEN m - 1 + 1 ELSE 0) = m /\ m - 1 + 1 = m
        BY <1>2
    <2>5. \A i \in 1..m : 1 + i - 1 = i /\ i \in 1..Len(f.buf)
        BY <1>2
    <2> HIDE DEF m, raw
    <2>6. \A i \in 1..m : f.buf[i] = text[p + 5 + i]
        BY <1>1, <2>5
    <2> QED BY <2>1, <2>3, <2>4, <2>5, <2>6
<1> HIDE DEF raw
<1>4. t \in Entities
    BY <1>0, <1>3 DEF Entities
<1>5. raw = SubSeq(text, p + 6, f.n - 1)
    <2> DEFINE a == p + 5
               q == f.n - 1
    <2>1. a \in 0..Len(text) /\ q \in 0..Len(text) /\ a <= q /\ q - a = m /\ a + 1 = p + 6
        BY <1>0, SMTT(30)
    <2> HIDE DEF a, q, m
    <2>2. /\ SubSeq(text, a + 1, q) \in Seq(Symbols) /\ Len(SubSeq(text, a + 1, q)) = m
          /\ \A i \in 1..m : SubSeq(text, a + 1, q)[i] = text[a + i]
        BY <2>1, Parts
    <2>3. \A i \in 1..m : raw[i] = text[a + i]
        BY <1>3 DEF a
    <2>4. raw = SubSeq(text, a + 1, q)
        BY <1>3, <2>2, <2>3, Alike
    <2> QED BY <2>1, <2>4 DEF q
<1>6. SubSeq(text, p + 1, f.end) = EsiOpen \o raw \o EsiEnd
    <2> DEFINE q     == f.end
               whole == SubSeq(text, p + 1, q)
               first == EsiOpen \o raw
               all2  == first \o EsiEnd
    <2>1. p \in 0..Len(text) /\ q \in 0..Len(text) /\ p <= q /\ q - p = m + 7
        BY <1>0 DEF Places
    <2>2. whole \in Seq(Symbols) /\ Len(whole) = m + 7 /\ \A i \in 1..(m + 7) : whole[i] = text[p + i]
        <3> HIDE DEF p, q, m
        <3> QED BY <2>1, Parts
    <2>3. /\ first \in Seq(Symbols) /\ Len(first) = m + 5
          /\ \A i \in 1..(m + 5) : first[i] = IF i <= 5 THEN EsiOpen[i] ELSE raw[i - 5]
        <3>1. /\ first \in Seq(Symbols) /\ Len(first) = 5 + m
              /\ \A i \in 1..(5 + m) : first[i] = IF i <= 5 THEN EsiOpen[i] ELSE raw[i - 5]
            <4> DEFINE c == 5
            <4>1. c \in Nat /\ m \in Nat /\ Len(EsiOpen) = c /\ Len(raw) = m
                BY <1>2, <1>3, OpenMarks
            <4>2. EsiOpen \in Seq(Symbols) /\ raw \in Seq(Symbols)
                BY <1>3, OpenMarks
            <4> HIDE DEF m, c
            <4>3. /\ first \in Seq(Symbols) /\ Len(first) = Len(EsiOpen) + Len(raw)
                  /\ \A i \in 1..(Len(EsiOpen) + Len(raw)) :
                        first[i] = IF i <= Len(EsiOpen) THEN EsiOpen[i] ELSE raw[i - Len(EsiOpen)]
                BY <4>2, ConcatProperties
            <4> QED BY <4>1, <4>3 DEF c
        <3>2. 5 + m = m + 5
            BY <1>2
        <3> HIDE DEF first, m
        <3> QED BY <3>1, <3>2
    <2>4. /\ all2 \in Seq(Symbols) /\ Len(all2) = m + 7
          /\ \A i \in 1..(m + 7) : all2[i] = IF i <= m + 5 THEN first[i] ELSE EsiEnd[i - (m + 5)]
        <3>1. /\ all2 \in Seq(Symbols) /\ Len(all2) = m + 5 + 2
              /\ \A i \in 1..(m + 5 + 2) : all2[i] = IF i <= m + 5 THEN first[i]
                                                     ELSE EsiEnd[i - (m + 5)]
            <4> DEFINE k == m + 5
                       c == 2
            <4>1. k \in Nat /\ c \in Nat /\ Len(first) = k /\ Len(EsiEnd) = c
                BY <1>2, <2>3, EndMarks
            <4> HIDE DEF k, c, first
            <4>2. first \in Seq(Symbols) /\ EsiEnd \in Seq(Symbols)
                BY <2>3, EndMarks
            <4>3. /\ all2 \in Seq(Symbols) /\ Len(all2) = Len(first) + Len(EsiEnd)
                  /\ \A i \in 1..(Len(first) + Len(EsiEnd)) :
                        all2[i] = IF i <= Len(first) THEN first[i] ELSE EsiEnd[i - Len(first)]
                BY <4>2, ConcatProperties
            <4> QED BY <4>1, <4>3 DEF k, c
        <3>2. m + 5 + 2 = m + 7
            BY <1>2
        <3> HIDE DEF first, m, all2
        <3> QED BY <3>1, <3>2
    <2> HIDE DEF whole, first, all2
    <2>5. ASSUME NEW i \in 1..(m + 7) PROVE whole[i] = all2[i]
        <3>0. /\ m \in Nat /\ i \in Nat /\ i <= m + 7 /\ whole[i] = text[p + i]
              /\ p \in Nat /\ f.n = p + m + 6
            BY <1>0, <1>2, <2>2, SMTT(30)
        <3> HIDE DEF m, p
        <3>1. CASE i <= 5
            <4>1. all2[i] = EsiOpen[i]
                <5>1. i \in 1..(m + 5) /\ i <= m + 5
                    BY <3>0, <3>1
                <5> QED BY <2>3, <2>4, <3>1, <5>1
            <4>2. i = 1 \/ i = 2 \/ i = 3 \/ i = 4 \/ i = 5
                BY <3>1
            <4> QED BY <1>1, <3>0, <4>1, <4>2, OpenMarks DEF OpensAt
        <3>2. CASE 6 <= i /\ i <= m + 5
            <4>1. i \in 1..(m + 5) /\ ~(i <= 5) /\ i - 5 \in 1..m /\ p + 5 + (i - 5) = p + i
                BY <3>0, <3>2
            <4>2. all2[i] = raw[i - 5]
                BY <2>3, <2>4, <3>2, <4>1
            <4>3. raw[i - 5] = text[p + 5 + (i - 5)]
                BY <1>3, <4>1
            <4> QED BY <3>0, <4>1, <4>2, <4>3
        <3>3. CASE i = m + 6
            <4>1. ~(i <= m + 5) /\ i - (m + 5) = 1 /\ p + i = f.n
                BY <3>0, <3>3
            <4>2. all2[i] = EsiEnd[1]
                BY <2>4, <4>1
            <4>3. text[f.n] = "/"
                BY DEF Closing
            <4> QED BY <3>0, <4>1, <4>2, <4>3, EndMarks
        <3>4. CASE i = m + 7
            <4>1. ~(i <= m + 5) /\ i - (m + 5) = 2 /\ p + i = f.n + 1
                BY <3>0, <3>4
            <4>2. all2[i] = EsiEnd[2]
                BY <2>4, <4>1
            <4>3. text[f.n + 1] = ">"
                BY DEF Closing
            <4> QED BY <3>0, <4>1, <4>2, <4>3, EndMarks
        <3>5. i <= 5 \/ (6 <= i /\ i <= m + 5) \/ i = m + 6 \/ i = m + 7
            BY <3>0
        <3> QED BY <3>1, <3>2, <3>3, <3>4, <3>5
    <2>6. whole = all2
        BY <2>2, <2>4, <2>5, Alike
    <2> QED BY <2>6 DEF whole, first, all2
<1>7. t.start = f.begin /\ t.end = f.end /\ t.raw = raw
    OBVIOUS
<1> QED BY <1>4, <1>5, <1>6, <1>7 DEF raw

(* With this entity the finder goes on at the > *)
LEMMA Closed ==
    ASSUME text \in Seq(Symbols), NEW f, NEW tagsFound, Closing(f, tagsFound)
    PROVE  Scanning(f, Append(tagsFound, [start |-> f.begin, end |-> f.end, raw |-> Front(f.buf)]))
<1> DEFINE t    == [start |-> f.begin, end |-> f.end, raw |-> Front(f.buf)]
           more == Append(tagsFound, t)
           l    == Len(tagsFound)
<1>0. /\ f.begin \in Nat /\ f.n \in Nat /\ Len(text) \in Nat /\ f.begin \in Places
      /\ f.n \in Places /\ f.end = f.n + 1 /\ f.begin + 6 <= f.n /\ f.n + 1 <= Len(text)
      /\ f.tagState = "found" /\ text[f.n] = "/" /\ text[f.n + 1] = ">" /\ OpensAt(f.begin, 5)
    BY DEF Closing, Finders, Places, InTag
<1>1. /\ t \in Entities
      /\ SubSeq(text, t.start + 1, t.end) = EsiOpen \o t.raw \o EsiEnd
      /\ t.raw = SubSeq(text, f.begin + 6, f.n - 1)
    BY ClosedTag
<1>2. t.start = f.begin /\ t.end = f.n + 1 /\ t = [start |-> f.begin, end |-> f.n + 1, raw |-> t.raw]
    BY <1>0
<1>3. /\ FoundOK(tagsFound) /\ tagsFound \in Seq(Entities) /\ l \in Nat
      /\ DOMAIN tagsFound = 1..l /\ \A i \in 1..l : tagsFound[i].end <= f.begin
    <2>1. FoundOK(tagsFound) /\ \A i \in DOMAIN tagsFound : tagsFound[i].end <= f.begin
        BY DEF Closing
    <2>2. tagsFound \in Seq(Entities)
        BY <2>1 DEF FoundOK
    <2>3. DOMAIN tagsFound = 1..l /\ l \in Nat
        BY <2>2
    <2> QED BY <2>1, <2>2, <2>3
<1> HIDE DEF t
<1>4. /\ more \in Seq(Entities) /\ Len(more) = l + 1 /\ more[l + 1] = t
      /\ \A i \in 1..l : more[i] = tagsFound[i]
    BY <1>1, <1>3, AppendProperties
<1>5. DOMAIN more = 1..(l + 1) /\ \A i \in 1..(l + 1) : i = l + 1 \/ i \in 1..l
    BY <1>3, <1>4
<1> HIDE DEF more, l
<1>6. FoundOK(more)
    <2>1. ASSUME NEW i \in 1..(l + 1)
          PROVE  SubSeq(text, more[i].start + 1, more[i].end) =
                    EsiOpen \o more[i].raw \o EsiEnd
        <3>1. CASE i = l + 1
            BY <1>1, <1>4, <3>1
        <3>2. CASE i \in 1..l
            BY <1>3, <1>4, <3>2 DEF FoundOK
        <3> QED BY <1>5, <3>1, <3>2
    <2>2. ASSUME NEW i \in 2..(l + 1) PROVE more[i - 1].end <= more[i].start
        <3>1. CASE i = l + 1
            <4>1. i - 1 \in 1..l
                BY <1>3, <3>1
            <4> QED BY <1>2, <1>3, <1>4, <3>1, <4>1
        <3>2. CASE i # l + 1
            <4>1. i \in 2..l /\ i - 1 \in 1..l /\ i \in 1..l
                BY <1>3, <3>2
            <4> QED BY <1>3, <1>4, <4>1 DEF FoundOK, l
        <3> QED BY <3>1, <3>2
    <2> QED BY <1>4, <1>5, <2>1, <2>2 DEF FoundOK
<1>7. Behind(f, more)
    <2>1. ASSUME NEW i \in 1..(l + 1)
          PROVE  more[i].end <= Base(f) \/ more[i].end = f.n + 1
        <3>1. CASE i = l + 1
            BY <1>2, <1>4, <3>1
        <3>2. CASE i \in 1..l
            <4>1. tagsFound[i].end \in Nat
                BY <1>3, <3>2, FoundEntity DEF Places
            <4>2. more[i].end <= f.begin /\ more[i].end \in Nat
                BY <1>3, <1>4, <3>2, <4>1
            <4> QED BY <1>0, <4>2 DEF Base
        <3> QED BY <1>5, <3>1, <3>2
    <2> QED BY <1>0, <1>5, <2>1 DEF Behind
<1>8. NothingMissed(f, more)
    <2> SUFFICES ASSUME ~Stumbles PROVE more \o TagsAfter(f.n) = TagsOfPage
        BY <1>0 DEF NothingMissed, Base
    <2> DEFINE p == f.begin
               e == f.n + 1
               q == f.n - 1
    <2>1. /\ tagsFound \o TagsAfter(p) = TagsOfPage
          /\ \A r \in (p + 5)..(f.n - 2) : ~ClosesAt(r)
        BY DEF Closing
    <2>2. TagFrom(p) = <<t>>
        <3>1. q \in (p + 5)..Len(text) /\ q - 1 = f.n - 2 /\ q + 1 = f.n /\ q + 2 = e
            <4> DEFINE n == f.n
                       l2 == Len(text)
            <4>1. p \in Nat /\ n \in Nat /\ l2 \in Nat /\ p + 6 <= n /\ n + 1 <= l2
                BY <1>0
            <4> HIDE DEF p, n, l2
            <4>2. n - 1 \in (p + 5)..l2 /\ n - 1 - 1 = n - 2 /\ n - 1 + 1 = n /\ n - 1 + 2 = n + 1
                BY <4>1
            <4> QED BY <4>2 DEF n, l2
        <3>2. ClosesAt(q)
            BY <1>0, <3>1 DEF ClosesAt
        <3>3. \A r \in (p + 5)..(q - 1) : ~ClosesAt(r)
            BY <2>1, <3>1
        <3> HIDE DEF q
        <3>4. TagFrom(p) = <<[start |-> p, end |-> q + 2, raw |-> SubSeq(text, p + 6, q)]>>
            BY <1>0, <3>1, <3>2, <3>3, TagIs
        <3> QED BY <1>1, <1>2, <3>1, <3>4 DEF q
    <2>3. TagsAfter(p) = <<t>> \o TagsAfter(e)
        <3>1. <<t>> # <<>> /\ <<t>>[1] = t /\ t.end = e
            BY <1>2
        <3> HIDE DEF e
        <3>2. TagsAfter(p) = IF TagFrom(p) = <<>> THEN <<>>
                             ELSE TagFrom(p) \o TagsAfter(TagFrom(p)[1].end)
            BY <1>0, RestIs
        <3> QED BY <2>2, <3>1, <3>2
    <2>4. TagsAfter(f.n) = TagsAfter(e)
        <3> DEFINE n == f.n
        <3>1. n \in Places /\ e \in n..Len(text) /\ \A r \in n..(e - 1) : r = n
            BY <1>0
        <3>2. ~OpensAt(n, 5)
            BY <1>0 DEF OpensAt
        <3> HIDE DEF n, e
        <3>3. TagsAfter(n) = TagsAfter(e)
            BY <3>1, <3>2, SameTags
        <3> QED BY <3>3 DEF n
    <2>5. more = tagsFound \o <<t>>
        BY <1>1, <1>3, AppendIsConcat DEF more
    <2>6. TagsAfter(e) \in Seq(Entities)
        <3>1. e \in Places
            BY <1>0 DEF Places
        <3> HIDE DEF e
        <3> QED BY <3>1, RestIs
    <2>7. (tagsFound \o <<t>>) \o TagsAfter(e) = tagsFound \o (<<t>> \o TagsAfter(e))
        <3>1. <<t>> \in Seq(Entities)
            BY <1>1
        <3> QED BY <1>3, <2>6, <3>1, ConcatAssociative
    <2> QED BY <2>1, <2>3, <2>4, <2>5, <2>7
<1>9. FinderOK(f)
    BY <1>0, OpeningStates DEF FinderOK, Closing
<1> QED BY <1>6, <1>7, <1>8, <1>9 DEF Scanning, more, t

(* One byte *)
LEMMA Scans ==
    ASSUME text \in Seq(Symbols), NEW f, NEW tagsFound, Scanning(f, tagsFound), f.n < Len(text)
    PROVE  LET g == Scan(f, text[f.n + 1])
           IN  IF EndsTag(f, text[f.n + 1]) THEN Closing(g, tagsFound) /\ g.n = f.n
               ELSE Scanning(g, tagsFound) /\ g.n = f.n + 1
<1>1. f.tagState \in TagStates
    BY DEF Scanning, FinderOK, Finders
<1>2. \/ f.tagState \in {"start", "found"} \/ f.tagState \in DOMAIN Opening
      \/ f.tagState \in {"data", "slash"}
    BY <1>1, OpeningStates DEF TagStates
<1>3. CASE EndsTag(f, text[f.n + 1])
    BY <1>3, Closes
<1>4. CASE ~EndsTag(f, text[f.n + 1])
    BY <1>2, <1>4, ScanIdle, GivesUp, GoesOn, StaysInTag
<1> QED BY <1>3, <1>4

(* At the end of the page nothing is missed *)
LEMMA NothingLeft ==
    ASSUME text \in Seq(Symbols), NEW f, NEW tagsFound, Scanning(f, tagsFound),
           f.n = Len(text), ~Stumbles
    PROVE  tagsFound = TagsOfPage
<1> DEFINE p == Base(f)
           l == Len(text)
<1>0. /\ f \in Finders /\ f.n \in Nat /\ l \in Nat /\ f.begin \in Nat /\ f.begin \in Places
      /\ f.n \in Places /\ f.tagState \in TagStates
    BY DEF Scanning, FinderOK, Finders, Places
<1>1. p \in Places
    BY <1>0 DEF Base
<1>2. ASSUME f.tagState \in {"start", "found"} PROVE TagFrom(p) = <<>>
    <2>1. p = l
        BY <1>2 DEF Base
    <2>2. \A r \in p..l : ~OpensAt(r, 5)
        BY <1>0, <2>1 DEF OpensAt
    <2> HIDE DEF p
    <2> QED BY <1>1, <2>2, NoTag
<1>3. ASSUME f.tagState \in DOMAIN Opening PROVE TagFrom(p) = <<>>
    <2>1. p = f.begin
        BY <1>3, OpeningStates DEF Base
    <2>2. l = p + Seen[f.tagState] /\ Seen[f.tagState] \in 1..4
        BY <1>3, <2>1, OpeningStates DEF Scanning, FinderOK, Seen
    <2> HIDE DEF p
    <2>3. \A r \in p..l : ~OpensAt(r, 5)
        BY <1>0, <2>1, <2>2 DEF OpensAt
    <2> QED BY <1>1, <2>3, NoTag
<1>4. ASSUME f.tagState \in {"data", "slash"} PROVE TagFrom(p) = <<>>
    <2>1. p = f.begin /\ OpensAt(p, 5)
        BY <1>4 DEF Base, Scanning, FinderOK, InTag
    <2>2. /\ f.tagState = "data" => \A q \in (f.begin + 5)..(f.n - 1) : ~ClosesAt(q)
          /\ f.tagState = "slash" => \A q \in (f.begin + 5)..(f.n - 2) : ~ClosesAt(q)
        BY DEF Scanning, NothingMissed
    <2> HIDE DEF p
    <2>3. ASSUME NEW r \in (p + 5)..l, ClosesAt(r) PROVE FALSE
        <3>1. r + 2 <= l
            BY <2>3 DEF ClosesAt
        <3>2. r \in (f.begin + 5)..(f.n - 1) /\ r \in (f.begin + 5)..(f.n - 2)
            BY <1>0, <2>1, <3>1
        <3> QED BY <1>4, <2>2, <2>3, <3>2
    <2> QED BY <1>1, <2>1, <2>3, TagIsOpen
<1>5. TagFrom(p) = <<>>
    BY <1>0, <1>2, <1>3, <1>4, OpeningStates DEF TagStates
<1> HIDE DEF p
<1>6. TagsAfter(p) = <<>>
    BY <1>1, <1>5, RestIs
<1>7. tagsFound \o TagsAfter(p) = TagsOfPage /\ tagsFound \in Seq(Entities)
    BY DEF Scanning, NothingMissed, FoundOK, p
<1> QED BY <1>6, <1>7, ConcatEmptySeq

-------------------------------------------------------------------------------
(* The finder and the scanner *)

ScannerInv == text \in Seq(Symbols) /\ Scanning(finder, found) /\ finder.n = read

(* What Scanned has before byte i of k bytes *)
Passed(k, i) ==
    {v \in [finder : Finders, at : 1..i, ok : BOOLEAN] :
        /\ v.finder.n = read + v.at - 1
        /\ IF v.ok THEN Closing(v.finder, found) ELSE v.at = i /\ Scanning(v.finder, found)}

LEMMA ScannedIs ==
    ASSUME ScannerInv, NEW k \in 1..(Len(text) - read)
    PROVE  Scanned(Data(k)) \in Passed(k, k + 1)
<1> DEFINE data == Data(k)
           m    == k + 1
           c    == [finder |-> finder, at |-> 1, ok |-> FALSE]
           Is(v, i) == IF v.ok THEN v
                       ELSE [finder |-> Scan(v.finder, data[i - 1]),
                             ok |-> EndsTag(v.finder, data[i - 1]),
                             at |-> IF EndsTag(v.finder, data[i - 1]) THEN i - 1 ELSE i]
           Inv  == [i \in 1..m |-> Passed(k, i)]
           next == [i \in 2..m |-> [v \in Passed(k, i - 1) |-> Is(v, i)]]
<1>0. /\ text \in Seq(Symbols) /\ Len(text) \in Nat /\ read \in Nat /\ k \in Nat \ {0}
      /\ read + k <= Len(text) /\ finder \in Finders
    BY DEF ScannerInv, Scanning, FinderOK, Finders, Places
<1>1. Len(data) = k /\ \A i \in 1..k : data[i] = text[read + i]
    <2> DEFINE p == read
               q == read + k
    <2>1. p \in 0..Len(text) /\ q \in 0..Len(text) /\ q - p = k /\ p <= q
        BY <1>0
    <2> HIDE DEF p, q
    <2>2. Len(SubSeq(text, p + 1, q)) = k /\ \A i \in 1..k : SubSeq(text, p + 1, q)[i] = text[p + i]
        BY <1>0, <2>1, Parts
    <2> QED BY <2>2 DEF Data, p, q
<1> HIDE DEF data
<1>2. c \in Passed(k, 1)
    <2>1. read + 1 - 1 = read
        BY <1>0
    <2> QED BY <1>0, <2>1 DEF Passed, ScannerInv
<1>3. ASSUME NEW i \in 2..m, NEW v \in Passed(k, i - 1)
      PROVE  Is(v, i) \in Passed(k, i)
    <2>1. /\ v \in [finder : Finders, at : 1..(i - 1), ok : BOOLEAN]
          /\ v.finder.n = read + v.at - 1
          /\ IF v.ok THEN Closing(v.finder, found)
             ELSE v.at = i - 1 /\ Scanning(v.finder, found)
        BY DEF Passed
    <2>2. i \in 1..i /\ i - 1 \in 1..i /\ \A j \in 1..(i - 1) : j \in 1..i
        OBVIOUS
    <2>3. CASE v.ok
        BY <2>1, <2>2, <2>3 DEF Passed
    <2>4. CASE ~v.ok
        <3> DEFINE f == v.finder
                   b == data[i - 1]
                   g == Scan(f, b)
        <3>1. Scanning(f, found) /\ f.n = read + (i - 1) - 1
            BY <2>1, <2>4
        <3>2. b = text[f.n + 1] /\ f.n < Len(text)
            <4>1. i - 1 \in 1..k /\ f.n + 1 = read + (i - 1)
                BY <1>0, <3>1
            <4> QED BY <1>0, <1>1, <3>1, <4>1
        <3>3. IF EndsTag(f, b) THEN Closing(g, found) /\ g.n = f.n
              ELSE Scanning(g, found) /\ g.n = f.n + 1
            BY <1>0, <3>1, <3>2, Scans
        <3>4. g \in Finders
            BY <3>3 DEF Closing, Scanning, FinderOK
        <3> DEFINE w == [finder |-> g, ok |-> EndsTag(f, b),
                         at |-> IF EndsTag(f, b) THEN i - 1 ELSE i]
        <3>5. EndsTag(f, b) \in BOOLEAN
            BY DEF EndsTag
        <3>6. Is(v, i) = w
            BY <2>4
        <3>7. f.n + 1 = read + i - 1
            BY <1>0, <3>1
        <3> HIDE DEF f, b, g, Is
        <3>8. w \in Passed(k, i)
            <4>1. CASE EndsTag(f, b)
                <5>1. w = [finder |-> g, ok |-> TRUE, at |-> i - 1]
                    BY <3>5, <4>1
                <5> QED BY <2>2, <3>1, <3>3, <3>4, <4>1, <5>1 DEF Passed
            <4>2. CASE ~EndsTag(f, b)
                <5>1. w = [finder |-> g, ok |-> FALSE, at |-> i]
                    BY <3>5, <4>2
                <5> QED BY <2>2, <3>3, <3>4, <3>7, <4>2, <5>1 DEF Passed
            <4> QED BY <4>1, <4>2
        <3> QED BY <3>6, <3>8
    <2> QED BY <2>3, <2>4
<1>4. Leads(next, Inv, 1, m)
    <2>1. ASSUME NEW i \in (1 + 1)..m, NEW v \in Inv[i - 1] PROVE next[i][v] \in Inv[i]
        <3>1. i \in 2..m /\ i \in 1..m /\ i - 1 \in 1..m
            BY <1>0
        <3>2. v \in Passed(k, i - 1) /\ Inv[i] = Passed(k, i)
            BY <3>1
        <3>3. next[i][v] = Is(v, i)
            BY <3>1, <3>2
        <3> HIDE DEF next, Inv, Is
        <3> QED BY <1>3, <3>1, <3>2, <3>3
    <2> QED BY <2>1 DEF Leads
<1>5. PICK T : Iterates(T, c, next, Inv, 1, m)
    <2>1. 1 \in Int /\ m \in Int /\ 1 <= m /\ c \in Inv[1]
        BY <1>0, <1>2
    <2> HIDE DEF next, Inv, c, m
    <2> QED BY <1>4, <2>1, Iteration
<1>6. /\ T = [i \in 1..m |-> T[i]] /\ T[1] = c
      /\ \A i \in 2..m : T[i] = next[i][T[i - 1]]
      /\ \A i \in 1..m : T[i] \in Inv[i]
    <2>1. (1 + 1)..m = 2..m
        OBVIOUS
    <2> HIDE DEF next, Inv, c, m
    <2> QED BY <1>5, <2>1 DEF Iterates
<1> DEFINE Body(u) == [i \in 1..(Len(data) + 1) |->
                         IF i = 1 THEN [finder |-> finder, at |-> 1, ok |-> FALSE]
                         ELSE Is(u[i - 1], i)]
<1>7. T = Body(T)
    <2>1. ASSUME NEW i \in 1..m PROVE T[i] = IF i = 1 THEN c ELSE Is(T[i - 1], i)
        <3>1. CASE i = 1
            BY <1>6, <3>1
        <3>2. CASE i # 1
            <4>1. i \in 2..m /\ i - 1 \in 1..m
                BY <1>0, <3>2
            <4>2. T[i - 1] \in Passed(k, i - 1)
                BY <1>6, <4>1
            <4>3. T[i] = next[i][T[i - 1]]
                BY <1>6, <4>1
            <4>4. next[i][T[i - 1]] = Is(T[i - 1], i)
                <5> HIDE DEF Is
                <5> QED BY <4>1, <4>2
            <4> QED BY <3>2, <4>3, <4>4
        <3> QED BY <3>1, <3>2
    <2>2. T = [i \in 1..m |-> IF i = 1 THEN c ELSE Is(T[i - 1], i)]
        <3> HIDE DEF Is, c, m
        <3> QED BY <1>6, <2>1
    <2> HIDE DEF Is
    <2> QED BY <1>1, <2>2
<1> DEFINE upto == CHOOSE u : u = Body(u)
<1>8. upto = Body(upto)
    <2> HIDE DEF Body
    <2> QED BY <1>7
<1>9. Scanned(data) = upto[Len(data) + 1]
    BY DEF Scanned
<1> HIDE DEF upto
<1>10. /\ upto[1] = c
       /\ \A i \in 2..m : upto[i] = Is(upto[i - 1], i)
    <2> HIDE DEF Is
    <2>1. \A i \in 1..m : upto[i] = IF i = 1 THEN c ELSE Is(upto[i - 1], i)
        BY <1>1, <1>8
    <2>2. 1 \in 1..m /\ \A i \in 2..m : i \in 1..m /\ i # 1
        BY <1>0
    <2> QED BY <2>1, <2>2
<1> DEFINE S == {i \in 1..m : upto[i] \in Passed(k, i)}
<1>11. 1 \in S
    BY <1>0, <1>2, <1>10
<1>12. ASSUME NEW i \in (1 + 1)..m, i - 1 \in S PROVE i \in S
    <2>1. i \in 2..m /\ i \in 1..m
        BY <1>0
    <2>2. upto[i - 1] \in Passed(k, i - 1)
        BY <1>12
    <2> HIDE DEF Is
    <2> QED BY <1>3, <1>10, <2>1, <2>2
<1>13. m \in S
    <2>1. 1 \in Int /\ m \in Int /\ m \in 1..m
        BY <1>0
    <2> HIDE DEF S, m
    <2> QED BY <1>11, <1>12, <2>1, Induction
<1> QED BY <1>1, <1>9, <1>13 DEF data

(* What is said of the page is the same as long as the page is *)
LEMMA SamePage ==
    ASSUME text' = text, NEW f, NEW tagsFound
    PROVE  Scanning(f, tagsFound)' <=> Scanning(f, tagsFound)
<1>1. Places' = Places
    BY DEF Places
<1>2. Entities' = Entities /\ Finders' = Finders
    BY <1>1 DEF Entities, Finders
<1>3. \A p, k : OpensAt(p, k)' <=> OpensAt(p, k)
    BY DEF OpensAt
<1>4. \A p : ClosesAt(p)' <=> ClosesAt(p)
    BY DEF ClosesAt
<1>5. \A pattern, q : IsAt(pattern, q)' <=> IsAt(pattern, q)
    BY DEF IsAt
<1>6. \A pattern, p : FirstAt(pattern, p)' = FirstAt(pattern, p)
    BY DEF FirstAt, IsAt
<1>7. \A p : TagFrom(p)' = TagFrom(p)
    BY DEF TagFrom, FirstAt, IsAt
<1>8. Stumbles' <=> Stumbles
    BY DEF Stumbles, IsAt
<1>9. TagsOfPage' = TagsOfPage
    BY DEF TagsOfPage, TagFrom, FirstAt, IsAt
<1>10. \A p : TagsAfter(p)' = TagsAfter(p)
    BY DEF TagsAfter, Rest, IsRest, TagsIn, TagFrom, FirstAt, IsAt
<1>11. InTag(f)' <=> InTag(f)
    BY <1>3 DEF InTag
<1>12. FinderOK(f)' <=> FinderOK(f)
    BY <1>2, <1>3, <1>11 DEF FinderOK
<1>13. FoundOK(tagsFound)' <=> FoundOK(tagsFound)
    BY <1>2 DEF FoundOK
<1>14. Behind(f, tagsFound)' <=> Behind(f, tagsFound)
    BY DEF Behind
<1>15. NothingMissed(f, tagsFound)' <=> NothingMissed(f, tagsFound)
    BY <1>4, <1>8, <1>9, <1>10 DEF NothingMissed
<1> QED BY <1>12, <1>13, <1>14, <1>15 DEF Scanning

LEMMA SplitScans ==
    ASSUME ScannerInv, NEW k \in 1..MaxData, k <= Len(text) - read, Split(k)
    PROVE  ScannerInv'
<1> DEFINE res == Scanned(Data(k))
           t   == [start |-> res.finder.begin, end |-> res.finder.end,
                   raw |-> Front(res.finder.buf)]
<1>1. /\ finder' = res.finder /\ read' = read + res.at - 1 /\ text' = text
      /\ found' = IF ~res.ok THEN found ELSE Append(found, t)
    BY DEF Split
<1>2. text \in Seq(Symbols)
    BY DEF ScannerInv
<1>3. res \in Passed(k, k + 1)
    <2>1. k \in 1..(Len(text) - read)
        <3>1. Len(text) \in Nat /\ read \in Nat
            BY DEF ScannerInv, Scanning, FinderOK, Finders, Places
        <3> QED BY <3>1
    <2> QED BY <2>1, ScannedIs
<1> HIDE DEF res
<1>4. /\ res.finder.n = read + res.at - 1
      /\ IF res.ok THEN Closing(res.finder, found) ELSE Scanning(res.finder, found)
    BY <1>3 DEF Passed
<1>5. Scanning(finder', found')
    <2>1. CASE res.ok
        BY <1>1, <1>2, <1>4, <2>1, Closed
    <2>2. CASE ~res.ok
        BY <1>1, <1>4, <2>2
    <2> QED BY <2>1, <2>2
<1>6. Scanning(finder, found)'
    <2>1. \A f, tagsFound : Scanning(f, tagsFound)' <=> Scanning(f, tagsFound)
        BY <1>1, SamePage
    <2> QED BY <1>1, <1>5, <2>1
<1> QED BY <1>1, <1>2, <1>4, <1>6 DEF ScannerInv

(* Nothing is found yet *)
LEMMA ScannerStarts ==
    ASSUME text \in Seq(Symbols), FinderInit
    PROVE  ScannerInv
<1>1. Len(text) \in Nat /\ 0 \in Places
    BY DEF Places
<1>2. /\ finder.tagState = "start" /\ finder.n = 0 /\ finder.begin = 0 /\ finder.end = 0
      /\ finder.buf = <<>> /\ finder \in Finders
    BY <1>1 DEF FinderInit, Finders, TagStates
<1>3. found = <<>> /\ read = 0 /\ DOMAIN found = {} /\ found \in Seq(Entities) /\ Len(found) = 0
    BY DEF FinderInit
<1>4. FinderOK(finder)
    <2>1. Range(finder.buf) = {}
        BY <1>2 DEF Range
    <2> QED BY <1>2, <2>1, OpeningStates DEF FinderOK
<1>5. FoundOK(found) /\ Behind(finder, found)
    BY <1>3 DEF FoundOK, Behind
<1>6. NothingMissed(finder, found)
    <2>1. TagsAfter(0) \in Seq(Entities) /\ TagsOfPage = TagsAfter(0)
        BY <1>1, RestIs
    <2>2. <<>> \o TagsAfter(0) = TagsAfter(0)
        BY <2>1, ConcatEmptySeq
    <2>3. Base(finder) = 0
        BY <1>2 DEF Base
    <2> QED BY <1>2, <1>3, <2>1, <2>2, <2>3 DEF NothingMissed
<1> QED BY <1>2, <1>3, <1>4, <1>5, <1>6 DEF ScannerInv, Scanning

LEMMA PipelineScans ==
    ASSUME ScannerInv, [PipelineNext]_all
    PROVE  ScannerInv'
<1>1. CASE Next
    <2>1. PICK k \in 1..MaxData : k <= Len(text) - read /\ Split(k)
        BY <1>1 DEF Next
    <2> QED BY <2>1, SplitScans
<1>2. CASE UNCHANGED vars
    <2>1. text' = text /\ read' = read /\ finder' = finder /\ found' = found
        BY <1>2 DEF vars
    <2>2. Scanning(finder, found)'
        <3>1. \A f, tagsFound : Scanning(f, tagsFound)' <=> Scanning(f, tagsFound)
            BY <2>1, SamePage
        <3> QED BY <2>1, <3>1 DEF ScannerInv
    <2> QED BY <2>1, <2>2 DEF ScannerInv
<1>3. Next \/ UNCHANGED vars
    <2>1. CASE ScanPage
        BY <2>1 DEF ScanPage
    <2>2. CASE ParsePage
        BY <2>2 DEF ParsePage
    <2>3. CASE Ask
        BY <2>3 DEF Ask
    <2>4. CASE GiveUp
        BY <2>4 DEF GiveUp
    <2>5. ASSUME NEW file \in Caddyfiles, Configure(file) PROVE UNCHANGED vars
        BY <2>5 DEF Configure
    <2>6. ASSUME NEW r \in Clients, Store(r) \/ Serve(r) PROVE UNCHANGED vars
        BY <2>6 DEF Store, Serve
    <2>7. CASE UNCHANGED all
        BY <2>7 DEF all
    <2> QED BY <2>1, <2>2, <2>3, <2>4, <2>5, <2>6, <2>7 DEF PipelineNext
<1> QED BY <1>1, <1>2, <1>3

LEMMA ScannerInvariant == PipelineSpec => []ScannerInv
<1>1. PipelineInit => ScannerInv
    <2> SUFFICES ASSUME PipelineInit PROVE ScannerInv
        OBVIOUS
    <2>1. text \in Seq(Symbols)
        <3>1. CASE written = <<>> /\ text \in Texts
            <4>1. text \in Seq(STRING) /\ STRING \subseteq Symbols
                BY <3>1, FinderAssumption DEF Symbols
            <4> QED BY <4>1, SeqMonotonic
        <3>2. CASE \E p \in WrittenPages : written = p.tags /\ text = PageText(p)
            BY <3>2, PageTyped
        <3> QED BY <3>1, <3>2 DEF PipelineInit
    <2> QED BY <2>1, ScannerStarts DEF PipelineInit
<1> QED BY <1>1, PipelineScans, PTL DEF PipelineSpec

(* However the scanner cuts the page, the finder counts the bytes that it  *)
(* has passed, although the > of every tag is scanned twice.               *)
THEOREM FinderTypeCorrect == PipelineSpec => []TypeOK
<1>1. ScannerInv => TypeOK
    <2> SUFFICES ASSUME ScannerInv PROVE TypeOK
        OBVIOUS
    <2>1. FinderOK(finder) /\ FoundOK(found) /\ finder.n = read
        BY DEF ScannerInv, Scanning
    <2>2. ASSUME NEW i \in DOMAIN found PROVE DOMAIN found[i] = {"start", "end", "raw"}
        <3>1. found[i] \in Entities
            BY <2>1, FoundEntity
        <3> QED BY <3>1 DEF Entities
    <2> QED BY <2>1, <2>2 DEF TypeOK, FinderOK, Finders, Places
<1> QED BY <1>1, ScannerInvariant, PTL

(* Whatever the page is, and however the scanner cuts it, what is found    *)
(* are tags of it, in order, without overlap and with the right text.      *)
THEOREM TagsAreFound == PipelineSpec => []FoundAreTags
<1>1. ScannerInv => FoundAreTags
    BY DEF ScannerInv, Scanning, FoundOK, FoundAreTags
<1> QED BY <1>1, ScannerInvariant, PTL

(* In a page in which the finder does not stumble it finds all tags.       *)
THEOREM AllTagsAreFound == PipelineSpec => []FoundAll
<1>1. ScannerInv => FoundAll
    BY NothingLeft DEF ScannerInv, FoundAll
<1> QED BY <1>1, ScannerInvariant, PTL

-------------------------------------------------------------------------------
(* The text of a tag *)

FieldStates == [quote : {"none", "'", "\""}, field : Seq(Symbols), fields : Seq(Seq(Symbols))]

(* What a symbol does to the fields so far, and what is left of them *)
FieldStep(acc, s) ==
    [quote |-> QuoteAfter(acc.quote, s),
     field |-> IF Separates(acc.quote, s) THEN <<>> ELSE Append(acc.field, s),
     fields |-> IF Separates(acc.quote, s) /\ acc.field # <<>>
                THEN Append(acc.fields, acc.field) ELSE acc.fields]
NoField       == [quote |-> "none", field |-> <<>>, fields |-> <<>>]
FieldsOf(acc) == IF acc.field = <<>> THEN acc.fields ELSE Append(acc.fields, acc.field)
FieldRun      == [s \in Symbols |-> [acc \in FieldStates |-> FieldStep(acc, s)]]

LEMMA FieldStepTyped ==
    ASSUME NEW a \in FieldStates, NEW s \in Symbols
    PROVE  FieldStep(a, s) \in FieldStates /\ FieldRun[s][a] = FieldStep(a, s)
<1>1. QuoteAfter(a.quote, s) \in {"none", "'", "\""}
    BY DEF QuoteAfter, Quotes, FieldStates
<1>2. a.field \in Seq(Symbols) /\ a.fields \in Seq(Seq(Symbols))
    BY DEF FieldStates
<1>3. (IF Separates(a.quote, s) THEN <<>> ELSE Append(a.field, s)) \in Seq(Symbols)
    BY <1>2
<1>4. (IF Separates(a.quote, s) /\ a.field # <<>> THEN Append(a.fields, a.field) ELSE a.fields)
          \in Seq(Seq(Symbols))
    BY <1>2
<1> QED BY <1>1, <1>3, <1>4 DEF FieldStates, FieldStep, FieldRun

LEMMA FieldsSteps ==
    ASSUME NEW raw \in Seq(Symbols)
    PROVE  \E b \in FieldStates :
              Runs(FieldRun, NoField, raw, b, FieldStates) /\ Fields(raw) = FieldsOf(b)
<1> DEFINE n == Len(raw)
           Op(acc, s) == FieldStep(acc, s)
           Body(iter) ==
             [s \in SUBSET (DOMAIN raw) |->
                IF s = {} THEN NoField ELSE Op(iter[s \ {Max(s)}], raw[Max(s)])]
           chosen == CHOOSE iter : iter = Body(iter)
           scan == chosen[DOMAIN raw]
           next == [i \in 1..n |-> [a \in FieldStates |-> Op(a, raw[i])]]
<1>1. Fields(raw) = FieldsOf(scan)
    BY DEF Fields, FoldLeft, MapThenFoldSet, FieldStep, FieldsOf, NoField
<1>2. n \in Nat /\ DOMAIN raw = 1..n /\ NoField \in FieldStates
    BY DEF FieldStates, NoField
<1>3. \A i \in 1..n : raw[i] \in Symbols
    BY ElementOfSeq
<1>4. ASSUME NEW i \in 1..n, NEW a \in FieldStates
      PROVE  next[i][a] = Op(a, raw[i]) /\ Op(a, raw[i]) \in FieldStates
    BY <1>2, <1>3, FieldStepTyped
<1> HIDE DEF Op
<1>5. \E iter : iter = Body(iter)
    <2>1. PICK iter \in [SUBSET (1..n) -> FieldStates] : IsFold(iter, NoField, next, n)
        <3>1. \A i \in 1..n : \A a \in FieldStates : next[i][a] \in FieldStates
            BY <1>4
        <3> HIDE DEF next, n
        <3> QED BY <1>2, <3>1, FoldExists
    <2> HIDE DEF next, n
    <2>2. ASSUME NEW s \in SUBSET (1..n), s # {}
          PROVE  next[Greatest(s)][iter[s \ {Greatest(s)}]] = Op(iter[s \ {Max(s)}], raw[Max(s)])
        <3>1. Max(s) = Greatest(s) /\ Greatest(s) \in 1..n
            BY <1>2, <2>2, GreatestIn DEF Max, Greatest
        <3>2. iter[s \ {Greatest(s)}] \in FieldStates
            BY <2>1
        <3> QED BY <1>4, <3>1, <3>2
    <2>3. iter = Body(iter)
        BY <1>2, <2>1, <2>2 DEF IsFold
    <2> QED BY <2>3
<1>6. chosen = Body(chosen)
    <2> HIDE DEF Body
    <2> QED BY <1>5
<1> HIDE DEF chosen
<1> DEFINE S == {i \in 0..n : chosen[1..i] \in FieldStates}
           P == [i \in 0..n |-> chosen[1..i]]
<1>7. 0 \in S /\ P[0] = NoField
    BY <1>2, <1>6
<1>8. ASSUME NEW i \in 1..n, chosen[1..(i - 1)] \in FieldStates
      PROVE  chosen[1..i] = Op(chosen[1..(i - 1)], raw[i]) /\ chosen[1..i] \in FieldStates
    <2>1. i \in Nat \ {0} /\ i \in 1..n /\ i \in 0..n /\ 1..i \in SUBSET (1..n)
        BY <1>2
    <2>2. Max(1..i) = i /\ (1..i) \ {i} = 1..(i - 1) /\ 1..i # {}
        BY <2>1, UpToGreatest DEF Max, Greatest
    <2>3. chosen[1..i] = Op(chosen[1..(i - 1)], raw[i])
        BY <1>2, <1>6, <2>1, <2>2
    <2> QED BY <1>4, <1>8, <2>1, <2>3
<1>9. ASSUME NEW i \in (0 + 1)..n, i - 1 \in S PROVE i \in S
    <2>1. i \in 1..n /\ i \in 0..n
        BY <1>2
    <2> QED BY <1>8, <1>9, <2>1
<1>10. \A i \in 0..n : i \in S
    <2>1. n \in Int /\ 0 \in Int
        BY <1>2
    <2> HIDE DEF S
    <2> QED BY <1>7, <1>9, <2>1, Induction
<1>11. P \in [0..n -> FieldStates] /\ P[n] = scan /\ scan \in FieldStates
    <2>1. n \in 0..n
        BY <1>2
    <2>2. \A i \in 0..n : chosen[1..i] \in FieldStates
        BY <1>10
    <2> QED BY <1>2, <2>1, <2>2
<1>12. ASSUME NEW i \in 1..n PROVE P[i] = FieldRun[raw[i]][P[i - 1]]
    <2>1. i \in 0..n /\ i - 1 \in 0..n
        BY <1>2
    <2>2. chosen[1..(i - 1)] \in FieldStates
        BY <1>10, <2>1
    <2>3. P[i] = Op(P[i - 1], raw[i]) /\ P[i - 1] \in FieldStates
        BY <1>8, <2>1, <2>2
    <2> HIDE DEF P
    <2> QED BY <1>3, <2>3, FieldStepTyped DEF Op
<1> HIDE DEF P, scan
<1>13. Along(P, FieldRun, NoField, raw, scan, FieldStates)
    BY <1>7, <1>11, <1>12 DEF Along
<1> QED BY <1>1, <1>11, <1>13 DEF Runs

LEMMA FieldsTyped ==
    ASSUME NEW raw \in Seq(Symbols)
    PROVE  Fields(raw) \in Seq(Seq(Symbols))
<1>1. PICK b \in FieldStates : Fields(raw) = FieldsOf(b)
    BY FieldsSteps
<1>2. b.field \in Seq(Symbols) /\ b.fields \in Seq(Seq(Symbols))
    BY DEF FieldStates
<1> DEFINE S == Seq(Symbols)
<1>3. b.field \in S /\ b.fields \in Seq(S)
    BY <1>2
<1> HIDE DEF S
<1>4. Append(b.fields, b.field) \in Seq(S)
    BY <1>3, AppendProperties
<1> QED BY <1>1, <1>3, <1>4 DEF FieldsOf, S

LEMMA NamesAre ==
    Names = {"src", "key", "coalesce", "printdebug", "condition", "onerror", "timeout", "ttl",
             "maxbodysize", "forwardpostdata", "forwardheaders", "returnheaders"}
BY DEF Names, NewEntity

(* The settings of a tag whose values are in T *)
HeaderLists(T) == [all : BOOLEAN, names : {<<>>} \cup {CommaListToSlice(Lower(t)) : t \in T}]
SettingsOf(T)  == Seq(T) \cup T \cup {OnErrorText(t) : t \in T} \cup BOOLEAN \cup Int
                  \cup HeaderLists(T)
TagsWith(T)    == {e \in [Names -> SettingsOf(T)] :
                     /\ e.src \in Seq(T) /\ e.key \in {<<>>} \cup T
                     /\ e.timeout \in Int /\ e.maxbodysize \in Nat
                     /\ e.forwardheaders \in HeaderLists(T) /\ e.returnheaders \in HeaderLists(T)}

LEMMA NewTag ==
    ASSUME NEW T
    PROVE  NewEntity \in TagsWith(T)
<1>1. NoHeaders \in HeaderLists(T)
    BY DEF NoHeaders, HeaderLists
<1>2. <<>> \in Seq(T) /\ 0 \in Int /\ FALSE \in BOOLEAN
    OBVIOUS
<1>3. NewEntity \in [Names -> SettingsOf(T)]
    <2>1. /\ <<>> \in SettingsOf(T) /\ 0 \in SettingsOf(T) /\ FALSE \in SettingsOf(T)
          /\ NoHeaders \in SettingsOf(T)
        BY <1>1, <1>2 DEF SettingsOf
    <2>2. NewEntity = [n \in Names |-> NewEntity[n]]
        BY DEF NewEntity, Names
    <2>3. ASSUME NEW n \in Names PROVE NewEntity[n] \in {<<>>, 0, FALSE, NoHeaders}
        <3>1. /\ n \in {"src", "key", "onerror"} => NewEntity[n] = <<>>
              /\ n \in {"timeout", "ttl", "maxbodysize"} => NewEntity[n] = 0
              /\ n \in {"forwardheaders", "returnheaders"} => NewEntity[n] = NoHeaders
            BY DEF NewEntity
        <3>2. n \in {"coalesce", "printdebug", "condition", "forwardpostdata"}
                => NewEntity[n] = FALSE
            BY DEF NewEntity
        <3> QED BY <3>1, <3>2, NamesAre
    <2> HIDE DEF SettingsOf
    <2> QED BY <2>1, <2>2, <2>3
<1> QED BY <1>1, <1>2, <1>3 DEF TagsWith, NewEntity

LEMMA HeadersListed ==
    ASSUME NEW T, NEW old \in HeaderLists(T), NEW t \in T
    PROVE  HeaderList(old, t) \in HeaderLists(T)
BY DEF HeaderList, HeaderLists

LEMMA SettingTyped ==
    ASSUME NEW T, NEW e \in TagsWith(T), NEW name \in Names, NEW t \in T, Converts(name, t)
    PROVE  [e EXCEPT ![name] = Setting(name, @, t)] \in TagsWith(T)
<1> DEFINE v == Setting(name, e[name], t)
<1>0. /\ e \in [Names -> SettingsOf(T)] /\ e.src \in Seq(T) /\ e.key \in {<<>>} \cup T
      /\ e.timeout \in Int /\ e.maxbodysize \in Nat
      /\ e.forwardheaders \in HeaderLists(T) /\ e.returnheaders \in HeaderLists(T)
    BY DEF TagsWith
<1>1. name = "src" => v \in Seq(T)
    BY <1>0 DEF Setting
<1>2. name \in {"timeout", "ttl"} => v \in Int
    BY AttributeAssumption DEF Setting, Converts
<1>3. name = "maxbodysize" => v \in Nat
    BY AttributeAssumption DEF Setting, Converts
<1>4. name \in {"forwardheaders", "returnheaders"} => v \in HeaderLists(T)
    BY <1>0, HeadersListed DEF Setting
<1>5. name = "onerror" => v \in {OnErrorText(x) : x \in T}
    BY DEF Setting
<1>6. name = "key" => v \in T
    BY DEF Setting
<1>7. name \in {"coalesce", "printdebug", "condition", "forwardpostdata"} => v \in BOOLEAN
    <2>1. name \in {"coalesce", "printdebug"} => v = (t \in True)
        BY DEF Setting
    <2>2. name = "condition" => v = TRUE
        BY DEF Setting
    <2>3. name = "forwardpostdata" => v = (Lower(t) \in True)
        BY DEF Setting
    <2>4. (t \in True) \in BOOLEAN /\ (Lower(t) \in True) \in BOOLEAN /\ TRUE \in BOOLEAN
        OBVIOUS
    <2> HIDE DEF v
    <2> QED BY <2>1, <2>2, <2>3, <2>4
<1> HIDE DEF v
<1>8. v \in SettingsOf(T)
    BY <1>1, <1>2, <1>3, <1>4, <1>5, <1>6, <1>7, NamesAre DEF SettingsOf
<1> DEFINE f == [e EXCEPT ![name] = v]
<1>9. f \in TagsWith(T)
    BY <1>0, <1>1, <1>2, <1>3, <1>4, <1>6, <1>8, NamesAre DEF TagsWith
<1> QED BY <1>9 DEF v

(* Space and quotes around a value *)
LEMMA TrimmedTyped ==
    ASSUME NEW t \in Seq(Symbols)
    PROVE  Trimmed(t) \in Seq(Symbols)
<1> DEFINE kept  == {i \in DOMAIN t : t[i] \notin Spaces}
           first == CHOOSE i \in kept : \A j \in kept : i <= j
           last  == Greatest(kept)
           n     == Len(t)
<1>1. n \in Nat /\ DOMAIN t = 1..n /\ \A i \in 1..n : t[i] \in Symbols
    BY ElementOfSeq
<1>2. Trimmed(t) = IF kept = {} THEN <<>> ELSE SubSeq(t, first, last)
    BY DEF Trimmed, Greatest
<1>3. kept \in SUBSET (1..n) /\ kept \in SUBSET Nat
    BY <1>1
<1> HIDE DEF kept, n
<1>4. kept # {} => first \in kept
    <2> HAVE kept # {}
    <2>1. \E i \in kept : \A j \in kept : i <= j
        BY <1>3, Least
    <2> QED BY <2>1
<1>5. kept # {} => last \in kept
    BY <1>1, <1>3, GreatestIn
<1> HIDE DEF first, last
<1>6. kept # {} => SubSeq(t, first, last) \in Seq(Symbols)
    <2> HAVE kept # {}
    <2>1. first \in 1..n /\ last \in 1..n
        BY <1>3, <1>4, <1>5
    <2>2. first \in Int /\ last \in Int /\ \A i \in first..last : t[i] \in Symbols
        BY <1>1, <2>1
    <2> QED BY <2>2, SubSeqProperties
<1>7. <<>> \in Seq(Symbols)
    OBVIOUS
<1> QED BY <1>2, <1>6, <1>7

LEMMA UnquotedTyped ==
    ASSUME NEW f \in Seq(Symbols)
    PROVE  Unquoted(f) \in Seq(Symbols)
<1> DEFINE m == Len(f) - 1
           g == SubSeq(f, 2, m)
           c == Cut(Head(f))
           d == Cut(Last(f))
<1>1. "cut" \in Symbols
    BY DEF Symbols
<1>2. <<>> \in Seq(Symbols) /\ <<"cut">> \in Seq(Symbols)
    BY <1>1
<1>3. c \in Seq(Symbols) /\ d \in Seq(Symbols)
    BY <1>2 DEF Cut
<1>4. g \in Seq(Symbols)
    <2>1. 2 \in Int /\ m \in Int /\ \A i \in 2..m : f[i] \in Symbols
        BY ElementOfSeq
    <2> HIDE DEF m
    <2> QED BY <2>1, SubSeqProperties
<1>5. Unquoted(f) = f \/ Unquoted(f) = <<"cut">> \/ Unquoted(f) = c \o g \o d
    BY DEF Unquoted
<1> HIDE DEF c, d, g
<1>6. c \o g \o d \in Seq(Symbols)
    <2>1. c \o g \in Seq(Symbols)
        BY <1>3, <1>4, ConcatProperties
    <2> QED BY <1>3, <2>1, ConcatProperties
<1> QED BY <1>2, <1>5, <1>6

(* Whatever the text of a tag is, its attributes are a sequence, and their *)
(* values are texts                                                        *)
LEMMA AttributesTyped ==
    ASSUME NEW raw \in Seq(Symbols)
    PROVE  /\ SplitAttributes(raw).ok \in BOOLEAN
           /\ \E n \in Nat : DOMAIN SplitAttributes(raw).attrs = 1..n
           /\ \A i \in DOMAIN SplitAttributes(raw).attrs :
                 SplitAttributes(raw).attrs[i].value \in Seq(Symbols)
<1> DEFINE fields == Fields(raw)
           m == IF fields = <<>> THEN 0 ELSE Len(fields) - 1
           n == m \div 2
<1>0. fields \in Seq(Seq(Symbols))
    BY FieldsTyped
<1>1. m \in Nat /\ (m # 0 => Len(fields) = m + 1)
    <2> HIDE DEF fields
    <2>1. CASE fields = <<>>
        BY <2>1
    <2>2. CASE fields # <<>>
        <3>1. Len(fields) \in Nat /\ Len(fields) # 0
            BY <1>0, <2>2, EmptySeq
        <3> QED BY <2>2, <3>1
    <2> QED BY <2>1, <2>2
<1>2. n \in Nat
    <2> HIDE DEF m
    <2> QED BY <1>1
<1>3. /\ SplitAttributes(raw).ok = (m % 2 = 0)
      /\ SplitAttributes(raw).attrs =
            [i \in 1..n |-> [name |-> fields[2 * i], value |-> Trimmed(Unquoted(fields[2 * i + 1]))]]
    BY DEF SplitAttributes
<1>4. ASSUME NEW i \in 1..n PROVE Trimmed(Unquoted(fields[2 * i + 1])) \in Seq(Symbols)
    <2> HIDE DEF m, fields
    <2>1. m # 0 /\ 2 * i + 1 \in 1..(m + 1)
        BY <1>1
    <2>2. fields[2 * i + 1] \in Seq(Symbols)
        BY <1>0, <1>1, <2>1, ElementOfSeq
    <2> QED BY <2>2, UnquotedTyped, TrimmedTyped
<1> DEFINE attrs == SplitAttributes(raw).attrs
<1>5. DOMAIN attrs = 1..n /\ \A i \in 1..n : attrs[i].value \in Seq(Symbols)
    <2> HIDE DEF n, fields
    <2> QED BY <1>3, <1>4
<1> HIDE DEF m, n, attrs
<1>6. (m % 2 = 0) \in BOOLEAN
    OBVIOUS
<1> QED BY <1>2, <1>3, <1>5, <1>6 DEF attrs

(* The attributes so far give a tag whose limits are numbers *)
ParseStates(T) == [ok : BOOLEAN, entity : TagsWith(T)]

(* What an attribute does to the entity so far *)
ParseStep(acc, attr) ==
    IF ~acc.ok THEN acc
    ELSE IF Name(attr.name) \notin Names THEN [acc EXCEPT !.ok = Ignored(attr.name)]
    ELSE IF ~Converts(Name(attr.name), attr.value) THEN [acc EXCEPT !.ok = FALSE]
    ELSE [acc EXCEPT !.entity[Name(attr.name)] = Setting(Name(attr.name), @, attr.value)]

(* The entity of a tag is what its n attributes make of a new one *)
Parses(P, n, raw, T) ==
    LET split == SplitAttributes(raw)
    IN  /\ DOMAIN split.attrs = 1..n
        /\ P = [i \in 0..n |-> P[i]] /\ P[0] = [ok |-> split.ok, entity |-> NewEntity]
        /\ \A i \in 1..n : P[i] = ParseStep(P[i - 1], split.attrs[i])
        /\ \A i \in 0..n : P[i] \in ParseStates(T)
        /\ ParseRaw(raw) = IF raw = <<>> \/ ~split.ok THEN [ok |-> raw = <<>>, entity |-> NewEntity]
                           ELSE [P[n] EXCEPT !.ok = @ /\ P[n].entity.src # <<>>]

LEMMA ParseSteps ==
    ASSUME NEW raw \in Seq(Symbols)
    PROVE  \E T \in SUBSET Seq(Symbols) : \E n \in Nat : \E P : Parses(P, n, raw, T)
<1> DEFINE split == SplitAttributes(raw)
           attrs == split.attrs
           base  == [ok |-> split.ok, entity |-> NewEntity]
           T     == {attrs[i].value : i \in DOMAIN attrs}
           Op(acc, attr) == ParseStep(acc, attr)
           Body(iter) ==
             [s \in SUBSET (DOMAIN attrs) |->
                IF s = {} THEN base ELSE Op(iter[s \ {Max(s)}], attrs[Max(s)])]
           chosen == CHOOSE iter : iter = Body(iter)
           parsed == chosen[DOMAIN attrs]
           A      == ParseStates(T)
<1>1. ParseRaw(raw) = IF raw = <<>> \/ ~split.ok THEN [ok |-> raw = <<>>, entity |-> NewEntity]
                      ELSE [parsed EXCEPT !.ok = @ /\ parsed.entity.src # <<>>]
    BY DEF ParseRaw, FoldLeft, MapThenFoldSet, ParseStep
<1>2. PICK n \in Nat : DOMAIN attrs = 1..n
    BY AttributesTyped
<1> DEFINE next == [i \in 1..n |-> [a \in A |-> Op(a, attrs[i])]]
<1>3. base \in A
    BY NewTag, AttributesTyped DEF ParseStates
<1>4. ASSUME NEW a \in A, NEW i \in 1..n PROVE Op(a, attrs[i]) \in A
    <2> DEFINE attr == attrs[i]
               name == Name(attr.name)
               t    == attr.value
    <2>1. t \in T
        BY <1>2
    <2>2. a.ok \in BOOLEAN /\ a.entity \in TagsWith(T) /\ a = [ok |-> a.ok, entity |-> a.entity]
        BY DEF ParseStates
    <2>3. Ignored(attr.name) \in BOOLEAN
        BY DEF Ignored
    <2> HIDE DEF attr, name, t, T
    <2>4. CASE ~a.ok
        BY <2>2, <2>4 DEF attr, ParseStep
    <2>5. CASE a.ok /\ name \notin Names
        <3>1. Op(a, attr) = [a EXCEPT !.ok = Ignored(attr.name)]
            BY <2>5 DEF name, ParseStep
        <3> HIDE DEF Op
        <3> QED BY <2>2, <2>3, <3>1 DEF ParseStates, attr
    <2>6. CASE a.ok /\ name \in Names /\ ~Converts(name, t)
        <3>1. Op(a, attr) = [a EXCEPT !.ok = FALSE]
            BY <2>6 DEF name, t, ParseStep
        <3> HIDE DEF Op
        <3> QED BY <2>2, <3>1 DEF ParseStates, attr
    <2>7. CASE a.ok /\ name \in Names /\ Converts(name, t)
        <3> DEFINE e == [a.entity EXCEPT ![name] = Setting(name, @, t)]
        <3>1. Op(a, attr) = [a EXCEPT !.entity = e]
            BY <2>7 DEF name, t, ParseStep
        <3>2. e \in TagsWith(T)
            BY <2>1, <2>2, <2>7, SettingTyped
        <3> HIDE DEF Op, e
        <3> QED BY <2>2, <3>1, <3>2 DEF ParseStates, attr
    <2> QED BY <2>4, <2>5, <2>6, <2>7
<1>15. T \in SUBSET Seq(Symbols)
    BY AttributesTyped
<1> HIDE DEF Op, base, T, A, attrs
<1>5. \E iter : iter = Body(iter)
    <2>1. PICK iter \in [SUBSET (1..n) -> A] : IsFold(iter, base, next, n)
        <3>1. \A i \in 1..n : \A a \in A : next[i][a] \in A
            BY <1>4
        <3> HIDE DEF next
        <3> QED BY <1>2, <1>3, <3>1, FoldExists
    <2>2. ASSUME NEW s \in SUBSET (1..n), s # {}
          PROVE  next[Greatest(s)][iter[s \ {Greatest(s)}]] = Op(iter[s \ {Max(s)}], attrs[Max(s)])
        <3>1. Max(s) = Greatest(s) /\ Greatest(s) \in 1..n
            BY <1>2, <2>2, GreatestIn DEF Max, Greatest
        <3>2. iter[s \ {Greatest(s)}] \in A
            BY <2>1
        <3> QED BY <3>1, <3>2
    <2> HIDE DEF next
    <2>3. iter = Body(iter)
        BY <1>2, <2>1, <2>2 DEF IsFold
    <2> QED BY <2>3
<1>6. chosen = Body(chosen)
    <2> HIDE DEF Body
    <2> QED BY <1>5
<1> HIDE DEF chosen
<1> DEFINE S == {i \in 0..n : chosen[1..i] \in A}
           P == [i \in 0..n |-> chosen[1..i]]
<1>7. 0 \in S /\ P[0] = base
    BY <1>2, <1>3, <1>6
<1>8. ASSUME NEW i \in 1..n PROVE chosen[1..i] = Op(chosen[1..(i - 1)], attrs[i])
    <2>1. i \in Nat \ {0} /\ 1..i \in SUBSET (1..n)
        BY <1>2
    <2>2. Max(1..i) = i /\ (1..i) \ {i} = 1..(i - 1) /\ 1..i # {}
        BY <2>1, UpToGreatest DEF Max, Greatest
    <2> QED BY <1>2, <1>6, <2>1, <2>2
<1>9. ASSUME NEW i \in (0 + 1)..n, i - 1 \in S PROVE i \in S
    <2>1. i \in 1..n /\ i \in 0..n
        BY <1>2
    <2> QED BY <1>4, <1>8, <1>9, <2>1
<1>10. \A i \in 0..n : i \in S
    <2>1. n \in Int /\ 0 \in Int
        BY <1>2
    <2> HIDE DEF S
    <2> QED BY <1>7, <1>9, <2>1, Induction
<1>11. \A i \in 0..n : P[i] \in A
    BY <1>10
<1>12. \A i \in 1..n : P[i] = Op(P[i - 1], attrs[i])
    <2>1. \A i \in 1..n : i \in 0..n /\ i - 1 \in 0..n
        BY <1>2
    <2> QED BY <1>8, <2>1
<1>13. P[n] = parsed /\ P = [i \in 0..n |-> P[i]]
    <2>1. n \in 0..n
        BY <1>2
    <2> QED BY <1>2, <2>1
<1> HIDE DEF P, parsed, split
<1>14. Parses(P, n, raw, T)
    BY <1>1, <1>2, <1>7, <1>11, <1>12, <1>13 DEF Parses, base, A, attrs, Op, split
<1> QED BY <1>2, <1>14, <1>15

(* Whatever the text of a tag is, its limits are numbers *)
LEMMA ParsedTyped ==
    ASSUME NEW raw \in Seq(Symbols)
    PROVE  \E T \in SUBSET Seq(Symbols) : ParseRaw(raw).entity \in TagsWith(T)
<1>0. PICK T \in SUBSET Seq(Symbols), n \in Nat : \E P : Parses(P, n, raw, T)
    BY ParseSteps
<1>1. PICK P : Parses(P, n, raw, T)
    BY <1>0
<1>2. P[n] \in ParseStates(T)
    BY <1>1 DEF Parses
<1>3. ParseRaw(raw).entity \in {NewEntity, P[n].entity}
    BY <1>1, <1>2 DEF Parses, ParseStates
<1>4. P[n].entity \in TagsWith(T)
    BY <1>2 DEF ParseStates
<1> QED BY <1>3, <1>4, NewTag

-------------------------------------------------------------------------------
(* The Caddyfile *)

(* The path configurations *)
SiteRecords ==
    [scope : {<<"/">>} \cup Seq(STRING), timeout : Int, ttl : Int, max_body_size : Nat,
     page_id_source : {<<>>} \cup {CommaListToSlice(t) : t \in Seq(STRING)},
     allowed_methods : {<<>>} \cup {CommaListToSlice(Upper(t)) : t \in Seq(STRING)},
     cmd_header_name : {<<>>} \cup {Lower(t) : t \in Seq(STRING)},
     on_error : {<<>>, DefaultOnError} \cup {OnErrorText(t) : t \in Seq(STRING)},
     log_file : {<<>>} \cup Seq(STRING),
     log_level : {<<>>} \cup {Lower(t) : t \in Seq(STRING)},
     log : {"BlackHole", "Zap"}]

LEMMA NewSite == NewPathConfig \in SiteRecords
BY DefaultAssumption DEF NewPathConfig, SiteRecords

LEMMA LoadedTyped ==
    ASSUME NEW pc \in SiteRecords, NEW key \in Keys, NEW t \in Seq(STRING), Loads(key, t)
    PROVE  Loaded(pc, key, t) \in SiteRecords
<1>1. key \in {"timeout", "ttl", "max_body_size", "page_id_source", "allowed_methods",
               "cmd_header_name", "on_error", "log_file", "log_level", "cache", "resources"}
    BY DEF Keys, NewPathConfig
<1>2. CASE key \in {"timeout", "ttl"}
    <2>1. Durations[t] \in Int
        BY <1>2, AttributeAssumption DEF Loads
    <2>2. Loaded(pc, key, t) = [pc EXCEPT ![key] = Durations[t]]
        BY <1>2 DEF Loaded
    <2> QED BY <1>2, <2>1, <2>2 DEF SiteRecords
<1>3. CASE key = "max_body_size"
    <2>1. Sizes[t] \in Nat
        BY <1>3, AttributeAssumption DEF Loads
    <2>2. Loaded(pc, key, t) = [pc EXCEPT !.max_body_size = Sizes[t]]
        BY <1>3 DEF Loaded
    <2> QED BY <2>1, <2>2 DEF SiteRecords
<1>4. CASE key = "on_error"
    <2>1. Loaded(pc, key, t) = [pc EXCEPT !.on_error = OnErrorText(t)]
        BY <1>4 DEF Loaded
    <2> QED BY <2>1 DEF SiteRecords
<1>5. CASE key = "page_id_source"
    <2>1. Loaded(pc, key, t) = [pc EXCEPT !.page_id_source = CommaListToSlice(t)]
        BY <1>5 DEF Loaded
    <2> QED BY <2>1 DEF SiteRecords
<1>6. CASE key = "allowed_methods"
    <2>1. Loaded(pc, key, t) = [pc EXCEPT !.allowed_methods = CommaListToSlice(Upper(t))]
        BY <1>6 DEF Loaded
    <2> QED BY <2>1 DEF SiteRecords
<1>7. CASE key \in {"cmd_header_name", "log_level"}
    <2>1. Loaded(pc, key, t) = [pc EXCEPT ![key] = Lower(t)]
        BY <1>7 DEF Loaded
    <2> QED BY <1>7, <2>1, ZenonT(60) DEF SiteRecords
<1>8. CASE key = "log_file"
    <2>1. Loaded(pc, key, t) = [pc EXCEPT !.log_file = t]
        BY <1>8 DEF Loaded
    <2> QED BY <2>1 DEF SiteRecords
<1>9. CASE key \in {"cache", "resources"}
    BY <1>9 DEF Loaded
<1> QED BY <1>1, <1>2, <1>3, <1>4, <1>5, <1>6, <1>7, <1>8, <1>9

(* The setup fills in what is missing *)
LEMMA FallbacksTyped ==
    ASSUME NEW pc \in SiteRecords
    PROVE  /\ WithFallbacks(WithLogger(pc)) \in SiteRecords
           /\ WithFallbacks(WithLogger(pc)).max_body_size # 0
<1> DEFINE l == WithLogger(pc)
<1>1. l \in SiteRecords
    BY DEF WithLogger, SiteRecords
<1> HIDE DEF l
<1> DEFINE size  == IF l.max_body_size = 0 THEN DefaultMaxBodySize ELSE l.max_body_size
           out   == IF l.timeout = 0 THEN DefaultTimeOut ELSE l.timeout
           error == IF l.on_error = <<>> THEN DefaultOnError ELSE l.on_error
<1>2. size \in Nat \ {0} /\ out \in Int
    BY <1>1, DefaultAssumption DEF SiteRecords
<1>3. error = DefaultOnError \/ error = l.on_error
    OBVIOUS
<1>4. WithFallbacks(l) = [l EXCEPT !.max_body_size = size, !.timeout = out, !.on_error = error]
    BY DEF WithFallbacks
<1> HIDE DEF size, out, error
<1>5. WithFallbacks(l) \in SiteRecords /\ WithFallbacks(l).max_body_size = size
    BY <1>1, <1>2, <1>3, <1>4, ZenonT(60) DEF SiteRecords
<1> QED BY <1>2, <1>5 DEF l

LoadStates == [ok : BOOLEAN, pc : SiteRecords]

LEMMA BlockTyped ==
    ASSUME NEW block \in Blocks
    PROVE  ParsedBlock(block).pc \in SiteRecords /\ ParsedBlock(block).pc.max_body_size # 0
<1> DEFINE lines == block.lines
           n     == Len(lines)
           base  == [ok |-> Len(block.args) <= 1,
                     pc |-> IF block.args = <<>> THEN NewPathConfig
                            ELSE [NewPathConfig EXCEPT !.scope = block.args[1]]]
           A     == LoadStates
           Op(acc, line) ==
             IF ~acc.ok \/ line.key \notin Keys \/ line.arg = NoArg \/ ~Loads(line.key, line.arg)
             THEN [acc EXCEPT !.ok = FALSE]
             ELSE [acc EXCEPT !.pc = Loaded(@, line.key, line.arg)]
           Body(iter) ==
             [s \in SUBSET (DOMAIN lines) |->
                IF s = {} THEN base ELSE Op(iter[s \ {Max(s)}], lines[Max(s)])]
           chosen == CHOOSE iter : iter = Body(iter)
           loaded == chosen[DOMAIN lines]
           next   == [i \in 1..n |-> [a \in A |-> Op(a, lines[i])]]
<1>1. ParsedBlock(block) = [ok |-> loaded.ok /\ LogOpens(loaded.pc),
                            pc |-> WithFallbacks(WithLogger(loaded.pc))]
    BY DEF ParsedBlock, FoldLeft, MapThenFoldSet
<1>2. /\ n \in Nat /\ DOMAIN lines = 1..n
      /\ \A i \in 1..n : lines[i].key \in STRING /\ lines[i].arg \in Seq(STRING) \cup {NoArg}
    <2> DEFINE L == [key : STRING, arg : Seq(STRING) \cup {NoArg}]
    <2>1. lines \in Seq(L)
        BY DEF Blocks
    <2>2. \A l \in L : l.key \in STRING /\ l.arg \in Seq(STRING) \cup {NoArg}
        OBVIOUS
    <2> HIDE DEF L, lines
    <2>3. n \in Nat /\ DOMAIN lines = 1..n
        BY <2>1
    <2>4. \A i \in 1..n : lines[i] \in L
        BY <2>1, <2>3, ElementOfSeq
    <2> QED BY <2>2, <2>3, <2>4
<1>3. base \in A
    <2>1. CASE block.args = <<>>
        BY <2>1, NewSite DEF LoadStates
    <2>2. CASE block.args # <<>>
        <3>1. block.args[1] \in Seq(STRING) /\ Len(block.args) \in Nat
            BY <2>2, EmptySeq, ElementOfSeq DEF Blocks
        <3>2. [NewPathConfig EXCEPT !.scope = block.args[1]] \in SiteRecords
            BY <3>1, NewSite DEF SiteRecords
        <3>3. (Len(block.args) <= 1) \in BOOLEAN
            BY <3>1
        <3> QED BY <2>2, <3>2, <3>3 DEF LoadStates
    <2> QED BY <2>1, <2>2
<1>4. ASSUME NEW a \in A, NEW i \in 1..n PROVE Op(a, lines[i]) \in A
    <2> DEFINE line == lines[i]
    <2>1. a.ok \in BOOLEAN /\ a.pc \in SiteRecords /\ a = [ok |-> a.ok, pc |-> a.pc]
        BY DEF LoadStates
    <2>2. CASE ~a.ok \/ line.key \notin Keys \/ line.arg = NoArg \/ ~Loads(line.key, line.arg)
        BY <2>1, <2>2 DEF LoadStates
    <2>3. CASE ~(~a.ok \/ line.key \notin Keys \/ line.arg = NoArg \/ ~Loads(line.key, line.arg))
        <3> DEFINE l == Loaded(a.pc, line.key, line.arg)
        <3>1. line.arg \in Seq(STRING)
            BY <1>2, <2>3
        <3>2. l \in SiteRecords
            BY <2>1, <2>3, <3>1, LoadedTyped
        <3>3. Op(a, line) = [a EXCEPT !.pc = l]
            BY <2>3
        <3> HIDE DEF l, Op
        <3> QED BY <2>1, <3>2, <3>3 DEF LoadStates
    <2> QED BY <2>2, <2>3
<1> HIDE DEF Op, base, A, lines
<1>5. \E iter : iter = Body(iter)
    <2>1. PICK iter \in [SUBSET (1..n) -> A] : IsFold(iter, base, next, n)
        <3>1. \A i \in 1..n : \A a \in A : next[i][a] \in A
            BY <1>4
        <3> HIDE DEF next, n
        <3> QED BY <1>2, <1>3, <3>1, FoldExists
    <2> HIDE DEF n
    <2>2. ASSUME NEW s \in SUBSET (1..n), s # {}
          PROVE  next[Greatest(s)][iter[s \ {Greatest(s)}]] = Op(iter[s \ {Max(s)}], lines[Max(s)])
        <3>1. Max(s) = Greatest(s) /\ Greatest(s) \in 1..n
            BY <1>2, <2>2, GreatestIn DEF Max, Greatest
        <3>2. iter[s \ {Greatest(s)}] \in A
            BY <2>1
        <3> QED BY <3>1, <3>2
    <2> HIDE DEF next
    <2>3. iter = Body(iter)
        BY <1>2, <2>1, <2>2 DEF IsFold
    <2> QED BY <2>3
<1>6. chosen = Body(chosen)
    <2> HIDE DEF Body
    <2> QED BY <1>5
<1> HIDE DEF chosen, n
<1> DEFINE S == {i \in 0..n : chosen[1..i] \in A}
<1>7. 0 \in S
    BY <1>2, <1>3, <1>6
<1>8. ASSUME NEW i \in (0 + 1)..n, i - 1 \in S PROVE i \in S
    <2>1. i \in Nat \ {0} /\ i \in 1..n /\ i \in 0..n /\ 1..i \in SUBSET (1..n)
        BY <1>2
    <2>2. Max(1..i) = i /\ (1..i) \ {i} = 1..(i - 1) /\ 1..i # {}
        BY <2>1, UpToGreatest DEF Max, Greatest
    <2>3. chosen[1..i] = Op(chosen[1..(i - 1)], lines[i])
        BY <1>2, <1>6, <2>1, <2>2
    <2> QED BY <1>4, <1>8, <2>1, <2>3
<1>9. loaded \in A
    <2>1. n \in 0..n /\ n \in Int /\ 0 \in Int
        BY <1>2
    <2> HIDE DEF S
    <2>2. n \in S
        BY <1>7, <1>8, <2>1, Induction
    <2> QED BY <1>2, <2>2 DEF S
<1>10. loaded.pc \in SiteRecords
    BY <1>9 DEF A, LoadStates
<1> HIDE DEF loaded
<1> QED BY <1>1, <1>10, FallbacksTyped

-------------------------------------------------------------------------------
(* The limits of a tag, from its text and its site to its resources *)

IsTag(t) == /\ t = [name \in Names |-> t[name]]
            /\ t.timeout \in Int /\ t.maxbodysize \in Nat
            /\ \A list \in {t.forwardheaders, t.returnheaders} :
                  list = [all |-> list.all, names |-> list.names]

HasLimits(t, site) == /\ IsTag(t) /\ t.maxbodysize # 0
                      /\ site.timeout > 0 => t.timeout >= 1

IsSite(site) == site \in SiteRecords /\ site.max_body_size # 0

Served == {"asking", "answered", "failed"}

(* What the tags, the sites, the entry and the arguments have at a stage *)
LimitsInv ==
    /\ \A i \in DOMAIN tags : IsTag(tags[i])
    /\ DOMAIN sites \subseteq Nat /\ \A i \in DOMAIN sites : IsSite(sites[i])
    /\ stage \in Served \cup {"cached"} =>
          /\ entry.site \in DOMAIN sites
          /\ \A i \in DOMAIN entry.tags : HasLimits(entry.tags[i], sites[entry.site])
    /\ stage \in Served => /\ args = [req |-> args.req, url |-> args.url, tag |-> args.tag]
                           /\ HasLimits(args.tag, sites[entry.site])
    /\ stage \notin Served => asked = <<>>
    /\ \E S : asked \in Seq(S)
    /\ \A i \in DOMAIN asked : HasLimits(asked[i].tag, sites[entry.site])

LEMMA ParsedIsTag ==
    ASSUME NEW raw \in Seq(Symbols)
    PROVE  IsTag(ParseRaw(raw).entity) /\ ParseRaw(raw).entity.key \in Seq(Symbols)
<1>1. PICK T \in SUBSET Seq(Symbols) : ParseRaw(raw).entity \in TagsWith(T)
    BY ParsedTyped
<1> DEFINE e == ParseRaw(raw).entity
<1>2. e \in [Names -> SettingsOf(T)] /\ e.timeout \in Int /\ e.maxbodysize \in Nat
    BY <1>1 DEF TagsWith
<1> HIDE DEF e
<1>3. e = [name \in Names |-> e[name]]
    BY <1>2
<1>4. ASSUME NEW list \in {e.forwardheaders, e.returnheaders}
      PROVE  list = [all |-> list.all, names |-> list.names]
    BY <1>1 DEF TagsWith, HeaderLists, e
<1>5. e.key \in Seq(Symbols)
    <2>1. <<>> \in Seq(Symbols) /\ e.key \in {<<>>} \cup T
        BY <1>1 DEF TagsWith, e
    <2> QED BY <2>1
<1> QED BY <1>2, <1>3, <1>4, <1>5 DEF IsTag, e

(* The site fills in the limits that the tag leaves out *)
LEMMA DefaultsLimit ==
    ASSUME NEW e, IsTag(e), NEW site, IsSite(site)
    PROVE  HasLimits(WithDefaults(e, site), site)
<1> DEFINE error == IF e.onerror = <<>> THEN site.on_error ELSE e.onerror
           size  == IF e.maxbodysize = 0 THEN site.max_body_size ELSE e.maxbodysize
           out   == IF e.timeout < 1 /\ site.timeout > 0 THEN site.timeout ELSE e.timeout
           ttl   == IF e.ttl < 1 /\ site.ttl > 0 THEN site.ttl ELSE e.ttl
<1>1. /\ e = [name \in Names |-> e[name]] /\ e.timeout \in Int /\ e.maxbodysize \in Nat
      /\ site.timeout \in Int /\ site.max_body_size \in Nat \ {0}
    BY DEF IsTag, IsSite, SiteRecords
<1>2. size \in Nat \ {0} /\ out \in Int /\ (site.timeout > 0 => out >= 1)
    BY <1>1
<1>3. WithDefaults(e, site) = [e EXCEPT !.onerror = error, !.maxbodysize = size, !.timeout = out,
                                        !.ttl = ttl]
    BY DEF WithDefaults
<1> DEFINE w == WithDefaults(e, site)
<1> HIDE DEF error, size, out, ttl, w
<1>4. w = [name \in Names |-> w[name]]
    BY <1>1, <1>3 DEF w
<1>5. w.maxbodysize = size /\ w.timeout = out
    BY <1>1, <1>3, NamesAre DEF w
<1>6. w.forwardheaders = e.forwardheaders /\ w.returnheaders = e.returnheaders
    BY <1>1, <1>3, NamesAre DEF w
<1>7. IsTag(w)
    BY <1>1, <1>2, <1>4, <1>5, <1>6 DEF IsTag
<1> QED BY <1>2, <1>5, <1>7 DEF HasLimits, w

(* What is filled in leaves the limits alone *)
LEMMA FillingKeepsLimits ==
    ASSUME NEW a, NEW site, NEW url, HasLimits(a.tag, site),
           a = [req |-> a.req, url |-> a.url, tag |-> a.tag]
    PROVE  /\ HasLimits(Filled(a, url).tag, site)
           /\ Filled(a, url) = [req |-> Filled(a, url).req, url |-> Filled(a, url).url,
                                tag |-> Filled(a, url).tag]
<1> DEFINE u == Replace(a.req, url)
           k == Replace(a.req, a.tag.key)
           t == [a.tag EXCEPT !.key = k]
<1>1. Filled(a, url) = [a EXCEPT !.url = u, !.tag = t]
    BY DEF Filled
<1> HIDE DEF u, k
<1>2. /\ a.tag = [name \in Names |-> a.tag[name]] /\ a.tag.timeout \in Int
      /\ a.tag.maxbodysize \in Nat \ {0} /\ (site.timeout > 0 => a.tag.timeout >= 1)
    BY DEF HasLimits, IsTag
<1>3. t = [name \in Names |-> t[name]]
    BY <1>2
<1>4. /\ t.timeout = a.tag.timeout /\ t.maxbodysize = a.tag.maxbodysize
      /\ t.forwardheaders = a.tag.forwardheaders /\ t.returnheaders = a.tag.returnheaders
    BY <1>2, NamesAre
<1> HIDE DEF t
<1>5. HasLimits(t, site)
    BY <1>2, <1>3, <1>4 DEF HasLimits, IsTag
<1>6. Filled(a, url) = [req |-> a.req, url |-> u, tag |-> t]
    BY <1>1
<1> QED BY <1>5, <1>6

LEMMA SiteIsIn ==
    ASSUME NEW r, DOMAIN sites \subseteq Nat, ConfigForPath(sites, r) # 0
    PROVE  ConfigForPath(sites, r) \in DOMAIN sites
<1> DEFINE fits == {i \in DOMAIN sites : Matches(r.path, sites[i].scope)}
<1>1. fits # {} /\ ConfigForPath(sites, r) = CHOOSE i \in fits : \A j \in fits : i <= j
    BY DEF ConfigForPath
<1>2. fits \in SUBSET Nat
    OBVIOUS
<1>3. \E i \in fits : \A j \in fits : i <= j
    <2> HIDE DEF fits
    <2> QED BY <1>1, <1>2, Least
<1>4. ConfigForPath(sites, r) \in fits
    <2> HIDE DEF fits
    <2> QED BY <1>1, <1>3
<1> QED BY <1>4

LEMMA LimitsStart ==
    ASSUME PipelineInit
    PROVE  LimitsInv
<1>1. tags = <<>> /\ sites = <<>> /\ asked = <<>> /\ stage = "scanning"
    BY DEF PipelineInit
<1>2. DOMAIN tags = {} /\ DOMAIN sites = {} /\ DOMAIN asked = {} /\ asked \in Seq({})
    BY <1>1
<1> QED BY <1>1, <1>2 DEF LimitsInv, Served

LEMMA LimitsStep ==
    ASSUME ScannerInv, LimitsInv, [PipelineNext]_all
    PROVE  LimitsInv'
<1> USE DEF Served
<1>1. CASE ScanPage \/ UNCHANGED all
    BY <1>1 DEF LimitsInv, ScanPage, pipeline, all
<1>2. CASE ParsePage
    <2> DEFINE raws == [i \in DOMAIN found |-> found[i].raw]
    <2>1. ASSUME NEW i \in DOMAIN found PROVE IsTag(ParseRaw(raws[i]).entity)
        <3>1. found[i].raw \in Seq(Symbols)
            <4>1. found[i] \in Entities
                BY FoundEntity DEF ScannerInv, Scanning
            <4> QED BY <4>1 DEF Entities
        <3>2. raws[i] = found[i].raw
            OBVIOUS
        <3> QED BY <3>1, <3>2, ParsedIsTag
    <2>2. /\ tags' = IF ParsedTags(raws).ok THEN ParsedTags(raws).tags ELSE <<>>
          /\ stage' \in {"parsed", "unparsed"} /\ asked' = asked /\ sites' = sites
          /\ entry' = entry /\ asked = <<>>
        BY <1>2 DEF ParsePage, LimitsInv
    <2>3. ParsedTags(raws).tags = [i \in DOMAIN found |-> ParseRaw(raws[i]).entity]
        BY DEF ParsedTags
    <2>4. ASSUME NEW i \in DOMAIN tags' PROVE IsTag(tags'[i])
        <3>1. CASE ParsedTags(raws).ok
            BY <2>1, <2>2, <2>3, <3>1
        <3>2. CASE ~ParsedTags(raws).ok
            BY <2>2, <3>2
        <3> QED BY <3>1, <3>2
    <2>5. ASSUME NEW i \in DOMAIN tags' PROVE IsTag(tags[i])'
        BY <2>4 DEF IsTag
    <2> HIDE DEF raws
    <2> QED BY <2>2, <2>5 DEF LimitsInv
<1>3. ASSUME NEW file \in Caddyfiles, Configure(file) PROVE LimitsInv'
    <2>1. file \in Seq(Blocks)
        BY CaddyfileAssumption
    <2>2. /\ sites' = IF configEsiParse(file).ok THEN configEsiParse(file).sites ELSE <<>>
          /\ stage' \in {"configured", "refused"} /\ asked' = asked /\ tags' = tags
          /\ asked = <<>>
        BY <1>3 DEF Configure, LimitsInv
    <2>3. configEsiParse(file).sites = [i \in DOMAIN file |-> ParsedBlock(file[i]).pc]
        BY DEF configEsiParse
    <2>4. DOMAIN sites' \subseteq Nat
        <3>1. DOMAIN file \subseteq Nat /\ DOMAIN <<>> = {}
            BY <2>1
        <3> QED BY <2>2, <2>3, <3>1
    <2>5. ASSUME NEW i \in DOMAIN sites' PROVE IsSite(sites'[i])
        <3>1. CASE configEsiParse(file).ok
            <4>1. i \in DOMAIN file /\ sites'[i] = ParsedBlock(file[i]).pc
                BY <2>2, <2>3, <3>1
            <4>2. file[i] \in Blocks
                BY <2>1, <4>1, ElementOfSeq
            <4> QED BY <4>1, <4>2, BlockTyped DEF IsSite
        <3>2. CASE ~configEsiParse(file).ok
            BY <2>2, <3>2
        <3> QED BY <3>1, <3>2
    <2>6. ASSUME NEW i \in DOMAIN sites' PROVE IsSite(sites[i])'
        BY <2>5 DEF IsSite, SiteRecords
    <2> QED BY <2>2, <2>4, <2>6 DEF LimitsInv
<1>4. ASSUME NEW r \in Clients, Store(r) PROVE LimitsInv'
    <2> DEFINE at == ConfigForPath(sites, r)
    <2>1. /\ at # 0 /\ sites' = sites /\ tags' = tags /\ asked' = asked /\ asked = <<>>
          /\ stage' = "cached" /\ entry'.site = at
          /\ entry'.tags = [i \in DOMAIN tags |-> WithDefaults(tags[i], sites[at])]
        BY <1>4 DEF Store, Enters, LimitsInv
    <2>2. at \in DOMAIN sites
        BY <2>1, SiteIsIn DEF LimitsInv
    <2> HIDE DEF at
    <2>3. ASSUME NEW i \in DOMAIN tags PROVE HasLimits(WithDefaults(tags[i], sites[at]), sites[at])
        BY <2>2, DefaultsLimit DEF LimitsInv
    <2>4. ASSUME NEW i \in DOMAIN entry'.tags PROVE HasLimits(entry'.tags[i], sites[at])
        BY <2>1, <2>3
    <2>5. ASSUME NEW i \in DOMAIN entry'.tags PROVE HasLimits(entry.tags[i], sites[entry.site])'
        BY <2>1, <2>4 DEF HasLimits, IsTag
    <2>6. (\A i \in DOMAIN tags : IsTag(tags[i]))' /\ (\A i \in DOMAIN sites : IsSite(sites[i]))'
        BY <2>1 DEF LimitsInv, IsTag, IsSite, SiteRecords
    <2> QED BY <2>1, <2>2, <2>5, <2>6 DEF LimitsInv
<1>5. ASSUME NEW r \in Clients, Serve(r) PROVE LimitsInv'
    <2>1. PICK i \in DOMAIN entry.tags : args' = NewResourceArgs(r, entry.tags[i])
        BY <1>5 DEF Serve
    <2>2. /\ stage = "cached" /\ stage' = "asking" /\ entry' = entry /\ sites' = sites
          /\ tags' = tags /\ asked' = asked /\ asked = <<>>
        BY <1>5 DEF Serve, LimitsInv
    <2>3. HasLimits(entry.tags[i], sites[entry.site])
        BY <2>2 DEF LimitsInv
    <2>4. /\ args'.tag = entry.tags[i]
          /\ args' = [req |-> args'.req, url |-> args'.url, tag |-> args'.tag]
        BY <2>1 DEF NewResourceArgs
    <2>5. HasLimits(args.tag, sites[entry.site])'
        BY <2>2, <2>3, <2>4 DEF HasLimits, IsTag
    <2> QED BY <2>2, <2>4, <2>5 DEF LimitsInv
<1>6. CASE Ask
    <2> DEFINE source == args.tag.src[Len(asked) + 1]
    <2>1. /\ stage = "asking" /\ args' = Filled(args, source) /\ asked' = Append(asked, args')
          /\ stage' \in {"asking", "answered"} /\ entry' = entry /\ sites' = sites /\ tags' = tags
        BY <1>6 DEF Ask
    <2> HIDE DEF source
    <2>2. /\ HasLimits(args'.tag, sites[entry.site])
          /\ args' = [req |-> args'.req, url |-> args'.url, tag |-> args'.tag]
        BY <2>1, FillingKeepsLimits DEF LimitsInv
    <2>3. HasLimits(args.tag, sites[entry.site])'
        BY <2>1, <2>2 DEF HasLimits, IsTag
    <2>4. PICK S : asked \in Seq(S)
        BY DEF LimitsInv
    <2>5. /\ asked' \in Seq(S \cup {args'})
          /\ DOMAIN asked' = 1..(Len(asked) + 1) /\ DOMAIN asked = 1..Len(asked)
          /\ asked'[Len(asked) + 1] = args' /\ \A i \in 1..Len(asked) : asked'[i] = asked[i]
          /\ Len(asked) \in Nat
        <3>1. asked \in Seq(S \cup {args'})
            BY <2>4, SeqMonotonic
        <3> QED BY <2>1, <3>1
    <2>6. ASSUME NEW i \in DOMAIN asked' PROVE HasLimits(asked'[i].tag, sites[entry.site])
        <3>1. i = Len(asked) + 1 \/ i \in DOMAIN asked
            BY <2>5
        <3> QED BY <2>2, <2>5, <3>1 DEF LimitsInv
    <2>7. ASSUME NEW i \in DOMAIN asked' PROVE HasLimits(asked[i].tag, sites[entry.site])'
        BY <2>1, <2>6 DEF HasLimits, IsTag
    <2> QED BY <2>1, <2>2, <2>3, <2>5, <2>7 DEF LimitsInv
<1>7. CASE GiveUp
    BY <1>7 DEF GiveUp, LimitsInv
<1> QED BY <1>1, <1>2, <1>3, <1>4, <1>5, <1>6, <1>7 DEF PipelineNext

(* Every resource is asked with a timeout and with a limit of its answer,  *)
(* for every page, Caddyfile and request.                                  *)
THEOREM LimitsReachResources == PipelineSpec => []AskedWithLimits
<1>1. ScannerInv /\ LimitsInv => AskedWithLimits
    BY DEF LimitsInv, AskedWithLimits, HasLimits, IsTag, Limited
<1>2. PipelineInit => LimitsInv
    BY LimitsStart
<1>3. ScannerInv /\ LimitsInv /\ [PipelineNext]_all => LimitsInv'
    BY LimitsStep
<1> QED BY <1>1, <1>2, <1>3, ScannerInvariant, PTL DEF PipelineSpec

-------------------------------------------------------------------------------
(* Lists and addresses *)

LEMMA DenseTyped ==
    ASSUME NEW t \in Seq(STRING)
    PROVE  Dense(t) \in Seq(STRING)
<1> DEFINE texts == [i \in DOMAIN t |-> IF t[i] \in Spaces THEN <<>> ELSE <<t[i]>>]
<1>1. texts \in Seq(Seq(STRING))
    <2>1. Len(t) \in Nat /\ DOMAIN t = 1..Len(t)
        OBVIOUS
    <2>2. ASSUME NEW i \in 1..Len(t) PROVE texts[i] \in Seq(STRING)
        <3>1. t[i] \in STRING
            BY ElementOfSeq
        <3>2. <<>> \in Seq(STRING) /\ <<t[i]>> \in Seq(STRING)
            BY <3>1
        <3> QED BY <2>1, <3>2
    <2>3. \A i \in 1..Len(t) : texts[i] \in Seq(STRING)
        BY <2>2
    <2>4. texts = [i \in 1..Len(t) |-> texts[i]]
        BY <2>1
    <2> HIDE DEF texts
    <2> QED BY <2>1, <2>3, <2>4, IsASeq
<1> HIDE DEF texts
<1>2. FlattenSeq(texts) \in Seq(STRING)
    BY <1>1, FlattenedTyped
<1> QED BY <1>2 DEF Dense, texts

(* The parts so far, the last of which may grow *)
SplitStates(A) == Seq(Seq(A)) \ {<<>>}
SplitStep(parts, s, separator) ==
    IF s = separator THEN Append(parts, <<>>) ELSE Append(Front(parts), Append(Last(parts), s))
Splits(P, t, separator, A) ==
    /\ P \in [0..Len(t) -> SplitStates(A)] /\ P[0] = << <<>> >>
    /\ \A i \in 1..Len(t) : P[i] = SplitStep(P[i - 1], t[i], separator)

LEMMA SplitStepTyped ==
    ASSUME NEW A, NEW a \in SplitStates(A), NEW s \in A, NEW separator
    PROVE  /\ SplitStep(a, s, separator) \in SplitStates(A)
           /\ Len(SplitStep(a, s, separator)) = IF s = separator THEN Len(a) + 1 ELSE Len(a)
<1>1. a \in Seq(Seq(A)) /\ Len(a) \in Nat /\ Len(a) # 0
    BY EmptySeq DEF SplitStates
<1>2. Last(a) \in Seq(A)
    <2>1. Len(a) \in 1..Len(a)
        BY <1>1
    <2> QED BY <1>1, <2>1, ElementOfSeq DEF Last
<1>3. Front(a) \in Seq(Seq(A)) /\ Len(Front(a)) = Len(a) - 1
    <2> DEFINE m == Len(a) - 1
    <2>1. 1 \in Int /\ m \in Int /\ \A i \in 1..m : a[i] \in Seq(A)
        BY <1>1, ElementOfSeq
    <2>2. 1 <= m \/ m = 0
        <3> DEFINE l == Len(a)
        <3>1. l \in Nat /\ l # 0 /\ m = l - 1
            BY <1>1
        <3> HIDE DEF l, m
        <3> QED BY <3>1
    <2> HIDE DEF m
    <2>3. /\ SubSeq(a, 1, m) \in Seq(Seq(A))
          /\ Len(SubSeq(a, 1, m)) = IF 1 <= m THEN m - 1 + 1 ELSE 0
        BY <2>1, SubSeqProperties
    <2>4. Len(SubSeq(a, 1, m)) = m
        BY <2>1, <2>2, <2>3
    <2> QED BY <2>3, <2>4 DEF Front, m
<1>4. Append(Last(a), s) \in Seq(A) /\ <<>> \in Seq(A)
    <2> DEFINE l == Last(a)
    <2>1. l \in Seq(A)
        BY <1>2
    <2> HIDE DEF l
    <2>2. <<>> \in Seq(A)
        OBVIOUS
    <2>3. \A E : \A q \in Seq(E), x \in E : Append(q, x) \in Seq(E)
        BY AppendProperties
    <2>4. Append(l, s) \in Seq(A)
        BY <2>1, <2>3
    <2> QED BY <2>2, <2>4 DEF l
<1>5. \A x \in Seq(A), b \in Seq(Seq(A)) : Append(b, x) \in SplitStates(A) /\ Len(Append(b, x)) = Len(b) + 1
    <2> SUFFICES ASSUME NEW x \in Seq(A), NEW b \in Seq(Seq(A))
                 PROVE  Append(b, x) \in SplitStates(A) /\ Len(Append(b, x)) = Len(b) + 1
        OBVIOUS
    <2>1. /\ Append(b, x) \in Seq(Seq(A)) /\ Len(Append(b, x)) = Len(b) + 1
          /\ Len(b) \in Nat /\ Len(<<>>) = 0
        OBVIOUS
    <2>2. Append(b, x) # <<>>
        BY <2>1
    <2> QED BY <2>1, <2>2 DEF SplitStates
<1>6. CASE s = separator
    BY <1>1, <1>4, <1>5, <1>6 DEF SplitStep
<1>7. CASE s # separator
    <2>1. SplitStep(a, s, separator) = Append(Front(a), Append(Last(a), s))
        BY <1>7 DEF SplitStep
    <2>2. Len(a) - 1 + 1 = Len(a)
        BY <1>1
    <2> QED BY <1>3, <1>4, <1>5, <1>7, <2>1, <2>2
<1> QED BY <1>6, <1>7

LEMMA SplitSteps ==
    ASSUME NEW A, NEW t \in Seq(A), NEW separator
    PROVE  \E P : Splits(P, t, separator, A) /\ SplitAt(t, separator) = P[Len(t)]
<1> DEFINE n    == Len(t)
           base == << <<>> >>
           B    == SplitStates(A)
           Body(iter) ==
             [s \in SUBSET (DOMAIN t) |->
                IF s = {} THEN base ELSE SplitStep(iter[s \ {Max(s)}], t[Max(s)], separator)]
           chosen == CHOOSE iter : iter = Body(iter)
           next == [i \in 1..n |-> [a \in B |-> SplitStep(a, t[i], separator)]]
<1>1. SplitAt(t, separator) = chosen[DOMAIN t]
    BY DEF SplitAt, FoldLeft, MapThenFoldSet, SplitStep
<1>2. n \in Nat /\ DOMAIN t = 1..n /\ \A i \in 1..n : t[i] \in A
    BY ElementOfSeq
<1>3. base \in B
    <2>1. <<>> \in Seq(A) /\ Len(base) = 1
        OBVIOUS
    <2>2. base \in Seq(Seq(A)) /\ Len(<<>>) = 0
        BY <2>1
    <2> QED BY <2>1, <2>2 DEF SplitStates
<1>4. \A a \in B, s \in A : SplitStep(a, s, separator) \in B
    BY SplitStepTyped
<1> HIDE DEF base, B
<1>5. \E iter : iter = Body(iter)
    <2>1. PICK iter \in [SUBSET (1..n) -> B] : IsFold(iter, base, next, n)
        <3>1. \A i \in 1..n : \A a \in B : next[i][a] \in B
            BY <1>2, <1>4
        <3> HIDE DEF next, n
        <3> QED BY <1>2, <1>3, <3>1, FoldExists
    <2> HIDE DEF n
    <2>2. ASSUME NEW s \in SUBSET (1..n), s # {}
          PROVE  next[Greatest(s)][iter[s \ {Greatest(s)}]]
                    = SplitStep(iter[s \ {Max(s)}], t[Max(s)], separator)
        <3>1. Max(s) = Greatest(s) /\ Greatest(s) \in 1..n
            BY <1>2, <2>2, GreatestIn DEF Max, Greatest
        <3>2. iter[s \ {Greatest(s)}] \in B
            BY <2>1
        <3> QED BY <3>1, <3>2
    <2> HIDE DEF next
    <2>3. iter = Body(iter)
        BY <1>2, <2>1, <2>2 DEF IsFold
    <2> QED BY <2>3
<1>6. chosen = Body(chosen)
    <2> HIDE DEF Body
    <2> QED BY <1>5
<1> HIDE DEF chosen, n
<1> DEFINE P == [i \in 0..n |-> chosen[1..i]]
           S == {i \in 0..n : P[i] \in B}
<1>7. P[0] = base
    <2>1. 0 \in 0..n /\ 1..0 = {}
        BY <1>2
    <2> QED BY <1>2, <1>6, <2>1
<1>8. ASSUME NEW i \in 1..n PROVE P[i] = SplitStep(P[i - 1], t[i], separator)
    <2>1. i \in Nat \ {0} /\ i \in 0..n /\ i - 1 \in 0..n /\ 1..i \in SUBSET (1..n)
        BY <1>2
    <2>2. Max(1..i) = i /\ (1..i) \ {i} = 1..(i - 1) /\ 1..i # {}
        BY <2>1, UpToGreatest DEF Max, Greatest
    <2>3. chosen[1..i] = SplitStep(chosen[1..(i - 1)], t[i], separator)
        BY <1>2, <1>6, <2>1, <2>2
    <2> QED BY <2>1, <2>3
<1> HIDE DEF P
<1>9. \A i \in 0..n : P[i] \in B
    <2>1. 0 \in S
        BY <1>2, <1>3, <1>7
    <2>2. ASSUME NEW i \in (0 + 1)..n, i - 1 \in S PROVE i \in S
        <3>1. i \in 1..n /\ i \in 0..n
            BY <1>2
        <3> QED BY <1>2, <1>4, <1>8, <2>2, <3>1
    <2>3. \A i \in 0..n : i \in 0..i /\ i \in Int /\ 0 \in Int /\ \A j \in 1..i : j \in 1..n
        BY <1>2
    <2>4. ASSUME NEW i \in 0..n PROVE i \in S
        <3>1. \A j \in (0 + 1)..i : j - 1 \in S => j \in S
            <4>1. \A j \in (0 + 1)..i : j \in (0 + 1)..n
                BY <1>2
            <4> HIDE DEF S
            <4> QED BY <2>2, <4>1
        <3>2. i \in 0..i /\ i \in Int /\ 0 \in Int
            BY <2>3
        <3> HIDE DEF S
        <3> QED BY <2>1, <3>1, <3>2, Induction
    <2> QED BY <2>4
<1>10. P \in [0..n -> B] /\ SplitAt(t, separator) = P[n]
    <2>1. P = [i \in 0..n |-> P[i]]
        BY DEF P
    <2>2. n \in 0..n /\ P[n] = chosen[DOMAIN t]
        BY <1>2 DEF P
    <2> QED BY <1>1, <1>9, <2>1, <2>2
<1> QED BY <1>7, <1>8, <1>10 DEF Splits, base, B, n

LEMMA SplitTyped ==
    ASSUME NEW A, NEW t \in Seq(A), NEW separator
    PROVE  SplitAt(t, separator) \in SplitStates(A)
<1>1. Len(t) \in 0..Len(t)
    <2>1. Len(t) \in Nat
        OBVIOUS
    <2> QED BY <2>1
<1> QED BY <1>1, SplitSteps DEF Splits

LEMMA ListTyped ==
    ASSUME NEW t \in Seq(STRING)
    PROVE  CommaListToSlice(t) \in Seq(Seq(STRING))
<1>1. SplitAt(Dense(t), ",") \in Seq(Seq(STRING))
    BY DenseTyped, SplitTyped DEF SplitStates
<1>2. <<>> \in Seq(Seq(STRING))
    OBVIOUS
<1> QED BY <1>1, <1>2 DEF CommaListToSlice

LEMMA SourcesTyped ==
    ASSUME NEW site \in SiteRecords
    PROVE  site.page_id_source \in Seq(Seq(STRING))
<1>1. site.page_id_source = <<>> \/ \E t \in Seq(STRING) : site.page_id_source = CommaListToSlice(t)
    BY DEF SiteRecords
<1>2. <<>> \in Seq(Seq(STRING))
    OBVIOUS
<1> QED BY <1>1, <1>2, ListTyped

-------------------------------------------------------------------------------
(* The ID of a page *)

LEMMA RequestTyped ==
    ASSUME NEW r \in Clients
    PROVE  /\ r.scheme \in Seq(STRING) /\ r.user \in Seq(STRING) /\ r.host \in Seq(STRING)
           /\ r.path \in Seq(STRING) /\ r.rawpath \in Seq(STRING) /\ r.query \in Seq(STRING)
           /\ r.fragment \in Seq(STRING) /\ r.remote \in Seq(STRING)
           /\ r.cookies \in Seq([name : Seq(STRING), value : Seq(STRING)])
           /\ r.path # <<>> /\ (r.path[1] = "/" \/ r.path = <<"*">>)
BY ClientAssumption

LEMMA StringsAreSymbols == \A t \in Seq(STRING) : t \in Seq(Symbols)
<1>1. STRING \subseteq Symbols
    BY DEF Symbols
<1> QED BY <1>1, SeqMonotonic

LEMMA HeaderTyped ==
    ASSUME NEW r \in Clients, NEW name
    PROVE  Get(r.header, name) \in Seq(STRING)
<1>1. CASE name \in DOMAIN r.header
    <2>1. r.header[name] \in Seq(Seq(STRING)) /\ r.header[name] # <<>>
        BY <1>1, ClientAssumption
    <2>2. 1 \in 1..Len(r.header[name])
        BY <2>1, EmptySeq
    <2>3. r.header[name][1] \in Seq(STRING)
        BY <2>1, <2>2, ElementOfSeq
    <2> QED BY <1>1, <2>3 DEF Get
<1>2. CASE name \notin DOMAIN r.header
    <2>1. <<>> \in Seq(STRING)
        OBVIOUS
    <2> QED BY <1>2, <2>1 DEF Get
<1> QED BY <1>1, <1>2

LEMMA MinIn ==
    ASSUME NEW S \in SUBSET Nat, S # {}
    PROVE  Min(S) \in S
<1>1. \E i \in S : \A j \in S : i <= j
    BY Least
<1> QED BY <1>1 DEF Min

LEMMA FoundIPTyped ==
    ASSUME NEW r \in Clients
    PROVE  FindIP(r) \in Unicast \cup {<<>>}
<1> DEFINE List(k)  == SplitAt(Get(r.header, ForwardedIPHeaders[k]), ",")
           Hosts(k) == [i \in DOMAIN List(k) |-> HostOf(Filtered(List(k)[i]))]
           good(k)  == {i \in DOMAIN Hosts(k) : Hosts(k)[i] \in Unicast}
           has      == {k \in DOMAIN ForwardedIPHeaders : good(k) # {}}
           k0       == Min(has)
           i0       == Max(good(k0))
<1>1. FindIP(r) = IF has = {} THEN <<>> ELSE Hosts(k0)[i0]
    BY DEF FindIP
<1>2. CASE has = {}
    BY <1>1, <1>2
<1>3. CASE has # {}
    <2>1. k0 \in has
        <3>1. DOMAIN ForwardedIPHeaders \subseteq Nat
            BY DEF ForwardedIPHeaders
        <3>2. has \in SUBSET Nat
            BY <3>1
        <3> HIDE DEF has
        <3> QED BY <1>3, <3>2, MinIn
    <2>2. List(k0) \in Seq(Seq(STRING))
        BY HeaderTyped, SplitTyped DEF SplitStates
    <2> DEFINE n == Len(List(k0))
    <2>3. n \in Nat /\ DOMAIN List(k0) = 1..n
        <3> HIDE DEF List
        <3> QED BY <2>2
    <2>4. good(k0) \in SUBSET (1..n) /\ good(k0) # {}
        BY <2>1, <2>3
    <2>5. i0 \in good(k0)
        <3> HIDE DEF good, n, k0
        <3>1. Greatest(good(k0)) \in good(k0)
            BY <2>3, <2>4, GreatestIn
        <3> QED BY <3>1 DEF Max, Greatest
    <2>6. Hosts(k0)[i0] \in Unicast
        BY <2>5
    <2> HIDE DEF Hosts, k0, i0, has
    <2> QED BY <1>1, <1>3, <2>6
<1> QED BY <1>2, <1>3

LEMMA RealIPTyped ==
    ASSUME NEW r \in Clients
    PROVE  RealIP(r) \in Seq(STRING)
<1>2. <<>> \in Seq(STRING)
    OBVIOUS
<1>1. <<>> \in Seq(STRING) /\ FindIP(r) \in Seq(STRING)
    BY <1>2, FoundIPTyped, AddressAssumption
<1> QED BY <1>1, AddressAssumption DEF RealIP

LEMMA URLTyped ==
    ASSUME NEW r \in Clients
    PROVE  URLText(r) \in Seq(Symbols)
<1>1. \A u, v \in Seq(Symbols) : u \o v \in Seq(Symbols)
    BY ConcatProperties
<1>2. /\ <<>> \in Seq(Symbols) /\ <<":">> \in Seq(Symbols) /\ <<"?">> \in Seq(Symbols)
      /\ <<"/", "/">> \in Seq(Symbols) /\ <<"@">> \in Seq(Symbols) /\ <<"#">> \in Seq(Symbols)
    BY DEF Symbols
<1>3. \A value \in {r.scheme, r.user, r.host, r.path, r.query, r.fragment} : value \in Seq(Symbols)
    BY RequestTyped, StringsAreSymbols
<1> DEFINE scheme == IF r.scheme = <<>> THEN <<>> ELSE r.scheme \o <<":">>
           slash  == IF r.scheme \o r.host \o r.user = <<>> THEN <<>> ELSE <<"/", "/">>
           user   == IF r.user = <<>> THEN <<>> ELSE r.user \o <<"@">>
           query  == IF r.forcequery \/ r.query # <<>> THEN <<"?">> \o r.query ELSE <<>>
           end    == IF r.fragment = <<>> THEN <<>> ELSE <<"#">> \o r.fragment
<1>4. /\ scheme \in Seq(Symbols) /\ slash \in Seq(Symbols) /\ user \in Seq(Symbols)
      /\ query \in Seq(Symbols) /\ end \in Seq(Symbols)
    BY <1>1, <1>2, <1>3
<1>5. URLText(r) = scheme \o slash \o user \o r.host \o r.path \o query \o end
    BY DEF URLText, QueryText
<1> HIDE DEF scheme, slash, user, query, end
<1> QED BY <1>1, <1>3, <1>4, <1>5

LEMMA CookieTyped ==
    ASSUME NEW r \in Clients, NEW name
    PROVE  LET baked == {i \in DOMAIN r.cookies : r.cookies[i].name = name}
           IN  baked # {} => r.cookies[Min(baked)].value \in Seq(STRING)
<1> DEFINE baked == {i \in DOMAIN r.cookies : r.cookies[i].name = name}
           C == [name : Seq(STRING), value : Seq(STRING)]
<1> SUFFICES ASSUME baked # {} PROVE r.cookies[Min(baked)].value \in Seq(STRING)
    OBVIOUS
<1>1. r.cookies \in Seq(C) /\ \A c \in C : c.value \in Seq(STRING)
    BY RequestTyped
<1> HIDE DEF C
<1>2. DOMAIN r.cookies = 1..Len(r.cookies) /\ Len(r.cookies) \in Nat
    BY <1>1
<1>3. Min(baked) \in baked
    <2>1. baked \in SUBSET Nat
        BY <1>2
    <2> HIDE DEF baked
    <2> QED BY <2>1, MinIn
<1>4. Min(baked) \in 1..Len(r.cookies)
    BY <1>2, <1>3
<1> HIDE DEF baked
<1>5. r.cookies[Min(baked)] \in C
    BY <1>1, <1>4, ElementOfSeq
<1> QED BY <1>1, <1>5

LEMMA SourceTyped ==
    ASSUME NEW r \in Clients, NEW source
    PROVE  FromSource(source, r) \in Seq(Symbols)
<1> DEFINE name  == SubSeq(source, 3, Len(source))
           baked == {i \in DOMAIN r.cookies : r.cookies[i].name = name}
           value == IF baked = {} THEN <<>> ELSE r.cookies[Min(baked)].value
<1>1. <<>> \in Seq(STRING) /\ RealIP(r) \in Seq(STRING) /\ URLText(r) \in Seq(Symbols)
    BY RealIPTyped, URLTyped
<1>2. value \in Seq(STRING)
    <2>1. baked # {} => r.cookies[Min(baked)].value \in Seq(STRING)
        <3> HIDE DEF name
        <3> QED BY CookieTyped
    <2> HIDE DEF baked
    <2> QED BY <1>1, <2>1
<1>3. FromSource(source, r) \in {value, Get(r.header, Lower(name)), r.remote, RealIP(r), r.scheme,
                                 r.host, r.path, r.rawpath, r.query, URLText(r), <<>>}
    BY DEF FromSource
<1> HIDE DEF value
<1> QED BY <1>1, <1>2, <1>3, HeaderTyped, RequestTyped, StringsAreSymbols

(* A path: it begins with a slash, but for that of OPTIONS *)
IsPath(p) == p # <<>> /\ (p[1] = "/" \/ p = <<"*">>)

(* Where the first slash is, the path begins *)
LEMMA SlashDecides ==
    ASSUME NEW u \in Seq(Symbols), NEW v \in Seq(Symbols),
           NEW p \in Seq(Symbols), NEW q \in Seq(Symbols),
           "/" \notin Range(u), "/" \notin Range(v), IsPath(p), IsPath(q), u \o p = v \o q
    PROVE  p = q
<1> DEFINE a == Len(u)
           b == Len(v)
           k == Len(p)
           l == Len(q)
           w == u \o p
<1>1. a \in Nat /\ b \in Nat /\ k \in Nat \ {0} /\ l \in Nat \ {0}
    BY EmptySeq DEF IsPath
<1>2. (\A i \in 1..a : u[i] # "/") /\ (\A i \in 1..b : v[i] # "/")
    BY DEF Range
<1>3. /\ \A i \in 1..(a + k) : w[i] = IF i <= a THEN u[i] ELSE p[i - a]
      /\ Len(w) = a + k
    BY ConcatProperties
<1>4. /\ \A i \in 1..(b + l) : w[i] = IF i <= b THEN v[i] ELSE q[i - b]
      /\ Len(w) = b + l
    BY ConcatProperties
<1> HIDE DEF a, b, k, l, w
<1>5. a + k = b + l
    BY <1>3, <1>4
<1>6. /\ \A i \in 1..k : a + i \in 1..(a + k) /\ w[a + i] = p[i]
      /\ \A i \in 1..l : b + i \in 1..(b + l) /\ w[b + i] = q[i]
      /\ \A i \in 1..a : w[i] # "/"
      /\ \A i \in 1..b : w[i] # "/"
    <2>1. ASSUME NEW i \in 1..k PROVE a + i \in 1..(a + k) /\ w[a + i] = p[i]
        <3> DEFINE j == a + i
        <3>1. j \in 1..(a + k) /\ ~(j <= a) /\ j - a = i
            BY <1>1
        <3> HIDE DEF j
        <3>2. w[j] = p[i]
            BY <1>3, <3>1
        <3> QED BY <3>1, <3>2 DEF j
    <2>2. ASSUME NEW i \in 1..l PROVE b + i \in 1..(b + l) /\ w[b + i] = q[i]
        <3> DEFINE j == b + i
        <3>1. j \in 1..(b + l) /\ ~(j <= b) /\ j - b = i
            BY <1>1
        <3> HIDE DEF j
        <3>2. w[j] = q[i]
            BY <1>4, <3>1
        <3> QED BY <3>1, <3>2 DEF j
    <2>3. ASSUME NEW i \in 1..a PROVE w[i] # "/"
        <3>1. i \in 1..(a + k) /\ i <= a
            BY <1>1
        <3> QED BY <1>2, <1>3, <3>1
    <2>4. ASSUME NEW i \in 1..b PROVE w[i] # "/"
        <3>1. i \in 1..(b + l) /\ i <= b
            BY <1>1
        <3> QED BY <1>2, <1>4, <3>1
    <2> QED BY <2>1, <2>2, <2>3, <2>4
<1>7. p[1] = "/" => w[a + 1] = "/" /\ ~(a + 1 <= b)
    <2>1. 1 \in 1..k
        BY <1>1
    <2>2. a + 1 <= b => a + 1 \in 1..b
        BY <1>1
    <2> QED BY <1>6, <2>1, <2>2
<1>8. q[1] = "/" => w[b + 1] = "/" /\ ~(b + 1 <= a)
    <2>1. 1 \in 1..l
        BY <1>1
    <2>2. b + 1 <= a => b + 1 \in 1..a
        BY <1>1
    <2> QED BY <1>6, <2>1, <2>2
<1>9. CASE p[1] = "/" /\ q[1] = "/"
    <2>1. a = b /\ k = l
        BY <1>1, <1>5, <1>7, <1>8, <1>9
    <2>2. \A i \in 1..k : p[i] = q[i]
        BY <1>6, <2>1
    <2> QED BY <2>1, <2>2, Alike DEF k, l
<1>10. CASE p[1] = "/" /\ q = <<"*">>
    <2>1. l = 1 /\ q[1] = "*"
        BY <1>10 DEF l
    <2>2. a = b
        BY <1>1, <1>5, <1>7, <1>10, <2>1
    <2>3. w[a + 1] = "*"
        BY <1>6, <2>1, <2>2
    <2> QED BY <1>7, <1>10, <2>3
<1>11. CASE p = <<"*">> /\ q[1] = "/"
    <2>1. k = 1 /\ p[1] = "*"
        BY <1>11 DEF k
    <2>2. a = b
        BY <1>1, <1>5, <1>8, <1>11, <2>1
    <2>3. w[b + 1] = "*"
        BY <1>6, <2>1, <2>2
    <2> QED BY <1>8, <1>11, <2>3
<1>12. CASE p = <<"*">> /\ q = <<"*">>
    BY <1>12
<1> QED BY <1>9, <1>10, <1>11, <1>12 DEF IsPath

(* The sources of an ID whose values have no slash but for the last *)
SlashFree(sources, r) ==
    \A i \in 1..(Len(sources) - 1) : "/" \notin Range(FromSource(sources[i], r))

LEMMA PathIsLast ==
    ASSUME NEW r \in Clients, NEW S, NEW sources \in Seq(S), sources # <<>>,
           Last(sources) = <<"path">>, SlashFree(sources, r)
    PROVE  \E u \in Seq(Symbols) : "/" \notin Range(u) /\ Buffer(sources, r) = u \o r.path
<1> DEFINE n     == Len(sources)
           texts == [i \in DOMAIN sources |-> FromSource(sources[i], r)]
<1>1. n \in Nat \ {0} /\ DOMAIN sources = 1..n
    BY EmptySeq
<1>2. texts \in Seq(Seq(Symbols)) /\ Len(texts) = n
    <2>1. \A i \in 1..n : texts[i] \in Seq(Symbols)
        BY <1>1, SourceTyped
    <2>2. texts = [i \in 1..n |-> texts[i]]
        BY <1>1
    <2> HIDE DEF texts, n
    <2> DEFINE S1 == Seq(Symbols)
    <2>5. n \in Nat /\ \A i \in 1..n : texts[i] \in S1
        BY <1>1, <2>1
    <2> HIDE DEF S1
    <2>6. texts \in Seq(S1)
        BY <2>2, <2>5, IsASeq
    <2>3. texts \in Seq(Seq(Symbols))
        BY <2>6 DEF S1
    <2>4. DOMAIN texts = 1..n
        BY <2>2
    <2> QED BY <1>1, <2>3, <2>4
<1>3. \A i \in 1..(n - 1) : "/" \notin Range(texts[i])
    <2>1. ASSUME NEW i \in 1..(n - 1) PROVE "/" \notin Range(texts[i])
        <3>1. i \in 1..n
            BY <1>1
        <3>2. texts[i] = FromSource(sources[i], r)
            BY <1>1, <3>1
        <3> QED BY <3>2 DEF SlashFree
    <2> QED BY <2>1
<1>4. texts[n] = r.path
    <2>1. n \in 1..n /\ sources[n] = <<"path">>
        BY <1>1 DEF Last
    <2>2. texts[n] = FromSource(<<"path">>, r)
        BY <1>1, <2>1
    <2>3. FromSource(<<"path">>, r) = r.path
        <3> DEFINE source == <<"path">>
        <3>1. /\ source[1] # "cookie" /\ source[1] # "header" /\ source # <<"remoteaddr">>
              /\ source # <<"realip">> /\ source # <<"scheme">> /\ source # <<"host">>
            OBVIOUS
        <3>2. source = <<"path">>
            OBVIOUS
        <3> HIDE DEF source
        <3>3. FromSource(source, r) = r.path
            BY <3>1, <3>2 DEF FromSource
        <3> QED BY <3>2, <3>3
    <2> QED BY <2>2, <2>3
<1>5. PICK acc : PutTogether(acc, texts, Symbols) /\ FlattenSeq(texts) = acc[n]
    <2> HIDE DEF texts, n
    <2> QED BY <1>2, Flattened
<1> HIDE DEF texts, n
<1>6. /\ acc \in [0..n -> Seq(Symbols)] /\ acc[0] = <<>>
      /\ \A i \in 1..n : acc[i] = acc[i - 1] \o texts[i]
    BY <1>2, <1>5 DEF PutTogether
<1> DEFINE Free == {i \in 0..n : "/" \notin Range(acc[i])}
<1>7. n - 1 \in Free
    <2>1. 0 \in Free
        <3>1. Range(<<>>) = {}
            BY DEF Range
        <3> QED BY <1>1, <1>6, <3>1
    <2>2. ASSUME NEW i \in (0 + 1)..(n - 1), i - 1 \in Free PROVE i \in Free
        <3>1. i \in 1..n /\ i \in 1..(n - 1) /\ i \in 0..n /\ i - 1 \in 0..n
            BY <1>1
        <3> DEFINE s == acc[i - 1]
                   t == texts[i]
        <3>2. acc[i] = s \o t /\ s \in Seq(Symbols) /\ t \in Seq(Symbols)
            BY <1>2, <1>6, <3>1, ElementOfSeq
        <3>3. (\A j \in 1..Len(s) : s[j] # "/") /\ (\A j \in 1..Len(t) : t[j] # "/")
            <4>1. "/" \notin Range(s) /\ "/" \notin Range(t)
                BY <1>3, <2>2, <3>1
            <4> HIDE DEF s, t
            <4> QED BY <3>2, <4>1 DEF Range
        <3> HIDE DEF s, t
        <3>4. ASSUME NEW j \in DOMAIN acc[i] PROVE acc[i][j] # "/"
            <4>1. j \in 1..(Len(s) + Len(t)) /\ Len(s) \in Nat /\ Len(t) \in Nat
                BY <3>2, ConcatProperties
            <4>2. acc[i][j] = IF j <= Len(s) THEN s[j] ELSE t[j - Len(s)]
                BY <3>2, <4>1, ConcatProperties
            <4>3. j <= Len(s) => j \in 1..Len(s)
                BY <4>1
            <4>4. ~(j <= Len(s)) => j - Len(s) \in 1..Len(t)
                BY <4>1
            <4> QED BY <3>3, <4>2, <4>3, <4>4
        <3>5. "/" \notin Range(acc[i])
            BY <3>4 DEF Range
        <3> QED BY <3>1, <3>5
    <2>3. 0 \in Int /\ n - 1 \in Int /\ n - 1 \in 0..(n - 1)
        BY <1>1
    <2> HIDE DEF Free
    <2> QED BY <2>1, <2>2, <2>3, Induction
<1> DEFINE u == acc[n - 1]
<1>8. u \in Seq(Symbols) /\ "/" \notin Range(u) /\ acc[n] = u \o r.path
    <2>1. n \in 1..n /\ n - 1 \in 0..n
        BY <1>1
    <2> QED BY <1>4, <1>6, <1>7, <2>1
<1>9. Buffer(sources, r) = u \o r.path
    BY <1>5, <1>8 DEF Buffer, texts
<1> QED BY <1>8, <1>9

(* The entry and the request that is served from it are of the same page ID *)
PlacesInv ==
    /\ stage \in {"scanning", "parsed", "unparsed", "configured", "refused", "cached"} \cup Served
    /\ stage \notin Served => client = Unset
    /\ stage \in Served \cup {"cached"} =>
          /\ entry.request \in Clients
          /\ entry.id = PageID(sites[entry.site], entry.request)
    /\ stage \in Served =>
          /\ client.request \in Clients
          /\ entry.id = PageID(sites[entry.site], client.request)

LEMMA PlacesStep ==
    ASSUME PlacesInv, [PipelineNext]_all
    PROVE  PlacesInv'
<1> USE DEF Served
<1>1. CASE ScanPage \/ UNCHANGED all
    BY <1>1 DEF PlacesInv, ScanPage, pipeline, all
<1>2. CASE ParsePage
    BY <1>2 DEF PlacesInv, ParsePage
<1>3. ASSUME NEW file \in Caddyfiles, Configure(file) PROVE PlacesInv'
    BY <1>3 DEF PlacesInv, Configure
<1>4. ASSUME NEW r \in Clients, Store(r) PROVE PlacesInv'
    BY <1>4 DEF PlacesInv, Store
<1>5. ASSUME NEW r \in Clients, Serve(r) PROVE PlacesInv'
    BY <1>5 DEF PlacesInv, Serve
<1>6. CASE Ask
    BY <1>6 DEF PlacesInv, Ask
<1>7. CASE GiveUp
    BY <1>7 DEF PlacesInv, GiveUp
<1> QED BY <1>1, <1>2, <1>3, <1>4, <1>5, <1>6, <1>7 DEF PipelineNext

(* The page ID of a site whose last source is the path *)
LEMMA IDEndsWithPath ==
    ASSUME NEW pc \in SiteRecords, NEW sources, NEW r \in Clients,
           sources = (IF pc.page_id_source = <<>> THEN DefaultPageIDSource ELSE pc.page_id_source),
           Last(sources) = <<"path">>, SlashFree(sources, r)
    PROVE  \E u \in Seq(Symbols) : "/" \notin Range(u) /\ PageID(pc, r) = u \o r.path
<1>1. sources # <<>> /\ \E S : sources \in Seq(S)
    <2>1. DefaultPageIDSource # <<>> /\ \E S : DefaultPageIDSource \in Seq(S)
        <3> DEFINE S == {<<"host">>, <<"path">>}
        <3>1. <<"host">> \in S /\ <<"path">> \in S
            OBVIOUS
        <3> HIDE DEF S
        <3>2. DefaultPageIDSource \in Seq(S) /\ DefaultPageIDSource # <<>>
            BY <3>1 DEF DefaultPageIDSource
        <3> QED BY <3>2
    <2> QED BY <2>1, SourcesTyped
<1>2. PICK u \in Seq(Symbols) : "/" \notin Range(u) /\ Buffer(sources, r) = u \o r.path
    BY <1>1, PathIsLast
<1>3. r.path # <<>> /\ r.path \in Seq(Symbols)
    BY RequestTyped, StringsAreSymbols
<1>4. u \o r.path # <<>>
    <2>1. Len(r.path) \in Nat \ {0} /\ Len(u) \in Nat
        BY <1>3, EmptySeq
    <2>2. Len(u \o r.path) = Len(u) + Len(r.path)
        BY <1>3, ConcatProperties
    <2>3. Len(u \o r.path) # 0
        BY <2>1, <2>2
    <2> QED BY <2>3
<1>5. PageID(pc, r) = Buffer(sources, r)
    BY <1>2, <1>4 DEF PageID
<1> QED BY <1>2, <1>5

LEMMA OwnPath ==
    ASSUME LimitsInv, PlacesInv
    PROVE  TagsOfOwnPath
<1> DEFINE pc      == sites[entry.site]
           sources == IF pc.page_id_source = <<>> THEN DefaultPageIDSource ELSE pc.page_id_source
           r       == client.request
           s       == entry.request
<1>1. SUFFICES ASSUME client # Unset, Last(sources) = <<"path">>, SlashFree(sources, r),
                      SlashFree(sources, s)
               PROVE  r.path = s.path
    BY DEF TagsOfOwnPath, SlashFree
<1>2. /\ r \in Clients /\ s \in Clients /\ pc \in SiteRecords
      /\ PageID(pc, r) = PageID(pc, s)
    BY <1>1 DEF PlacesInv, LimitsInv, IsSite, Served
<1>3. sources = IF pc.page_id_source = <<>> THEN DefaultPageIDSource ELSE pc.page_id_source
    OBVIOUS
<1> HIDE DEF sources, pc, r, s
<1>4. PICK u \in Seq(Symbols) : "/" \notin Range(u) /\ PageID(pc, r) = u \o r.path
    BY <1>1, <1>2, <1>3, IDEndsWithPath
<1>5. PICK v \in Seq(Symbols) : "/" \notin Range(v) /\ PageID(pc, s) = v \o s.path
    BY <1>1, <1>2, <1>3, IDEndsWithPath
<1>6. /\ IsPath(r.path) /\ r.path \in Seq(Symbols)
      /\ IsPath(s.path) /\ s.path \in Seq(Symbols)
    BY <1>2, RequestTyped, StringsAreSymbols DEF IsPath
<1> QED BY <1>2, <1>4, <1>5, <1>6, SlashDecides

(* A request is served the tags of the page with its own path, if the path *)
(* is the last source of the ID and the values before it have no slash,    *)
(* for every Caddyfile and every two requests (pageID, config.go).         *)
THEOREM OwnPathServed == PipelineSpec => []TagsOfOwnPath
<1>1. PipelineInit => LimitsInv /\ PlacesInv
    BY LimitsStart DEF PipelineInit, PlacesInv, Served
<1>2. ScannerInv /\ LimitsInv /\ PlacesInv /\ [PipelineNext]_all => LimitsInv' /\ PlacesInv'
    BY LimitsStep, PlacesStep
<1>3. LimitsInv /\ PlacesInv => TagsOfOwnPath
    BY OwnPath
<1> QED BY <1>1, <1>2, <1>3, ScannerInvariant, PTL DEF PipelineSpec

-------------------------------------------------------------------------------
(* A program reads back what it is sent *)

(* The member of one of the objects that are joined *)
LEMMA JoinedMember ==
    ASSUME NEW s, NEW i \in DOMAIN s, NEW k, NEW e,
           \A j \in DOMAIN s : k \in DOMAIN s[j] => j = i
    PROVE  Member(Joined(s), k, e) = Member(s[i], k, e)
<1> DEFINE every == UNION {DOMAIN s[j] : j \in DOMAIN s}
           at(n) == CHOOSE j \in DOMAIN s : n \in DOMAIN s[j]
<1>1. Joined(s) = [n \in every |-> s[at(n)][n]]
    BY DEF Joined
<1>2. k \in every <=> k \in DOMAIN s[i]
    OBVIOUS
<1>3. k \in DOMAIN s[i] => at(k) = i
    OBVIOUS
<1> HIDE DEF every, at
<1> QED BY <1>1, <1>2, <1>3 DEF Member

LEMMA JoinedDomain ==
    ASSUME NEW s, NEW k
    PROVE  k \in DOMAIN Joined(s) <=> \E i \in DOMAIN s : k \in DOMAIN s[i]
BY DEF Joined

LEMMA GivenMember ==
    ASSUME NEW m, NEW e
    PROVE  /\ DOMAIN Given(m, e) \subseteq DOMAIN m
           /\ \A k \in DOMAIN m : Member(Given(m, e), k, e) = m[k]
BY DEF Member, Given

(* What the members of a URL are read as *)
URLRead(o, r) ==
    /\ Member(o, "scheme", <<>>) = r.scheme /\ Member(o, "opaque", <<>>) = r.opaque
    /\ Member(o, "host", <<>>) = r.host /\ Member(o, "path", <<>>) = r.path
    /\ Member(o, "raw_path", <<>>) = r.rawpath /\ Member(o, "raw_query", <<>>) = r.query
    /\ Member(o, "fragment", <<>>) = r.fragment
    /\ Member(o, "force_query", FALSE) = r.forcequery
    /\ "user" \in DOMAIN o <=> r.user # NoUser

LEMMA URLMembers ==
    ASSUME NEW r
    PROVE  URLRead(EncodeURL(r), r)
<1> DEFINE m == [scheme |-> r.scheme, opaque |-> r.opaque, host |-> r.host, path |-> r.path,
                 raw_path |-> r.rawpath, raw_query |-> r.query, fragment |-> r.fragment]
           n == [force_query |-> r.forcequery]
           a == Given(m, <<>>)
           b == Given(n, FALSE)
           c == IF r.user = NoUser THEN <<>> ELSE [user |-> EncodeUser(r.user)]
           s == <<a, b, c>>
<1>1. EncodeURL(r) = Joined(s)
    BY DEF EncodeURL
<1>2. /\ m.scheme = r.scheme /\ m.opaque = r.opaque /\ m.host = r.host /\ m.path = r.path
      /\ m.raw_path = r.rawpath /\ m.raw_query = r.query /\ m.fragment = r.fragment
      /\ n.force_query = r.forcequery
      /\ DOMAIN m = {"scheme", "opaque", "host", "path", "raw_path", "raw_query", "fragment"}
      /\ DOMAIN n = {"force_query"}
      /\ DOMAIN c = IF r.user = NoUser THEN {} ELSE {"user"}
    OBVIOUS
<1> HIDE DEF m, n, c
<1>3. DOMAIN a \subseteq DOMAIN m /\ DOMAIN b \subseteq DOMAIN n
    BY GivenMember
<1>4. /\ \A k \in DOMAIN m : Member(a, k, <<>>) = m[k]
      /\ \A k \in DOMAIN n : Member(b, k, FALSE) = n[k]
    BY GivenMember
<1> HIDE DEF a, b
<1>5. DOMAIN s = {1, 2, 3} /\ s[1] = a /\ s[2] = b /\ s[3] = c
    OBVIOUS
<1> HIDE DEF s
<1>6. ASSUME NEW k \in DOMAIN m PROVE Member(Joined(s), k, <<>>) = m[k]
    <2>1. \A j \in DOMAIN s : k \in DOMAIN s[j] => j = 1
        BY <1>2, <1>3, <1>5
    <2> QED BY <1>4, <1>5, <2>1, JoinedMember
<1>7. ASSUME NEW k \in DOMAIN n PROVE Member(Joined(s), k, FALSE) = n[k]
    <2> DEFINE no == FALSE
    <2>2. Member(b, k, no) = n[k]
        BY <1>4
    <2> HIDE DEF no
    <2>1. \A j \in DOMAIN s : k \in DOMAIN s[j] => j = 2
        BY <1>2, <1>3, <1>5
    <2>3. Member(Joined(s), k, no) = n[k]
        BY <1>5, <2>1, <2>2, JoinedMember
    <2> QED BY <2>3 DEF no
<1>8. "user" \in DOMAIN Joined(s) <=> r.user # NoUser
    <2>1. "user" \in DOMAIN Joined(s) <=> \E j \in DOMAIN s : "user" \in DOMAIN s[j]
        BY JoinedDomain, Zenon
    <2> QED BY <1>2, <1>3, <1>5, <2>1
<1> DEFINE o == Joined(s)
<1> HIDE DEF o
<1>9. URLRead(o, r)
    BY <1>2, <1>6, <1>7, <1>8 DEF URLRead, o
<1> QED BY <1>1, <1>9 DEF o

(* The member of a group that is written unless it is empty *)
LEMMA GroupMember ==
    ASSUME NEW s, NEW i \in DOMAIN s, NEW m, NEW e, s[i] = Given(m, e), NEW k \in DOMAIN m,
           \A j \in DOMAIN s : k \in DOMAIN s[j] => j = i
    PROVE  Member(Joined(s), k, e) = m[k]
BY JoinedMember, GivenMember

ConfigRead(o, t) ==
    /\ Member(o, "forward_headers", <<>>) = t.forwardheaders.names
    /\ Member(o, "return_headers", <<>>) = t.returnheaders.names
    /\ Member(o, "key", <<>>) = t.key
    /\ Member(o, "forward_post_data", FALSE) = t.forwardpostdata
    /\ Member(o, "coalesce", FALSE) = t.coalesce
    /\ Member(o, "forward_headers_all", FALSE) = t.forwardheaders.all
    /\ Member(o, "return_headers_all", FALSE) = t.returnheaders.all
    /\ Member(o, "print_debug", FALSE) = t.printdebug
    /\ Member(o, "timeout", 0) = t.timeout
    /\ Member(o, "ttl", 0) = t.ttl
    /\ Member(o, "max_body_size", 0) = t.maxbodysize

LEMMA ConfigMembers ==
    ASSUME NEW t
    PROVE  ConfigRead(EncodeConfig(t), t)
<1> DEFINE l == [forward_headers |-> t.forwardheaders.names,
                 return_headers |-> t.returnheaders.names, key |-> t.key]
           m == [forward_post_data |-> t.forwardpostdata, coalesce |-> t.coalesce,
                 forward_headers_all |-> t.forwardheaders.all,
                 return_headers_all |-> t.returnheaders.all, print_debug |-> t.printdebug]
           n == [timeout |-> t.timeout, ttl |-> t.ttl, max_body_size |-> t.maxbodysize]
           a == Given(l, <<>>)
           b == Given(m, FALSE)
           c == Given(n, 0)
           s == <<a, b, c>>
<1>1. EncodeConfig(t) = Joined(s)
    BY DEF EncodeConfig
<1>2. /\ l.forward_headers = t.forwardheaders.names /\ l.key = t.key
      /\ l.return_headers = t.returnheaders.names
      /\ DOMAIN l = {"forward_headers", "return_headers", "key"}
    OBVIOUS
<1>3. /\ m.forward_post_data = t.forwardpostdata /\ m.coalesce = t.coalesce
      /\ m.forward_headers_all = t.forwardheaders.all
      /\ m.return_headers_all = t.returnheaders.all /\ m.print_debug = t.printdebug
      /\ DOMAIN m = {"forward_post_data", "coalesce", "forward_headers_all",
                     "return_headers_all", "print_debug"}
    OBVIOUS
<1>4. /\ n.timeout = t.timeout /\ n.ttl = t.ttl /\ n.max_body_size = t.maxbodysize
      /\ DOMAIN n = {"timeout", "ttl", "max_body_size"}
    OBVIOUS
<1> HIDE DEF l, m, n
<1>5. DOMAIN a \subseteq DOMAIN l /\ DOMAIN b \subseteq DOMAIN m /\ DOMAIN c \subseteq DOMAIN n
    BY GivenMember
<1>6. DOMAIN s = {1, 2, 3} /\ s[1] = a /\ s[2] = b /\ s[3] = c
    OBVIOUS
<1> DEFINE no == FALSE
           o  == Joined(s)
<1> HIDE DEF s
<1>7. /\ s[1] = Given(l, <<>>) /\ s[2] = Given(m, no) /\ s[3] = Given(n, 0)
    BY <1>6
<1> HIDE DEF a, b, c, no
<1>8. ASSUME NEW k \in DOMAIN l PROVE Member(o, k, <<>>) = l[k]
    <2>1. \A j \in DOMAIN s : k \in DOMAIN s[j] => j = 1
        BY <1>2, <1>3, <1>4, <1>5, <1>6
    <2> QED BY <1>6, <1>7, <2>1, GroupMember
<1>9. ASSUME NEW k \in DOMAIN m PROVE Member(o, k, no) = m[k]
    <2>1. \A j \in DOMAIN s : k \in DOMAIN s[j] => j = 2
        BY <1>2, <1>3, <1>4, <1>5, <1>6
    <2> QED BY <1>6, <1>7, <2>1, GroupMember
<1>10. ASSUME NEW k \in DOMAIN n PROVE Member(o, k, 0) = n[k]
    <2>1. \A j \in DOMAIN s : k \in DOMAIN s[j] => j = 3
        BY <1>2, <1>3, <1>4, <1>5, <1>6
    <2> QED BY <1>6, <1>7, <2>1, GroupMember
<1> HIDE DEF o
<1>11. ConfigRead(o, t)
    BY <1>2, <1>3, <1>4, <1>8, <1>9, <1>10 DEF ConfigRead, no
<1> QED BY <1>1, <1>11 DEF o

LineRead(o, r) ==
    /\ Member(o, "method", "") = r.method
    /\ Member(o, "url", <<>>) = EncodeURL(r)
    /\ Member(o, "proto", <<>>) = r.proto
    /\ Member(o, "header", <<>>) = r.header
    /\ Member(o, "transfer_encoding", <<>>) = r.encoding
    /\ Member(o, "host", <<>>) = r.Host
    /\ Member(o, "proto_major", 0) = r.major
    /\ Member(o, "proto_minor", 0) = r.minor
    /\ Member(o, "content_length", 0) = r.length
    /\ Member(o, "close", FALSE) = r.close

LineMembers == {"method", "url", "proto", "header", "transfer_encoding", "host", "proto_major",
                "proto_minor", "content_length", "close"}

LEMMA RequestLineMembers ==
    ASSUME NEW r
    PROVE  LineRead(EncodeRequestLine(r), r) /\ DOMAIN EncodeRequestLine(r) \subseteq LineMembers
<1> DEFINE l == [method |-> r.method]
           m == [proto |-> r.proto, header |-> r.header, transfer_encoding |-> r.encoding,
                 host |-> r.Host]
           n == [proto_major |-> r.major, proto_minor |-> r.minor, content_length |-> r.length]
           p == [close |-> r.close]
           a == Given(l, "")
           u == [url |-> EncodeURL(r)]
           b == Given(m, <<>>)
           c == Given(n, 0)
           d == Given(p, FALSE)
           s == <<a, u, b, c, d>>
<1>1. EncodeRequestLine(r) = Joined(s)
    BY DEF EncodeRequestLine
<1>2. /\ l.method = r.method /\ DOMAIN l = {"method"}
      /\ p.close = r.close /\ DOMAIN p = {"close"}
      /\ u.url = EncodeURL(r) /\ DOMAIN u = {"url"}
    OBVIOUS
<1>3. /\ m.proto = r.proto /\ m.header = r.header /\ m.transfer_encoding = r.encoding
      /\ m.host = r.Host /\ DOMAIN m = {"proto", "header", "transfer_encoding", "host"}
    OBVIOUS
<1>4. /\ n.proto_major = r.major /\ n.proto_minor = r.minor /\ n.content_length = r.length
      /\ DOMAIN n = {"proto_major", "proto_minor", "content_length"}
    OBVIOUS
<1> HIDE DEF l, m, n, p, u
<1>5. /\ DOMAIN a \subseteq DOMAIN l /\ DOMAIN b \subseteq DOMAIN m
      /\ DOMAIN c \subseteq DOMAIN n /\ DOMAIN d \subseteq DOMAIN p
    BY GivenMember
<1>6. /\ DOMAIN s = {1, 2, 3, 4, 5}
      /\ s[1] = a /\ s[2] = u /\ s[3] = b /\ s[4] = c /\ s[5] = d
    OBVIOUS
<1> DEFINE no  == FALSE
           nil == ""
           o   == Joined(s)
<1> HIDE DEF s
<1>7. /\ s[1] = Given(l, nil) /\ s[3] = Given(m, <<>>) /\ s[4] = Given(n, 0) /\ s[5] = Given(p, no)
    BY <1>6
<1> HIDE DEF a, b, c, d, no, nil
<1>8. ASSUME NEW k \in DOMAIN l PROVE Member(o, k, nil) = l[k]
    <2>1. \A j \in DOMAIN s : k \in DOMAIN s[j] => j = 1
        BY <1>2, <1>3, <1>4, <1>5, <1>6
    <2> QED BY <1>6, <1>7, <2>1, GroupMember
<1>9. ASSUME NEW k \in DOMAIN m PROVE Member(o, k, <<>>) = m[k]
    <2>1. \A j \in DOMAIN s : k \in DOMAIN s[j] => j = 3
        BY <1>2, <1>3, <1>4, <1>5, <1>6
    <2> QED BY <1>6, <1>7, <2>1, GroupMember
<1>10. ASSUME NEW k \in DOMAIN n PROVE Member(o, k, 0) = n[k]
    <2>1. \A j \in DOMAIN s : k \in DOMAIN s[j] => j = 4
        BY <1>2, <1>3, <1>4, <1>5, <1>6
    <2> QED BY <1>6, <1>7, <2>1, GroupMember
<1>11. ASSUME NEW k \in DOMAIN p PROVE Member(o, k, no) = p[k]
    <2>1. \A j \in DOMAIN s : k \in DOMAIN s[j] => j = 5
        BY <1>2, <1>3, <1>4, <1>5, <1>6
    <2> QED BY <1>6, <1>7, <2>1, GroupMember
<1>12. ASSUME NEW k \in DOMAIN u PROVE Member(o, k, <<>>) = u[k]
    <2>1. \A j \in DOMAIN s : k \in DOMAIN s[j] => j = 2
        BY <1>2, <1>3, <1>4, <1>5, <1>6
    <2>2. Member(o, k, <<>>) = Member(u, k, <<>>)
        BY <1>6, <2>1, JoinedMember
    <2> QED BY <2>2 DEF Member
<1>13. \A k \in DOMAIN o : k \in LineMembers
    <2> TAKE k \in DOMAIN o
    <2>1. PICK i \in DOMAIN s : k \in DOMAIN s[i]
        BY JoinedDomain
    <2> QED BY <1>2, <1>3, <1>4, <1>5, <1>6, <2>1 DEF LineMembers
<1> HIDE DEF o
<1>14. LineRead(o, r)
    BY <1>2, <1>3, <1>4, <1>8, <1>9, <1>10, <1>11, <1>12 DEF LineRead, no, nil
<1> QED BY <1>1, <1>13, <1>14 DEF o

RestRead(o, r) ==
    /\ Member(o, "form", <<>>) = r.form
    /\ Member(o, "post_form", <<>>) = r.postform
    /\ Member(o, "trailer", <<>>) = r.trailer
    /\ Member(o, "remote_addr", <<>>) = r.remote
    /\ Member(o, "request_uri", <<>>) = r.uri

LEMMA RequestMembers ==
    ASSUME NEW r
    PROVE  LineRead(EncodeRequest(r), r) /\ RestRead(EncodeRequest(r), r)
<1> DEFINE l == EncodeRequestLine(r)
           m == [form |-> r.form, post_form |-> r.postform, trailer |-> r.trailer,
                 remote_addr |-> r.remote, request_uri |-> r.uri]
           a == Given(m, <<>>)
           b == IF r.body /\ r.method \in {"POST", "PUT", "PATCH"}
                THEN [body |-> <<"TODO", "read", "body">>] ELSE <<>>
           s == <<l, a, b>>
           o == Joined(s)
<1>1. EncodeRequest(r) = o
    BY DEF EncodeRequest
<1>2. /\ m.form = r.form /\ m.post_form = r.postform /\ m.trailer = r.trailer
      /\ m.remote_addr = r.remote /\ m.request_uri = r.uri
      /\ DOMAIN m = {"form", "post_form", "trailer", "remote_addr", "request_uri"}
      /\ DOMAIN b \subseteq {"body"}
    OBVIOUS
<1> HIDE DEF m, b
<1>3. DOMAIN a \subseteq DOMAIN m
    BY GivenMember
<1>4. DOMAIN s = {1, 2, 3} /\ s[1] = l /\ s[2] = a /\ s[3] = b
    OBVIOUS
<1>5. LineRead(l, r) /\ DOMAIN l \subseteq LineMembers
    BY RequestLineMembers
<1> HIDE DEF s, l
<1>6. s[2] = Given(m, <<>>)
    BY <1>4
<1> HIDE DEF a
<1>7. ASSUME NEW k \in DOMAIN m PROVE Member(o, k, <<>>) = m[k]
    <2>1. \A j \in DOMAIN s : k \in DOMAIN s[j] => j = 2
        BY <1>2, <1>3, <1>4, <1>5 DEF LineMembers
    <2> QED BY <1>4, <1>6, <2>1, GroupMember
<1>8. ASSUME NEW k \in LineMembers, NEW e PROVE Member(o, k, e) = Member(l, k, e)
    <2>1. \A j \in DOMAIN s : k \in DOMAIN s[j] => j = 1
        BY <1>2, <1>3, <1>4 DEF LineMembers
    <2> QED BY <1>4, <2>1, JoinedMember
<1> HIDE DEF o
<1>9. RestRead(o, r)
    BY <1>2, <1>7 DEF RestRead
<1>10. LineRead(o, r)
    BY <1>5, <1>8 DEF LineRead, LineMembers
<1> QED BY <1>1, <1>9, <1>10

RequestFields == DOMAIN NewRequest

LEMMA RequestFieldsAre ==
    /\ NewRequest = [f \in RequestFields |-> NewRequest[f]]
    /\ RequestFields =
          {"method", "tls", "Host", "scheme", "opaque", "user", "host", "path", "rawpath",
           "forcequery", "query", "fragment", "proto", "major", "minor", "header", "length",
           "encoding", "close", "cookies", "form", "postform", "trailer", "remote", "uri", "body"}
BY DEF RequestFields, NewRequest

URLFields == {"scheme", "opaque", "user", "host", "path", "rawpath", "forcequery", "query",
              "fragment"}

LEMMA URLDecoded ==
    ASSUME NEW r, NEW o, URLRead(o, r)
    PROVE  LET d == DecodeURL(NewRequest, o)
           IN  /\ d = [f \in RequestFields |-> d[f]]
               /\ d.scheme = r.scheme /\ d.opaque = r.opaque /\ d.host = r.host
               /\ d.path = r.path /\ d.rawpath = r.rawpath /\ d.forcequery = r.forcequery
               /\ d.query = r.query /\ d.fragment = r.fragment
               /\ d.user = IF r.user = NoUser THEN NoUser ELSE Anonymous
               /\ \A f \in RequestFields \ URLFields : d[f] = NewRequest[f]
<1> DEFINE n == NewRequest
           d == DecodeURL(n, o)
<1>1. /\ n.scheme = <<>> /\ n.opaque = <<>> /\ n.host = <<>> /\ n.path = <<>>
      /\ n.rawpath = <<>> /\ n.forcequery = FALSE /\ n.query = <<>> /\ n.fragment = <<>>
      /\ n.user = NoUser
    BY DEF NewRequest
<1>2. n = [f \in RequestFields |-> n[f]]
    BY RequestFieldsAre
<1>3. d = [n EXCEPT !.scheme = Member(o, "scheme", n.scheme),
              !.opaque = Member(o, "opaque", n.opaque),
              !.user = IF "user" \in DOMAIN o THEN DecodeUser(o["user"]) ELSE n.user,
              !.host = Member(o, "host", n.host), !.path = Member(o, "path", n.path),
              !.rawpath = Member(o, "raw_path", n.rawpath),
              !.forcequery = Member(o, "force_query", n.forcequery),
              !.query = Member(o, "raw_query", n.query),
              !.fragment = Member(o, "fragment", n.fragment)]
    BY DEF DecodeURL
<1> HIDE DEF n
<1>4. d = [n EXCEPT !.scheme = r.scheme, !.opaque = r.opaque,
              !.user = IF r.user = NoUser THEN NoUser ELSE Anonymous,
              !.host = r.host, !.path = r.path, !.rawpath = r.rawpath,
              !.forcequery = r.forcequery, !.query = r.query, !.fragment = r.fragment]
    <2>1. /\ Member(o, "scheme", n.scheme) = r.scheme /\ Member(o, "opaque", n.opaque) = r.opaque
          /\ Member(o, "host", n.host) = r.host /\ Member(o, "path", n.path) = r.path
          /\ Member(o, "raw_path", n.rawpath) = r.rawpath
          /\ Member(o, "raw_query", n.query) = r.query
          /\ Member(o, "fragment", n.fragment) = r.fragment
        BY <1>1 DEF URLRead
    <2>2. Member(o, "force_query", n.forcequery) = r.forcequery
        BY <1>1 DEF URLRead
    <2>3. (IF "user" \in DOMAIN o THEN DecodeUser(o["user"]) ELSE n.user)
             = IF r.user = NoUser THEN NoUser ELSE Anonymous
        BY <1>1 DEF URLRead, DecodeUser
    <2> QED BY <1>3, <2>1, <2>2, <2>3
<1> HIDE DEF d
<1>5. d = [f \in RequestFields |-> d[f]]
    BY <1>2, <1>4
<1>6. /\ d.scheme = r.scheme /\ d.opaque = r.opaque /\ d.host = r.host
      /\ d.path = r.path /\ d.rawpath = r.rawpath /\ d.forcequery = r.forcequery
      /\ d.query = r.query /\ d.fragment = r.fragment
      /\ d.user = IF r.user = NoUser THEN NoUser ELSE Anonymous
    BY <1>2, <1>4, RequestFieldsAre
<1>7. ASSUME NEW f \in RequestFields \ URLFields PROVE d[f] = n[f]
    BY <1>2, <1>4, <1>7 DEF URLFields
<1> QED BY <1>5, <1>6, <1>7 DEF d, n

LEMMA RequestDecoded ==
    ASSUME NEW r, r = [f \in RequestFields |-> r[f]]
    PROVE  DecodeRequest(NewRequest, EncodeRequest(r)) = ReadRequest(r)
<1> DEFINE o == EncodeRequest(r)
           n == NewRequest
           d == DecodeURL(n, Member(o, "url", <<>>))
           e == DecodeRequestLine(n, o)
           g == DecodeRequest(n, o)
           w == ReadRequest(r)
<1>1. LineRead(o, r) /\ RestRead(o, r)
    BY RequestMembers
<1> HIDE DEF o
<1>2. /\ d = [f \in RequestFields |-> d[f]]
      /\ d.scheme = r.scheme /\ d.opaque = r.opaque /\ d.host = r.host
      /\ d.path = r.path /\ d.rawpath = r.rawpath /\ d.forcequery = r.forcequery
      /\ d.query = r.query /\ d.fragment = r.fragment
      /\ d.user = IF r.user = NoUser THEN NoUser ELSE Anonymous
      /\ \A f \in RequestFields \ URLFields : d[f] = n[f]
    <2>1. URLRead(Member(o, "url", <<>>), r)
        BY <1>1, URLMembers DEF LineRead
    <2> QED BY <2>1, URLDecoded
<1>3. /\ d.method = "" /\ d.proto = <<>> /\ d.major = 0 /\ d.minor = 0 /\ d.header = <<>>
      /\ d.length = 0 /\ d.encoding = <<>> /\ d.close = FALSE /\ d.Host = <<>>
      /\ d.form = <<>> /\ d.postform = <<>> /\ d.trailer = <<>> /\ d.remote = <<>>
      /\ d.uri = <<>> /\ d.tls = FALSE /\ d.cookies = <<>>
    <2>1. /\ n.method = "" /\ n.proto = <<>> /\ n.major = 0 /\ n.minor = 0 /\ n.header = <<>>
          /\ n.length = 0 /\ n.encoding = <<>> /\ n.close = FALSE /\ n.Host = <<>>
          /\ n.form = <<>> /\ n.postform = <<>> /\ n.trailer = <<>> /\ n.remote = <<>>
          /\ n.uri = <<>> /\ n.tls = FALSE /\ n.cookies = <<>>
        BY DEF NewRequest
    <2> HIDE DEF n, d
    <2>2. \A f \in {"method", "proto", "major", "minor", "header", "length", "encoding", "close",
                    "Host", "form", "postform", "trailer", "remote", "uri", "tls", "cookies"} :
             f \in RequestFields \ URLFields
        BY RequestFieldsAre DEF URLFields
    <2>3. \A f \in {"method", "proto", "major", "minor", "header", "length", "encoding", "close",
                    "Host", "form", "postform", "trailer", "remote", "uri", "tls", "cookies"} :
             d[f] = n[f]
        BY <1>2, <2>2
    <2> QED BY <2>1, <2>3
<1>4. e = [d EXCEPT !.method = Member(o, "method", d.method),
              !.proto = Member(o, "proto", d.proto),
              !.major = Member(o, "proto_major", d.major),
              !.minor = Member(o, "proto_minor", d.minor),
              !.header = Member(o, "header", d.header),
              !.length = Member(o, "content_length", d.length),
              !.encoding = Member(o, "transfer_encoding", d.encoding)]
    <2> HIDE DEF n
    <2> QED BY DEF DecodeRequestLine
<1>5. g = [e EXCEPT !.close = Member(o, "close", e.close), !.Host = Member(o, "host", e.Host),
              !.form = Member(o, "form", e.form), !.postform = Member(o, "post_form", e.postform),
              !.trailer = Member(o, "trailer", e.trailer),
              !.remote = Member(o, "remote_addr", e.remote),
              !.uri = Member(o, "request_uri", e.uri), !.body = FALSE]
    <2> HIDE DEF n
    <2> QED BY DEF DecodeRequest
<1> HIDE DEF n, d, e, g
<1>6. e = [d EXCEPT !.method = r.method, !.proto = r.proto, !.major = r.major,
              !.minor = r.minor, !.header = r.header, !.length = r.length,
              !.encoding = r.encoding]
    <2>1. /\ Member(o, "method", d.method) = r.method
          /\ Member(o, "proto", d.proto) = r.proto
          /\ Member(o, "proto_major", d.major) = r.major
          /\ Member(o, "proto_minor", d.minor) = r.minor
          /\ Member(o, "header", d.header) = r.header
          /\ Member(o, "content_length", d.length) = r.length
          /\ Member(o, "transfer_encoding", d.encoding) = r.encoding
        BY <1>1, <1>3 DEF LineRead
    <2> QED BY <1>4, <2>1
<1>7. /\ e = [f \in RequestFields |-> e[f]]
      /\ e.method = r.method /\ e.proto = r.proto /\ e.major = r.major /\ e.minor = r.minor
      /\ e.header = r.header /\ e.length = r.length /\ e.encoding = r.encoding
    BY <1>2, <1>6, RequestFieldsAre
<1>8. ASSUME NEW f \in RequestFields,
             f \notin {"method", "proto", "major", "minor", "header", "length", "encoding"}
      PROVE  e[f] = d[f]
    BY <1>2, <1>6, <1>8
<1>9. g = [e EXCEPT !.close = r.close, !.Host = r.Host, !.form = r.form,
              !.postform = r.postform, !.trailer = r.trailer, !.remote = r.remote,
              !.uri = r.uri, !.body = FALSE]
    <2>3. /\ e.Host = <<>> /\ e.form = <<>> /\ e.postform = <<>> /\ e.trailer = <<>>
          /\ e.remote = <<>> /\ e.uri = <<>>
        BY <1>3, <1>8, RequestFieldsAre
    <2>1. /\ Member(o, "host", e.Host) = r.Host
          /\ Member(o, "form", e.form) = r.form /\ Member(o, "post_form", e.postform) = r.postform
          /\ Member(o, "trailer", e.trailer) = r.trailer
          /\ Member(o, "remote_addr", e.remote) = r.remote
          /\ Member(o, "request_uri", e.uri) = r.uri
        BY <1>1, <2>3 DEF LineRead, RestRead
    <2>2. Member(o, "close", e.close) = r.close
        BY <1>1, <1>3, <1>8, RequestFieldsAre DEF LineRead
    <2> QED BY <1>5, <2>1, <2>2
<1>10. /\ g = [f \in RequestFields |-> g[f]]
       /\ g.close = r.close /\ g.Host = r.Host /\ g.form = r.form /\ g.postform = r.postform
       /\ g.trailer = r.trailer /\ g.remote = r.remote /\ g.uri = r.uri /\ g.body = FALSE
    BY <1>7, <1>9, RequestFieldsAre
<1>11. ASSUME NEW f \in RequestFields,
              f \notin {"close", "Host", "form", "postform", "trailer", "remote", "uri", "body"}
       PROVE  g[f] = e[f]
    BY <1>7, <1>9, <1>11
<1>12. /\ w = [f \in RequestFields |-> w[f]]
       /\ w.body = FALSE /\ w.tls = FALSE /\ w.cookies = <<>>
       /\ w.user = IF r.user = NoUser THEN NoUser ELSE Anonymous
    BY RequestFieldsAre DEF ReadRequest
<1>13. ASSUME NEW f \in RequestFields, f \notin {"body", "tls", "cookies", "user"}
       PROVE  w[f] = r[f]
    BY <1>13 DEF ReadRequest
<1> HIDE DEF w
<1>14. ASSUME NEW f \in RequestFields PROVE g[f] = w[f]
    <2>1. CASE f \in URLFields
        <3>1. g[f] = d[f]
            BY <1>8, <1>11, <2>1 DEF URLFields
        <3>2. f # "user" => d[f] = r[f]
            BY <1>2, <2>1 DEF URLFields
        <3>3. f = "user" => d[f] = w[f]
            BY <1>2, <1>12
        <3>4. f # "user" => w[f] = r[f]
            BY <1>13, <2>1 DEF URLFields
        <3> QED BY <3>1, <3>2, <3>3, <3>4
    <2>2. CASE f \in {"method", "proto", "major", "minor", "header", "length", "encoding"}
        BY <1>7, <1>11, <1>13, <2>2
    <2>3. CASE f \in {"close", "Host", "form", "postform", "trailer", "remote", "uri"}
        BY <1>10, <1>13, <2>3
    <2>4. CASE f = "body"
        BY <1>10, <1>12, <2>4
    <2>5. CASE f \in {"tls", "cookies"}
        BY <1>3, <1>8, <1>11, <1>12, <2>5
    <2> QED BY <2>1, <2>2, <2>3, <2>4, <2>5, RequestFieldsAre DEF URLFields
<1>15. g = w
    BY <1>10, <1>12, <1>14
<1> QED BY <1>15 DEF g, w, n, o

LEMMA ConfigDecoded ==
    ASSUME NEW t, IsTag(t)
    PROVE  DecodeConfig(NewEntity, EncodeConfig(t)) = ReadTag(t)
<1> DEFINE o == EncodeConfig(t)
           n == NewEntity
           d == DecodeConfig(n, o)
           w == ReadTag(t)
<1>1. ConfigRead(o, t)
    BY ConfigMembers
<1> HIDE DEF o
<1>2. /\ n.key = <<>> /\ n.coalesce = FALSE /\ n.printdebug = FALSE /\ n.timeout = 0
      /\ n.ttl = 0 /\ n.maxbodysize = 0 /\ n.forwardpostdata = FALSE
      /\ n.forwardheaders.all = FALSE /\ n.forwardheaders.names = <<>>
      /\ n.returnheaders.all = FALSE /\ n.returnheaders.names = <<>>
      /\ n.src = <<>> /\ n.condition = FALSE /\ n.onerror = <<>>
    BY DEF NewEntity, NoHeaders
<1>3. n = [name \in Names |-> n[name]]
    BY DEF NewEntity, Names
<1>4. d = [n EXCEPT
              !.forwardheaders = [all   |-> Member(o, "forward_headers_all", n.forwardheaders.all),
                                  names |-> Member(o, "forward_headers", n.forwardheaders.names)],
              !.returnheaders  = [all   |-> Member(o, "return_headers_all", n.returnheaders.all),
                                  names |-> Member(o, "return_headers", n.returnheaders.names)],
              !.forwardpostdata = Member(o, "forward_post_data", n.forwardpostdata),
              !.timeout = Member(o, "timeout", n.timeout), !.ttl = Member(o, "ttl", n.ttl),
              !.maxbodysize = Member(o, "max_body_size", n.maxbodysize),
              !.key = Member(o, "key", n.key), !.coalesce = Member(o, "coalesce", n.coalesce),
              !.printdebug = Member(o, "print_debug", n.printdebug)]
    <2> HIDE DEF n
    <2> QED BY DEF DecodeConfig
<1> HIDE DEF n, d
<1>5. d = [n EXCEPT !.forwardheaders = t.forwardheaders, !.returnheaders = t.returnheaders,
              !.forwardpostdata = t.forwardpostdata, !.timeout = t.timeout, !.ttl = t.ttl,
              !.maxbodysize = t.maxbodysize, !.key = t.key, !.coalesce = t.coalesce,
              !.printdebug = t.printdebug]
    <2>1. [all   |-> Member(o, "forward_headers_all", n.forwardheaders.all),
           names |-> Member(o, "forward_headers", n.forwardheaders.names)] = t.forwardheaders
        BY <1>1, <1>2 DEF ConfigRead, IsTag
    <2>2. [all   |-> Member(o, "return_headers_all", n.returnheaders.all),
           names |-> Member(o, "return_headers", n.returnheaders.names)] = t.returnheaders
        BY <1>1, <1>2 DEF ConfigRead, IsTag
    <2>3. /\ Member(o, "timeout", n.timeout) = t.timeout /\ Member(o, "ttl", n.ttl) = t.ttl
          /\ Member(o, "max_body_size", n.maxbodysize) = t.maxbodysize
          /\ Member(o, "key", n.key) = t.key
        BY <1>1, <1>2 DEF ConfigRead
    <2>4. /\ Member(o, "forward_post_data", n.forwardpostdata) = t.forwardpostdata
          /\ Member(o, "coalesce", n.coalesce) = t.coalesce
          /\ Member(o, "print_debug", n.printdebug) = t.printdebug
        BY <1>1, <1>2 DEF ConfigRead
    <2> QED BY <1>4, <2>1, <2>2, <2>3, <2>4
<1>6. /\ d = [name \in Names |-> d[name]]
      /\ d.forwardheaders = t.forwardheaders /\ d.returnheaders = t.returnheaders
      /\ d.forwardpostdata = t.forwardpostdata /\ d.timeout = t.timeout /\ d.ttl = t.ttl
      /\ d.maxbodysize = t.maxbodysize /\ d.key = t.key /\ d.coalesce = t.coalesce
      /\ d.printdebug = t.printdebug
    BY <1>3, <1>5, NamesAre
<1>7. d.src = <<>> /\ d.condition = FALSE /\ d.onerror = <<>>
    BY <1>2, <1>3, <1>5, NamesAre
<1>8. /\ w = [name \in Names |-> w[name]]
      /\ w.src = <<>> /\ w.condition = FALSE /\ w.onerror = <<>>
    BY NamesAre DEF IsTag, ReadTag
<1>9. ASSUME NEW name \in Names, name \notin {"src", "condition", "onerror"}
      PROVE  w[name] = t[name]
    BY <1>9 DEF IsTag, ReadTag
<1> HIDE DEF w
<1>10. ASSUME NEW name \in Names PROVE d[name] = w[name]
    <2>1. CASE name \in {"src", "condition", "onerror"}
        BY <1>7, <1>8, <2>1
    <2>2. CASE name \notin {"src", "condition", "onerror"}
        <3>1. w[name] = t[name]
            BY <1>9, <2>2
        <3> QED BY <1>6, <2>2, <3>1, NamesAre
    <2> QED BY <2>1, <2>2
<1>11. d = w
    BY <1>6, <1>8, <1>10
<1> QED BY <1>11 DEF d, w, n, o

(* The arguments of a resource, as a program reads them *)
LEMMA ArgumentsReadBack ==
    ASSUME NEW a, a = [req |-> a.req, url |-> a.url, tag |-> a.tag], IsTag(a.tag),
           a.req = [f \in RequestFields |-> a.req[f]]
    PROVE  UnmarshalJSON(MarshalJSON(a)) = ReadBack(a)
<1> DEFINE m == [external_req |-> EncodeRequest(a.req), tag |-> EncodeConfig(a.tag)]
           n == [url |-> a.url]
           g == Given(n, <<>>)
           s == <<m, g>>
           o == Joined(s)
<1>1. MarshalJSON(a) = o
    BY DEF MarshalJSON
<1>2. /\ m.external_req = EncodeRequest(a.req) /\ m.tag = EncodeConfig(a.tag)
      /\ DOMAIN m = {"external_req", "tag"} /\ n.url = a.url /\ DOMAIN n = {"url"}
    OBVIOUS
<1> HIDE DEF m, n
<1>3. DOMAIN g \subseteq DOMAIN n
    BY GivenMember
<1>4. DOMAIN s = {1, 2} /\ s[1] = m /\ s[2] = g /\ s[2] = Given(n, <<>>)
    OBVIOUS
<1> HIDE DEF s, g
<1>5. ASSUME NEW k \in DOMAIN m PROVE Member(o, k, <<>>) = m[k]
    <2>1. \A j \in DOMAIN s : k \in DOMAIN s[j] => j = 1
        BY <1>2, <1>3, <1>4
    <2>2. Member(o, k, <<>>) = Member(m, k, <<>>)
        BY <1>4, <2>1, JoinedMember
    <2> QED BY <2>2 DEF Member
<1>6. ASSUME NEW k \in DOMAIN n PROVE Member(o, k, <<>>) = n[k]
    <2>1. \A j \in DOMAIN s : k \in DOMAIN s[j] => j = 2
        BY <1>2, <1>3, <1>4
    <2> QED BY <1>4, <2>1, GroupMember
<1> HIDE DEF o
<1>7. /\ Member(o, "external_req", <<>>) = EncodeRequest(a.req)
      /\ Member(o, "tag", <<>>) = EncodeConfig(a.tag)
      /\ Member(o, "url", <<>>) = a.url
    BY <1>2, <1>5, <1>6
<1>8. UnmarshalJSON(o) = [req |-> ReadRequest(a.req), url |-> a.url, tag |-> ReadTag(a.tag)]
    BY <1>7, RequestDecoded, ConfigDecoded DEF UnmarshalJSON
<1>9. ReadBack(a) = [req |-> ReadRequest(a.req), url |-> a.url, tag |-> ReadTag(a.tag)]
    BY DEF ReadBack
<1> QED BY <1>1, <1>8, <1>9

(* What the last resource was sent is made of its arguments, which have a  *)
(* request of a client                                                     *)
MessageInv ==
    /\ stage \in Served => args.req \in Clients
    /\ stage \notin Served => sent = Unset
    /\ sent # Unset => /\ stage \in Served
                       /\ Last(asked) = args
                       /\ sent = Message(HandlerOf[args.tag.src[Len(asked)]], args)

(* Which resources a tag has and what it forwards is not filled in *)
LEMMA FillingKeepsSources ==
    ASSUME NEW a, NEW site, NEW url, HasLimits(a.tag, site),
           a = [req |-> a.req, url |-> a.url, tag |-> a.tag]
    PROVE  /\ Filled(a, url).tag.src = a.tag.src /\ Filled(a, url).req = a.req
           /\ Filled(a, url).tag.forwardheaders = a.tag.forwardheaders
           /\ Filled(a, url).tag.forwardpostdata = a.tag.forwardpostdata
<1> DEFINE u == Replace(a.req, url)
           k == Replace(a.req, a.tag.key)
           t == [a.tag EXCEPT !.key = k]
<1>1. Filled(a, url) = [a EXCEPT !.url = u, !.tag = t]
    BY DEF Filled
<1> HIDE DEF u, k
<1>2. a.tag = [name \in Names |-> a.tag[name]]
    BY DEF HasLimits, IsTag
<1>3. /\ t.src = a.tag.src /\ t.forwardheaders = a.tag.forwardheaders
      /\ t.forwardpostdata = a.tag.forwardpostdata
    BY <1>2, NamesAre
<1> HIDE DEF t
<1>4. Filled(a, url) = [req |-> a.req, url |-> u, tag |-> t]
    BY <1>1
<1> QED BY <1>3, <1>4

LEMMA MessageStep ==
    ASSUME LimitsInv, MessageInv, [PipelineNext]_all
    PROVE  MessageInv'
<1> USE DEF Served
<1>1. CASE ScanPage \/ UNCHANGED all
    BY <1>1 DEF MessageInv, ScanPage, pipeline, all
<1>2. CASE ParsePage
    BY <1>2 DEF MessageInv, ParsePage
<1>3. ASSUME NEW file \in Caddyfiles, Configure(file) PROVE MessageInv'
    BY <1>3 DEF MessageInv, Configure
<1>4. ASSUME NEW r \in Clients, Store(r) PROVE MessageInv'
    BY <1>4 DEF MessageInv, Store
<1>5. ASSUME NEW r \in Clients, Serve(r) PROVE MessageInv'
    <2>1. /\ stage = "cached" /\ stage' = "asking" /\ sent' = sent /\ args'.req = r
        BY <1>5 DEF Serve, NewResourceArgs
    <2> QED BY <2>1 DEF MessageInv
<1>6. CASE Ask
    <2> DEFINE source == args.tag.src[Len(asked) + 1]
               kind   == HandlerOf[source]
    <2>1. /\ stage = "asking" /\ args' = Filled(args, source) /\ asked' = Append(asked, args')
          /\ stage' \in {"asking", "answered"}
          /\ sent' = IF Accepts(kind, args') THEN Message(kind, args') ELSE Unset
        BY <1>6 DEF Ask
    <2> HIDE DEF source
    <2>2. args'.tag.src = args.tag.src /\ args'.req = args.req
        BY <2>1, FillingKeepsSources DEF LimitsInv
    <2>3. PICK S : asked \in Seq(S)
        BY DEF LimitsInv
    <2>4. Len(asked') = Len(asked) + 1 /\ Last(asked') = args'
        <3>1. asked \in Seq(S \cup {args'})
            BY <2>3, SeqMonotonic
        <3> QED BY <2>1, <3>1 DEF Last
    <2>5. kind = HandlerOf[args'.tag.src[Len(asked')]]
        BY <2>2, <2>4 DEF source
    <2> HIDE DEF kind
    <2> QED BY <2>1, <2>2, <2>4, <2>5 DEF MessageInv
<1>7. CASE GiveUp
    BY <1>7 DEF GiveUp, MessageInv
<1> QED BY <1>1, <1>2, <1>3, <1>4, <1>5, <1>6, <1>7 DEF PipelineNext

LEMMA ReadWhole ==
    ASSUME LimitsInv, MessageInv
    PROVE  ProgramsReadBack
<1>1. SUFFICES ASSUME sent # Unset, HandlerOf[args.tag.src[Len(asked)]] = "shell"
               PROVE  UnmarshalJSON(sent) = ReadBack(Last(asked))
    BY DEF ProgramsReadBack
<1>2. /\ stage \in Served /\ Last(asked) = args /\ args.req \in Clients
      /\ sent = Message("shell", args)
    BY <1>1 DEF MessageInv
<1>3. args = [req |-> args.req, url |-> args.url, tag |-> args.tag] /\ IsTag(args.tag)
    BY <1>2 DEF LimitsInv, HasLimits
<1>4. args.req = [f \in RequestFields |-> args.req[f]]
    BY <1>2, ClientAssumption DEF RequestFields
<1>5. sent = MarshalJSON(args)
    BY <1>2 DEF Message
<1> QED BY <1>2, <1>3, <1>4, <1>5, ArgumentsReadBack

(* A program reads its arguments back whole from the JSON it is sent, for  *)
(* every request, tag and resource (resource_easyjson.go).                 *)
THEOREM ProgramsAreTold == PipelineSpec => []ProgramsReadBack
<1>1. PipelineInit => LimitsInv /\ MessageInv
    BY LimitsStart DEF PipelineInit, MessageInv, Served
<1>2. ScannerInv /\ LimitsInv /\ MessageInv /\ [PipelineNext]_all => LimitsInv' /\ MessageInv'
    BY LimitsStep, MessageStep
<1>3. LimitsInv /\ MessageInv => ProgramsReadBack
    BY ReadWhole
<1> QED BY <1>1, <1>2, <1>3, ScannerInvariant, PTL DEF PipelineSpec

-------------------------------------------------------------------------------
(* The key of a tag *)

(* The strings but for the brace that opens a placeholder *)
Braceless == Symbols \ {"{"}

LEMMA PlainText ==
    ASSUME NEW v \in Seq(STRING), NoBrace(v)
    PROVE  v \in Seq(Braceless)
<1>1. v \in Seq(Symbols)
    BY StringsAreSymbols
<1>2. v = [i \in 1..Len(v) |-> v[i]] /\ Len(v) \in Nat /\ DOMAIN v = 1..Len(v)
    BY <1>1
<1>3. \A i \in 1..Len(v) : v[i] \in Braceless
    <2>1. ASSUME NEW i \in 1..Len(v) PROVE v[i] \in Braceless
        <3>1. v[i] \in Symbols
            BY <1>1, ElementOfSeq
        <3>2. v[i] # "{"
            BY <1>2 DEF NoBrace, Range
        <3> QED BY <3>1, <3>2 DEF Braceless
    <2> QED BY <2>1
<1> QED BY <1>2, <1>3, IsASeq

LEMMA EscapedTyped ==
    ASSUME NEW t \in Seq(Braceless)
    PROVE  Escaped(t) \in Seq(Braceless)
<1> DEFINE e == Escaped(t)
<1>1. /\ Len(t) \in Nat /\ DOMAIN t = 1..Len(t)
      /\ \A i \in 1..Len(t) : t[i] \in Braceless
    BY ElementOfSeq
<1>2. e = [i \in 1..Len(t) |-> IF t[i] \in {"{", "}"} THEN "escaped" ELSE t[i]]
    BY <1>1 DEF Escaped
<1>3. "escaped" \in Braceless
    BY DEF Braceless, Symbols
<1>4. e = [i \in 1..Len(t) |-> e[i]] /\ \A i \in 1..Len(t) : e[i] \in Braceless
    BY <1>1, <1>2, <1>3
<1> HIDE DEF e
<1>5. e \in Seq(Braceless)
    BY <1>1, <1>4, IsASeq
<1> QED BY <1>5 DEF e

(* A separator in a text makes at least two parts of it *)
LEMMA SplitsAtSeparator ==
    ASSUME NEW A, NEW t \in Seq(A), NEW separator, NEW at \in DOMAIN t, t[at] = separator
    PROVE  Len(SplitAt(t, separator)) >= 2
<1> DEFINE n == Len(t)
<1>1. /\ n \in Nat /\ n \in Int /\ at \in 1..n /\ at \in Int
      /\ \A i \in 1..n : t[i] \in A
    BY ElementOfSeq
<1>2. PICK P : Splits(P, t, separator, A) /\ SplitAt(t, separator) = P[n]
    BY SplitSteps
<1> HIDE DEF n
<1>3. ASSUME NEW i \in 1..n
      PROVE  /\ i - 1 \in 0..n /\ Len(P[i - 1]) \in Nat \ {0}
             /\ Len(P[i]) = IF t[i] = separator THEN Len(P[i - 1]) + 1 ELSE Len(P[i - 1])
    <2>1. i - 1 \in 0..n
        BY <1>1
    <2>2. P[i - 1] \in SplitStates(A) /\ P[i] = SplitStep(P[i - 1], t[i], separator)
        BY <1>2, <2>1 DEF Splits, n
    <2>3. Len(P[i - 1]) \in Nat \ {0}
        BY <2>2, EmptySeq DEF SplitStates
    <2> QED BY <1>1, <2>1, <2>2, <2>3, SplitStepTyped
<1> DEFINE S == {i \in at..n : Len(P[i]) \in Nat /\ Len(P[i]) >= 2}
<1>4. at \in S
    <2>1. Len(P[at]) = Len(P[at - 1]) + 1 /\ Len(P[at - 1]) \in Nat \ {0}
        BY <1>1, <1>3
    <2>2. at \in at..n
        BY <1>1
    <2> QED BY <2>1, <2>2
<1>5. ASSUME NEW i \in (at + 1)..n, i - 1 \in S PROVE i \in S
    <2>1. i \in 1..n /\ i \in at..n
        BY <1>1
    <2> DEFINE l == Len(P[i - 1])
               m == Len(P[i])
    <2>2. l \in Nat /\ l >= 2
        BY <1>5
    <2>3. m = l + 1 \/ m = l
        BY <1>3, <2>1
    <2> HIDE DEF l, m
    <2>4. m \in Nat /\ m >= 2
        BY <2>2, <2>3
    <2> QED BY <2>1, <2>4 DEF m
<1>6. n \in at..n
    BY <1>1
<1> HIDE DEF S
<1>7. n \in S
    BY <1>1, <1>4, <1>5, <1>6, Induction
<1> QED BY <1>2, <1>7 DEF S

LEMMA HostTyped ==
    ASSUME NEW A, NEW address \in Seq(A)
    PROVE  HostOf(address) \in Seq(A) /\ PortOf(address) \in Seq(A)
<1> DEFINE parts == SplitAt(address, ":")
           at    == {i \in DOMAIN address : address[i] = ":"}
<1>1. parts \in Seq(Seq(A)) /\ parts # <<>>
    BY SplitTyped DEF SplitStates
<1>2. HasPort(address) => Len(parts) >= 2
    <2> HAVE HasPort(address)
    <2>1. Cardinality(at) = 1
        BY DEF HasPort
    <2>2. at # {}
        <3>1. Cardinality({}) = 0
            BY FS_EmptySet
        <3> HIDE DEF at
        <3> QED BY <2>1, <3>1
    <2>3. PICK i \in DOMAIN address : address[i] = ":"
        BY <2>2
    <2> QED BY <2>3, SplitsAtSeparator
<1> HIDE DEF parts
<1>3. Len(parts) \in Nat /\ Len(parts) # 0
    BY <1>1, EmptySeq
<1>4. parts[1] \in Seq(A) /\ (HasPort(address) => parts[2] \in Seq(A))
    <2>1. 1 \in 1..Len(parts) /\ (HasPort(address) => 2 \in 1..Len(parts))
        BY <1>2, <1>3
    <2> QED BY <1>1, <2>1, ElementOfSeq
<1>5. <<>> \in Seq(A)
    OBVIOUS
<1> QED BY <1>4, <1>5 DEF HostOf, PortOf, parts

(* The values of a request that are put in *)
LEMMA PlainValues ==
    ASSUME NEW r \in Clients, Plain(r)
    PROVE  /\ \A v \in {<<r.method>>, r.Host, r.path, r.query, r.fragment, r.proto, r.remote} :
                 v \in Seq(Braceless)
           /\ \A name \in DOMAIN r.header : r.header[name] \in Seq(Seq(Braceless)) \ {<<>>}
           /\ \A name \in DOMAIN r.form : r.form[name] \in Seq(Seq(Braceless)) \ {<<>>}
           /\ \A i \in DOMAIN r.cookies : r.cookies[i].value \in Seq(Braceless)
<1>1. ASSUME NEW v \in {<<r.method>>, r.Host, r.path, r.query, r.fragment, r.proto, r.remote}
      PROVE  v \in Seq(Braceless)
    <2>1. v \in Seq(STRING)
        <3>1. r.method \in STRING /\ \A x \in STRING : <<x>> \in Seq(STRING)
            BY ClientAssumption
        <3> QED BY <3>1, ClientAssumption
    <2>2. NoBrace(v)
        BY DEF Plain
    <2> QED BY <2>1, <2>2, PlainText
<1>2. ASSUME NEW values \in {r.header, r.form}, NEW name \in DOMAIN values
      PROVE  values[name] \in Seq(Seq(Braceless)) \ {<<>>}
    <2> DEFINE v == values[name]
    <2>1. v \in Seq(Seq(STRING)) /\ v # <<>>
        BY ClientAssumption
    <2>2. \A i \in DOMAIN v : NoBrace(v[i])
        BY DEF Plain
    <2> HIDE DEF v
    <2>3. v = [i \in 1..Len(v) |-> v[i]] /\ Len(v) \in Nat /\ DOMAIN v = 1..Len(v)
        BY <2>1
    <2>4. \A i \in 1..Len(v) : v[i] \in Seq(Braceless)
        BY <2>1, <2>2, <2>3, ElementOfSeq, PlainText
    <2>5. v \in Seq(Seq(Braceless))
        <3> DEFINE B == Seq(Braceless)
        <3>1. \A i \in 1..Len(v) : v[i] \in B
            BY <2>4
        <3> HIDE DEF B
        <3>2. v \in Seq(B)
            BY <2>3, <3>1, IsASeq
        <3> QED BY <3>2 DEF B
    <2> QED BY <2>1, <2>5 DEF v
<1>3. ASSUME NEW i \in DOMAIN r.cookies PROVE r.cookies[i].value \in Seq(Braceless)
    <2> DEFINE C == [name : Seq(STRING), value : Seq(STRING)]
    <2>1. r.cookies \in Seq(C) /\ \A c \in C : c.value \in Seq(STRING)
        BY ClientAssumption
    <2> HIDE DEF C
    <2>2. r.cookies[i] \in C
        BY <2>1, ElementOfSeq
    <2>3. NoBrace(r.cookies[i].value)
        BY DEF Plain
    <2> QED BY <2>1, <2>2, <2>3, PlainText
<1> QED BY <1>1, <1>2, <1>3

LEMMA JoinTyped ==
    ASSUME NEW A, NEW values \in Seq(Seq(A)), NEW sep \in A
    PROVE  Join(values, sep) \in Seq(A)
<1> DEFINE n     == Len(values)
           texts == [i \in DOMAIN values |-> (IF i = 1 THEN <<>> ELSE <<sep>>) \o values[i]]
<1>1. /\ n \in Nat /\ DOMAIN values = 1..n /\ <<>> \in Seq(A) /\ <<sep>> \in Seq(A)
      /\ \A i \in 1..n : values[i] \in Seq(A)
    BY ElementOfSeq
<1>2. \A i \in 1..n : texts[i] \in Seq(A)
    BY <1>1, ConcatProperties
<1>3. texts = [i \in 1..n |-> texts[i]]
    BY <1>1
<1> HIDE DEF texts, n
<1>4. texts \in Seq(Seq(A))
    <2> DEFINE B == Seq(A)
    <2>1. n \in Nat /\ \A i \in 1..n : texts[i] \in B
        BY <1>1, <1>2
    <2> HIDE DEF B
    <2>2. texts \in Seq(B)
        BY <1>3, <2>1, IsASeq
    <2> QED BY <2>2 DEF B
<1>5. FlattenSeq(texts) \in Seq(A)
    BY <1>4, FlattenedTyped
<1> QED BY <1>5 DEF Join, texts

LEMMA GetTyped ==
    ASSUME NEW A, NEW header, NEW name,
           \A n \in DOMAIN header : header[n] \in Seq(Seq(A)) \ {<<>>}
    PROVE  Get(header, name) \in Seq(A)
<1>1. CASE name \in DOMAIN header
    <2>1. header[name] \in Seq(Seq(A)) /\ header[name] # <<>>
        BY <1>1
    <2>2. 1 \in 1..Len(header[name])
        BY <2>1, EmptySeq
    <2>3. header[name][1] \in Seq(A)
        BY <2>1, <2>2, ElementOfSeq
    <2> QED BY <1>1, <2>3 DEF Get
<1>2. CASE name \notin DOMAIN header
    <2>1. <<>> \in Seq(A)
        OBVIOUS
    <2> QED BY <1>2, <2>1 DEF Get
<1> QED BY <1>1, <1>2

LEMMA SubSeqTyped ==
    ASSUME NEW A, NEW t \in Seq(A), NEW k \in 0..Len(t)
    PROVE  SubSeq(t, k + 1, Len(t)) \in Seq(A) /\ SubSeq(t, 1, k) \in Seq(A)
<1> DEFINE m == k + 1
           n == Len(t)
<1>1. /\ 1 \in Int /\ m \in Int /\ n \in Int /\ k \in Int
      /\ \A i \in m..n : t[i] \in A
      /\ \A i \in 1..k : t[i] \in A
    BY ElementOfSeq
<1> HIDE DEF m, n
<1>2. SubSeq(t, m, n) \in Seq(A) /\ SubSeq(t, 1, k) \in Seq(A)
    BY <1>1, SubSeqProperties
<1> QED BY <1>2 DEF m, n

LEMMA LastSlashIn ==
    ASSUME NEW A, NEW path \in Seq(A)
    PROVE  LastSlash(path) \in 0..Len(path)
<1> DEFINE at == {i \in DOMAIN path : path[i] = "/"}
           n  == Len(path)
<1>1. n \in Nat /\ at \in SUBSET (1..n)
    OBVIOUS
<1>2. LastSlash(path) = IF at = {} THEN 0 ELSE Greatest(at)
    BY DEF LastSlash, Greatest
<1> HIDE DEF at, n
<1>3. at # {} => Greatest(at) \in 1..n
    BY <1>1, GreatestIn
<1>4. LastSlash(path) \in 0..n
    BY <1>1, <1>2, <1>3
<1> QED BY <1>4 DEF n

(* An address has no brace *)
LEMMA RealIPPlain ==
    ASSUME NEW r \in Clients
    PROVE  RealIP(r) \in Seq(Braceless)
<1>1. FindIP(r) \in Addresses \cup {<<>>}
    BY FoundIPTyped, AddressAssumption
<1>2. RealIP(r) \in Addresses \cup {<<>>}
    BY <1>1 DEF RealIP
<1>3. \A address \in Addresses : address \in Seq(STRING) /\ NoBrace(address)
    BY AddressAssumption DEF NoBrace
<1>4. <<>> \in Seq(Braceless)
    OBVIOUS
<1> QED BY <1>2, <1>3, <1>4, PlainText

(* What is put in for a placeholder has no brace *)
LEMMA DefaultPlain ==
    ASSUME NEW r \in Clients, Plain(r), NEW name \in Seq(Symbols)
    PROVE  Default(r, name) \in Seq(Braceless)
<1> DEFINE B == Seq(Braceless)
           original == OriginalPath(r)
           slash    == LastSlash(r.path)
<1>1. /\ <<r.method>> \in B /\ r.Host \in B /\ r.path \in B /\ r.query \in B
      /\ r.fragment \in B /\ r.proto \in B /\ r.remote \in B /\ <<>> \in B
    BY PlainValues
<1>2. <<IF r.tls THEN "https" ELSE "http">> \in B
    <2>1. (IF r.tls THEN "https" ELSE "http") \in Braceless
        BY DEF Braceless, Symbols
    <2> QED BY <2>1
<1>3. HostOf(r.Host) \in B /\ HostOf(r.remote) \in B /\ PortOf(r.remote) \in B
    BY <1>1, HostTyped
<1>4. HostOf(RealIP(r)) \in B
    BY RealIPPlain, HostTyped
<1>5. original \in B
    <2>1. Get(r.header, <<"caddy-rewrite-original-uri">>) \in Seq(Braceless)
        BY PlainValues, GetTyped
    <2> QED BY <1>1, <2>1 DEF OriginalPath
<1>6. URI(r) \in B
    <2>1. \A u, v \in Seq(Braceless) : u \o v \in Seq(Braceless)
        BY ConcatProperties
    <2>2. "/" \in Braceless /\ "?" \in Braceless
        BY DEF Braceless, Symbols
    <2>3. <<"/">> \in B /\ <<"?">> \in B
        BY <2>2
    <2>4. QueryText(r) \in B
        BY <1>1, <2>1, <2>3 DEF QueryText
    <2> QED BY <1>1, <2>1, <2>3, <2>4 DEF URI
<1>7. Escaped(original) \in B /\ Escaped(r.path) \in B /\ Escaped(r.query) \in B /\ Escaped(URI(r)) \in B
    BY <1>1, <1>5, <1>6, EscapedTyped
<1>8. SubSeq(r.path, slash + 1, Len(r.path)) \in B /\ SubSeq(r.path, 1, slash) \in B
    BY <1>1, LastSlashIn, SubSeqTyped
<1>9. Len(name) = 1 /\ name[1] \in Foreign => name \in B
    <2> HAVE Len(name) = 1 /\ name[1] \in Foreign
    <2>1. name[1] \in Braceless
        BY DEF Foreign, Braceless, Symbols
    <2>2. name = [i \in 1..1 |-> name[i]]
        OBVIOUS
    <2>3. \A i \in 1..1 : name[i] \in Braceless
        BY <2>1
    <2> QED BY <2>2, <2>3, IsASeq
<1> HIDE DEF B, original, slash
<1>10. \/ Default(r, name) \in
            {<<r.method>>, <<IF r.tls THEN "https" ELSE "http">>, r.Host, HostOf(r.Host), original,
             Escaped(original), r.path, Escaped(r.path), r.query, Escaped(r.query), r.fragment,
             r.proto, HostOf(r.remote), PortOf(r.remote), HostOf(RealIP(r)), r.remote, URI(r),
             Escaped(URI(r)), SubSeq(r.path, slash + 1, Len(r.path)), SubSeq(r.path, 1, slash), <<>>}
       \/ Len(name) = 1 /\ name[1] \in Foreign /\ Default(r, name) = name
    BY DEF Default, original, slash
<1>11. Default(r, name) \in B
    BY <1>1, <1>2, <1>3, <1>4, <1>5, <1>6, <1>7, <1>8, <1>9, <1>10
<1> QED BY <1>11 DEF B

LEMMA SubstitutionPlain ==
    ASSUME NEW r \in Clients, Plain(r), NEW name \in Seq(Symbols)
    PROVE  Substitution(r, name) \in Seq(Braceless)
<1> DEFINE want   == IF name = <<>> THEN <<>> ELSE Tail(name)
           baked  == {i \in DOMAIN r.cookies : r.cookies[i].name = want}
           letter == IF name = <<>> THEN "none" ELSE name[1]
           cookie == r.cookies[Min(baked)].value
<1>1. Lower(want) \in DOMAIN r.header => Join(r.header[Lower(want)], ",") \in Seq(Braceless)
    <2>1. "," \in Braceless
        BY DEF Braceless, Symbols
    <2> HIDE DEF want
    <2> QED BY <2>1, PlainValues, JoinTyped
<1>2. baked # {} => cookie \in Seq(Braceless)
    <2>1. baked \in SUBSET Nat
        <3> DEFINE C == [name : Seq(STRING), value : Seq(STRING)]
        <3>1. r.cookies \in Seq(C)
            BY RequestTyped
        <3> HIDE DEF C
        <3>2. DOMAIN r.cookies \subseteq Nat
            BY <3>1
        <3> QED BY <3>2
    <2>2. baked # {} => Min(baked) \in baked
        <3> HIDE DEF baked
        <3> QED BY <2>1, MinIn
    <2>3. baked # {} => Min(baked) \in DOMAIN r.cookies
        BY <2>2
    <2> HIDE DEF baked
    <2> QED BY <2>3, PlainValues
<1>3. Get(r.form, want) \in Seq(Braceless)
    <2> HIDE DEF want
    <2> QED BY PlainValues, GetTyped
<1>4. Default(r, name) \in Seq(Braceless)
    BY DefaultPlain
<1>5. Substitution(r, name) =
         CASE letter = "H" /\ Lower(want) \in DOMAIN r.header -> Join(r.header[Lower(want)], ",")
           [] letter = "C" /\ baked # {} -> cookie
           [] letter = "F" -> Get(r.form, want)
           [] OTHER        -> Default(r, name)
    BY DEF Substitution
<1> HIDE DEF want, baked, letter, cookie
<1> QED BY <1>1, <1>2, <1>3, <1>4, <1>5

(* What is read of a placeholder, or nothing *)
Holes == {h \in Seq(Symbols) : h = <<>> \/ (h[1] = "{" /\ "}" \notin Range(h))}

ScanStates == [out : Seq(Braceless), hole : Holes]
ScanStep(r, acc, s) ==
    IF acc.hole = <<>> THEN IF s = "{" THEN [acc EXCEPT !.hole = <<s>>]
                            ELSE [acc EXCEPT !.out = Append(@, s)]
    ELSE IF s = "}" THEN [out |-> acc.out \o Substitution(r, Tail(acc.hole)), hole |-> <<>>]
    ELSE [acc EXCEPT !.hole = Append(@, s)]
Replacing(R, r, t) ==
    /\ R \in [0..Len(t) -> ScanStates] /\ R[0] = [out |-> <<>>, hole |-> <<>>]
    /\ \A i \in 1..Len(t) : R[i] = ScanStep(r, R[i - 1], t[i])

LEMMA ScanStepTyped ==
    ASSUME NEW r \in Clients, Plain(r), NEW a \in ScanStates, NEW s \in Symbols
    PROVE  ScanStep(r, a, s) \in ScanStates
<1> DEFINE out == a.out
           h   == a.hole
           b   == ScanStep(r, a, s)
<1>1. /\ out \in Seq(Braceless) /\ h \in Seq(Symbols)
      /\ h = <<>> \/ (h[1] = "{" /\ "}" \notin Range(h))
      /\ a = [out |-> out, hole |-> h]
    BY DEF ScanStates, Holes
<1>2. <<>> \in Holes
    BY DEF Holes
<1>3. /\ h = <<>> /\ s = "{" => b = [out |-> out, hole |-> <<s>>]
      /\ h = <<>> /\ s # "{" => b = [out |-> Append(out, s), hole |-> <<>>]
      /\ h # <<>> /\ s = "}" => b = [out |-> out \o Substitution(r, Tail(h)), hole |-> <<>>]
      /\ h # <<>> /\ s # "}" => b = [out |-> out, hole |-> Append(h, s)]
    BY <1>1 DEF ScanStep
<1>4. ASSUME NEW x \in Seq(Braceless), NEW y \in Holes, b = [out |-> x, hole |-> y]
      PROVE  b \in ScanStates
    BY <1>4 DEF ScanStates
<1> HIDE DEF out, h, b
<1> SUFFICES b \in ScanStates
    BY DEF b
<1>5. CASE h = <<>> /\ s = "{"
    <2>1. <<s>> \in Seq(Symbols)
        OBVIOUS
    <2>2. <<s>>[1] = "{"
        BY <1>5
    <2>3. Range(<<s>>) = {s}
        BY DEF Range
    <2>4. <<s>> \in Holes
        BY <1>5, <2>1, <2>2, <2>3 DEF Holes
    <2> QED BY <1>1, <1>3, <1>4, <1>5, <2>4
<1>6. CASE h = <<>> /\ s # "{"
    <2>1. s \in Braceless
        BY <1>6 DEF Braceless
    <2>2. Append(out, s) \in Seq(Braceless)
        BY <1>1, <2>1, AppendProperties
    <2> QED BY <1>2, <1>3, <1>4, <1>6, <2>2
<1>7. CASE h # <<>> /\ s = "}"
    <2>1. Tail(h) \in Seq(Symbols)
        BY <1>1, <1>7, HeadTailProperties
    <2>2. Substitution(r, Tail(h)) \in Seq(Braceless)
        BY <2>1, SubstitutionPlain
    <2>3. out \o Substitution(r, Tail(h)) \in Seq(Braceless)
        BY <1>1, <2>2, ConcatProperties
    <2> QED BY <1>2, <1>3, <1>4, <1>7, <2>3
<1>8. CASE h # <<>> /\ s # "}"
    <2> DEFINE g == Append(h, s)
               l == Len(h)
    <2>0. h \in Seq(Symbols) /\ h # <<>>
        BY <1>1, <1>8
    <2>1. /\ g \in Seq(Symbols) /\ Len(g) = l + 1 /\ g[l + 1] = s
          /\ \A i \in 1..l : g[i] = h[i]
        BY <2>0, AppendProperties
    <2>2. l \in Nat /\ l # 0 /\ DOMAIN h = 1..l /\ DOMAIN g = 1..(l + 1)
        BY <2>0, <2>1, EmptySeq
    <2> HIDE DEF g, l
    <2>3. g[1] = "{"
        <3>1. 1 \in 1..l
            BY <2>2
        <3> QED BY <1>1, <1>8, <2>1, <3>1, Zenon
    <2>4. \A i \in 1..(l + 1) : i \in 1..l \/ i = l + 1
        BY <2>2
    <2>5. \A i \in 1..l : h[i] # "}"
        BY <1>1, <1>8, <2>2 DEF Range
    <2>6. \A i \in 1..(l + 1) : g[i] # "}"
        BY <1>8, <2>1, <2>4, <2>5
    <2>7. "}" \notin Range(g)
        BY <2>2, <2>6 DEF Range
    <2>8. g \in Holes
        BY <2>1, <2>3, <2>7 DEF Holes
    <2> QED BY <1>1, <1>3, <1>4, <1>8, <2>8 DEF g
<1> QED BY <1>5, <1>6, <1>7, <1>8

LEMMA ReplaceSteps ==
    ASSUME NEW r \in Clients, Plain(r), NEW t \in Seq(Symbols)
    PROVE  \E R : /\ Replacing(R, r, t)
                  /\ Replace(r, t) = R[Len(t)].out \o R[Len(t)].hole
<1> DEFINE n    == Len(t)
           base == [out |-> <<>>, hole |-> <<>>]
           B    == ScanStates
           Body(iter) ==
             [s \in SUBSET (DOMAIN t) |->
                IF s = {} THEN base ELSE ScanStep(r, iter[s \ {Max(s)}], t[Max(s)])]
           chosen == CHOOSE iter : iter = Body(iter)
           next == [i \in 1..n |-> [a \in B |-> ScanStep(r, a, t[i])]]
<1>1. Replace(r, t) = chosen[DOMAIN t].out \o chosen[DOMAIN t].hole
    BY DEF Replace, FoldLeft, MapThenFoldSet, ScanStep
<1>2. n \in Nat /\ DOMAIN t = 1..n /\ \A i \in 1..n : t[i] \in Symbols
    BY ElementOfSeq
<1>3. base \in B
    <2>1. <<>> \in Holes /\ <<>> \in Seq(Braceless)
        BY DEF Holes
    <2> QED BY <2>1 DEF ScanStates
<1>4. \A a \in B, s \in Symbols : ScanStep(r, a, s) \in B
    BY ScanStepTyped
<1> HIDE DEF base, B
<1>5. \E iter : iter = Body(iter)
    <2>1. PICK iter \in [SUBSET (1..n) -> B] : IsFold(iter, base, next, n)
        <3>1. \A i \in 1..n : \A a \in B : next[i][a] \in B
            BY <1>2, <1>4
        <3> HIDE DEF next, n
        <3> QED BY <1>2, <1>3, <3>1, FoldExists
    <2> HIDE DEF n
    <2>2. ASSUME NEW s \in SUBSET (1..n), s # {}
          PROVE  next[Greatest(s)][iter[s \ {Greatest(s)}]]
                    = ScanStep(r, iter[s \ {Max(s)}], t[Max(s)])
        <3>1. Max(s) = Greatest(s) /\ Greatest(s) \in 1..n
            BY <1>2, <2>2, GreatestIn DEF Max, Greatest
        <3>2. iter[s \ {Greatest(s)}] \in B
            BY <2>1
        <3> QED BY <3>1, <3>2
    <2> HIDE DEF next
    <2>3. iter = Body(iter)
        BY <1>2, <2>1, <2>2 DEF IsFold
    <2> QED BY <2>3
<1>6. chosen = Body(chosen)
    <2> HIDE DEF Body
    <2> QED BY <1>5
<1> HIDE DEF chosen, n
<1> DEFINE P == [i \in 0..n |-> chosen[1..i]]
           S == {i \in 0..n : P[i] \in B}
<1>7. P[0] = base
    <2>1. 0 \in 0..n /\ 1..0 = {}
        BY <1>2
    <2> QED BY <1>2, <1>6, <2>1
<1>8. ASSUME NEW i \in 1..n PROVE P[i] = ScanStep(r, P[i - 1], t[i])
    <2>1. i \in Nat \ {0} /\ i \in 0..n /\ i - 1 \in 0..n /\ 1..i \in SUBSET (1..n)
        BY <1>2
    <2>2. Max(1..i) = i /\ (1..i) \ {i} = 1..(i - 1) /\ 1..i # {}
        BY <2>1, UpToGreatest DEF Max, Greatest
    <2>3. chosen[1..i] = ScanStep(r, chosen[1..(i - 1)], t[i])
        BY <1>2, <1>6, <2>1, <2>2
    <2> QED BY <2>1, <2>3
<1> HIDE DEF P
<1>9. \A i \in 0..n : P[i] \in B
    <2>1. 0 \in S
        BY <1>2, <1>3, <1>7
    <2>2. ASSUME NEW i \in (0 + 1)..n, i - 1 \in S PROVE i \in S
        <3>1. i \in 1..n /\ i \in 0..n
            BY <1>2
        <3> QED BY <1>2, <1>4, <1>8, <2>2, <3>1
    <2>3. \A i \in 0..n : i \in 0..i /\ i \in Int /\ 0 \in Int /\ \A j \in 1..i : j \in 1..n
        BY <1>2
    <2>4. ASSUME NEW i \in 0..n PROVE i \in S
        <3>1. \A j \in (0 + 1)..i : j - 1 \in S => j \in S
            <4>1. \A j \in (0 + 1)..i : j \in (0 + 1)..n
                BY <1>2
            <4> HIDE DEF S
            <4> QED BY <2>2, <4>1
        <3>2. i \in 0..i /\ i \in Int /\ 0 \in Int
            BY <2>3
        <3> HIDE DEF S
        <3> QED BY <2>1, <3>1, <3>2, Induction
    <2> QED BY <2>4
<1>10. /\ P \in [0..n -> B] /\ Replace(r, t) = P[n].out \o P[n].hole
    <2>1. P = [i \in 0..n |-> P[i]]
        BY DEF P
    <2>2. n \in 0..n /\ P[n] = chosen[DOMAIN t]
        BY <1>2 DEF P
    <2> QED BY <1>1, <1>9, <2>1, <2>2
<1> QED BY <1>7, <1>8, <1>10 DEF Replacing, base, B, n

(* What has no placeholder left but one that is not closed stays as it is *)
LEMMA Settled ==
    ASSUME NEW r \in Clients, Plain(r), NEW u \in Seq(Braceless), NEW h \in Holes
    PROVE  u \o h \in Seq(Symbols) /\ Replace(r, u \o h) = u \o h
<1> DEFINE t == u \o h
           l == Len(u)
           m == Len(h)
           n == l + m
<1>0. u \in Seq(Symbols) /\ h \in Seq(Symbols) /\ l \in Nat /\ m \in Nat /\ n \in Nat
    <2>1. Braceless \subseteq Symbols
        BY DEF Braceless
    <2>2. u \in Seq(Symbols)
        BY <2>1, SeqMonotonic
    <2>3. h \in Seq(Symbols)
        BY DEF Holes
    <2>4. l \in Nat /\ m \in Nat
        BY <2>2, <2>3
    <2> QED BY <2>2, <2>3, <2>4
<1>1. \A i \in 1..l : u[i] # "{"
    <2>1. \A i \in 1..l : u[i] \in Braceless
        BY ElementOfSeq
    <2> QED BY <2>1 DEF Braceless
<1>2. h = <<>> \/ (h[1] = "{" /\ \A i \in 1..m : h[i] # "}")
    <2>1. DOMAIN h = 1..m
        BY <1>0
    <2>2. h = <<>> \/ (h[1] = "{" /\ "}" \notin Range(h))
        BY DEF Holes
    <2>3. "}" \notin Range(h) => \A i \in 1..m : h[i] # "}"
        BY <2>1 DEF Range
    <2> QED BY <2>2, <2>3, Zenon
<1>3. /\ t \in Seq(Symbols) /\ Len(t) = n
      /\ \A i \in 1..n : t[i] = IF i <= l THEN u[i] ELSE h[i - l]
    BY <1>0, ConcatProperties
<1>4. PICK R : /\ Replacing(R, r, t)
               /\ Replace(r, t) = R[n].out \o R[n].hole
    BY <1>3, ReplaceSteps
<1>5. /\ R[0] = [out |-> <<>>, hole |-> <<>>]
      /\ \A i \in 1..n : R[i] = ScanStep(r, R[i - 1], t[i])
    BY <1>3, <1>4 DEF Replacing
<1>6. /\ Upto(u, 0) = <<>> /\ Upto(u, l) = u
      /\ \A k \in 1..l : Append(Upto(u, k - 1), u[k]) = Upto(u, k)
    BY <1>0, UptoOf
<1>7. /\ Upto(h, 0) = <<>> /\ Upto(h, m) = h
      /\ \A k \in 0..m : Len(Upto(h, k)) = k
      /\ \A k \in 1..m : Append(Upto(h, k - 1), h[k]) = Upto(h, k)
    BY <1>0, UptoOf
<1> HIDE DEF t, l, m
<1> DEFINE S == {i \in 0..l : R[i] = [out |-> Upto(u, i), hole |-> <<>>]}
<1>8. ASSUME NEW i \in (0 + 1)..l, i - 1 \in S PROVE i \in S
    <2>1. i \in 1..l /\ i \in 0..l /\ i \in 1..n /\ i <= l
        BY <1>0
    <2> DEFINE a == R[i - 1]
    <2>2. a = [out |-> Upto(u, i - 1), hole |-> <<>>]
        BY <1>8
    <2>3. R[i] = ScanStep(r, a, u[i])
        BY <1>3, <1>5, <2>1
    <2>4. u[i] # "{" /\ Append(Upto(u, i - 1), u[i]) = Upto(u, i)
        BY <1>1, <1>6, <2>1
    <2> HIDE DEF a
    <2>5. a.hole = <<>> /\ a.out = Upto(u, i - 1)
        BY <2>2
    <2>6. ScanStep(r, a, u[i]) = [a EXCEPT !.out = Append(@, u[i])]
        BY <2>4, <2>5 DEF ScanStep
    <2>7. R[i] = [out |-> Upto(u, i), hole |-> <<>>]
        BY <2>2, <2>3, <2>4, <2>6
    <2> QED BY <2>1, <2>7
<1>9. l \in S
    <2>1. 0 \in S
        BY <1>0, <1>5, <1>6
    <2>2. 0 \in Int /\ l \in Int /\ l \in 0..l
        BY <1>0
    <2> HIDE DEF S
    <2> QED BY <1>8, <2>1, <2>2, Induction
<1> DEFINE T == {i \in l..n : R[i] = [out |-> u, hole |-> Upto(h, i - l)]}
<1>10. ASSUME NEW i \in (l + 1)..n, i - 1 \in T PROVE i \in T
    <2> DEFINE k == i - l
               a == R[i - 1]
               b == Upto(h, k - 1)
    <2>1. /\ i \in l..n /\ i \in 1..n /\ ~(i <= l) /\ k \in 1..m /\ k - 1 \in 0..m
          /\ i - 1 - l = k - 1 /\ k \in Int /\ 1 \in 1..m
        BY <1>0
    <2>2. a = [out |-> u, hole |-> b]
        BY <1>10, <2>1
    <2>3. R[i] = ScanStep(r, a, h[k])
        BY <1>3, <1>5, <2>1
    <2>4. Append(b, h[k]) = Upto(h, k) /\ Len(b) = k - 1
        BY <1>7, <2>1
    <2>5. h # <<>>
        BY <2>1 DEF m
    <2>6. h[1] = "{" /\ h[k] # "}"
        BY <1>2, <2>1, <2>5, Zenon
    <2>7. k = 1 => b = <<>>
        <3>1. 1 - 1 = 0
            OBVIOUS
        <3> QED BY <1>7, <3>1
    <2>8. k # 1 => b # <<>>
        <3>1. k # 1 => k - 1 # 0
            BY <2>1
        <3>2. Len(<<>>) = 0
            OBVIOUS
        <3> HIDE DEF k, b
        <3> QED BY <2>4, <3>1, <3>2
    <2> HIDE DEF a, b, k
    <2>9. a.hole = b
        BY <2>2
    <2>10. ScanStep(r, a, h[k]) = [a EXCEPT !.hole = Append(@, h[k])]
        <3>1. CASE k = 1
            <4>1. a.hole = <<>> /\ h[k] = "{"
                BY <2>6, <2>7, <2>9, <3>1
            <4>2. <<h[k]>> = Append(<<>>, h[k])
                OBVIOUS
            <4> QED BY <4>1, <4>2 DEF ScanStep
        <3>2. CASE k # 1
            <4>1. a.hole # <<>>
                BY <2>8, <2>9, <3>2
            <4> QED BY <2>6, <4>1 DEF ScanStep
        <3> QED BY <3>1, <3>2
    <2>11. R[i] = [out |-> u, hole |-> Upto(h, k)]
        BY <2>2, <2>3, <2>4, <2>10
    <2> QED BY <2>1, <2>11 DEF k
<1>11. n \in T
    <2>1. l \in T
        <3>1. l - l = 0 /\ l \in l..n
            BY <1>0
        <3>2. R[l] = [out |-> u, hole |-> <<>>]
            BY <1>6, <1>9
        <3> QED BY <1>7, <3>1, <3>2
    <2>2. l \in Int /\ n \in Int /\ n \in l..n
        BY <1>0
    <2> HIDE DEF T
    <2> QED BY <1>10, <2>1, <2>2, Induction
<1>12. R[n] = [out |-> u, hole |-> h]
    <2>1. n - l = m
        BY <1>0
    <2> QED BY <1>7, <1>11, <2>1
<1>13. R[n].out = u /\ R[n].hole = h
    BY <1>12
<1> QED BY <1>3, <1>4, <1>13 DEF t

(* Once replaced, a text has nothing left to replace *)
LEMMA ReplaceOnce ==
    ASSUME NEW r \in Clients, Plain(r), NEW t \in Seq(Symbols)
    PROVE  Replace(r, t) \in Seq(Symbols) /\ Replace(r, Replace(r, t)) = Replace(r, t)
<1>1. PICK R : Replacing(R, r, t) /\ Replace(r, t) = R[Len(t)].out \o R[Len(t)].hole
    BY ReplaceSteps
<1>2. Len(t) \in 0..Len(t)
    <2>1. Len(t) \in Nat
        OBVIOUS
    <2> QED BY <2>1
<1>3. R[Len(t)] \in ScanStates
    BY <1>1, <1>2 DEF Replacing
<1>4. R[Len(t)].out \in Seq(Braceless) /\ R[Len(t)].hole \in Holes
    BY <1>3 DEF ScanStates
<1> QED BY <1>1, <1>4, Settled

(* The key of a tag until it is filled in, and after it has been.  The     *)
(* arguments have the one request of the client.                           *)
KeyAsked == Replace(client.request, entry.tags[client.tag].key)
KeysInv ==
    /\ \A i \in DOMAIN tags : tags[i].key \in Seq(Symbols)
    /\ stage \in Served \cup {"cached"} =>
          \A i \in DOMAIN entry.tags : entry.tags[i].key \in Seq(Symbols)
    /\ stage \in Served =>
          /\ args.req = client.request /\ client.request \in Clients
          /\ client.tag \in DOMAIN entry.tags
          /\ asked = <<>> => args.tag.key = entry.tags[client.tag].key
          /\ asked # <<>> /\ Plain(client.request) => args.tag.key = KeyAsked
    /\ \A i \in DOMAIN asked : Plain(client.request) => asked[i].tag.key = KeyAsked

(* The site leaves the key and what is forwarded alone *)
LEMMA DefaultsKeepKey ==
    ASSUME NEW e, IsTag(e), NEW site
    PROVE  /\ WithDefaults(e, site).key = e.key
           /\ WithDefaults(e, site).forwardheaders = e.forwardheaders
           /\ WithDefaults(e, site).forwardpostdata = e.forwardpostdata
BY NamesAre DEF IsTag, WithDefaults

LEMMA FillingReplacesKey ==
    ASSUME NEW a, NEW site, NEW url, HasLimits(a.tag, site),
           a = [req |-> a.req, url |-> a.url, tag |-> a.tag]
    PROVE  Filled(a, url).req = a.req /\ Filled(a, url).tag.key = Replace(a.req, a.tag.key)
<1> DEFINE u == Replace(a.req, url)
           k == Replace(a.req, a.tag.key)
           t == [a.tag EXCEPT !.key = k]
<1>1. Filled(a, url) = [a EXCEPT !.url = u, !.tag = t]
    BY DEF Filled
<1> HIDE DEF u, k
<1>2. a.tag = [name \in Names |-> a.tag[name]]
    BY DEF HasLimits, IsTag
<1>3. t.key = k
    BY <1>2, NamesAre
<1> HIDE DEF t
<1>4. Filled(a, url).req = a.req /\ Filled(a, url).tag = t
    BY <1>1
<1> QED BY <1>3, <1>4 DEF k

LEMMA KeysStep ==
    ASSUME ScannerInv, LimitsInv, KeysInv, [PipelineNext]_all
    PROVE  KeysInv'
<1> USE DEF Served
<1>1. CASE ScanPage \/ UNCHANGED all
    BY <1>1 DEF KeysInv, KeyAsked, ScanPage, pipeline, all
<1>2. CASE ParsePage
    <2> DEFINE raws == [i \in DOMAIN found |-> found[i].raw]
    <2>1. ASSUME NEW i \in DOMAIN found PROVE ParseRaw(raws[i]).entity.key \in Seq(Symbols)
        <3>1. found[i].raw \in Seq(Symbols)
            <4>1. found[i] \in Entities
                BY FoundEntity DEF ScannerInv, Scanning
            <4> QED BY <4>1 DEF Entities
        <3>2. raws[i] = found[i].raw
            OBVIOUS
        <3> QED BY <3>1, <3>2, ParsedIsTag
    <2>2. /\ tags' = IF ParsedTags(raws).ok THEN ParsedTags(raws).tags ELSE <<>>
          /\ stage' \in {"parsed", "unparsed"} /\ asked' = asked /\ asked = <<>>
        BY <1>2 DEF ParsePage, LimitsInv
    <2>3. ParsedTags(raws).tags = [i \in DOMAIN found |-> ParseRaw(raws[i]).entity]
        BY DEF ParsedTags
    <2>4. ASSUME NEW i \in DOMAIN tags' PROVE tags'[i].key \in Seq(Symbols)
        <3>1. CASE ParsedTags(raws).ok
            BY <2>1, <2>2, <2>3, <3>1
        <3>2. CASE ~ParsedTags(raws).ok
            BY <2>2, <3>2
        <3> QED BY <3>1, <3>2
    <2> HIDE DEF raws
    <2> QED BY <2>2, <2>4 DEF KeysInv
<1>3. ASSUME NEW file \in Caddyfiles, Configure(file) PROVE KeysInv'
    BY <1>3 DEF Configure, KeysInv, LimitsInv
<1>4. ASSUME NEW r \in Clients, Store(r) PROVE KeysInv'
    <2> DEFINE at == ConfigForPath(sites, r)
    <2>1. /\ tags' = tags /\ asked' = asked /\ asked = <<>> /\ stage' = "cached"
          /\ entry'.tags = [i \in DOMAIN tags |-> WithDefaults(tags[i], sites[at])]
        BY <1>4 DEF Store, LimitsInv
    <2> HIDE DEF at
    <2>2. ASSUME NEW i \in DOMAIN entry'.tags PROVE entry'.tags[i].key \in Seq(Symbols)
        <3>1. i \in DOMAIN tags /\ entry'.tags[i] = WithDefaults(tags[i], sites[at])
            BY <2>1
        <3>2. IsTag(tags[i]) /\ tags[i].key \in Seq(Symbols)
            BY <3>1 DEF LimitsInv, KeysInv
        <3> QED BY <3>1, <3>2, DefaultsKeepKey
    <2> QED BY <2>1, <2>2 DEF KeysInv
<1>5. ASSUME NEW r \in Clients, Serve(r) PROVE KeysInv'
    <2>1. PICK i \in DOMAIN entry.tags : /\ client' = [request |-> r, tag |-> i]
                                         /\ args' = NewResourceArgs(r, entry.tags[i])
        BY <1>5 DEF Serve
    <2>2. /\ stage = "cached" /\ stage' = "asking" /\ entry' = entry /\ tags' = tags
          /\ asked' = asked /\ asked = <<>>
        BY <1>5 DEF Serve, LimitsInv
    <2>3. /\ client'.request = r /\ client'.tag = i
          /\ args'.req = r /\ args'.tag = entry.tags[i]
        BY <2>1 DEF NewResourceArgs
    <2> QED BY <2>2, <2>3 DEF KeysInv
<1>6. CASE Ask
    <2> DEFINE source == args.tag.src[Len(asked) + 1]
               k      == entry.tags[client.tag].key
               r      == client.request
    <2>1. /\ stage = "asking" /\ args' = Filled(args, source) /\ asked' = Append(asked, args')
          /\ stage' \in {"asking", "answered"} /\ entry' = entry /\ tags' = tags
          /\ client' = client
        BY <1>6 DEF Ask
    <2> HIDE DEF source
    <2>2. args'.req = args.req /\ args'.tag.key = Replace(args.req, args.tag.key)
        BY <2>1, FillingReplacesKey DEF LimitsInv
    <2>3. /\ args.req = r /\ r \in Clients /\ client.tag \in DOMAIN entry.tags
          /\ k \in Seq(Symbols)
          /\ asked = <<>> => args.tag.key = k
          /\ asked # <<>> /\ Plain(r) => args.tag.key = Replace(r, k)
          /\ Plain(r) => \A i \in DOMAIN asked : asked[i].tag.key = Replace(r, k)
        BY <2>1 DEF KeysInv, KeyAsked
    <2> HIDE DEF k, r
    <2>4. Plain(r) => args'.tag.key = Replace(r, k)
        BY <2>2, <2>3, ReplaceOnce
    <2>5. PICK S : asked \in Seq(S)
        BY DEF LimitsInv
    <2>6. /\ DOMAIN asked' = 1..(Len(asked) + 1) /\ DOMAIN asked = 1..Len(asked)
          /\ asked'[Len(asked) + 1] = args' /\ \A i \in 1..Len(asked) : asked'[i] = asked[i]
          /\ Len(asked) \in Nat
        <3>1. asked \in Seq(S \cup {args'})
            BY <2>5, SeqMonotonic
        <3> QED BY <2>1, <3>1
    <2>7. ASSUME Plain(r), NEW i \in DOMAIN asked' PROVE asked'[i].tag.key = Replace(r, k)
        <3>1. i = Len(asked) + 1 \/ i \in DOMAIN asked
            BY <2>6
        <3> QED BY <2>3, <2>4, <2>6, <2>7, <3>1
    <2>8. asked' # <<>>
        BY <2>6
    <2>9. client'.request = r /\ KeyAsked' = Replace(r, k)
        BY <2>1 DEF KeyAsked, r, k
    <2> QED BY <2>1, <2>2, <2>3, <2>4, <2>7, <2>8, <2>9 DEF KeysInv
<1>7. CASE GiveUp
    BY <1>7 DEF GiveUp, KeysInv, KeyAsked
<1> QED BY <1>1, <1>2, <1>3, <1>4, <1>5, <1>6, <1>7 DEF PipelineNext

(* All resources of a tag are asked for one key, for every page, request   *)
(* and number of resources.                                                *)
THEOREM OneKeyAsked == PipelineSpec => []OneKey
<1>1. PipelineInit => LimitsInv /\ KeysInv
    <2>1. PipelineInit => KeysInv
        <3> HAVE PipelineInit
        <3>1. tags = <<>> /\ asked = <<>> /\ stage = "scanning"
            BY DEF PipelineInit
        <3>2. DOMAIN tags = {} /\ DOMAIN asked = {}
            BY <3>1
        <3> QED BY <3>1, <3>2 DEF KeysInv, Served
    <2> QED BY <2>1, LimitsStart
<1>2. ScannerInv /\ LimitsInv /\ KeysInv /\ [PipelineNext]_all => LimitsInv' /\ KeysInv'
    BY LimitsStep, KeysStep
<1>3. KeysInv => OneKey
    BY DEF KeysInv, KeyAsked, OneKey
<1> QED BY <1>1, <1>2, <1>3, ScannerInvariant, PTL DEF PipelineSpec

-------------------------------------------------------------------------------
(* The tags of a page that was written *)

LEMMA PartsLie ==
    ASSUME NEW S, NEW s \in Seq(S), NEW t \in Seq(S), NEW u \in Seq(S), NEW p,
           Lies(s \o t, p, u)
    PROVE  Lies(s, p, u) /\ Lies(t, p + Len(s), u)
<1> DEFINE z == 0
           w == s \o t
<1>1. Lies(s, z, w) /\ Lies(t, Len(s), w)
    BY LiesInSum
<1>2. /\ Len(s) \in Nat /\ Len(t) \in Nat /\ Len(u) \in Nat /\ p \in Nat
    BY DEF Lies
<1>3. Len(w) \in Nat
    <2>1. w \in Seq(S)
        BY ConcatProperties
    <2> HIDE DEF w
    <2> QED BY <2>1
<1>4. Lies(w, p, u) /\ p + z = p
    BY <1>2
<1> HIDE DEF w, z
<1> QED BY <1>1, <1>2, <1>3, <1>4, LiesDeeper

LEMMA NotWithin ==
    ASSUME NEW t \in Seq(Symbols), NEW pattern \in Seq(Symbols), ~Within(pattern, t),
           NEW q \in 0..(Len(t) - Len(pattern))
    PROVE  \E j \in 1..Len(pattern) : t[q + j] # pattern[j]
<1> DEFINE m == Len(pattern)
           s == SubSeq(t, q + 1, q + m)
<1>0. m \in Nat /\ Len(t) \in Nat
    OBVIOUS
<1>1. s # pattern
    BY DEF Within
<1>2. s \in Seq(Symbols) /\ Len(s) = m /\ \A j \in 1..m : s[j] = t[q + j]
    <2> DEFINE a == q + 1
               b == q + m
    <2>1. a \in Int /\ b \in Int /\ \A i \in a..b : t[i] \in Symbols
        BY <1>0, ElementOfSeq
    <2>2. (a <= b => b - a + 1 = m) /\ (~(a <= b) => m = 0) /\ b - a + 1 = m
          /\ \A j \in 1..m : a + j - 1 = q + j
        BY <1>0
    <2> HIDE DEF a, b
    <2>3. /\ SubSeq(t, a, b) \in Seq(Symbols)
          /\ Len(SubSeq(t, a, b)) = IF a <= b THEN b - a + 1 ELSE 0
          /\ \A j \in 1..(b - a + 1) : SubSeq(t, a, b)[j] = t[a + j - 1]
        BY <2>1, SubSeqProperties
    <2>4. s = SubSeq(t, a, b)
        BY DEF a, b
    <2> HIDE DEF s, m
    <2> QED BY <2>2, <2>3, <2>4
<1> HIDE DEF s
<1> QED BY <1>1, <1>2, Alike

(* The text of a tag stands in the page behind p bytes *)
LEMMA TagLies ==
    ASSUME text \in Seq(Symbols), NEW tag \in WrittenTags, NEW p, Lies(TagText(tag), p, text)
    PROVE  \E t : /\ t \in Entities /\ t.raw = RawText(tag)
                  /\ TagsAfter(p) = <<t>> \o TagsAfter(p + Len(TagText(tag)))
<1> DEFINE gap == tag.gap
           raw == RawText(tag)
           g   == Len(gap)
           m   == Len(raw)
           a   == EsiOpen \o raw
           b   == a \o EsiEnd
<1>1. gap \in Seq(Symbols) /\ raw \in Seq(Symbols) /\ EsiOpen \in Seq(Symbols)
      /\ EsiEnd \in Seq(Symbols) /\ Len(EsiOpen) = 5 /\ Len(EsiEnd) = 2
    BY TagTyped, OpenMarks, EndMarks
<1>11. TagText(tag) = gap \o b
    BY DEF TagText
<1>4. ~Within(EsiOpen, gap) /\ ~Within(EsiEnd, raw)
    BY DEF WrittenTags
<1> HIDE DEF gap, raw
<1>2. a \in Seq(Symbols) /\ Len(a) = 5 + m
    <2>1. a \in Seq(Symbols) /\ Len(a) = Len(EsiOpen) + Len(raw)
        BY <1>1, ConcatProperties
    <2> HIDE DEF a
    <2> QED BY <1>1, <2>1
<1> HIDE DEF a
<1>3. b \in Seq(Symbols) /\ Len(b) = 5 + m + 2
    <2>1. b \in Seq(Symbols) /\ Len(b) = Len(a) + Len(EsiEnd)
        BY <1>1, <1>2, ConcatProperties
    <2> HIDE DEF b
    <2> QED BY <1>1, <1>2, <2>1
<1> HIDE DEF b
<1>5. g \in Nat /\ m \in Nat /\ Len(text) \in Nat /\ p \in Nat
    BY <1>1 DEF Lies
<1>6. Lies(gap, p, text) /\ Lies(b, p + g, text) /\ Len(TagText(tag)) = g + (5 + m + 2)
    <2>1. Lies(gap, p, text) /\ Lies(b, p + g, text)
        BY <1>1, <1>3, <1>11, PartsLie
    <2>2. Len(TagText(tag)) = Len(gap) + Len(b)
        BY <1>1, <1>3, <1>11, ConcatProperties
    <2> QED BY <1>3, <2>1, <2>2
<1>7. Lies(a, p + g, text) /\ Lies(EsiEnd, p + g + (5 + m), text)
    BY <1>1, <1>2, <1>6, PartsLie DEF b
<1>8. Lies(EsiOpen, p + g, text) /\ Lies(raw, p + g + 5, text)
    BY <1>1, <1>7, PartsLie DEF a
<1> DEFINE o == p + g
           q == p + g + 5 + m
           e == q + 2
<1>9. /\ o \in Nat /\ q \in Nat /\ e \in Nat /\ q = o + 5 + m /\ p + g + (5 + m) = q
      /\ p + Len(TagText(tag)) = e /\ p <= o /\ o = p + g /\ e = q + 2
    BY <1>5, <1>6
<1>10. /\ \A j \in 1..g : text[p + j] = gap[j]
       /\ \A j \in 1..5 : text[o + j] = EsiOpen[j]
       /\ \A j \in 1..m : text[o + 5 + j] = raw[j]
       /\ \A j \in 1..2 : text[q + j] = EsiEnd[j]
       /\ e <= Len(text)
    BY <1>1, <1>6, <1>7, <1>8, <1>9 DEF Lies
<1> HIDE DEF o, q, e, g, m
<1>12. /\ p \in Places /\ o \in Places /\ o \in p..Len(text) /\ q \in (o + 5)..Len(text)
       /\ e \in Places /\ o + 5 <= Len(text)
    BY <1>5, <1>9, <1>10 DEF Places
<1>13. OpensAt(o, 5)
    BY <1>10, <1>12, OpenMarks DEF OpensAt
<1>14. ASSUME NEW r \in p..(o - 1), OpensAt(r, 5) PROVE FALSE
    <2>0. r \in Nat
        BY <1>5, <1>9
    <2>1. /\ text[r + 1] = "<" /\ text[r + 2] = "e" /\ text[r + 3] = "s" /\ text[r + 4] = "i"
          /\ text[r + 5] = ":"
        BY <1>14 DEF OpensAt
    <2>2. text[o + 1] = "<"
        BY <1>10, OpenMarks
    <2>3. CASE r + 5 <= o
        <3> DEFINE k == r - p
        <3>1. k \in 0..(g - 5) /\ r = p + k
            BY <1>5, <1>9, <2>0, <2>3
        <3> HIDE DEF k
        <3>2. \A j \in 1..5 : k + j \in 1..g /\ p + (k + j) = r + j
            BY <1>5, <3>1
        <3>3. \A j \in 1..5 : gap[k + j] = text[r + j]
            BY <1>10, <3>2
        <3>4. \A j \in 1..5 : text[r + j] = EsiOpen[j]
            BY <2>1, OpenMarks
        <3>5. \E j \in 1..5 : gap[k + j] # EsiOpen[j]
            <4>1. k \in 0..(Len(gap) - Len(EsiOpen)) /\ Len(EsiOpen) = 5
                BY <1>1, <3>1 DEF g
            <4>2. \E j \in 1..Len(EsiOpen) : gap[k + j] # EsiOpen[j]
                BY <1>1, <1>4, <4>1, NotWithin
            <4> QED BY <4>1, <4>2
        <3> QED BY <3>3, <3>4, <3>5
    <2>4. CASE r + 5 > o
        <3>1. r + 2 = o + 1 \/ r + 3 = o + 1 \/ r + 4 = o + 1 \/ r + 5 = o + 1
            <4>1. o \in Nat /\ r \in Nat /\ r + 5 > o /\ r < o
                BY <1>9, <2>0, <2>4
            <4> QED BY <4>1
        <3> QED BY <2>1, <2>2, <3>1
    <2> QED BY <1>9, <2>0, <2>3, <2>4
<1>15. ClosesAt(q)
    BY <1>9, <1>10, EndMarks DEF ClosesAt
<1>16. ASSUME NEW r \in (o + 5)..(q - 1), ClosesAt(r) PROVE FALSE
    <2>0. r \in Nat
        BY <1>9
    <2>1. text[r + 1] = "/" /\ text[r + 2] = ">"
        BY <1>16 DEF ClosesAt
    <2>2. text[q + 1] = "/"
        BY <1>10, EndMarks
    <2>3. r + 2 # q + 1
        BY <2>1, <2>2
    <2> DEFINE k == r - (o + 5)
    <2>4. k \in 0..(m - 2) /\ r = o + 5 + k
        BY <1>5, <1>9, <2>0, <2>3
    <2> HIDE DEF k
    <2>5. \A j \in 1..2 : k + j \in 1..m /\ o + 5 + (k + j) = r + j
        BY <1>5, <1>9, <2>4
    <2>6. \A j \in 1..2 : raw[k + j] = text[r + j]
        BY <1>10, <2>5
    <2>7. \A j \in 1..2 : text[r + j] = EsiEnd[j]
        BY <2>1, EndMarks
    <2>8. \E j \in 1..2 : raw[k + j] # EsiEnd[j]
        <3>1. k \in 0..(Len(raw) - Len(EsiEnd)) /\ Len(EsiEnd) = 2
            BY <1>1, <2>4 DEF m
        <3>2. \E j \in 1..Len(EsiEnd) : raw[k + j] # EsiEnd[j]
            BY <1>1, <1>4, <3>1, NotWithin
        <3> QED BY <3>1, <3>2
    <2> QED BY <2>6, <2>7, <2>8
<1> DEFINE s == SubSeq(text, o + 6, q)
           t == [start |-> o, end |-> e, raw |-> s]
<1>17. TagFrom(o) = <<t>>
    <2>1. TagFrom(o) = <<[start |-> o, end |-> q + 2, raw |-> SubSeq(text, o + 6, q)]>>
        BY <1>12, <1>13, <1>14, <1>15, <1>16, TagIs
    <2> QED BY <2>1 DEF e
<1>18. s = raw
    <2> DEFINE c == o + 5
    <2>1. c \in 0..Len(text) /\ q \in 0..Len(text) /\ c + 1 = o + 6 /\ c <= q /\ q - c = m
        BY <1>5, <1>9, <1>12 DEF Places
    <2> HIDE DEF c
    <2>2. /\ SubSeq(text, c + 1, q) \in Seq(Symbols) /\ Len(SubSeq(text, c + 1, q)) = m
          /\ \A i \in 1..m : SubSeq(text, c + 1, q)[i] = text[c + i]
        BY <2>1, Parts
    <2>3. \A i \in 1..m : text[c + i] = raw[i]
        BY <1>10 DEF c
    <2>4. Len(raw) = m /\ s = SubSeq(text, c + 1, q)
        BY <2>1 DEF m
    <2> HIDE DEF s
    <2> QED BY <1>1, <2>2, <2>3, <2>4, Alike
<1>19. t \in Entities /\ t.raw = raw /\ t.end = e
    BY <1>1, <1>12, <1>18 DEF Entities
<1> HIDE DEF s, t
<1>20. TagsAfter(p) = TagsAfter(o)
    BY <1>12, <1>14, SameTags
<1>21. TagsAfter(o) = <<t>> \o TagsAfter(e)
    <2>1. TagFrom(o) # <<>> /\ TagFrom(o)[1] = t
        BY <1>17
    <2> QED BY <1>12, <1>17, <1>19, <2>1, RestIs
<1> QED BY <1>9, <1>19, <1>20, <1>21 DEF raw

(* The tags of a page that was written are its tags *)
LEMMA TagsAreWritten ==
    ASSUME NEW page \in WrittenPages, text = PageText(page)
    PROVE  /\ TagsOfPage \in Seq(Entities) /\ Len(TagsOfPage) = Len(page.tags)
           /\ \A i \in 1..Len(page.tags) : TagsOfPage[i].raw = RawText(page.tags[i])
<1> DEFINE texts == Tagged(page)
           own   == page.tags
           rest  == page.rest
           n     == Len(own)
<1>1. /\ own \in Seq(WrittenTags) /\ rest \in Seq(Symbols) /\ texts \in Seq(Seq(Symbols))
      /\ Len(texts) = n /\ text = FlattenSeq(texts) \o rest /\ text \in Seq(Symbols)
    BY PageTyped
<1>2. ~Within(EsiOpen, rest)
    BY WrittenAssumption
<1>3. DOMAIN own = 1..n /\ n \in Nat /\ \A i \in 1..n : own[i] \in WrittenTags
    BY <1>1, ElementOfSeq
<1>4. \A i \in 1..n : texts[i] = TagText(own[i])
    BY <1>3 DEF Tagged
<1> HIDE DEF texts, own, rest, n
<1>5. PICK acc : PutTogether(acc, texts, Symbols) /\ FlattenSeq(texts) = acc[n]
    BY <1>1, Flattened
<1>6. /\ \A i \in 0..n : acc[i] \in Seq(Symbols)
      /\ acc[0] = <<>> /\ n \in 0..n
    BY <1>1, <1>3, <1>5 DEF PutTogether
<1> DEFINE whole == acc[n]
           At(i) == Len(acc[i])
<1>7. /\ \A i \in 0..n : At(i) \in Nat
      /\ whole \in Seq(Symbols) /\ text = whole \o rest /\ At(n) = Len(whole)
    BY <1>1, <1>5, <1>6
<1>8. ASSUME NEW i \in 1..n
      PROVE  /\ At(i) = At(i - 1) + Len(TagText(own[i]))
             /\ Lies(TagText(own[i]), At(i - 1), whole)
    <2>1. /\ Len(acc[i]) = Len(acc[i - 1]) + Len(texts[i])
          /\ Lies(texts[i], Len(acc[i - 1]), acc[Len(texts)])
        <3>1. i \in 1..Len(texts)
            BY <1>1
        <3> QED BY <1>1, <1>5, <3>1, PiecesLie
    <2>2. acc[Len(texts)] = acc[n] /\ texts[i] = TagText(own[i])
        BY <1>1, <1>4
    <2> QED BY <2>1, <2>2
<1>9. At(0) = 0
    BY <1>6
<1>10. \A i \in 1..n : i \in 0..n /\ i - 1 \in 0..n
    BY <1>3
<1> HIDE DEF whole, At
<1>11. Lies(whole, 0, text) /\ Lies(rest, At(n), text) /\ Len(text) = At(n) + Len(rest)
       /\ Len(rest) \in Nat
    BY <1>1, <1>7, LiesInSum, ConcatProperties
<1>12. ASSUME NEW i \in 1..n
       PROVE  \E t \in Entities : t.raw = RawText(own[i])
                                   /\ TagsAfter(At(i - 1)) = <<t>> \o TagsAfter(At(i))
    <2> DEFINE piece == TagText(own[i])
               z == 0
    <2>1. own[i] \in WrittenTags
        BY <1>3
    <2>2. piece \in Seq(Symbols)
        BY <2>1, TagTyped
    <2>3. Len(piece) \in Nat /\ Len(whole) \in Nat /\ Len(text) \in Nat
        BY <1>1, <1>7, <2>2
    <2>4. Lies(piece, At(i - 1), whole) /\ Lies(whole, z, text)
        BY <1>8, <1>11
    <2>5. z + At(i - 1) = At(i - 1)
        BY <1>7, <1>10
    <2> HIDE DEF piece, z
    <2>6. Lies(piece, At(i - 1), text)
        BY <2>3, <2>4, <2>5, LiesDeeper
    <2>7. PICK t : /\ t \in Entities /\ t.raw = RawText(own[i])
                   /\ TagsAfter(At(i - 1)) = <<t>> \o TagsAfter(At(i - 1) + Len(TagText(own[i])))
        BY <1>1, <2>1, <2>6, TagLies DEF piece
    <2> QED BY <1>8, <2>7
<1>13. TagsAfter(At(n)) = <<>>
    <2> DEFINE p == At(n)
               l == Len(text)
    <2>1. p \in Nat /\ l \in Nat /\ p \in Places
        BY <1>6, <1>7, <1>11 DEF Places
    <2>2. ASSUME NEW r \in p..l, OpensAt(r, 5) PROVE FALSE
        <3>1. r + 5 <= l /\ r \in Nat
            BY <2>1, <2>2 DEF OpensAt
        <3> DEFINE k == r - p
        <3>2. k \in 0..(Len(rest) - 5) /\ r = p + k
            BY <1>11, <2>1, <3>1
        <3> HIDE DEF k, p, l
        <3>3. \E j \in 1..Len(EsiOpen) : rest[k + j] # EsiOpen[j]
            <4>1. k \in 0..(Len(rest) - Len(EsiOpen)) /\ EsiOpen \in Seq(Symbols)
                BY <3>2, OpenMarks
            <4> QED BY <1>1, <1>2, <4>1, NotWithin
        <3>4. ASSUME NEW j \in 1..5 PROVE rest[k + j] = EsiOpen[j]
            <4>1. k + j \in 1..Len(rest) /\ p + (k + j) = r + j
                BY <1>11, <2>1, <3>2
            <4>2. text[r + j] = rest[k + j]
                BY <1>11, <4>1 DEF Lies, p
            <4>3. text[r + j] = EsiOpen[j]
                BY <2>2, OpenMarks DEF OpensAt
            <4> QED BY <4>2, <4>3
        <3> QED BY <3>3, <3>4, OpenMarks
    <2> HIDE DEF p, l
    <2>3. TagFrom(p) = <<>>
        BY <1>1, <2>1, <2>2, NoTag DEF l
    <2>4. TagsAfter(p) = <<>>
        BY <1>1, <2>1, <2>3, RestIs
    <2> QED BY <2>4 DEF p
<1> DEFINE After(k) == TagsAfter(At(n - k))
           S == {k \in 0..n : /\ After(k) \in Seq(Entities) /\ Len(After(k)) = k
                              /\ \A j \in 1..k : After(k)[j].raw = RawText(own[n - k + j])}
<1>14. 0 \in S
    <2>1. n - 0 = n /\ 0 \in 0..n
        BY <1>3
    <2>2. After(0) = <<>>
        BY <1>13, <2>1
    <2> HIDE DEF After
    <2>3. After(0) \in Seq(Entities) /\ Len(After(0)) = 0
        BY <2>2, EmptySeq
    <2> QED BY <2>1, <2>3
<1>15. ASSUME NEW k \in (0 + 1)..n, k - 1 \in S PROVE k \in S
    <2> DEFINE i == n - k + 1
               late == After(k - 1)
               more == After(k)
    <2>1. i \in 1..n /\ n - k = i - 1 /\ n - (k - 1) = i /\ k \in 0..n /\ k \in Nat
        BY <1>3
    <2>2. PICK t \in Entities : t.raw = RawText(own[i])
                                /\ TagsAfter(At(i - 1)) = <<t>> \o TagsAfter(At(i))
        BY <1>12, <2>1
    <2>3. more = <<t>> \o late
        BY <2>1, <2>2
    <2>4. /\ late \in Seq(Entities) /\ Len(late) = k - 1
          /\ \A j \in 1..(k - 1) : late[j].raw = RawText(own[n - (k - 1) + j])
        BY <1>15
    <2>5. k \in S <=> /\ more \in Seq(Entities) /\ Len(more) = k
                      /\ \A j \in 1..k : more[j].raw = RawText(own[n - k + j])
        BY <2>1
    <2> HIDE DEF S, late, more, After
    <2> DEFINE one == <<t>>
    <2>6. one \in Seq(Entities) /\ Len(one) = 1 /\ one[1] = t
        OBVIOUS
    <2> HIDE DEF one
    <2>7. /\ more \in Seq(Entities) /\ Len(more) = 1 + (k - 1)
          /\ \A j \in 1..(1 + (k - 1)) : more[j] = IF j <= 1 THEN one[j] ELSE late[j - 1]
        <3>1. more = one \o late
            BY <2>3 DEF one
        <3>2. /\ more \in Seq(Entities) /\ Len(more) = Len(one) + Len(late)
              /\ \A j \in 1..(Len(one) + Len(late)) :
                    more[j] = IF j <= Len(one) THEN one[j] ELSE late[j - Len(one)]
            BY <2>4, <2>6, <3>1, ConcatProperties
        <3> QED BY <2>4, <2>6, <3>2
    <2>8. ASSUME NEW j \in 1..k PROVE more[j].raw = RawText(own[n - k + j])
        <3>1. CASE j = 1
            <4>1. n - k + j = i /\ j \in 1..(1 + (k - 1)) /\ j <= 1
                BY <2>1, <3>1
            <4> HIDE DEF i
            <4> QED BY <2>2, <2>6, <2>7, <3>1, <4>1
        <3>2. CASE j # 1
            <4>1. /\ j \in 1..(1 + (k - 1)) /\ ~(j <= 1) /\ j - 1 \in 1..(k - 1)
                  /\ n - (k - 1) + (j - 1) = n - k + j
                BY <1>3, <2>1, <3>2
            <4> HIDE DEF i
            <4> QED BY <2>4, <2>7, <4>1
        <3> QED BY <3>1, <3>2
    <2>9. 1 + (k - 1) = k
        BY <2>1
    <2> QED BY <2>5, <2>7, <2>8, <2>9
<1>16. n \in S
    <2>1. 0 \in Int /\ n \in Int /\ n \in 0..n
        BY <1>3
    <2> HIDE DEF S
    <2> QED BY <1>14, <1>15, <2>1, Induction
<1>17. /\ After(n) \in Seq(Entities) /\ Len(After(n)) = n
       /\ \A j \in 1..n : After(n)[j].raw = RawText(own[n - n + j])
    BY <1>16
<1>18. After(n) = TagsOfPage
    <2>1. n - n = 0 /\ 0 \in Places
        BY <1>1, <1>3 DEF Places
    <2>2. After(n) = TagsAfter(0)
        BY <1>9, <2>1
    <2> QED BY <1>1, <2>1, <2>2, RestIs
<1>19. \A j \in 1..n : n - n + j = j
    BY <1>3
<1> HIDE DEF After, S
<1> QED BY <1>17, <1>18, <1>19 DEF own, n

-------------------------------------------------------------------------------
(* The text of a tag that was written *)

Field(q, f, fs) == [quote |-> q, field |-> f, fields |-> fs]

LEMMA StepOf ==
    ASSUME NEW q \in {"none", "'", "\""}, NEW f \in Seq(Symbols), NEW fs \in Seq(Seq(Symbols)),
           NEW s \in Symbols
    PROVE  /\ Field(q, f, fs) \in FieldStates
           /\ FieldRun[s][Field(q, f, fs)] =
                Field(QuoteAfter(q, s), IF Separates(q, s) THEN <<>> ELSE Append(f, s),
                      IF Separates(q, s) /\ f # <<>> THEN Append(fs, f) ELSE fs)
<1>1. Field(q, f, fs) \in FieldStates
    BY DEF Field, FieldStates
<1>2. FieldRun[s][Field(q, f, fs)] = FieldStep(Field(q, f, fs), s)
    BY <1>1, FieldStepTyped
<1> QED BY <1>1, <1>2 DEF FieldStep, Field

LEMMA Signs ==
    /\ \A s \in Separators : s \in Symbols /\ Separates("none", s) /\ QuoteAfter("none", s) = "none"
    /\ \A s \in Quotes : /\ s \in Symbols /\ ~Separates("none", s) /\ QuoteAfter("none", s) = s
                         /\ s \in {"none", "'", "\""} /\ s # "none" /\ s \in Chars
                         /\ ~Separates(s, s) /\ QuoteAfter(s, s) = "none"
    /\ \A s \in STRING \ (Chars \ {"x"}) :
          s \in Symbols /\ ~Separates("none", s) /\ QuoteAfter("none", s) = "none"
    /\ \A q \in Quotes : \A s : s # q => ~Separates(q, s) /\ QuoteAfter(q, s) = q
<1>1. \A s \in Separators : s \in Symbols /\ s \notin Quotes /\ s # "none" /\ s \in Spaces \cup {"="}
    <2>1. Separators \subseteq Chars /\ Chars \subseteq Symbols
        BY Zenon DEF Separators, Chars, Symbols
    <2>2. \A s \in {" ", "\n", "="} : s \notin {"'", "\""} /\ s # "none"
        OBVIOUS
    <2> QED BY <2>1, <2>2 DEF Separators, Spaces, Quotes
<1>2. \A s \in Quotes : s \in Symbols /\ s # "none" /\ s \in {"none", "'", "\""} /\ s \in Chars
    BY SignsAreSymbols DEF Quotes, Chars
<1>3. \A s \in STRING \ (Chars \ {"x"}) : s \in Symbols /\ s \notin Quotes /\ s \notin Spaces \cup {"="}
    <2>1. Quotes \subseteq Chars \ {"x"} /\ Spaces \cup {"="} \subseteq Chars \ {"x"}
        <3>1. \A s \in {"'", "\"", " ", "\n", "="} : s # "x"
            OBVIOUS
        <3>2. Quotes \subseteq Chars /\ Spaces \cup {"="} \subseteq Chars
            BY Zenon DEF Chars
        <3> QED BY <3>1, <3>2 DEF Quotes, Spaces
    <2> QED BY <2>1 DEF Symbols
<1>4. \A s \in Separators : Separates("none", s) /\ QuoteAfter("none", s) = "none"
    BY <1>1 DEF Separates, QuoteAfter
<1>5. \A s \in Quotes : /\ ~Separates("none", s) /\ QuoteAfter("none", s) = s
                        /\ ~Separates(s, s) /\ QuoteAfter(s, s) = "none"
    BY <1>2 DEF Separates, QuoteAfter
<1>6. \A s \in STRING \ (Chars \ {"x"}) : ~Separates("none", s) /\ QuoteAfter("none", s) = "none"
    BY <1>3 DEF Separates, QuoteAfter
<1>7. \A q \in Quotes : \A s : s # q => ~Separates(q, s) /\ QuoteAfter(q, s) = q
    BY <1>2 DEF Separates, QuoteAfter
<1> QED BY <1>1, <1>2, <1>3, <1>4, <1>5, <1>6, <1>7

(* Between the quotes, all is kept *)
LEMMA RunInQuotes ==
    ASSUME NEW q \in Quotes, NEW f \in Seq(Symbols), NEW fs \in Seq(Seq(Symbols)),
           NEW w \in Seq(Symbols), \A i \in 1..Len(w) : w[i] # q
    PROVE  Runs(FieldRun, Field(q, f, fs), w, Field(q, f \o w, fs), FieldStates)
<1> DEFINE n    == Len(w)
           G(i) == f \o Upto(w, i)
           P    == [i \in 0..n |-> Field(q, G(i), fs)]
<1>1. n \in Nat /\ n \in 0..n /\ 0 \in 0..n /\ \A i \in 1..n : i \in 0..n /\ i - 1 \in 0..n
    OBVIOUS
<1>2. /\ Upto(w, 0) = <<>> /\ Upto(w, n) = w /\ \A i \in 0..n : Upto(w, i) \in Seq(Symbols)
      /\ \A i \in 1..n : Append(Upto(w, i - 1), w[i]) = Upto(w, i)
    BY UptoOf
<1>3. \A i \in 0..n : G(i) \in Seq(Symbols)
    BY <1>2, ConcatProperties
<1>4. G(0) = f /\ G(n) = f \o w
    BY <1>2, ConcatEmptySeq
<1>5. q \in {"none", "'", "\""}
    BY Signs
<1>6. ASSUME NEW i \in 1..n PROVE Append(G(i - 1), w[i]) = G(i)
    BY UptoBehind
<1>7. /\ P \in [0..n -> FieldStates]
      /\ P[0] = Field(q, f, fs) /\ P[n] = Field(q, f \o w, fs)
    <2>1. \A i \in 0..n : Field(q, G(i), fs) \in FieldStates
        BY <1>3, <1>5 DEF Field, FieldStates
    <2> HIDE DEF G
    <2> QED BY <1>1, <1>4, <2>1
<1>8. ASSUME NEW i \in 1..n PROVE P[i] = FieldRun[w[i]][P[i - 1]]
    <2>1. P[i] = Field(q, G(i), fs) /\ P[i - 1] = Field(q, G(i - 1), fs)
        BY <1>1
    <2>2. w[i] \in Symbols /\ w[i] # q
        BY ElementOfSeq
    <2>3. ~Separates(q, w[i]) /\ QuoteAfter(q, w[i]) = q
        BY <2>2, Signs
    <2>4. G(i - 1) \in Seq(Symbols)
        BY <1>1, <1>3
    <2>5. Append(G(i - 1), w[i]) = G(i)
        BY <1>6
    <2> HIDE DEF P, G
    <2>6. FieldRun[w[i]][Field(q, G(i - 1), fs)] =
            Field(QuoteAfter(q, w[i]), IF Separates(q, w[i]) THEN <<>> ELSE Append(G(i - 1), w[i]),
                  IF Separates(q, w[i]) /\ G(i - 1) # <<>> THEN Append(fs, G(i - 1)) ELSE fs)
        BY <1>5, <2>2, <2>4, StepOf, ZenonT(40)
    <2> QED BY <2>1, <2>3, <2>5, <2>6
<1> HIDE DEF P, G
<1>9. Along(P, FieldRun, Field(q, f, fs), w, Field(q, f \o w, fs), FieldStates)
    BY <1>7, <1>8 DEF Along
<1> QED BY <1>9 DEF Runs

(* Separators end a field *)
LEMMA RunOverSeparators ==
    ASSUME NEW w \in Seq(Separators), w # <<>>, NEW f \in Seq(Symbols), f # <<>>,
           NEW fs \in Seq(Seq(Symbols))
    PROVE  Runs(FieldRun, Field("none", f, fs), w, Field("none", <<>>, Append(fs, f)), FieldStates)
<1> DEFINE none == "none"
           e == <<>>
           a == Field(none, f, fs)
           b == Field(none, e, Append(fs, f))
<1>1. none \in {"none", "'", "\""} /\ e \in Seq(Symbols)
    OBVIOUS
<1>2. Append(fs, f) \in Seq(Seq(Symbols))
    <2> DEFINE S == Seq(Symbols)
    <2>1. fs \in Seq(S) /\ f \in S
        OBVIOUS
    <2> HIDE DEF S
    <2>2. Append(fs, f) \in Seq(S)
        BY <2>1, AppendProperties
    <2> QED BY <2>2 DEF S
<1>3. \A i \in 1..Len(w) : /\ w[i] \in Symbols /\ Separates(none, w[i])
                           /\ QuoteAfter(none, w[i]) = none
    <2>1. \A i \in 1..Len(w) : w[i] \in Separators
        BY ElementOfSeq
    <2> QED BY <2>1, Signs
<1>4. e = <<>>
    OBVIOUS
<1> HIDE DEF none, e
<1>5. a \in FieldStates /\ b \in FieldStates
    BY <1>1, <1>2 DEF Field, FieldStates
<1>6. ASSUME NEW i \in 1..Len(w) PROVE FieldRun[w[i]][a] = b /\ FieldRun[w[i]][b] = b
    <2>0. w[i] \in Symbols
        BY <1>3
    <2>1. FieldRun[w[i]][Field(none, f, fs)] =
            Field(QuoteAfter(none, w[i]), IF Separates(none, w[i]) THEN <<>> ELSE Append(f, w[i]),
                  IF Separates(none, w[i]) /\ f # <<>> THEN Append(fs, f) ELSE fs)
        BY <1>1, <2>0, StepOf, ZenonT(40)
    <2> DEFINE gs == Append(fs, f)
    <2>2. gs \in Seq(Seq(Symbols))
        BY <1>2
    <2>3. b = Field(none, e, gs)
        OBVIOUS
    <2> HIDE DEF gs
    <2>4. FieldRun[w[i]][Field(none, e, gs)] =
            Field(QuoteAfter(none, w[i]), IF Separates(none, w[i]) THEN <<>> ELSE Append(e, w[i]),
                  IF Separates(none, w[i]) /\ e # <<>> THEN Append(gs, e) ELSE gs)
        BY <1>1, <2>0, <2>2, StepOf, ZenonT(40)
    <2>5. FieldRun[w[i]][a] = b
        BY <1>3, <1>4, <2>1
    <2>6. FieldRun[w[i]][b] = b
        BY <1>3, <1>4, <2>3, <2>4
    <2> QED BY <2>5, <2>6
<1> HIDE DEF a, b
<1>7. Runs(FieldRun, a, w, b, FieldStates)
    BY <1>5, <1>6, RunSettles
<1> QED BY <1>7 DEF a, b, none, e

Quoted(a) == <<a.quote>> \o Inside(a) \o <<a.quote>>

LEMMA RunOfValue ==
    ASSUME NEW a \in Attributes, NEW fs \in Seq(Seq(Symbols))
    PROVE  /\ Quoted(a) \in Seq(Symbols) /\ Quoted(a) # <<>>
           /\ Runs(FieldRun, Field("none", <<>>, fs), Quoted(a), Field("none", Quoted(a), fs),
                   FieldStates)
<1> DEFINE q    == a.quote
           w    == Inside(a)
           one  == <<q>>
           none == "none"
           e    == <<>>
           b    == one \o w
           F(x, f) == Field(x, f, fs)
<1>1. /\ q \in Quotes /\ w \in Seq(Symbols) /\ one \in Seq(Symbols) /\ q \in Symbols
      /\ ~Separates(none, q) /\ QuoteAfter(none, q) = q /\ q \in {"none", "'", "\""}
      /\ ~Separates(q, q) /\ QuoteAfter(q, q) = none
    BY AttributeTyped, Signs DEF Attributes
<1>2. \A i \in 1..Len(w) : w[i] # q
    <2> DEFINE v == ValueText(a.value)
               l == a.left
               r == a.right
               c == l \o v
    <2>1. /\ v \in Seq(Symbols) /\ l \in Seq(Symbols) /\ r \in Seq(Symbols)
        BY AttributeTyped
    <2>2. l \in Seq(Spaces) /\ r \in Seq(Spaces) /\ q \notin Range(v)
        BY DEF Attributes
    <2>3. \A s \in Spaces : s # q
        <3>1. \A s \in {" ", "\n"} : s \notin {"'", "\""}
            OBVIOUS
        <3> QED BY <1>1, <3>1 DEF Spaces, Quotes
    <2>4. w = c \o r
        BY DEF Inside
    <2> HIDE DEF w, v, l, r, q
    <2>5. /\ \A i \in 1..Len(l) : l[i] # q
          /\ \A i \in 1..Len(r) : r[i] # q
        <3>1. /\ \A i \in 1..Len(l) : l[i] \in Spaces
              /\ \A i \in 1..Len(r) : r[i] \in Spaces
            BY <2>2, ElementOfSeq
        <3> QED BY <2>3, <3>1
    <2>6. \A i \in 1..Len(v) : v[i] # q
        <3>1. DOMAIN v = 1..Len(v)
            BY <2>1
        <3> QED BY <2>2, <3>1 DEF Range
    <2>7. c \in Seq(Symbols)
        BY <2>1, ConcatProperties
    <2>8. \A i \in 1..Len(c) : c[i] # q
        BY <2>1, <2>5, <2>6, SumIsWithout
    <2> HIDE DEF c
    <2>9. \A i \in 1..Len(c \o r) : (c \o r)[i] # q
        BY <2>1, <2>5, <2>7, <2>8, SumIsWithout
    <2> QED BY <2>4, <2>9
<1>3. Quoted(a) = b \o one
    BY DEF Quoted
<1>4. none \in {"none", "'", "\""} /\ e \in Seq(Symbols) /\ e = <<>>
    OBVIOUS
<1>5. Append(e, q) = one
    OBVIOUS
<1>6. b \in Seq(Symbols) /\ b \o one \in Seq(Symbols) /\ Append(b, q) = b \o one
    <2>1. b \in Seq(Symbols)
        BY <1>1, ConcatProperties
    <2> HIDE DEF b
    <2>2. b \o one \in Seq(Symbols)
        <3> HIDE DEF one
        <3> QED BY <1>1, <2>1, ConcatProperties
    <2>3. Append(b, q) = b \o one
        BY <1>1, <2>1, AppendIsConcat
    <2> QED BY <2>1, <2>2, <2>3
<1> HIDE DEF none, e, b, q, w, one
<1>7. Runs(FieldRun, F(none, e), <<q>>, F(q, one), FieldStates)
    <2>1. FieldRun[q][F(none, e)] = F(q, one)
        <3>1. FieldRun[q][Field(none, e, fs)] =
                Field(QuoteAfter(none, q), IF Separates(none, q) THEN <<>> ELSE Append(e, q),
                      IF Separates(none, q) /\ e # <<>> THEN Append(fs, e) ELSE fs)
            BY <1>1, <1>4, StepOf, ZenonT(40)
        <3> QED BY <1>1, <1>5, <3>1
    <2>2. F(none, e) \in FieldStates /\ F(q, one) \in FieldStates
        BY <1>1, <1>4 DEF Field, FieldStates
    <2> HIDE DEF F
    <2>3. Runs(FieldRun, F(none, e), <<q>>, FieldRun[q][F(none, e)], FieldStates)
        BY <2>1, <2>2, RunOfOne
    <2> QED BY <2>1, <2>3
<1>8. Runs(FieldRun, F(q, one), w, F(q, b), FieldStates)
    BY <1>1, <1>2, RunInQuotes DEF b
<1>9. Runs(FieldRun, F(q, b), <<q>>, F(none, b \o one), FieldStates)
    <2>1. FieldRun[q][F(q, b)] = F(none, b \o one)
        <3>1. FieldRun[q][Field(q, b, fs)] =
                Field(QuoteAfter(q, q), IF Separates(q, q) THEN <<>> ELSE Append(b, q),
                      IF Separates(q, q) /\ b # <<>> THEN Append(fs, b) ELSE fs)
            BY <1>1, <1>6, StepOf, ZenonT(40)
        <3> QED BY <1>1, <1>6, <3>1
    <2>2. F(q, b) \in FieldStates /\ F(none, b \o one) \in FieldStates
        <3>1. F(q, b) \in FieldStates
            BY <1>1, <1>6 DEF Field, FieldStates
        <3> DEFINE c == b \o one
        <3>2. c \in Seq(Symbols)
            BY <1>6
        <3> HIDE DEF c
        <3>3. F(none, c) \in FieldStates
            BY <1>4, <3>2 DEF Field, FieldStates
        <3> QED BY <3>1, <3>3 DEF c
    <2> HIDE DEF F
    <2>3. Runs(FieldRun, F(q, b), <<q>>, FieldRun[q][F(q, b)], FieldStates)
        BY <2>1, <2>2, RunOfOne
    <2> QED BY <2>1, <2>3
<1>10. Runs(FieldRun, F(none, e), Quoted(a), F(none, Quoted(a)), FieldStates)
    <2> DEFINE x == F(none, e)
               y == F(q, one)
               z == F(q, b)
               u == F(none, b \o one)
    <2>1. Runs(FieldRun, x, one, y, FieldStates) /\ Runs(FieldRun, y, w, z, FieldStates)
          /\ Runs(FieldRun, z, one, u, FieldStates)
        BY <1>7, <1>8, <1>9 DEF one
    <2> HIDE DEF x, y, z, u, F
    <2>2. Runs(FieldRun, x, b, z, FieldStates)
        BY <1>1, <2>1, RunOn DEF b
    <2>3. Runs(FieldRun, x, b \o one, u, FieldStates)
        BY <1>1, <1>6, <2>1, <2>2, RunOn
    <2> QED BY <1>3, <2>3 DEF x, u, F
<1>11. Quoted(a) \in Seq(Symbols) /\ Quoted(a) # <<>>
    <2>1. Append(b, q) # <<>>
        <3>1. b \in Seq(Symbols) /\ q \in Symbols
            BY <1>1, <1>6
        <3> QED BY <3>1, AppendProperties
    <2> QED BY <1>3, <1>6, <2>1
<1> QED BY <1>10, <1>11 DEF none, e

(* An attribute ends the field before it, and leaves its name and its value *)
LEMMA RunOfAttribute ==
    ASSUME NEW a \in Attributes, NEW f \in Seq(Symbols), f # <<>>, NEW fs \in Seq(Seq(Symbols))
    PROVE  Runs(FieldRun, Field("none", f, fs), AttributeText(a),
                Field("none", Quoted(a), Append(Append(fs, f), <<a.name>>)), FieldStates)
<1> DEFINE none == "none"
           e    == <<>>
           S    == Seq(Symbols)
           s    == a.name
           name == <<s>>
           gs   == Append(fs, f)
           hs   == Append(gs, name)
           F(x, xs) == Field(none, x, xs)
           R(x, t, y) == Runs(FieldRun, x, t, y, FieldStates)
           c == a.before \o name
           d == c \o a.equals
<1>1. /\ s \in STRING /\ s \notin Chars \ {"x"} /\ a.before # <<>> /\ a.equals # <<>>
      /\ a.before \in Seq(Separators) /\ a.equals \in Seq(Separators)
    BY DEF Attributes
<1>2. /\ name \in S /\ a.before \in S /\ a.equals \in S /\ s \in Symbols
      /\ ~Separates(none, s) /\ QuoteAfter(none, s) = none
    BY <1>1, AttributeTyped, Signs
<1>3. /\ none \in {"none", "'", "\""} /\ e \in S /\ e = <<>> /\ Append(e, s) = name /\ name # <<>>
      /\ f \in S /\ fs \in Seq(S)
    OBVIOUS
<1>4. AttributeText(a) = d \o Quoted(a)
    BY DEF AttributeText, Quoted
<1> HIDE DEF none, e, s, name
<1>5. gs \in Seq(S) /\ hs \in Seq(S)
    <2>1. f \in S /\ fs \in Seq(S) /\ name \in S
        BY <1>2, <1>3
    <2> HIDE DEF S
    <2>2. gs \in Seq(S)
        BY <2>1, AppendProperties
    <2> HIDE DEF gs
    <2>3. hs \in Seq(S)
        BY <2>1, <2>2, AppendProperties
    <2> QED BY <2>2, <2>3
<1> HIDE DEF gs, hs
<1>6. R(F(f, fs), a.before, F(e, gs))
    BY <1>1, RunOverSeparators DEF none, e, gs
<1>7. R(F(e, gs), <<s>>, F(name, gs))
    <2>1. FieldRun[s][F(e, gs)] = F(name, gs)
        <3>1. FieldRun[s][Field(none, e, gs)] =
                Field(QuoteAfter(none, s), IF Separates(none, s) THEN <<>> ELSE Append(e, s),
                      IF Separates(none, s) /\ e # <<>> THEN Append(gs, e) ELSE gs)
            BY <1>2, <1>3, <1>5, StepOf, ZenonT(40)
        <3> QED BY <1>2, <1>3, <3>1
    <2>2. F(e, gs) \in FieldStates /\ F(name, gs) \in FieldStates
        BY <1>2, <1>3, <1>5 DEF Field, FieldStates
    <2> HIDE DEF F
    <2>3. R(F(e, gs), <<s>>, FieldRun[s][F(e, gs)])
        BY <2>1, <2>2, RunOfOne
    <2> QED BY <2>1, <2>3
<1>8. R(F(name, gs), a.equals, F(e, hs))
    <2>1. name \in Seq(Symbols) /\ gs \in Seq(Seq(Symbols))
        BY <1>2, <1>5
    <2>2. Runs(FieldRun, Field("none", name, gs), a.equals, Field("none", <<>>, Append(gs, name)),
               FieldStates)
        BY <1>1, <1>3, <2>1, RunOverSeparators
    <2> QED BY <2>2 DEF none, e, hs
<1>9. R(F(e, hs), Quoted(a), F(Quoted(a), hs)) /\ Quoted(a) \in S
    BY <1>5, RunOfValue DEF none, e
<1> DEFINE w == F(f, fs)
           x == F(e, gs)
           y == F(name, gs)
           z == F(e, hs)
           u == F(Quoted(a), hs)
<1>10. R(w, a.before, x) /\ R(x, name, y) /\ R(y, a.equals, z) /\ R(z, Quoted(a), u)
    BY <1>6, <1>7, <1>8, <1>9 DEF name
<1> HIDE DEF w, x, y, z, u, F
<1>11. c \in S /\ R(w, c, y)
    BY <1>2, <1>10, RunOn, ConcatProperties
<1> HIDE DEF c
<1>12. d \in S /\ R(w, d, z)
    BY <1>2, <1>10, <1>11, RunOn, ConcatProperties
<1> HIDE DEF d
<1>13. R(w, AttributeText(a), u)
    BY <1>4, <1>9, <1>10, <1>12, RunOn
<1> QED BY <1>13 DEF w, u, F, none, hs, gs, name, s

(* The word include, and the name and the quoted value of each attribute *)
FieldList(attributes) ==
    [k \in 1..(2 * Len(attributes) + 1) |->
        IF k = 1 THEN <<"include">>
        ELSE IF k % 2 = 0 THEN <<attributes[k \div 2].name>> ELSE Quoted(attributes[k \div 2])]

LEMMA FieldListIs ==
    ASSUME NEW attributes \in Seq(Attributes)
    PROVE  /\ FieldList(attributes) \in Seq(Seq(Symbols))
           /\ Len(FieldList(attributes)) = 2 * Len(attributes) + 1
           /\ FieldList(attributes)[1] = <<"include">>
           /\ \A k \in 1..(2 * Len(attributes) + 1) : FieldList(attributes)[k] # <<>>
           /\ \A i \in 1..Len(attributes) :
                 /\ FieldList(attributes)[2 * i] = <<attributes[i].name>>
                 /\ FieldList(attributes)[2 * i + 1] = Quoted(attributes[i])
<1> DEFINE G == FieldList(attributes)
           n == Len(attributes)
           m == 2 * n + 1
           S == Seq(Symbols)
           word == <<"include">>
           name(i) == <<attributes[i].name>>
<1>1. n \in Nat /\ m \in Nat /\ m >= 1
    OBVIOUS
<1>2. \A i \in 1..n : attributes[i] \in Attributes
    BY ElementOfSeq
<1>3. \A i \in 1..n : /\ name(i) \in S /\ name(i) # <<>>
                      /\ Quoted(attributes[i]) \in S /\ Quoted(attributes[i]) # <<>>
    <2> SUFFICES ASSUME NEW i \in 1..n
                 PROVE  /\ name(i) \in S /\ name(i) # <<>>
                        /\ Quoted(attributes[i]) \in S /\ Quoted(attributes[i]) # <<>>
        OBVIOUS
    <2>1. name(i) \in S
        BY <1>2, AttributeTyped
    <2>2. <<>> \in Seq(S)
        OBVIOUS
    <2>3. Quoted(attributes[i]) \in S /\ Quoted(attributes[i]) # <<>>
        BY <1>2, <2>2, RunOfValue
    <2> QED BY <2>1, <2>3
<1>4. word \in S /\ word # <<>>
    BY SignsAreSymbols
<1>5. G = [k \in 1..m |-> IF k = 1 THEN word
                          ELSE IF k % 2 = 0 THEN name(k \div 2) ELSE Quoted(attributes[k \div 2])]
    BY DEF FieldList
<1> HIDE DEF G, n, m, S, word, name
<1>6. ASSUME NEW k \in 1..m, k # 1 PROVE k \div 2 \in 1..n
    BY <1>1, <1>6 DEF m
<1>7. \A k \in 1..m : G[k] \in S /\ G[k] # <<>>
    BY <1>3, <1>4, <1>5, <1>6
<1>8. G = [k \in 1..m |-> G[k]]
    BY <1>5
<1>9. G \in Seq(S) /\ Len(G) = m
    <2>1. G \in Seq(S)
        BY <1>1, <1>7, <1>8, IsASeq
    <2>2. DOMAIN G = 1..m
        BY <1>8
    <2> QED BY <1>1, <2>1, <2>2
<1>10. G[1] = word
    BY <1>1, <1>5
<1>11. ASSUME NEW i \in 1..n PROVE G[2 * i] = name(i) /\ G[2 * i + 1] = Quoted(attributes[i])
    <2>1. /\ 2 * i \in 1..m /\ 2 * i # 1 /\ (2 * i) % 2 = 0 /\ (2 * i) \div 2 = i
          /\ 2 * i + 1 \in 1..m /\ 2 * i + 1 # 1 /\ (2 * i + 1) % 2 # 0 /\ (2 * i + 1) \div 2 = i
        BY <1>1 DEF m
    <2> DEFINE even == 2 * i
               odd  == 2 * i + 1
    <2>2. /\ even \in 1..m /\ even # 1 /\ even % 2 = 0 /\ even \div 2 = i
          /\ odd \in 1..m /\ odd # 1 /\ odd % 2 # 0 /\ odd \div 2 = i
        BY <2>1
    <2> HIDE DEF even, odd
    <2>3. G[even] = name(i) /\ G[odd] = Quoted(attributes[i])
        BY <1>5, <2>2
    <2> QED BY <2>3 DEF even, odd
<1> QED BY <1>7, <1>9, <1>10, <1>11 DEF G, S, m, n, word, name

LEMMA FieldsAre ==
    ASSUME NEW tag \in WrittenTags
    PROVE  Fields(RawText(tag)) = FieldList(tag.attributes)
<1> DEFINE as   == tag.attributes
           n    == Len(as)
           G    == FieldList(as)
           S    == Seq(Symbols)
           word == <<"include">>
           none == "none"
           texts == Spelled(as)
           C    == [i \in 0..n |-> Field(none, G[2 * i + 1], Upto(G, 2 * i))]
           R(x, t, y) == Runs(FieldRun, x, t, y, FieldStates)
<1>1. as \in Seq(Attributes) /\ n \in Nat /\ tag.end \in Seq(Separators) /\ tag.end \in S
      /\ DOMAIN as = 1..n /\ \A i \in 1..n : as[i] \in Attributes
    BY TagTyped, ElementOfSeq
<1>2. /\ G \in Seq(S) /\ Len(G) = 2 * n + 1 /\ G[1] = word
      /\ \A k \in 1..(2 * n + 1) : G[k] # <<>> /\ G[k] \in S
      /\ \A i \in 1..n : G[2 * i] = <<as[i].name>> /\ G[2 * i + 1] = Quoted(as[i])
    <2>1. /\ G \in Seq(S) /\ Len(G) = 2 * n + 1 /\ G[1] = word
          /\ \A k \in 1..(2 * n + 1) : G[k] # <<>>
          /\ \A i \in 1..n : G[2 * i] = <<as[i].name>> /\ G[2 * i + 1] = Quoted(as[i])
        BY <1>1, FieldListIs
    <2> HIDE DEF G, S
    <2>2. \A k \in 1..Len(G) : G[k] \in S
        BY <2>1, ElementOfSeq
    <2> QED BY <2>1, <2>2
<1>3. /\ texts \in Seq(S) /\ Len(texts) = n /\ FlattenSeq(texts) \in S
      /\ \A i \in 1..n : texts[i] = AttributeText(as[i])
    BY <1>1, SpelledTyped DEF Spelled
<1>4. RawText(tag) = (word \o FlattenSeq(texts)) \o tag.end
    BY DEF RawText, Spelled
<1>5. word \in S /\ none \in {"none", "'", "\""} /\ <<>> \in S
    BY SignsAreSymbols
<1>6. RawText(tag) \in Seq(Symbols)
    BY TagTyped
<1> HIDE DEF G, as, n, texts
<1>7. /\ \A k \in 0..(2 * n + 1) : Upto(G, k) \in Seq(S)
      /\ \A k \in 1..(2 * n + 1) : Append(Upto(G, k - 1), G[k]) = Upto(G, k)
      /\ Upto(G, 0) = <<>> /\ Upto(G, 2 * n + 1) = G
    <2> HIDE DEF S
    <2> QED BY <1>2, UptoOf
<1>8. \A i \in 0..n : C[i] = Field(none, G[2 * i + 1], Upto(G, 2 * i)) /\ C[i] \in FieldStates
    <2> SUFFICES ASSUME NEW i \in 0..n
                 PROVE  Field(none, G[2 * i + 1], Upto(G, 2 * i)) \in FieldStates
        OBVIOUS
    <2>1. 2 * i + 1 \in 1..(2 * n + 1) /\ 2 * i \in 0..(2 * n + 1)
        BY <1>1
    <2> DEFINE f  == G[2 * i + 1]
               fs == Upto(G, 2 * i)
    <2>2. f \in S /\ fs \in Seq(S)
        BY <1>2, <1>7, <2>1
    <2> HIDE DEF f, fs
    <2>3. Field(none, f, fs) \in FieldStates
        BY <1>5, <2>2 DEF Field, FieldStates
    <2> QED BY <2>3 DEF f, fs
<1> HIDE DEF C
<1>9. R(NoField, word, C[0])
    <2> DEFINE s == "include"
               e == <<>>
    <2>1. s \in Symbols /\ ~Separates("none", s) /\ QuoteAfter("none", s) = "none"
        <3>1. s \in Symbols
            BY DEF Symbols
        <3>2. s \notin Quotes /\ s \notin Spaces \cup {"="} /\ s # "none"
            BY DEF Quotes, Spaces
        <3> HIDE DEF s
        <3>3. QuoteAfter("none", s) = "none"
            BY <3>2 DEF QuoteAfter
        <3> QED BY <3>1, <3>2, <3>3 DEF Separates
    <2>2. Append(e, s) = word /\ e \in Seq(Symbols) /\ e \in Seq(Seq(Symbols)) /\ e = <<>>
        OBVIOUS
    <2>3. NoField = Field(none, e, e)
        BY DEF NoField, Field
    <2>4. C[0] = Field(none, word, e)
        <3>1. 2 * 0 = 0 /\ 2 * 0 + 1 = 1 /\ 0 \in 0..n
            BY <1>1
        <3>2. C[0] = Field(none, G[2 * 0 + 1], Upto(G, 2 * 0))
            BY <1>8, <3>1
        <3> QED BY <1>2, <1>7, <3>1, <3>2
    <2>t. word = <<s>>
        OBVIOUS
    <2>5. C[0] \in FieldStates
        BY <1>1, <1>8
    <2> HIDE DEF s, e, none, word
    <2>6. /\ Field(none, e, e) \in FieldStates
          /\ FieldRun[s][Field(none, e, e)] =
                Field(QuoteAfter(none, s), IF Separates(none, s) THEN <<>> ELSE Append(e, s),
                      IF Separates(none, s) /\ e # <<>> THEN Append(e, e) ELSE e)
        BY <1>5, <2>1, <2>2, StepOf, ZenonT(40)
    <2>7. ~Separates(none, s) /\ QuoteAfter(none, s) = none
        BY <2>1 DEF none
    <2>8. FieldRun[s][NoField] = C[0]
        BY <2>2, <2>3, <2>4, <2>6, <2>7
    <2>9. NoField \in FieldStates
        BY <2>3, <2>6
    <2>10. R(NoField, <<s>>, FieldRun[s][NoField])
        BY <2>5, <2>8, <2>9, RunOfOne
    <2> QED BY <2>8, <2>10, <2>t
<1>10. R(C[0], FlattenSeq(texts), C[n])
    <2>1. ASSUME NEW i \in 1..n PROVE R(C[i - 1], texts[i], C[i])
        <3> DEFINE j  == 2 * i - 1
                   a  == as[i]
                   f  == G[j]
                   fs == Upto(G, j - 1)
        <3>1. /\ j \in 1..(2 * n + 1) /\ 2 * i \in 1..(2 * n + 1) /\ 2 * i - 1 = j
              /\ j - 1 = 2 * (i - 1) /\ j = 2 * (i - 1) + 1 /\ i - 1 \in 0..n /\ i \in 0..n
              /\ j - 1 \in 0..(2 * n + 1)
            BY <1>1
        <3>2. /\ f \in S /\ f # <<>> /\ fs \in Seq(S) /\ Append(fs, f) = Upto(G, j)
              /\ Append(Upto(G, j), <<a.name>>) = Upto(G, 2 * i)
              /\ G[2 * i + 1] = Quoted(a)
            <4> HIDE DEF j
            <4>1. f \in S /\ f # <<>> /\ fs \in Seq(S) /\ Append(fs, f) = Upto(G, j)
                BY <1>2, <1>7, <3>1
            <4>2. G[2 * i] = <<a.name>> /\ G[2 * i + 1] = Quoted(a)
                BY <1>2
            <4>3. Append(Upto(G, 2 * i - 1), G[2 * i]) = Upto(G, 2 * i)
                BY <1>7, <3>1
            <4> QED BY <3>1, <4>1, <4>2, <4>3
        <3>3. C[i - 1] = Field(none, f, fs)
            <4>1. C[i - 1] = Field(none, G[2 * (i - 1) + 1], Upto(G, 2 * (i - 1)))
                BY <1>8, <3>1
            <4> HIDE DEF j
            <4> QED BY <3>1, <4>1
        <3>4. C[i] = Field(none, Quoted(a), Append(Append(fs, f), <<a.name>>))
            <4>1. C[i] = Field(none, G[2 * i + 1], Upto(G, 2 * i))
                BY <1>8, <3>1
            <4> HIDE DEF f, fs, j
            <4> QED BY <3>2, <4>1
        <3>5. texts[i] = AttributeText(a) /\ a \in Attributes
            BY <1>1, <1>3
        <3> HIDE DEF a, f, fs, j
        <3>6. R(Field("none", f, fs), AttributeText(a),
                Field("none", Quoted(a), Append(Append(fs, f), <<a.name>>)))
            BY <3>2, <3>5, RunOfAttribute
        <3> QED BY <3>3, <3>4, <3>5, <3>6
    <2>2. C[0] \in FieldStates /\ Len(texts) = n
        BY <1>1, <1>3, <1>8
    <2>3. R(C[0], FlattenSeq(texts), C[Len(texts)])
        BY <1>3, <2>1, <2>2, RunOver
    <2> QED BY <2>2, <2>3
<1>11. PICK b : R(C[n], tag.end, b) /\ FieldsOf(b) = G
    <2> DEFINE f  == G[2 * n + 1]
               fs == Upto(G, 2 * n)
    <2>1. C[n] = Field(none, f, fs) /\ C[n] \in FieldStates
        BY <1>1, <1>8
    <2>2. f \in S /\ f # <<>> /\ fs \in Seq(S) /\ Append(fs, f) = G
        <3> DEFINE k == 2 * n + 1
        <3>1. k \in 1..(2 * n + 1) /\ 2 * n \in 0..(2 * n + 1) /\ k - 1 = 2 * n
            BY <1>1
        <3>2. Append(Upto(G, k - 1), G[k]) = Upto(G, k)
            BY <1>7, <3>1
        <3> QED BY <1>2, <1>7, <3>1, <3>2
    <2> HIDE DEF f, fs
    <2>3. CASE tag.end = <<>>
        <3>1. R(C[n], tag.end, C[n])
            BY <2>1, <2>3, RunOfNone
        <3>2. FieldsOf(C[n]) = G
            BY <2>1, <2>2 DEF FieldsOf, Field
        <3> QED BY <3>1, <3>2
    <2>4. CASE tag.end # <<>>
        <3>1. R(Field("none", f, fs), tag.end, Field("none", <<>>, Append(fs, f)))
            BY <1>1, <2>2, <2>4, RunOverSeparators
        <3>2. FieldsOf(Field("none", <<>>, G)) = G
            BY DEF FieldsOf, Field
        <3> QED BY <2>1, <2>2, <3>1, <3>2
    <2> QED BY <2>3, <2>4
<1>12. R(NoField, RawText(tag), b)
    <2> DEFINE u == word \o FlattenSeq(texts)
    <2>1. u \in S
        BY <1>3, <1>5, ConcatProperties
    <2>2. R(NoField, u, C[n])
        BY <1>3, <1>5, <1>9, <1>10, RunOn
    <2> HIDE DEF u
    <2>3. R(NoField, u \o tag.end, b)
        BY <1>1, <1>11, <2>1, <2>2, RunOn
    <2> QED BY <1>4, <2>3 DEF u
<1>13. PICK c \in FieldStates : R(NoField, RawText(tag), c) /\ Fields(RawText(tag)) = FieldsOf(c)
    BY <1>6, FieldsSteps
<1>14. b = c
    <2>1. Len(RawText(tag)) \in Nat
        BY <1>6
    <2> QED BY <1>12, <1>13, <2>1, RunIsOne
<1> QED BY <1>11, <1>13, <1>14 DEF G, as

LEMMA UnquotedIs ==
    ASSUME NEW a \in Attributes, Inside(a) # <<>>
    PROVE  Unquoted(Quoted(a)) = Inside(a)
<1> DEFINE q   == a.quote
           w   == Inside(a)
           one == <<q>>
           b   == one \o w
           f   == Quoted(a)
           l   == Len(w)
<1>1. one \in Seq(Symbols) /\ Len(one) = 1 /\ one[1] = q /\ q \in Quotes /\ q \in Chars
    BY AttributeTyped, Signs DEF Attributes
<1>2. w \in Seq(Symbols) /\ l \in Nat /\ l # 0 /\ w # <<>>
    <2>1. w \in Seq(Symbols)
        BY AttributeTyped
    <2> HIDE DEF w
    <2> QED BY <2>1, EmptySeq DEF w
<1>3. f = b \o one
    BY DEF Quoted
<1> HIDE DEF one, w, f, q
<1>4. /\ b \in Seq(Symbols) /\ Len(b) = 1 + l
      /\ \A i \in 1..(1 + l) : b[i] = IF i <= 1 THEN one[i] ELSE w[i - 1]
    <2>1. /\ b \in Seq(Symbols) /\ Len(b) = Len(one) + l
          /\ \A i \in 1..(Len(one) + l) : b[i] = IF i <= Len(one) THEN one[i] ELSE w[i - Len(one)]
        BY <1>1, <1>2, ConcatProperties
    <2> HIDE DEF b, l
    <2> QED BY <1>1, <2>1
<1> HIDE DEF b, l
<1>5. /\ f \in Seq(Symbols) /\ Len(f) = l + 2
      /\ \A i \in 1..(l + 2) : f[i] = IF i <= l + 1 THEN b[i] ELSE one[i - (l + 1)]
    <2>1. /\ f \in Seq(Symbols) /\ Len(f) = Len(b) + Len(one)
          /\ \A i \in 1..(Len(b) + Len(one)) : f[i] = IF i <= Len(b) THEN b[i] ELSE one[i - Len(b)]
        <3>1. b \in Seq(Symbols) /\ one \in Seq(Symbols)
            BY <1>1, <1>4
        <3> QED BY <1>3, <3>1, ConcatProperties
    <2>2. Len(b) = l + 1 /\ Len(b) + Len(one) = l + 2
        BY <1>1, <1>2, <1>4
    <2> QED BY <2>1, <2>2
<1>6. f[1] = q /\ f[l + 2] = q /\ \A i \in 1..l : f[i + 1] = w[i]
    <2>1. f[1] = q
        <3>1. 1 \in 1..(l + 2) /\ 1 <= l + 1 /\ 1 \in 1..(1 + l) /\ 1 <= 1
            BY <1>2
        <3> QED BY <1>1, <1>4, <1>5, <3>1
    <2>2. f[l + 2] = q
        <3> DEFINE j == l + 2
        <3>1. j \in 1..(l + 2) /\ ~(j <= l + 1) /\ j - (l + 1) = 1
            BY <1>2
        <3> HIDE DEF j
        <3>2. f[j] = q
            BY <1>1, <1>5, <3>1
        <3> QED BY <3>2 DEF j
    <2>3. ASSUME NEW i \in 1..l PROVE f[i + 1] = w[i]
        <3> DEFINE j == i + 1
        <3>1. j \in 1..(l + 2) /\ j <= l + 1 /\ j \in 1..(1 + l) /\ ~(j <= 1) /\ j - 1 = i
            BY <1>2
        <3> HIDE DEF j
        <3>2. f[j] = w[i]
            BY <1>4, <1>5, <3>1
        <3> QED BY <3>2 DEF j
    <2> QED BY <2>1, <2>2, <2>3
<1>7. Head(f) = q /\ Last(f) = q
    BY <1>5, <1>6 DEF Last
<1>8. Cut(q) = <<>>
    BY <1>1 DEF Cut
<1> DEFINE e == l + 1
           s == SubSeq(f, 2, e)
<1>9. Len(f) - 1 = e /\ ~(Len(f) <= 2) /\ Len(f) # 1
    BY <1>2, <1>5
<1>10. s = w
    <2>1. 2 \in Int /\ e \in Int /\ \A i \in 2..e : f[i] \in Symbols
        <3>1. \A i \in 2..e : i \in 1..Len(f)
            BY <1>2, <1>5
        <3> QED BY <1>2, <1>5, <3>1, ElementOfSeq
    <2>2. 2 <= e /\ e - 2 + 1 = l /\ \A i \in 1..l : 2 + i - 1 = i + 1
        BY <1>2
    <2> HIDE DEF e
    <2>3. /\ s \in Seq(Symbols) /\ Len(s) = l
          /\ \A i \in 1..l : s[i] = f[i + 1]
        <3>1. /\ s \in Seq(Symbols) /\ Len(s) = IF 2 <= e THEN e - 2 + 1 ELSE 0
              /\ \A i \in 1..(e - 2 + 1) : s[i] = f[2 + i - 1]
            BY <2>1, SubSeqProperties
        <3> HIDE DEF s
        <3> QED BY <2>2, <3>1
    <2> HIDE DEF s
    <2>4. Len(w) = l
        BY DEF l
    <2> QED BY <1>2, <1>6, <2>3, <2>4, Alike
<1> HIDE DEF e, s
<1>11. Unquoted(f) = Cut(q) \o s \o Cut(q)
    BY <1>7, <1>9 DEF Unquoted, s
<1>12. <<>> \o w \o <<>> = w
    <2>1. <<>> \o w = w /\ w \o <<>> = w
        BY <1>2, ConcatEmptySeq
    <2> QED BY <2>1
<1> QED BY <1>8, <1>10, <1>11, <1>12 DEF f, w

(* The spaces around a value are cut off *)
LEMMA TrimmedIs ==
    ASSUME NEW l \in Seq(Spaces), NEW r \in Seq(Spaces), NEW v \in Seq(Symbols),
           v # <<>> => v[1] \notin Spaces /\ v[Len(v)] \notin Spaces
    PROVE  Trimmed((l \o v) \o r) = v
<1> DEFINE c == l \o v
           t == c \o r
           p == Len(l)
           m == Len(v)
           n == Len(r)
           kept  == {i \in DOMAIN t : t[i] \notin Spaces}
           first == CHOOSE i \in kept : \A j \in kept : i <= j
           last  == CHOOSE i \in kept : \A j \in kept : i >= j
<1>1. l \in Seq(Symbols) /\ r \in Seq(Symbols) /\ p \in Nat /\ m \in Nat /\ n \in Nat
    BY SignsAreSymbols
<1>2. /\ \A i \in 1..p : l[i] \in Spaces
      /\ \A i \in 1..n : r[i] \in Spaces
      /\ \A i \in 1..m : v[i] \in Symbols
    BY ElementOfSeq
<1>3. /\ c \in Seq(Symbols) /\ Len(c) = p + m
      /\ \A i \in 1..(p + m) : c[i] = IF i <= p THEN l[i] ELSE v[i - p]
    BY <1>1, ConcatProperties
<1> HIDE DEF c, p, m, n
<1>4. /\ t \in Seq(Symbols) /\ Len(t) = p + m + n
      /\ \A i \in 1..(p + m + n) : t[i] = IF i <= p + m THEN c[i] ELSE r[i - (p + m)]
    <2>1. /\ t \in Seq(Symbols) /\ Len(t) = Len(c) + n
          /\ \A i \in 1..(Len(c) + n) : t[i] = IF i <= Len(c) THEN c[i] ELSE r[i - Len(c)]
        <3>1. c \in Seq(Symbols)
            BY <1>3
        <3> QED BY <1>1, <3>1, ConcatProperties DEF n
    <2> QED BY <1>3, <2>1
<1> HIDE DEF t
<1>5. /\ \A i \in 1..p : t[i] \in Spaces
      /\ \A i \in 1..m : t[p + i] = v[i]
      /\ \A i \in (p + m + 1)..(p + m + n) : t[i] \in Spaces
    <2>1. ASSUME NEW i \in 1..p PROVE t[i] \in Spaces
        <3>1. i \in 1..(p + m + n) /\ i <= p + m /\ i \in 1..(p + m) /\ i <= p
            BY <1>1
        <3> QED BY <1>2, <1>3, <1>4, <3>1
    <2>2. ASSUME NEW i \in 1..m PROVE t[p + i] = v[i]
        <3> DEFINE j == p + i
        <3>1. j \in 1..(p + m + n) /\ j <= p + m /\ j \in 1..(p + m) /\ ~(j <= p) /\ j - p = i
            BY <1>1
        <3> HIDE DEF j
        <3>2. t[j] = v[i]
            BY <1>3, <1>4, <3>1
        <3> QED BY <3>2 DEF j
    <2>3. ASSUME NEW i \in (p + m + 1)..(p + m + n) PROVE t[i] \in Spaces
        <3>1. i \in 1..(p + m + n) /\ ~(i <= p + m) /\ i - (p + m) \in 1..n
            BY <1>1
        <3> QED BY <1>2, <1>4, <3>1
    <2> QED BY <2>1, <2>2, <2>3
<1>6. DOMAIN t = 1..(p + m + n)
    BY <1>4
<1>7. Trimmed(t) = IF kept = {} THEN <<>> ELSE SubSeq(t, first, last)
    BY DEF Trimmed
<1>8. CASE v = <<>>
    <2>1. m = 0
        BY <1>8 DEF m
    <2>2. \A i \in 1..(p + m + n) : i \in 1..p \/ i \in (p + m + 1)..(p + m + n)
        BY <1>1, <2>1
    <2>3. kept = {}
        BY <1>5, <1>6, <2>2
    <2> HIDE DEF kept
    <2> QED BY <1>7, <1>8, <2>3 DEF t, c
<1>9. CASE v # <<>>
    <2> DEFINE a == p + 1
               b == p + m
    <2>1. m # 0 /\ v[1] \notin Spaces /\ v[m] \notin Spaces
        BY <1>9, EmptySeq DEF m
    <2>2. a \in Nat /\ b \in Nat /\ a <= b /\ a \in 1..(p + m + n) /\ b \in 1..(p + m + n)
          /\ 1 \in 1..m /\ m \in 1..m
        BY <1>1, <2>1
    <2>3. t[a] = v[1] /\ t[b] = v[m]
        BY <1>5, <2>2
    <2>4. \A i \in 1..(p + m + n) : i < a => i \in 1..p
        BY <1>1
    <2>5. \A i \in 1..(p + m + n) : i > b => i \in (p + m + 1)..(p + m + n)
        BY <1>1
    <2>6. b - a + 1 = m /\ \A i \in 1..m : a + i - 1 = p + i
        BY <1>1
    <2> HIDE DEF a, b
    <2>7. a \in kept /\ b \in kept
        BY <1>6, <2>1, <2>2, <2>3
    <2>8. \A i \in kept : i \in Nat /\ a <= i /\ i <= b
        <3> SUFFICES ASSUME NEW i \in kept PROVE i \in Nat /\ a <= i /\ i <= b
            OBVIOUS
        <3>1. i \in 1..(p + m + n) /\ t[i] \notin Spaces
            BY <1>6
        <3>2. ~(i < a) /\ ~(i > b)
            BY <1>5, <2>4, <2>5, <3>1
        <3> QED BY <1>1, <2>2, <3>1, <3>2
    <2> HIDE DEF kept
    <2>9. first = a
        <3>1. first \in kept /\ first <= a
            BY <2>7, <2>8
        <3> HIDE DEF first
        <3> QED BY <2>2, <2>8, <3>1
    <2>10. last = b
        <3>1. last \in kept /\ last >= b
            BY <2>7, <2>8
        <3> HIDE DEF last
        <3> QED BY <2>2, <2>8, <3>1
    <2> HIDE DEF first, last
    <2> DEFINE s == SubSeq(t, a, b)
    <2>11. a \in Int /\ b \in Int /\ \A i \in a..b : t[i] \in Symbols
        <3>1. \A i \in a..b : i \in 1..Len(t)
            BY <1>4, <2>2
        <3> QED BY <1>4, <2>2, <3>1, ElementOfSeq
    <2>12. /\ s \in Seq(Symbols) /\ Len(s) = m
           /\ \A i \in 1..m : s[i] = v[i]
        <3>1. /\ s \in Seq(Symbols) /\ Len(s) = IF a <= b THEN b - a + 1 ELSE 0
              /\ \A i \in 1..(b - a + 1) : s[i] = t[a + i - 1]
            BY <2>11, SubSeqProperties
        <3> HIDE DEF s
        <3> QED BY <1>5, <2>2, <2>6, <3>1
    <2> HIDE DEF s
    <2>13. s = v
        <3>1. Len(v) = m
            BY DEF m
        <3> QED BY <2>12, <3>1, Alike
    <2>14. Trimmed(t) = s
        BY <1>7, <2>7, <2>9, <2>10 DEF s
    <2> QED BY <2>13, <2>14 DEF t, c
<1> QED BY <1>8, <1>9

LEMMA SplitIs ==
    ASSUME NEW tag \in WrittenTags,
           \A i \in DOMAIN tag.attributes : Inside(tag.attributes[i]) # <<>>
    PROVE  /\ SplitAttributes(RawText(tag)).ok
           /\ DOMAIN SplitAttributes(RawText(tag)).attrs = 1..Len(tag.attributes)
           /\ \A i \in 1..Len(tag.attributes) :
                 SplitAttributes(RawText(tag)).attrs[i] =
                    [name |-> <<tag.attributes[i].name>>,
                     value |-> ValueText(tag.attributes[i].value)]
<1> DEFINE as    == tag.attributes
           n     == Len(as)
           raw   == RawText(tag)
           G     == Fields(raw)
           m     == IF G = <<>> THEN 0 ELSE Len(G) - 1
           split == SplitAttributes(raw)
<1>1. as \in Seq(Attributes) /\ n \in Nat /\ DOMAIN as = 1..n /\ \A i \in 1..n : as[i] \in Attributes
    BY TagTyped, ElementOfSeq
<1>2. G = FieldList(as)
    BY FieldsAre
<1>3. split = [ok |-> m % 2 = 0,
               attrs |-> [i \in 1..(m \div 2) |->
                            [name |-> G[2 * i], value |-> Trimmed(Unquoted(G[2 * i + 1]))]]]
    BY DEF SplitAttributes
<1>4. \A i \in 1..n : Inside(as[i]) # <<>>
    BY <1>1
<1> HIDE DEF as, raw, split, n, G
<1>5. /\ G \in Seq(Seq(Symbols)) /\ Len(G) = 2 * n + 1
      /\ \A i \in 1..n : G[2 * i] = <<as[i].name>> /\ G[2 * i + 1] = Quoted(as[i])
    BY <1>1, <1>2, FieldListIs DEF n
<1>6. m = 2 * n
    <2>1. G # <<>>
        <3>1. Len(G) # 0
            BY <1>1, <1>5
        <3> QED BY <3>1, EmptySeq
    <2> QED BY <1>1, <1>5, <2>1
<1> HIDE DEF m
<1>7. m % 2 = 0 /\ m \div 2 = n
    BY <1>1, <1>6
<1>8. ASSUME NEW i \in 1..n
      PROVE  Trimmed(Unquoted(G[2 * i + 1])) = ValueText(as[i].value)
    <2> DEFINE a == as[i]
               v == ValueText(a.value)
    <2>1. a \in Attributes /\ Inside(a) # <<>> /\ G[2 * i + 1] = Quoted(a)
        BY <1>1, <1>4, <1>5
    <2>2. /\ a.left \in Seq(Spaces) /\ a.right \in Seq(Spaces)
          /\ v # <<>> => v[1] \notin Spaces /\ v[Len(v)] \notin Spaces
        BY <2>1 DEF Attributes
    <2>3. v \in Seq(Symbols)
        BY <2>1, AttributeTyped
    <2>4. Inside(a) = a.left \o v \o a.right
        BY DEF Inside
    <2> HIDE DEF a, v
    <2>5. Unquoted(Quoted(a)) = Inside(a)
        BY <2>1, UnquotedIs
    <2>6. Trimmed(Inside(a)) = v
        BY <2>2, <2>3, <2>4, TrimmedIs
    <2> QED BY <2>1, <2>5, <2>6 DEF a, v
<1>9. /\ split.ok /\ DOMAIN split.attrs = 1..n
      /\ \A i \in 1..n : split.attrs[i] = [name |-> <<as[i].name>>, value |-> ValueText(as[i].value)]
    BY <1>3, <1>5, <1>7, <1>8
<1> QED BY <1>9 DEF split, raw, as, n

-------------------------------------------------------------------------------
(* What a tag means *)

(* The texts of a sequence, put together, step by step *)
LEMMA FlattenSteps ==
    ASSUME NEW S, NEW texts \in Seq(Seq(S)), NEW t \in Seq(S)
    PROVE  FlattenSeq(Append(texts, t)) = FlattenSeq(texts) \o t
<1> DEFINE T    == Seq(S)
           more == Append(texts, t)
           n    == Len(texts)
<1>0. texts \in Seq(T) /\ t \in T
    OBVIOUS
<1>1. /\ more \in Seq(T) /\ Len(more) = n + 1 /\ n \in Nat
      /\ \A i \in 1..n : more[i] = texts[i]
      /\ more[n + 1] = t
    <2> HIDE DEF T
    <2> QED BY <1>0, AppendProperties
<1> HIDE DEF more
<1>2. PICK a : PutTogether(a, texts, S) /\ FlattenSeq(texts) = a[n]
    BY Flattened
<1>3. PICK b : PutTogether(b, more, S) /\ FlattenSeq(more) = b[n + 1]
    BY <1>1, Flattened
<1> HIDE DEF n
<1>4. /\ a[0] = <<>> /\ \A i \in 1..n : a[i] = a[i - 1] \o texts[i]
      /\ b[0] = <<>> /\ \A i \in 1..(n + 1) : b[i] = b[i - 1] \o more[i]
    BY <1>1, <1>2, <1>3 DEF PutTogether, n
<1> DEFINE In == {i \in 0..n : a[i] = b[i]}
<1>5. 0 \in In
    BY <1>1, <1>4
<1>6. ASSUME NEW i \in (0 + 1)..n, i - 1 \in In PROVE i \in In
    <2>1. i \in 1..n /\ i \in 1..(n + 1) /\ i \in 0..n
        BY <1>1
    <2> QED BY <1>1, <1>4, <1>6, <2>1
<1>7. n \in In
    <2>1. 0 \in Int /\ n \in Int /\ n \in 0..n
        BY <1>1
    <2> HIDE DEF In
    <2> QED BY <1>5, <1>6, <2>1, Induction
<1>8. b[n + 1] = b[n] \o t
    <2> DEFINE j == n + 1
    <2>1. j \in 1..(n + 1) /\ j - 1 = n
        BY <1>1
    <2> HIDE DEF j
    <2>2. b[j] = b[j - 1] \o more[j]
        BY <1>4, <2>1
    <2> QED BY <1>1, <2>1, <2>2 DEF j
<1>9. a[n] = b[n]
    BY <1>7
<1> QED BY <1>2, <1>3, <1>8, <1>9 DEF more

(* The value of an attribute, if it has the name *)
OwnValue(a, name)          == IF a.name = name THEN <<ValueText(a.value)>> ELSE <<>>
OwnValues(attributes, name) == [i \in DOMAIN attributes |-> OwnValue(attributes[i], name)]

LEMMA OwnValuesTyped ==
    ASSUME NEW attributes \in Seq(Attributes), NEW name
    PROVE  /\ OwnValues(attributes, name) \in Seq(Seq(Seq(Symbols)))
           /\ Len(OwnValues(attributes, name)) = Len(attributes)
           /\ ValuesOf(attributes, name) = FlattenSeq(OwnValues(attributes, name))
           /\ ValuesOf(attributes, name) \in Seq(Seq(Symbols))
<1> DEFINE S     == Seq(Symbols)
           T     == Seq(S)
           texts == OwnValues(attributes, name)
<1>0. \A i \in DOMAIN attributes : attributes[i] \in Attributes
    BY ElementOfSeq
<1>1. ASSUME NEW i \in DOMAIN attributes PROVE texts[i] \in T
    <2> DEFINE v == ValueText(attributes[i].value)
    <2>1. v \in S
        <3>1. attributes[i] \in Attributes
            BY <1>0
        <3> QED BY <3>1, AttributeTyped
    <2>2. texts[i] = IF attributes[i].name = name THEN <<v>> ELSE <<>>
        BY DEF OwnValues, OwnValue
    <2> HIDE DEF v, S, texts
    <2>3. <<v>> \in T /\ <<>> \in T
        BY <2>1
    <2> QED BY <2>2, <2>3
<1>2. texts = [i \in DOMAIN attributes |-> texts[i]]
    BY DEF OwnValues
<1>3. ValuesOf(attributes, name) = FlattenSeq(texts)
    BY DEF ValuesOf, OwnValues, OwnValue
<1> HIDE DEF texts, T
<1>4. texts \in Seq(T) /\ Len(texts) = Len(attributes)
    BY <1>1, <1>2, Mapped
<1>5. FlattenSeq(texts) \in T
    <2> HIDE DEF S
    <2> QED BY <1>4, FlattenedTyped DEF T
<1> QED BY <1>3, <1>4, <1>5 DEF texts, T, S

LEMMA NoValues == \A name : ValuesOf(<<>>, name) = <<>>
<1> SUFFICES ASSUME NEW name PROVE ValuesOf(<<>>, name) = <<>>
    OBVIOUS
<1> DEFINE attributes == <<>>
           S          == Seq(Symbols)
           T     == Seq(S)
           texts == OwnValues(attributes, name)
<1>1. attributes \in Seq(Attributes) /\ Len(attributes) = 0
    OBVIOUS
<1> HIDE DEF attributes
<1>2. texts \in Seq(T) /\ Len(texts) = 0 /\ ValuesOf(attributes, name) = FlattenSeq(texts)
    BY <1>1, OwnValuesTyped
<1> HIDE DEF texts, T
<1>3. PICK acc : PutTogether(acc, texts, S) /\ FlattenSeq(texts) = acc[Len(texts)]
    <2> HIDE DEF S
    <2> QED BY <1>2, Flattened DEF T
<1>4. FlattenSeq(texts) = <<>>
    BY <1>2, <1>3 DEF PutTogether
<1> QED BY <1>2, <1>4 DEF attributes

(* One attribute more *)
LEMMA ValuesStep ==
    ASSUME NEW attributes \in Seq(Attributes), NEW a \in Attributes, NEW name
    PROVE  ValuesOf(Append(attributes, a), name) =
              IF a.name = name THEN Append(ValuesOf(attributes, name), ValueText(a.value))
              ELSE ValuesOf(attributes, name)
<1> DEFINE S     == Seq(Symbols)
           T     == Seq(S)
           n     == Len(attributes)
           more  == Append(attributes, a)
           texts == OwnValues(attributes, name)
           own   == OwnValue(a, name)
           v     == ValueText(a.value)
           all1  == OwnValues(more, name)
           all2  == Append(texts, own)
           vs    == ValuesOf(attributes, name)
<1>1. /\ more \in Seq(Attributes) /\ Len(more) = n + 1 /\ n \in Nat
      /\ \A i \in 1..n : more[i] = attributes[i]
      /\ more[n + 1] = a
    <2>1. attributes \in Seq(Attributes) /\ a \in Attributes
        OBVIOUS
    <2> HIDE DEF texts, own, v, all1, all2, vs, T
    <2> QED BY <2>1, AppendProperties
<1>0. n \in Nat
    BY <1>1
<1>2. v \in S
    BY AttributeTyped
<1>3. own \in T
    <2> HIDE DEF v, S
    <2>1. <<v>> \in T /\ <<>> \in T
        BY <1>2
    <2>2. own = IF a.name = name THEN <<v>> ELSE <<>>
        BY DEF own, OwnValue, v
    <2> HIDE DEF own
    <2> QED BY <2>1, <2>2
<1>4. texts \in Seq(T) /\ Len(texts) = n /\ vs = FlattenSeq(texts) /\ vs \in T
    BY OwnValuesTyped
<1> HIDE DEF more
<1>5. all1 \in Seq(T) /\ Len(all1) = n + 1 /\ ValuesOf(more, name) = FlattenSeq(all1)
    BY <1>1, OwnValuesTyped
<1>6. /\ \A i \in 1..n : all1[i] = OwnValue(attributes[i], name)
      /\ all1[n + 1] = own
    <2>1. DOMAIN more = 1..(n + 1)
        BY <1>1
    <2>2. \A i \in 1..(n + 1) : all1[i] = OwnValue(more[i], name)
        BY <2>1 DEF OwnValues
    <2>3. \A i \in 1..n : i \in 1..(n + 1)
        BY <1>0
    <2>4. n + 1 \in 1..(n + 1)
        BY <1>0
    <2> QED BY <1>1, <2>2, <2>3, <2>4
<1>7. \A i \in 1..n : texts[i] = OwnValue(attributes[i], name)
    <2>1. DOMAIN attributes = 1..n
        OBVIOUS
    <2> QED BY <2>1 DEF OwnValues
<1> HIDE DEF texts, own, all1, T, n
<1>8. /\ all2 \in Seq(T) /\ Len(all2) = Len(texts) + 1
      /\ \A i \in 1..Len(texts) : all2[i] = texts[i]
      /\ all2[Len(texts) + 1] = own
    BY <1>3, <1>4, AppendProperties
<1> HIDE DEF all2
<1>9. all1 = all2
    <2>1. \A i \in 1..(n + 1) : i \in 1..n \/ i = n + 1
        BY <1>1
    <2>2. \A i \in 1..(n + 1) : all1[i] = all2[i]
        BY <1>4, <1>6, <1>7, <1>8, <2>1
    <2> QED BY <1>4, <1>5, <1>8, <2>2, SeqEqual
<1>10. FlattenSeq(all2) = FlattenSeq(texts) \o own
    <2>1. texts \in Seq(Seq(S)) /\ own \in Seq(S)
        BY <1>3, <1>4 DEF T
    <2> HIDE DEF S
    <2> QED BY <2>1, FlattenSteps DEF all2
<1>11. ValuesOf(more, name) = vs \o own
    BY <1>4, <1>5, <1>9, <1>10
<1>12. own = IF a.name = name THEN <<v>> ELSE <<>>
    BY DEF own, OwnValue, v
<1> HIDE DEF v, vs, S
<1>13. vs \o <<v>> = Append(vs, v) /\ vs \o <<>> = vs
    <2>1. vs \in Seq(S)
        BY <1>4 DEF T
    <2> QED BY <1>2, <2>1
<1> QED BY <1>11, <1>12, <1>13 DEF more, v, vs

LEMMA NoHeadersMeant == HeadersMeant(<<>>) = NoHeaders
<1> DEFINE none  == <<>>
           lists == {i \in DOMAIN none : none[i] # <<"all">>}
<1>1. DOMAIN none = {}
    OBVIOUS
<1>2. lists = {}
    BY <1>1
<1>3. HeadersMeant(none) = [all |-> lists # DOMAIN none,
                            names |-> IF lists = {} THEN <<>>
                                      ELSE CommaListToSlice(Lower(none[Max(lists)]))]
    BY DEF HeadersMeant
<1> HIDE DEF lists
<1>4. HeadersMeant(none) = [all |-> FALSE, names |-> <<>>]
    BY <1>1, <1>2, <1>3
<1> QED BY <1>4 DEF NoHeaders

(* One list of headers more *)
LEMMA HeadersStep ==
    ASSUME NEW S, NEW values \in Seq(S), NEW v \in S
    PROVE  HeadersMeant(Append(values, v)) = HeaderList(HeadersMeant(values), v)
<1> DEFINE n      == Len(values)
           more   == Append(values, v)
           lists  == {i \in DOMAIN values : values[i] # <<"all">>}
           lists2 == {i \in DOMAIN more : more[i] # <<"all">>}
           names  == IF lists = {} THEN <<>> ELSE CommaListToSlice(Lower(values[Max(lists)]))
           names2 == IF lists2 = {} THEN <<>> ELSE CommaListToSlice(Lower(more[Max(lists2)]))
<1>1. /\ more \in Seq(S) /\ Len(more) = n + 1 /\ n \in Nat
      /\ \A i \in 1..n : more[i] = values[i]
      /\ more[n + 1] = v
    BY AppendProperties
<1>2. /\ HeadersMeant(values) = [all |-> lists # DOMAIN values, names |-> names]
      /\ HeadersMeant(more) = [all |-> lists2 # DOMAIN more, names |-> names2]
    BY DEF HeadersMeant
<1>3. DOMAIN values = 1..n /\ DOMAIN more = 1..(n + 1)
    BY <1>1
<1>4. lists \subseteq 1..n
    BY <1>3
<1>0. n \in Nat /\ n + 1 \notin 1..n /\ 1..(n + 1) = 1..n \cup {n + 1}
    BY <1>1
<1> HIDE DEF n, more
<1>5. CASE v = <<"all">>
    <2>1. lists2 = lists
        BY <1>0, <1>1, <1>3, <1>5
    <2>2. lists2 # DOMAIN more
        BY <1>0, <1>3, <1>4, <2>1
    <2>3. names2 = names
        <3>1. CASE lists = {}
            BY <2>1, <3>1
        <3>2. CASE lists # {}
            <4>1. Max(lists) \in lists
                BY <1>0, <1>4, <3>2, GreatestIn DEF Max, Greatest
            <4> HIDE DEF lists, lists2
            <4>2. more[Max(lists)] = values[Max(lists)]
                BY <1>1, <1>4, <4>1
            <4> QED BY <2>1, <3>2, <4>2
        <3> QED BY <3>1, <3>2
    <2> HIDE DEF lists, lists2, names, names2
    <2> DEFINE old == HeadersMeant(values)
    <2>4. HeaderList(old, v) = [old EXCEPT !.all = TRUE]
        BY <1>5 DEF HeaderList
    <2>5. old = [all |-> lists # DOMAIN values, names |-> names]
        BY <1>2
    <2>6. HeadersMeant(more) = [all |-> TRUE, names |-> names]
        BY <1>2, <2>2, <2>3
    <2> HIDE DEF old
    <2> DEFINE f == (lists # DOMAIN values)
    <2> HIDE DEF f
    <2>7. HeadersMeant(more) = [old EXCEPT !.all = TRUE]
        <3>1. old = [all |-> f, names |-> names]
            BY <2>5 DEF f
        <3>2. \A x, y, z : [[all |-> x, names |-> y] EXCEPT !.all = z] = [all |-> z, names |-> y]
            OBVIOUS
        <3>3. [[all |-> f, names |-> names] EXCEPT !.all = TRUE] = [all |-> TRUE, names |-> names]
            BY <3>2, Zenon
        <3> QED BY <2>6, <3>1, <3>3, Zenon
    <2> QED BY <2>4, <2>7 DEF more, old
<1>6. CASE v # <<"all">>
    <2>1. lists2 = lists \cup {n + 1}
        BY <1>0, <1>1, <1>3, <1>6
    <2>2. (lists2 # DOMAIN more) = (lists # DOMAIN values)
        BY <1>0, <1>3, <1>4, <2>1
    <2>3. names2 = CommaListToSlice(Lower(v))
        <3>1. Max(lists2) = n + 1
            <4>1. n + 1 \in lists2 /\ \A i \in lists2 : i \in Nat /\ n + 1 >= i
                BY <1>0, <1>4, <2>1
            <4> HIDE DEF lists2, lists
            <4> DEFINE m == Max(lists2)
            <4>2. m \in lists2 /\ \A i \in lists2 : m >= i
                BY <4>1 DEF Max
            <4> HIDE DEF m
            <4>3. m >= n + 1 /\ n + 1 >= m /\ m \in Nat
                BY <4>1, <4>2
            <4> QED BY <1>0, <4>3 DEF m
        <3> HIDE DEF lists, lists2
        <3>2. lists2 # {}
            BY <2>1
        <3>3. more[Max(lists2)] = v
            BY <1>1, <3>1
        <3> QED BY <3>2, <3>3
    <2> HIDE DEF lists, lists2, names, names2
    <2>4. HeaderList(HeadersMeant(values), v)
            = [HeadersMeant(values) EXCEPT !.names = CommaListToSlice(Lower(v))]
        BY <1>6 DEF HeaderList
    <2> QED BY <1>2, <2>2, <2>3, <2>4 DEF more
<1> QED BY <1>5, <1>6

(* A tag without attributes *)
LEMMA MeantByNothing == Meant(<<>>) = NewEntity
<1> DEFINE none == <<>>
<1>1. \A name : ValuesOf(none, name) = <<>>
    BY NoValues
<1> HIDE DEF none
<1>2. ASSUME NEW name \in Names PROVE Meant(none)[name] = NewEntity[name]
    <2>1. Meant(none)[name] =
             IF name = "src" THEN <<>>
             ELSE IF name \in {"forwardheaders", "returnheaders"} THEN NoHeaders
             ELSE NewEntity[name]
        <3>1. HeadersMeant(none) = NoHeaders
            BY NoHeadersMeant DEF none
        <3> DEFINE values == ValuesOf(none, name)
        <3>2. Meant(none)[name] =
                 IF name = "src" THEN values
                 ELSE IF name \in {"forwardheaders", "returnheaders"} THEN HeadersMeant(values)
                 ELSE IF values = <<>> THEN NewEntity[name]
                 ELSE Setting(name, NewEntity[name], Last(values))
            BY DEF Meant
        <3>3. values = none
            BY <1>1 DEF none
        <3> HIDE DEF values
        <3>4. values = <<>>
            BY <3>3 DEF none
        <3> QED BY <3>1, <3>2, <3>3, <3>4
    <2>2. /\ NewEntity.src = <<>> /\ NewEntity.forwardheaders = NoHeaders
          /\ NewEntity.returnheaders = NoHeaders
        BY DEF NewEntity
    <2> QED BY <2>1, <2>2
<1>3. /\ Meant(none) = [name \in Names |-> Meant(none)[name]]
      /\ NewEntity = [name \in Names |-> NewEntity[name]]
    BY DEF Meant, Names, NewEntity
<1> QED BY <1>2, <1>3 DEF none

(* One attribute more *)
LEMMA MeantStep ==
    ASSUME NEW attributes \in Seq(Attributes), NEW a \in Attributes
    PROVE  Meant(Append(attributes, a)) =
              IF a.name \notin Names THEN Meant(attributes)
              ELSE [Meant(attributes) EXCEPT ![a.name] = Setting(a.name, @, ValueText(a.value))]
<1> DEFINE more == Append(attributes, a)
           v    == ValueText(a.value)
           old  == Meant(attributes)
           new  == Meant(more)
           S    == Seq(Symbols)
           Of(values, name) ==
              IF name = "src" THEN values
              ELSE IF name \in {"forwardheaders", "returnheaders"} THEN HeadersMeant(values)
              ELSE IF values = <<>> THEN NewEntity[name]
              ELSE Setting(name, NewEntity[name], Last(values))
<1>1. /\ old = [name \in Names |-> Of(ValuesOf(attributes, name), name)]
      /\ new = [name \in Names |-> Of(ValuesOf(more, name), name)]
    BY DEF Meant
<1>2. v \in S
    BY AttributeTyped
<1>3. \A name : ValuesOf(attributes, name) \in Seq(S)
    BY OwnValuesTyped
<1>4. \A name : ValuesOf(more, name) = IF a.name = name THEN Append(ValuesOf(attributes, name), v)
                                       ELSE ValuesOf(attributes, name)
    BY ValuesStep
<1> HIDE DEF old, new, more, v, S
<1>5. ASSUME NEW name \in Names, name # a.name PROVE new[name] = old[name]
    <2> HIDE DEF Of
    <2> QED BY <1>1, <1>4, <1>5
<1>6. ASSUME a.name \in Names PROVE new[a.name] = Setting(a.name, old[a.name], v)
    <2> DEFINE name   == a.name
               values == ValuesOf(attributes, name)
               longer == Append(values, v)
    <2>1. old[name] = Of(values, name) /\ new[name] = Of(longer, name)
        <3> HIDE DEF Of
        <3> QED BY <1>1, <1>4, <1>6
    <2>2. values \in Seq(S)
        BY <1>3
    <2> HIDE DEF name, values
    <2>3. longer # <<>> /\ Last(longer) = v
        <3>1. longer \in Seq(S) /\ Len(longer) = Len(values) + 1 /\ longer[Len(values) + 1] = v
            BY <1>2, <2>2, AppendProperties
        <3>2. Len(values) \in Nat
            BY <2>2
        <3> HIDE DEF longer
        <3> QED BY <3>1, <3>2, EmptySeq DEF Last
    <2>4. HeadersMeant(longer) = HeaderList(HeadersMeant(values), v)
        BY <1>2, <2>2, HeadersStep
    <2> HIDE DEF longer
    <2>5. CASE name = "src"
        <3>1. old[name] = values /\ new[name] = longer
            <4>1. Of(values, name) = values /\ Of(longer, name) = longer
                BY <2>5
            <4> HIDE DEF Of
            <4> QED BY <2>1, <4>1
        <3> QED BY <2>5, <3>1 DEF Setting, name, longer
    <2>6. CASE name \in {"forwardheaders", "returnheaders"}
        <3>1. old[name] = HeadersMeant(values) /\ new[name] = HeadersMeant(longer)
            <4>1. name # "src"
                BY <2>6
            <4>2. /\ Of(values, name) = HeadersMeant(values)
                  /\ Of(longer, name) = HeadersMeant(longer)
                BY <2>6, <4>1
            <4> HIDE DEF Of
            <4> QED BY <2>1, <4>2
        <3>2. Setting(name, old[name], v) = HeaderList(old[name], v)
            BY <2>6 DEF Setting
        <3> QED BY <2>4, <3>1, <3>2 DEF name
    <2>7. CASE name # "src" /\ name \notin {"forwardheaders", "returnheaders"}
        <3>1. new[name] = Setting(name, NewEntity[name], v)
            BY <2>1, <2>3, <2>7
        <3>2. Setting(name, NewEntity[name], v) = Setting(name, old[name], v)
            BY <2>7 DEF Setting
        <3> QED BY <3>1, <3>2 DEF name
    <2> QED BY <2>5, <2>6, <2>7
<1>7. old = [name \in Names |-> old[name]] /\ new = [name \in Names |-> new[name]]
    <2> HIDE DEF Of
    <2> QED BY <1>1
<1>8. CASE a.name \notin Names
    <2>1. \A name \in Names : new[name] = old[name]
        BY <1>5, <1>8
    <2>2. new = old
        BY <1>7, <2>1
    <2> QED BY <1>8, <2>2 DEF new, old, more
<1>9. CASE a.name \in Names
    <2> DEFINE set == [old EXCEPT ![a.name] = Setting(a.name, @, v)]
    <2>1. \A name \in Names : new[name] = set[name]
        BY <1>5, <1>6, <1>7, <1>9
    <2>2. set = [name \in Names |-> set[name]]
        BY <1>7
    <2> HIDE DEF set
    <2>3. new = set
        BY <1>7, <2>1, <2>2
    <2> QED BY <1>9, <2>3 DEF set, new, old, more, v
<1> QED BY <1>8, <1>9

(* What an attribute of a written tag does to the entity so far *)
LEMMA WrittenStep ==
    ASSUME NEW attributes \in Seq(Attributes), NEW a \in Attributes, NEW acc, NEW attr,
           acc = [ok |-> TRUE, entity |-> Meant(attributes)],
           attr = [name |-> <<a.name>>, value |-> ValueText(a.value)]
    PROVE  /\ Fine(a) => ParseStep(acc, attr) =
                            [ok |-> TRUE, entity |-> Meant(Append(attributes, a))]
           /\ ~Fine(a) => ~ParseStep(acc, attr).ok
<1> DEFINE name == a.name
           v    == ValueText(a.value)
           old  == Meant(attributes)
           new  == Meant(Append(attributes, a))
           step == ParseStep(acc, attr)
<1>1. Name(attr.name) = name /\ attr.name = <<name>> /\ attr.value = v
    <2>1. Len(<<name>>) = 1 /\ <<name>>[1] = name
        OBVIOUS
    <2> QED BY <2>1 DEF Name
<1>2. Ignored(attr.name) = (name \in {"x", "xsrc"})
    <2>1. name \notin Chars \ {"x"}
        BY DEF Attributes
    <2>2. Len(<<name>>) = 1 /\ <<name>>[1] = name
        OBVIOUS
    <2> HIDE DEF name
    <2>3. Ignored(attr.name) = (name \in Chars \/ name \in {"x", "xsrc"})
        BY <1>1, <2>2 DEF Ignored
    <2> QED BY <2>1, <2>3
<1>3. new = IF name \notin Names THEN old ELSE [old EXCEPT ![name] = Setting(name, @, v)]
    BY MeantStep
<1>4. Fine(a) = ((name \in Names \/ name \in {"x", "xsrc"}) /\ (name \in Names => Converts(name, v)))
    BY DEF Fine, Known
<1>5. acc.ok = TRUE /\ acc.entity = old
    OBVIOUS
<1> DEFINE e == [old EXCEPT ![name] = Setting(name, @, v)]
<1>6. step = IF name \notin Names THEN [acc EXCEPT !.ok = Ignored(attr.name)]
             ELSE IF ~Converts(name, v) THEN [acc EXCEPT !.ok = FALSE]
             ELSE [acc EXCEPT !.entity = e]
    <2>1. step = IF name \notin Names THEN [acc EXCEPT !.ok = Ignored(attr.name)]
                 ELSE IF ~Converts(name, v) THEN [acc EXCEPT !.ok = FALSE]
                 ELSE [acc EXCEPT !.entity = [acc.entity EXCEPT ![name] = Setting(name, @, v)]]
        BY <1>1, <1>5 DEF ParseStep
    <2> QED BY <1>5, <2>1
<1>7. \A ok : /\ [acc EXCEPT !.ok = ok].ok = ok
              /\ [acc EXCEPT !.ok = ok].entity = old
              /\ [acc EXCEPT !.ok = ok] = [ok |-> ok, entity |-> old]
    OBVIOUS
<1>8. [acc EXCEPT !.entity = e] = [ok |-> TRUE, entity |-> e]
    <2>1. \A x, y, z : [[ok |-> x, entity |-> y] EXCEPT !.entity = z] = [ok |-> x, entity |-> z]
        OBVIOUS
    <2>0. acc = [ok |-> TRUE, entity |-> old]
        OBVIOUS
    <2> HIDE DEF e, old
    <2>2. [[ok |-> TRUE, entity |-> old] EXCEPT !.entity = e] = [ok |-> TRUE, entity |-> e]
        BY <2>1, Zenon
    <2> QED BY <2>0, <2>2, Zenon
<1> HIDE DEF name, v, old, new, step
<1>9. CASE name \notin Names
    <2> DEFINE b == name \in {"x", "xsrc"}
    <2>1. step = [acc EXCEPT !.ok = b] /\ new = old
        BY <1>2, <1>3, <1>6, <1>9
    <2>2. Fine(a) = b /\ b \in BOOLEAN
        BY <1>4, <1>9
    <2> HIDE DEF b
    <2>3. CASE b
        <3>1. b = TRUE
            BY <2>2, <2>3
        <3>2. step = [ok |-> TRUE, entity |-> old]
            BY <1>7, <2>1, <3>1, Zenon
        <3> QED BY <2>1, <2>2, <2>3, <3>2 DEF step, new
    <2>4. CASE ~b
        <3>1. step.ok = b
            BY <1>7, <2>1, Zenon
        <3> QED BY <2>2, <2>4, <3>1 DEF step
    <2> QED BY <2>3, <2>4
<1>10. CASE name \in Names /\ ~Converts(name, v)
    <2>1. ~Fine(a)
        BY <1>4, <1>10
    <2>2. step = [acc EXCEPT !.ok = FALSE]
        BY <1>6, <1>10
    <2>3. step.ok = FALSE
        BY <1>7, <2>2, Zenon
    <2> QED BY <2>1, <2>3 DEF step
<1>11. CASE name \in Names /\ Converts(name, v)
    <2>1. Fine(a)
        BY <1>4, <1>11
    <2>2. step = [acc EXCEPT !.entity = e]
        BY <1>6, <1>11
    <2>3. new = e
        BY <1>3, <1>11
    <2>4. step = [ok |-> TRUE, entity |-> new]
        BY <1>8, <2>2, <2>3, Zenon
    <2> QED BY <2>1, <2>4 DEF step, new
<1> QED BY <1>9, <1>10, <1>11

(* The tag that was written is the tag that is meant *)
LEMMA ParsedIs ==
    ASSUME NEW tag \in WrittenTags,
           \A i \in DOMAIN tag.attributes : Inside(tag.attributes[i]) # <<>>
    PROVE  /\ ParseRaw(RawText(tag)).ok \in BOOLEAN
           /\ ParseRaw(RawText(tag)).ok = Valid(tag.attributes)
           /\ Valid(tag.attributes) => ParseRaw(RawText(tag)).entity = Meant(tag.attributes)
<1> DEFINE attributes == tag.attributes
           n     == Len(attributes)
           raw   == RawText(tag)
           split == SplitAttributes(raw)
           First(i) == Upto(attributes, i)
           Good(i)  == \A j \in 1..i : Fine(attributes[j])
<1>1. /\ attributes \in Seq(Attributes) /\ raw \in Seq(Symbols)
      /\ n \in Nat /\ DOMAIN attributes = 1..n
      /\ \A i \in 1..n : attributes[i] \in Attributes
    BY TagTyped, ElementOfSeq
<1>2. /\ split.ok /\ DOMAIN split.attrs = 1..n
      /\ \A i \in 1..n : split.attrs[i] = [name |-> <<attributes[i].name>>,
                                           value |-> ValueText(attributes[i].value)]
    BY SplitIs
<1>0. PICK T \in SUBSET Seq(Symbols), m \in Nat : \E P : Parses(P, m, raw, T)
    <2> HIDE DEF raw
    <2> QED BY <1>1, ParseSteps
<1>3. PICK P : Parses(P, m, raw, T)
    BY <1>0
<1>4. raw # <<>>
    <2> DEFINE word == <<"include">>
               f    == FlattenSeq(Spelled(attributes))
               e    == tag.end
               b    == word \o f
               c    == b \o e
    <2>1. raw = c
        BY DEF RawText, Spelled
    <2>2. word \in Seq(Symbols) /\ f \in Seq(Symbols) /\ e \in Seq(Symbols) /\ Len(word) = 1
        BY <1>1, TagTyped, SpelledTyped, SignsAreSymbols
    <2> HIDE DEF word, f, e, attributes, raw, n, split
    <2>3. b \in Seq(Symbols) /\ Len(b) = Len(word) + Len(f)
        <3>1. word \in Seq(Symbols) /\ f \in Seq(Symbols)
            BY <2>2
        <3> QED BY <3>1, ConcatProperties
    <2> HIDE DEF b
    <2>4. c \in Seq(Symbols) /\ Len(c) = Len(b) + Len(e)
        BY <2>2, <2>3, ConcatProperties
    <2> HIDE DEF c
    <2>5. Len(f) \in Nat /\ Len(e) \in Nat
        BY <2>2
    <2>6. Len(c) # 0
        BY <2>2, <2>3, <2>4, <2>5
    <2>7. c # <<>>
        BY <2>6, EmptySeq
    <2> QED BY <2>1, <2>7
<1> HIDE DEF attributes, n, raw, split
<1>5. /\ DOMAIN split.attrs = 1..m
      /\ P[0] = [ok |-> split.ok, entity |-> NewEntity]
      /\ \A i \in 1..m : P[i] = ParseStep(P[i - 1], split.attrs[i])
      /\ \A i \in 0..m : P[i] \in ParseStates(T)
      /\ ParseRaw(raw) = IF raw = <<>> \/ ~split.ok THEN [ok |-> raw = <<>>, entity |-> NewEntity]
                         ELSE [P[m] EXCEPT !.ok = @ /\ P[m].entity.src # <<>>]
    BY <1>3 DEF Parses, split
<1>6. m = n
    BY <1>1, <1>2, <1>5
<1>7. /\ First(0) = <<>> /\ First(n) = attributes
      /\ \A k \in 0..n : First(k) \in Seq(Attributes)
      /\ \A k \in 1..n : Append(First(k - 1), attributes[k]) = First(k)
    BY <1>1, UptoOf DEF n
<1> HIDE DEF First
<1> DEFINE In == {i \in 0..n : IF Good(i) THEN P[i] = [ok |-> TRUE, entity |-> Meant(First(i))]
                               ELSE ~P[i].ok}
<1>8. 0 \in In
    <2>1. Good(0)
        OBVIOUS
    <2>2. Meant(First(0)) = NewEntity
        BY <1>7, MeantByNothing
    <2>3. P[0] = [ok |-> TRUE, entity |-> NewEntity]
        <3>1. split.ok = TRUE
            BY <1>2, <1>5, <1>1 DEF SplitAttributes, split
        <3> QED BY <1>5, <3>1, Zenon
    <2>4. 0 \in 0..n
        BY <1>1
    <2> QED BY <2>1, <2>2, <2>3, <2>4, Zenon
<1>9. ASSUME NEW i \in (0 + 1)..n, i - 1 \in In PROVE i \in In
    <2> DEFINE a    == attributes[i]
               attr == split.attrs[i]
               acc  == P[i - 1]
    <2>1. i \in 1..n /\ i \in 0..n /\ i - 1 \in 0..n
        BY <1>1
    <2>2. /\ a \in Attributes /\ First(i - 1) \in Seq(Attributes)
          /\ Append(First(i - 1), a) = First(i)
          /\ attr = [name |-> <<a.name>>, value |-> ValueText(a.value)]
          /\ P[i] = ParseStep(acc, attr)
        BY <1>1, <1>2, <1>5, <1>6, <1>7, <2>1
    <2>3. Good(i) = (Good(i - 1) /\ Fine(a))
        <3>1. \A j \in 1..i : j \in 1..(i - 1) \/ j = i
            BY <2>1
        <3>2. 1..(i - 1) \subseteq 1..i /\ i \in 1..i
            BY <2>1
        <3> QED BY <3>1, <3>2
    <2> HIDE DEF Good, a, attr
    <2>4. CASE ~Good(i - 1)
        <3>1. ~acc.ok
            BY <1>9, <2>4
        <3> HIDE DEF acc
        <3>2. P[i] = acc
            BY <2>2, <3>1 DEF ParseStep
        <3> QED BY <2>1, <2>3, <2>4, <3>1, <3>2
    <2>5. CASE Good(i - 1)
        <3>1. acc = [ok |-> TRUE, entity |-> Meant(First(i - 1))]
            BY <1>9, <2>5
        <3> HIDE DEF acc
        <3> DEFINE u == First(i - 1)
        <3>2. /\ u \in Seq(Attributes) /\ Append(u, a) = First(i)
              /\ acc = [ok |-> TRUE, entity |-> Meant(u)]
            BY <2>2, <3>1
        <3> HIDE DEF u
        <3>3. /\ Fine(a) => P[i] = [ok |-> TRUE, entity |-> Meant(Append(u, a))]
              /\ ~Fine(a) => ~P[i].ok
            BY <2>2, <3>2, WrittenStep
        <3>4. CASE Fine(a)
            BY <2>1, <2>3, <2>5, <3>2, <3>3, <3>4
        <3>5. CASE ~Fine(a)
            BY <2>1, <2>3, <2>5, <3>3, <3>5
        <3> QED BY <3>4, <3>5
    <2> QED BY <2>4, <2>5
<1>10. n \in In
    <2>1. 0 \in Int /\ n \in Int /\ n \in 0..n
        BY <1>1
    <2> HIDE DEF In
    <2> QED BY <1>8, <1>9, <2>1, Induction
<1> DEFINE meant == Meant(attributes)
           last  == P[n]
<1>11. IF Good(n) THEN last = [ok |-> TRUE, entity |-> meant] ELSE ~last.ok
    BY <1>7, <1>10
<1>12. Valid(attributes) = (meant.src # <<>> /\ Good(n))
    <2>1. meant.src = ValuesOf(attributes, "src")
        BY NamesAre DEF Meant
    <2> QED BY <1>1, <2>1 DEF Valid
<1>13. ParseRaw(raw) = [last EXCEPT !.ok = @ /\ last.entity.src # <<>>]
    BY <1>2, <1>4, <1>5, <1>6
<1>14. last \in ParseStates(T)
    <2>1. n \in 0..m
        BY <1>1, <1>6
    <2> QED BY <1>5, <2>1
<1> HIDE DEF last, meant, Good, In
<1>15. last = [ok |-> last.ok, entity |-> last.entity] /\ last.ok \in BOOLEAN
    BY <1>14 DEF ParseStates
<1>16. /\ ParseRaw(raw).ok = (last.ok /\ last.entity.src # <<>>)
       /\ ParseRaw(raw).entity = last.entity
    BY <1>13, <1>15
<1>17. CASE Good(n)
    <2>1. last.ok = TRUE /\ last.entity = meant
        BY <1>11, <1>17
    <2> QED BY <1>12, <1>16, <1>17, <2>1 DEF raw, attributes, meant
<1>18. CASE ~Good(n)
    <2>1. last.ok = FALSE
        BY <1>11, <1>15, <1>18
    <2> QED BY <1>12, <1>16, <1>18, <2>1 DEF raw, attributes, meant
<1> QED BY <1>17, <1>18

(* The text is that of the page that was written *)
WrittenInv == written # <<>> => \E p \in WrittenPages : written = p.tags /\ text = PageText(p)

(* The tags of a written page are parsed as they were written *)
LEMMA PageParsed ==
    ASSUME ScannerInv, WrittenInv, ParsePage, written # <<>>, Legible
    PROVE  IF \A i \in DOMAIN written : Valid(written[i].attributes)
           THEN tags' = [i \in DOMAIN written |-> Meant(written[i].attributes)]
           ELSE stage' = "unparsed"
<1> DEFINE raws   == [i \in DOMAIN found |-> found[i].raw]
           parsed == ParsedTags(raws)
           n      == Len(written)
<1>1. PICK page \in WrittenPages : written = page.tags /\ text = PageText(page)
    BY DEF WrittenInv
<1>2. found = TagsOfPage
    <2>1. text \in Seq(Symbols) /\ Scanning(finder, found) /\ finder.n = Len(text) /\ ~Stumbles
        BY DEF ScannerInv, ParsePage, Legible
    <2> QED BY <2>1, NothingLeft
<1>3. /\ found \in Seq(Entities) /\ Len(found) = n
      /\ \A i \in 1..n : found[i].raw = RawText(written[i])
    BY <1>1, <1>2, TagsAreWritten
<1>4. written \in Seq(WrittenTags)
    BY <1>1, PageTyped
<1>5. DOMAIN written = 1..n /\ n \in Nat /\ \A i \in 1..n : written[i] \in WrittenTags
    BY <1>4, ElementOfSeq
<1>6. DOMAIN found = 1..n /\ found # <<>>
    <2>1. n # 0
        BY <1>4, EmptySeq
    <2> QED BY <1>3, <2>1
<1>7. ASSUME NEW i \in 1..n
      PROVE  /\ ParseRaw(raws[i]).ok = Valid(written[i].attributes)
             /\ Valid(written[i].attributes)
                  => ParseRaw(raws[i]).entity = Meant(written[i].attributes)
    <2> DEFINE tag == written[i]
    <2>1. tag \in WrittenTags /\ raws[i] = RawText(tag)
        BY <1>3, <1>5, <1>6
    <2>2. \A j \in DOMAIN tag.attributes : Inside(tag.attributes[j]) # <<>>
        BY <1>5 DEF Legible
    <2> HIDE DEF tag, raws
    <2>3. /\ ParseRaw(RawText(tag)).ok = Valid(tag.attributes)
          /\ Valid(tag.attributes) => ParseRaw(RawText(tag)).entity = Meant(tag.attributes)
        BY <2>1, <2>2, ParsedIs
    <2> QED BY <2>1, <2>3 DEF tag
<1>8. /\ stage' = IF parsed.ok /\ found # <<>> THEN "parsed" ELSE "unparsed"
      /\ tags' = IF parsed.ok THEN parsed.tags ELSE <<>>
    BY DEF ParsePage
<1>9. /\ parsed.ok = (\A i \in 1..n : ParseRaw(raws[i]).ok)
      /\ parsed.tags = [i \in 1..n |-> ParseRaw(raws[i]).entity]
    BY <1>6 DEF ParsedTags
<1> HIDE DEF raws, parsed, n
<1>10. CASE \A i \in 1..n : Valid(written[i].attributes)
    <2>1. parsed.ok
        BY <1>7, <1>9, <1>10
    <2>2. parsed.tags = [i \in 1..n |-> Meant(written[i].attributes)]
        BY <1>7, <1>9, <1>10
    <2> QED BY <1>5, <1>8, <1>10, <2>1, <2>2
<1>11. CASE ~(\A i \in 1..n : Valid(written[i].attributes))
    <2>1. ~parsed.ok
        BY <1>7, <1>9, <1>11
    <2> QED BY <1>5, <1>8, <1>11, <2>1
<1> QED BY <1>10, <1>11

LEMMA WrittenKept ==
    ASSUME ScannerInv, WrittenInv, ParsedAsWritten, [PipelineNext]_all
    PROVE  WrittenInv' /\ ParsedAsWritten'
<1>1. text' = text /\ written' = written
    <2>1. CASE ScanPage
        BY <2>1 DEF ScanPage, Next, Split, pipeline
    <2>2. CASE ParsePage
        BY <2>2 DEF ParsePage, vars
    <2>3. CASE Ask
        BY <2>3 DEF Ask, vars
    <2>4. CASE GiveUp
        BY <2>4 DEF GiveUp, vars
    <2>5. ASSUME NEW file \in Caddyfiles, Configure(file) PROVE text' = text /\ written' = written
        BY <2>5 DEF Configure, vars
    <2>6. ASSUME NEW r \in Clients, Store(r) \/ Serve(r) PROVE text' = text /\ written' = written
        BY <2>6 DEF Store, Serve, vars
    <2>7. CASE UNCHANGED all
        BY <2>7 DEF all, vars, pipeline
    <2> QED BY <2>1, <2>2, <2>3, <2>4, <2>5, <2>6, <2>7 DEF PipelineNext
<1>2. WrittenInv'
    BY <1>1 DEF WrittenInv
<1>3. Legible' <=> Legible
    <2>1. Stumbles' <=> Stumbles
        BY <1>1 DEF Stumbles, IsAt
    <2> QED BY <1>1, <2>1 DEF Legible
<1>4. ASSUME stage' # "scanning", written # <<>>, Legible
      PROVE  IF \A i \in DOMAIN written : Valid(written[i].attributes)
             THEN tags' = [i \in DOMAIN written |-> Meant(written[i].attributes)]
             ELSE stage' = "unparsed"
    <2>1. CASE ParsePage
        BY <1>4, <2>1, PageParsed
    <2>2. CASE tags' = tags /\ stage # "scanning" /\ (stage = "unparsed" => stage' = "unparsed")
        BY <1>4, <2>2 DEF ParsedAsWritten
    <2>3. ParsePage \/ (tags' = tags /\ stage # "scanning" /\ (stage = "unparsed" => stage' = "unparsed"))
        <3>1. CASE ScanPage
            BY <1>4, <3>1 DEF ScanPage, pipeline
        <3>2. CASE Ask
            BY <3>2 DEF Ask
        <3>3. CASE GiveUp
            BY <3>3 DEF GiveUp
        <3>4. ASSUME NEW file \in Caddyfiles, Configure(file)
              PROVE  tags' = tags /\ stage # "scanning" /\ (stage = "unparsed" => stage' = "unparsed")
            BY <3>4 DEF Configure
        <3>5. ASSUME NEW r \in Clients, Store(r) \/ Serve(r)
              PROVE  tags' = tags /\ stage # "scanning" /\ (stage = "unparsed" => stage' = "unparsed")
            BY <3>5 DEF Store, Serve
        <3>6. CASE UNCHANGED all
            BY <1>4, <3>6 DEF all, pipeline
        <3> QED BY <3>1, <3>2, <3>3, <3>4, <3>5, <3>6 DEF PipelineNext
    <2> QED BY <2>1, <2>2, <2>3
<1>5. ParsedAsWritten'
    BY <1>1, <1>3, <1>4 DEF ParsedAsWritten
<1> QED BY <1>2, <1>5

LEMMA WrittenInvariant == PipelineSpec => [](WrittenInv /\ ParsedAsWritten)
<1>1. PipelineInit => WrittenInv /\ ParsedAsWritten
    BY DEF PipelineInit, WrittenInv, ParsedAsWritten
<1>2. ScannerInv /\ WrittenInv /\ ParsedAsWritten /\ [PipelineNext]_all
        => WrittenInv' /\ ParsedAsWritten'
    BY WrittenKept
<1> QED BY <1>1, <1>2, ScannerInvariant, PTL DEF PipelineSpec

(* However its values are quoted and spaced, a tag of any page is taken    *)
(* for what was written, and a page is refused only for a tag without a    *)
(* resource, with an unknown name or a value that does not convert         *)
(* (finder.split, SplitAttributes, Entity.ParseRaw).                       *)
THEOREM PagesAreParsedAsWritten == PipelineSpec => []ParsedAsWritten
BY WrittenInvariant, PTL

-------------------------------------------------------------------------------
(* What is put in for the placeholders of a key that was written *)

Halfway(u, h) == [out |-> u, hole |-> h]
ReplaceRun(r) == [s \in Symbols |-> [acc \in ScanStates |-> ScanStep(r, acc, s)]]

LEMMA ReplaceRunIs ==
    ASSUME NEW r, NEW u \in Seq(Braceless), NEW h \in Holes, NEW s \in Symbols
    PROVE  /\ Halfway(u, h) \in ScanStates
           /\ ReplaceRun(r)[s][Halfway(u, h)] =
                IF h = <<>> THEN IF s = "{" THEN Halfway(u, <<s>>) ELSE Halfway(Append(u, s), <<>>)
                ELSE IF s = "}" THEN Halfway(u \o Substitution(r, Tail(h)), <<>>)
                ELSE Halfway(u, Append(h, s))
<1> DEFINE a == Halfway(u, h)
<1>1. a \in ScanStates /\ a = [out |-> u, hole |-> h]
    BY DEF Halfway, ScanStates
<1> HIDE DEF a
<1>2. ReplaceRun(r)[s][a] = ScanStep(r, a, s)
    BY <1>1 DEF ReplaceRun
<1>3. ScanStep(r, a, s) =
         IF h = <<>> THEN IF s = "{" THEN Halfway(u, <<s>>) ELSE Halfway(Append(u, s), <<>>)
         ELSE IF s = "}" THEN Halfway(u \o Substitution(r, Tail(h)), <<>>)
         ELSE Halfway(u, Append(h, s))
    <2> DEFINE b == ScanStep(r, a, s)
    <2>1. /\ h = <<>> /\ s = "{" => b = [out |-> u, hole |-> <<s>>]
          /\ h = <<>> /\ s # "{" => b = [out |-> Append(u, s), hole |-> <<>>]
          /\ h # <<>> /\ s = "}" => b = [out |-> u \o Substitution(r, Tail(h)), hole |-> <<>>]
          /\ h # <<>> /\ s # "}" => b = [out |-> u, hole |-> Append(h, s)]
        BY <1>1 DEF ScanStep
    <2> HIDE DEF b
    <2> QED BY <2>1 DEF Halfway, b
<1> QED BY <1>1, <1>2, <1>3 DEF a

(* A text stays as it is *)
LEMMA RunOfText ==
    ASSUME NEW r, NEW u \in Seq(Braceless), NEW w \in Seq(Braceless)
    PROVE  Runs(ReplaceRun(r), Halfway(u, <<>>), w, Halfway(u \o w, <<>>), ScanStates)
<1> DEFINE D    == Seq(Braceless)
           A    == [v \in D |-> Halfway(v, <<>>)]
           step == ReplaceRun(r)
<1>1. <<>> \in Holes
    BY DEF Holes
<1>2. A \in [D -> ScanStates]
    BY <1>1 DEF Halfway, ScanStates
<1>3. ASSUME NEW v \in Seq(Braceless), NEW i \in 1..Len(w)
      PROVE  Append(v, w[i]) \in D /\ step[w[i]][A[v]] = A[Append(v, w[i])]
    <2>1. w[i] \in Braceless
        BY ElementOfSeq
    <2>2. w[i] \in Symbols /\ w[i] # "{"
        BY <2>1 DEF Braceless
    <2>3. step[w[i]][Halfway(v, <<>>)] = Halfway(Append(v, w[i]), <<>>)
        <3> DEFINE none == <<>>
                   s    == w[i]
        <3>1. none \in Holes /\ s \in Symbols /\ s # "{" /\ none = <<>>
            BY <1>1, <2>2
        <3> HIDE DEF none, s
        <3>2. step[s][Halfway(v, none)] = Halfway(Append(v, s), <<>>)
            BY <3>1, ReplaceRunIs
        <3> QED BY <3>2 DEF none, s
    <2>4. Append(v, w[i]) \in Seq(Braceless)
        BY <2>1
    <2> HIDE DEF step
    <2> QED BY <2>3, <2>4
<1>4. u \in D /\ D \in SUBSET Seq(Braceless)
    OBVIOUS
<1> HIDE DEF A, D, step
<1>5. u \o w \in D /\ Runs(step, A[u], w, A[u \o w], ScanStates)
    <2>1. \A v \in D : \A i \in 1..Len(w) : /\ Append(v, w[i]) \in D
                                            /\ step[w[i]][A[v]] = A[Append(v, w[i])]
        BY <1>3 DEF D
    <2> QED BY <1>2, <1>4, <2>1, RunGrows, ZenonT(40)
<1>6. A[u] = Halfway(u, <<>>) /\ A[u \o w] = Halfway(u \o w, <<>>)
    BY <1>4, <1>5 DEF A
<1> QED BY <1>5, <1>6 DEF step

LEMMA TailBehind ==
    ASSUME NEW S, NEW s \in S, NEW w \in Seq(S)
    PROVE  <<s>> \o w \in Seq(S) /\ <<s>> \o w # <<>> /\ Tail(<<s>> \o w) = w
<1> DEFINE h == <<s>>
           t == h \o w
           n == Len(w)
<1>1. h \in Seq(S) /\ Len(h) = 1 /\ w \in Seq(S) /\ n \in Nat
    OBVIOUS
<1> HIDE DEF h, n
<1>2. /\ t \in Seq(S) /\ Len(t) = Len(h) + Len(w)
      /\ \A i \in 1..(Len(h) + Len(w)) : t[i] = IF i <= Len(h) THEN h[i] ELSE w[i - Len(h)]
    BY <1>1, ConcatProperties
<1> HIDE DEF t
<1>3. Len(t) = 1 + n /\ \A i \in 2..(n + 1) : t[i] = w[i - 1]
    <2>1. \A i \in 2..(n + 1) : i \in 1..(1 + n) /\ ~(i <= 1)
        BY <1>1
    <2> QED BY <1>1, <1>2, <2>1 DEF n
<1>4. t # <<>>
    BY <1>1, <1>2, <1>3, EmptySeq
<1> DEFINE u == Tail(t)
<1>5. /\ u \in Seq(S) /\ Len(u) = Len(t) - 1
      /\ \A i \in 1..(Len(t) - 1) : u[i] = t[i + 1]
    <2>1. t \in Seq(S) /\ t # <<>>
        BY <1>2, <1>4
    <2> QED BY <2>1, HeadTailProperties
<1> HIDE DEF u
<1>6. Len(u) = n /\ \A i \in 1..n : u[i] = w[i]
    <2>1. \A i \in 1..n : i + 1 \in 2..(n + 1) /\ i + 1 - 1 = i /\ i \in 1..(Len(t) - 1)
        BY <1>1, <1>3
    <2>2. Len(u) = n
        BY <1>1, <1>3, <1>5
    <2> QED BY <1>3, <1>5, <2>1, <2>2
<1>7. u = w
    BY <1>1, <1>5, <1>6, SeqEqual DEF n
<1> QED BY <1>2, <1>4, <1>7 DEF u, t, h

(* What is in a placeholder *)
Inner == Symbols \ {"}"}

LEMMA HoleGrows ==
    /\ <<>> \in Holes /\ <<"{">> \in Holes
    /\ \A x \in Holes, s \in Inner : x # <<>> => Append(x, s) \in Holes /\ Append(x, s) # <<>>
<1>1. <<>> \in Holes
    BY DEF Holes
<1>2. <<"{">> \in Holes
    <2>1. "{" \in Symbols /\ "{" # "}"
        BY Zenon DEF Symbols, Chars
    <2> DEFINE s == "{"
               t == <<s>>
    <2>2. s \in Symbols /\ s # "}"
        BY <2>1
    <2> HIDE DEF s
    <2>3. t \in Seq(Symbols) /\ t[1] = s /\ Range(t) = {s}
        <3>1. t \in Seq(Symbols) /\ t[1] = s
            <4>1. s \in Symbols
                BY <2>2
            <4> QED BY <4>1
        <3>2. Range(t) = {s}
            BY DEF Range
        <3> QED BY <3>1, <3>2
    <2> HIDE DEF t
    <2>4. t \in Holes
        BY <2>2, <2>3 DEF Holes, s
    <2> QED BY <2>4 DEF s, t
<1>3. ASSUME NEW x \in Holes, NEW s \in Inner, x # <<>>
      PROVE  Append(x, s) \in Holes /\ Append(x, s) # <<>>
    <2> DEFINE g == Append(x, s)
               l == Len(x)
    <2>1. x \in Seq(Symbols) /\ x[1] = "{" /\ "}" \notin Range(x) /\ s \in Symbols /\ s # "}"
        BY <1>3 DEF Holes, Inner
    <2>2. /\ g \in Seq(Symbols) /\ Len(g) = l + 1 /\ g[l + 1] = s /\ g # <<>>
          /\ \A i \in 1..l : g[i] = x[i]
        <3>1. x \in Seq(Symbols) /\ s \in Symbols
            BY <2>1
        <3> QED BY <3>1, AppendProperties
    <2>3. l \in Nat /\ l # 0 /\ DOMAIN x = 1..l /\ DOMAIN g = 1..(l + 1)
        <3>1. x \in Seq(Symbols) /\ g \in Seq(Symbols) /\ x # <<>> /\ Len(g) = l + 1
            BY <1>3, <2>1, <2>2
        <3> QED BY <3>1, EmptySeq
    <2> HIDE DEF g, l
    <2>4. 1 \in 1..l /\ \A i \in 1..(l + 1) : i \in 1..l \/ i = l + 1
        BY <2>3
    <2>5. g[1] = "{"
        BY <2>1, <2>2, <2>4
    <2>6. \A i \in 1..l : x[i] # "}"
        BY <2>1, <2>3 DEF Range
    <2>7. \A i \in 1..(l + 1) : g[i] # "}"
        BY <2>1, <2>2, <2>4, <2>6
    <2>8. "}" \notin Range(g)
        BY <2>3, <2>7 DEF Range
    <2> QED BY <2>2, <2>5, <2>8 DEF Holes, g
<1> QED BY <1>1, <1>2, <1>3

(* A placeholder is replaced by its value *)
LEMMA RunOfHole ==
    ASSUME NEW r \in Clients, Plain(r), NEW u \in Seq(Braceless), NEW w \in Seq(Inner)
    PROVE  Runs(ReplaceRun(r), Halfway(u, <<>>), <<"{">> \o w \o <<"}">>,
                Halfway(u \o Substitution(r, w), <<>>), ScanStates)
<1> DEFINE step  == ReplaceRun(r)
           open  == "{"
           close == "}"
           first == <<open>>
           last  == <<close>>
           none  == <<>>
           h     == first \o w
           v     == u \o Substitution(r, w)
           a     == Halfway(u, none)
           b     == Halfway(u, first)
           c     == Halfway(u, h)
           d     == Halfway(v, none)
           D     == {x \in Holes : x # <<>>}
           A     == [x \in D |-> Halfway(u, x)]
<1>0. open \in Symbols /\ close \in Symbols /\ open # close
    BY Zenon DEF Symbols, Chars
<1>1. first \in Seq(Symbols) /\ last \in Seq(Symbols)
    <2> HIDE DEF open, close
    <2> QED BY <1>0
<1>2. none \in Holes /\ first \in D
    <2>1. first # <<>>
        OBVIOUS
    <2> QED BY <2>1, HoleGrows
<1>3. w \in Seq(Symbols) /\ \A i \in 1..Len(w) : w[i] \in Inner
    <2>1. Inner \subseteq Symbols
        BY DEF Inner
    <2> QED BY <2>1, ElementOfSeq, SeqMonotonic
<1>4. h \in Seq(Symbols) /\ h # <<>> /\ Tail(h) = w
    <2> HIDE DEF open
    <2> QED BY <1>0, <1>3, TailBehind
<1>5. v \in Seq(Braceless)
    <2>1. Substitution(r, w) \in Seq(Braceless)
        BY <1>3, SubstitutionPlain
    <2> QED BY <2>1, ConcatProperties
<1>6. \A x \in D : x \in Holes /\ x # <<>> /\ Halfway(u, x) \in ScanStates
    BY DEF Halfway, ScanStates
<1>7. step[open][a] = b /\ a \in ScanStates /\ b \in ScanStates
    <2> HIDE DEF step, h, v, D
    <2>1. b \in ScanStates
        BY <1>2, <1>6
    <2>2. a \in ScanStates /\ step[open][a] = Halfway(u, <<open>>)
        BY <1>0, <1>2, ReplaceRunIs DEF step
    <2> QED BY <2>1, <2>2
<1>8. ASSUME NEW x \in D, NEW i \in 1..Len(w)
      PROVE  Append(x, w[i]) \in D /\ step[w[i]][A[x]] = A[Append(x, w[i])]
    <2> DEFINE s == w[i]
    <2>1. s \in Inner /\ x \in Holes /\ x # <<>>
        BY <1>3, <1>6
    <2> HIDE DEF s
    <2>2. s \in Symbols /\ s # "}" /\ Append(x, s) \in D
        BY <2>1, HoleGrows DEF Inner
    <2> HIDE DEF D
    <2>3. step[s][Halfway(u, x)] = Halfway(u, Append(x, s))
        BY <2>1, <2>2, ReplaceRunIs
    <2> HIDE DEF step
    <2> QED BY <2>2, <2>3 DEF s
<1>9. Runs(step, a, first, b, ScanStates)
    <2> HIDE DEF step, a, b, open
    <2> QED BY <1>7, RunOfOne
<1>10. h \in D /\ Runs(step, b, w, c, ScanStates)
    <2>1. D \in SUBSET Seq(Symbols) /\ A \in [D -> ScanStates]
        <3>1. D \in SUBSET Seq(Symbols)
            BY DEF Holes
        <3> HIDE DEF D
        <3> QED BY <1>6, <3>1
    <2> HIDE DEF D, A, step, first
    <2>2. h \in D /\ Runs(step, A[first], w, A[h], ScanStates)
        BY <1>2, <1>3, <1>8, <2>1, RunGrows
    <2>3. A[first] = b /\ A[h] = c
        BY <1>2, <2>2 DEF A
    <2> QED BY <2>2, <2>3
<1>11. step[close][c] = d /\ c \in ScanStates /\ d \in ScanStates
    <2>1. h \in Holes /\ h # <<>> /\ c \in ScanStates
        BY <1>6, <1>10
    <2>2. d \in ScanStates
        BY <1>2, <1>5 DEF Halfway, ScanStates
    <2> HIDE DEF step, h
    <2>3. step[close][c] = Halfway(u \o Substitution(r, Tail(h)), <<>>)
        BY <1>0, <2>1, ReplaceRunIs DEF step
    <2> QED BY <1>4, <2>1, <2>2, <2>3
<1>12. Runs(step, c, last, d, ScanStates)
    <2> HIDE DEF step, c, d, close
    <2> QED BY <1>11, RunOfOne
<1> HIDE DEF step, a, b, c, d, first, last, D, v
<1>13. Runs(step, a, h, c, ScanStates)
    BY <1>1, <1>3, <1>9, <1>10, RunOn
<1> HIDE DEF h
<1>14. Runs(step, a, h \o last, d, ScanStates)
    BY <1>1, <1>4, <1>12, <1>13, RunOn
<1> QED BY <1>14 DEF step, a, d, h, first, last, v

LEMMA PartIs ==
    ASSUME NEW part \in ValueParts
    PROVE  /\ ~part.hole => part.text \in Seq(Braceless) /\ PartText(part) = part.text
           /\ part.hole => /\ part.text \in Seq(Inner)
                           /\ PartText(part) = <<"{">> \o part.text \o <<"}">>
<1> DEFINE t == part.text
<1>1. t \in Seq(Symbols) /\ t \in Seq(STRING) /\ part.hole \in BOOLEAN
    BY PartTyped DEF ValueParts
<1>2. (IF part.hole THEN "}" ELSE "{") \notin Range(t)
    BY DEF ValueParts
<1>3. ASSUME NEW s, s \notin Range(t) PROVE t \in Seq(Symbols \ {s})
    <2> HIDE DEF t
    <2>1. DOMAIN t = 1..Len(t) /\ Len(t) \in Nat /\ \A i \in 1..Len(t) : t[i] \in Symbols
        BY <1>1, ElementOfSeq
    <2>2. \A i \in 1..Len(t) : t[i] \in Symbols \ {s}
        BY <1>3, <2>1 DEF Range
    <2>3. t = [i \in 1..Len(t) |-> t[i]]
        BY <1>1
    <2> QED BY <2>1, <2>2, <2>3, IsASeq
<1>4. ~part.hole => t \in Seq(Braceless)
    BY <1>2, <1>3 DEF Braceless
<1>5. part.hole => t \in Seq(Inner)
    BY <1>2, <1>3 DEF Inner
<1>6. /\ ~part.hole => PartText(part) = t
      /\ part.hole => PartText(part) = <<"{">> \o t \o <<"}">>
    BY Zenon DEF PartText
<1> QED BY <1>4, <1>5, <1>6, Zenon

(* A text that was written has its placeholders filled in *)
LEMMA ReplaceIs ==
    ASSUME NEW r \in Clients, Plain(r), NEW parts \in Seq(ValueParts)
    PROVE  Replace(r, ValueText(parts)) = FilledIn(r, parts)
<1> DEFINE texts == [i \in DOMAIN parts |-> PartText(parts[i])]
           Fill(i) == IF parts[i].hole THEN Substitution(r, parts[i].text) ELSE parts[i].text
           fills == [i \in DOMAIN parts |-> Fill(i)]
           n     == Len(parts)
           t     == ValueText(parts)
           step  == ReplaceRun(r)
           B     == Seq(Braceless)
<1>1. /\ n \in Nat /\ DOMAIN parts = 1..n /\ \A i \in 1..n : parts[i] \in ValueParts
      /\ texts \in Seq(Seq(Symbols)) /\ Len(texts) = n /\ t \in Seq(Symbols)
    BY ValueTyped, ElementOfSeq
<1>2. t = FlattenSeq(texts) /\ FilledIn(r, parts) = FlattenSeq(fills)
    BY DEF ValueText, FilledIn
<1>3. \A i \in 1..n : texts[i] = PartText(parts[i]) /\ fills[i] = Fill(i)
    BY <1>1
<1>4. ASSUME NEW i \in 1..n, NEW u \in B
      PROVE  /\ Fill(i) \in B
             /\ Runs(step, Halfway(u, <<>>), texts[i], Halfway(u \o Fill(i), <<>>), ScanStates)
    <2> DEFINE part == parts[i]
               w    == part.text
    <2>0. part \in ValueParts /\ texts[i] = PartText(part)
        BY <1>1, <1>3
    <2>1. /\ ~part.hole => w \in B /\ texts[i] = w
          /\ part.hole => w \in Seq(Inner) /\ texts[i] = <<"{">> \o w \o <<"}">>
        BY <2>0, PartIs
    <2>2. Fill(i) = IF part.hole THEN Substitution(r, w) ELSE w
        OBVIOUS
    <2>3. w \in Seq(Symbols)
        BY <2>0, PartTyped
    <2> HIDE DEF texts, part, w, step, Fill
    <2>4. CASE part.hole
        <3>1. Fill(i) = Substitution(r, w) /\ w \in Seq(Inner) /\ texts[i] = <<"{">> \o w \o <<"}">>
            BY <2>1, <2>2, <2>4
        <3>2. Substitution(r, w) \in B
            BY <2>3, SubstitutionPlain
        <3>3. Runs(step, Halfway(u, <<>>), <<"{">> \o w \o <<"}">>,
                   Halfway(u \o Substitution(r, w), <<>>), ScanStates)
            BY <3>1, RunOfHole DEF step
        <3> QED BY <3>1, <3>2, <3>3, Zenon
    <2>5. CASE ~part.hole
        <3>1. Fill(i) = w /\ w \in B /\ texts[i] = w
            BY <2>1, <2>2, <2>5
        <3>2. Runs(step, Halfway(u, <<>>), w, Halfway(u \o w, <<>>), ScanStates)
            BY <3>1, RunOfText DEF step
        <3> QED BY <3>1, <3>2, Zenon
    <2> QED BY <2>4, <2>5
<1>5. fills \in Seq(B) /\ Len(fills) = n
    <2>1. <<>> \in B
        OBVIOUS
    <2>2. \A i \in DOMAIN parts : fills[i] \in B
        <3> HIDE DEF Fill, fills
        <3> QED BY <1>1, <1>3, <1>4, <2>1
    <2>3. fills = [i \in DOMAIN parts |-> fills[i]]
        OBVIOUS
    <2> HIDE DEF fills, B
    <2> QED BY <2>2, <2>3, Mapped
<1> HIDE DEF texts, fills, Fill, n, t, step
<1>6. PICK acc : PutTogether(acc, fills, Braceless) /\ FlattenSeq(fills) = acc[n]
    BY <1>5, Flattened
<1>7. /\ \A i \in 0..n : acc[i] \in B
      /\ acc[0] = <<>> /\ \A i \in 1..n : acc[i] = acc[i - 1] \o fills[i]
    BY <1>5, <1>6 DEF PutTogether
<1> HIDE DEF B
<1> DEFINE C == [i \in 0..n |-> Halfway(acc[i], <<>>)]
<1>8. \A i \in 0..n : C[i] = Halfway(acc[i], <<>>)
    OBVIOUS
<1>9. n \in 0..n /\ 0 \in 0..n /\ \A i \in 1..n : i \in 0..n /\ i - 1 \in 0..n
    BY <1>1
<1>10. C[0] = Halfway(<<>>, <<>>)
    BY <1>7, <1>8, <1>9
<1> HIDE DEF C
<1>11. C[0] \in ScanStates
    <2>1. acc[0] \in Seq(Braceless) /\ <<>> \in Holes
        BY <1>7, <1>9, HoleGrows DEF B
    <2>2. C[0] = Halfway(acc[0], <<>>)
        BY <1>8, <1>9
    <2> DEFINE u == acc[0]
               h == <<>>
    <2>3. u \in Seq(Braceless) /\ h \in Holes
        BY <2>1
    <2> HIDE DEF u, h
    <2>4. Halfway(u, h) \in ScanStates
        BY <2>3 DEF Halfway, ScanStates
    <2> QED BY <2>2, <2>4 DEF u, h
<1>12. ASSUME NEW i \in 1..n PROVE Runs(step, C[i - 1], texts[i], C[i], ScanStates)
    <2> DEFINE u == acc[i - 1]
    <2>1. u \in B /\ acc[i] = u \o Fill(i)
        BY <1>3, <1>7, <1>9
    <2>2. C[i - 1] = Halfway(u, <<>>) /\ C[i] = Halfway(u \o Fill(i), <<>>)
        BY <1>8, <1>9, <2>1
    <2> HIDE DEF u
    <2>3. Runs(step, Halfway(u, <<>>), texts[i], Halfway(u \o Fill(i), <<>>), ScanStates)
        BY <1>4, <2>1
    <2> QED BY <2>2, <2>3
<1>13. Runs(step, C[0], t, C[n], ScanStates)
    <2>1. \A i \in 1..Len(texts) : Runs(step, C[i - 1], texts[i], C[i], ScanStates)
        BY <1>1, <1>12
    <2>2. Runs(step, C[0], FlattenSeq(texts), C[Len(texts)], ScanStates)
        BY <1>1, <1>11, <2>1, RunOver
    <2> QED BY <1>1, <1>2, <2>2
<1>14. PICK R : Replacing(R, r, t) /\ Replace(r, t) = R[Len(t)].out \o R[Len(t)].hole
    BY <1>1, ReplaceSteps
<1>15. Runs(step, C[0], t, R[Len(t)], ScanStates)
    <2> DEFINE m == Len(t)
    <2>1. /\ R \in [0..m -> ScanStates] /\ R[0] = Halfway(<<>>, <<>>)
          /\ \A i \in 1..m : R[i] = ScanStep(r, R[i - 1], t[i])
        BY <1>14 DEF Replacing, Halfway
    <2>2. m \in Nat /\ \A i \in 1..m : t[i] \in Symbols
        BY <1>1, ElementOfSeq
    <2> HIDE DEF m
    <2>3. \A i \in 1..m : R[i] = step[t[i]][R[i - 1]]
        <3>1. \A i \in 1..m : i - 1 \in 0..m
            BY <2>2
        <3>2. \A i \in 1..m : R[i - 1] \in ScanStates
            BY <2>1, <3>1
        <3>3. \A s \in Symbols : \A x \in ScanStates : step[s][x] = ScanStep(r, x, s)
            BY DEF step, ReplaceRun
        <3> QED BY <2>1, <2>2, <3>2, <3>3
    <2>4. Along(R, step, C[0], t, R[Len(t)], ScanStates)
        BY <1>10, <2>1, <2>3 DEF Along, m
    <2> QED BY <2>4 DEF Runs
<1>16. R[Len(t)] = C[n]
    <2>1. Len(t) \in Nat
        BY <1>1
    <2> QED BY <1>13, <1>15, <2>1, RunIsOne
<1>17. R[Len(t)].out = acc[n] /\ R[Len(t)].hole = <<>>
    <2>1. R[Len(t)] = Halfway(acc[n], <<>>)
        BY <1>8, <1>9, <1>16
    <2> QED BY <2>1 DEF Halfway
<1>18. acc[n] \o <<>> = acc[n]
    BY <1>7, <1>9, ConcatEmptySeq DEF B
<1> QED BY <1>2, <1>6, <1>14, <1>17, <1>18 DEF t

(* One attribute more *)
LEMMA PartsStep ==
    ASSUME NEW attributes \in Seq(Attributes), NEW a \in Attributes, NEW name
    PROVE  PartsOf(Append(attributes, a), name) =
              IF a.name = name THEN a.value ELSE PartsOf(attributes, name)
<1> DEFINE n    == Len(attributes)
           more == Append(attributes, a)
           own  == {i \in DOMAIN attributes : attributes[i].name = name}
           own2 == {i \in DOMAIN more : more[i].name = name}
<1>1. /\ more \in Seq(Attributes) /\ Len(more) = n + 1
      /\ \A i \in 1..n : more[i] = attributes[i]
      /\ more[n + 1] = a
    <2>1. attributes \in Seq(Attributes) /\ a \in Attributes
        OBVIOUS
    <2> HIDE DEF own, own2
    <2> QED BY <2>1, AppendProperties
<1>2. DOMAIN attributes = 1..n /\ DOMAIN more = 1..(n + 1) /\ n \in Nat
    BY <1>1
<1>3. n + 1 \notin 1..n /\ 1..(n + 1) = 1..n \cup {n + 1} /\ n + 1 \in 1..(n + 1) /\ n + 1 \in Nat
    BY <1>2
<1>4. /\ PartsOf(attributes, name) = IF own = {} THEN <<>> ELSE attributes[Max(own)].value
      /\ PartsOf(more, name) = IF own2 = {} THEN <<>> ELSE more[Max(own2)].value
    BY DEF PartsOf
<1> HIDE DEF more, n
<1>5. own \subseteq 1..n
    BY <1>2
<1>6. CASE a.name = name
    <2>1. n + 1 \in own2 /\ own2 \subseteq 1..(n + 1)
        BY <1>1, <1>2, <1>3, <1>6
    <2> HIDE DEF own2
    <2>2. \A i \in own2 : n + 1 >= i
        BY <1>2, <2>1
    <2>3. Max(own2) = n + 1
        <3>1. n + 1 \in Nat /\ own2 \subseteq 1..(n + 1)
            BY <1>3, <2>1
        <3>2. Greatest(own2) \in own2 /\ \A y \in own2 : Greatest(own2) >= y
            BY <2>1, <2>2 DEF Greatest
        <3> DEFINE m == Greatest(own2)
        <3>3. m \in 1..(n + 1) /\ m >= n + 1
            BY <2>1, <3>2
        <3> HIDE DEF m
        <3>4. m = n + 1
            BY <1>2, <3>3
        <3> QED BY <3>4 DEF m, Max, Greatest
    <2>4. own2 # {}
        BY <2>1
    <2> QED BY <1>1, <1>4, <1>6, <2>3, <2>4 DEF more
<1>7. CASE a.name # name
    <2>1. own2 = own
        BY <1>1, <1>2, <1>3, <1>7
    <2>2. own # {} => more[Max(own)] = attributes[Max(own)]
        <3>1. own # {} => Max(own) \in own
            BY <1>2, <1>5, GreatestIn DEF Max, Greatest
        <3> HIDE DEF own
        <3> QED BY <1>1, <1>5, <3>1
    <2> HIDE DEF own, own2
    <2> QED BY <1>4, <1>7, <2>1, <2>2 DEF more
<1> QED BY <1>6, <1>7

(* The key of a tag is its last one *)
LEMMA KeyMeant ==
    ASSUME NEW attributes \in Seq(Attributes)
    PROVE  /\ PartsOf(attributes, "key") \in Seq(ValueParts)
           /\ Meant(attributes).key = ValueText(PartsOf(attributes, "key"))
<1> DEFINE n        == Len(attributes)
           First(i) == Upto(attributes, i)
           Parts1(i) == PartsOf(First(i), "key")
           In == {i \in 0..n : /\ Parts1(i) \in Seq(ValueParts)
                               /\ Meant(First(i)).key = ValueText(Parts1(i))}
<1>1. n \in Nat /\ \A i \in 1..n : attributes[i] \in Attributes
    BY ElementOfSeq
<1>2. /\ First(0) = <<>> /\ First(n) = attributes
      /\ \A k \in 0..n : First(k) \in Seq(Attributes)
      /\ \A k \in 1..n : Append(First(k - 1), attributes[k]) = First(k)
    BY UptoOf
<1> HIDE DEF First, n
<1>3. 0 \in In
    <2> DEFINE none == <<>>
    <2>1. none \in Seq(ValueParts) /\ none \in Seq(Seq(Symbols)) /\ DOMAIN none = {} /\ Len(none) = 0
        OBVIOUS
    <2>2. First(0) = none
        BY <1>2
    <2> HIDE DEF none
    <2>3. PartsOf(none, "key") = <<>>
        BY <2>1 DEF PartsOf
    <2>4. Meant(none).key = <<>>
        <3>1. Meant(none) = NewEntity
            BY MeantByNothing DEF none
        <3>2. NewEntity.key = <<>>
            BY DEF NewEntity
        <3> QED BY <3>1, <3>2
    <2>5. ValueText(none) = <<>>
        <3>1. ValueText(none) = FlattenSeq(none)
            <4>1. [i \in DOMAIN none |-> PartText(none[i])] = none
                <5>1. Len([i \in DOMAIN none |-> PartText(none[i])]) = 0
                    BY <2>1, ValueTyped
                <5>2. [i \in DOMAIN none |-> PartText(none[i])] \in Seq(Seq(Symbols))
                    BY <2>1, ValueTyped
                <5> QED BY <2>1, <5>1, <5>2, SeqEqual
            <4> QED BY <4>1 DEF ValueText
        <3>2. PICK acc : PutTogether(acc, none, Symbols) /\ FlattenSeq(none) = acc[Len(none)]
            BY <2>1, Flattened
        <3> QED BY <2>1, <3>1, <3>2 DEF PutTogether
    <2>6. 0 \in 0..n
        BY <1>1
    <2> QED BY <2>1, <2>2, <2>3, <2>4, <2>5, <2>6 DEF none
<1>4. ASSUME NEW i \in (0 + 1)..n, i - 1 \in In PROVE i \in In
    <2> DEFINE a == attributes[i]
               u == First(i - 1)
    <2>1. i \in 1..n /\ i \in 0..n /\ i - 1 \in 0..n
        BY <1>1
    <2>2. /\ u \in Seq(Attributes) /\ a \in Attributes /\ First(i) = Append(u, a)
          /\ PartsOf(u, "key") \in Seq(ValueParts)
          /\ Meant(u).key = ValueText(PartsOf(u, "key"))
        BY <1>1, <1>2, <1>4, <2>1
    <2>3. a.value \in Seq(ValueParts)
        BY <2>2 DEF Attributes
    <2> HIDE DEF a, u
    <2>4. PartsOf(Append(u, a), "key") = IF a.name = "key" THEN a.value ELSE PartsOf(u, "key")
        BY <2>2, PartsStep
    <2>5. Meant(Append(u, a)).key = IF a.name = "key" THEN ValueText(a.value) ELSE Meant(u).key
        <3> DEFINE old == Meant(u)
                   new == Meant(Append(u, a))
                   v   == ValueText(a.value)
        <3>1. new = IF a.name \notin Names THEN old
                    ELSE [old EXCEPT ![a.name] = Setting(a.name, @, v)]
            BY <2>2, MeantStep
        <3>2. old = [name \in Names |-> old[name]] /\ "key" \in Names
            BY NamesAre DEF Meant
        <3> HIDE DEF old, new, v
        <3>3. CASE a.name = "key"
            <4>1. new.key = Setting("key", old.key, v)
                BY <3>1, <3>2, <3>3
            <4>2. Setting("key", old.key, v) = v
                BY DEF Setting
            <4> QED BY <3>3, <4>1, <4>2 DEF new, v
        <3>4. CASE a.name # "key"
            <4>1. new.key = old.key
                BY <3>1, <3>2, <3>4
            <4> QED BY <3>4, <4>1 DEF new, old
        <3> QED BY <3>3, <3>4
    <2> QED BY <2>1, <2>2, <2>3, <2>4, <2>5
<1>5. n \in In
    <2>1. 0 \in Int /\ n \in Int /\ n \in 0..n
        BY <1>1
    <2> HIDE DEF In
    <2> QED BY <1>3, <1>4, <2>1, Induction
<1> QED BY <1>2, <1>5

-------------------------------------------------------------------------------
(* The tag that is asked for, as it was written *)

(* An entry has the tags of the page with the defaults of its site.  What  *)
(* the tag that is asked for forwards is not filled in.                    *)
EntryInv ==
    /\ stage \in Served \cup {"cached"} =>
          /\ DOMAIN entry.tags = DOMAIN tags
          /\ \A i \in DOMAIN tags : entry.tags[i] = WithDefaults(tags[i], sites[entry.site])
    /\ stage \in Served =>
          /\ args.tag.forwardheaders = entry.tags[client.tag].forwardheaders
          /\ args.tag.forwardpostdata = entry.tags[client.tag].forwardpostdata

LEMMA EntryStep ==
    ASSUME LimitsInv, EntryInv, [PipelineNext]_all
    PROVE  EntryInv'
<1> USE DEF Served
<1>1. CASE ScanPage \/ UNCHANGED all
    BY <1>1 DEF EntryInv, ScanPage, pipeline, all
<1>2. CASE ParsePage
    BY <1>2 DEF EntryInv, ParsePage
<1>3. ASSUME NEW file \in Caddyfiles, Configure(file) PROVE EntryInv'
    BY <1>3 DEF EntryInv, Configure
<1>4. ASSUME NEW r \in Clients, Store(r) PROVE EntryInv'
    <2> DEFINE at == ConfigForPath(sites, r)
    <2>1. /\ stage' = "cached" /\ sites' = sites /\ tags' = tags /\ entry'.site = at
          /\ entry'.tags = [i \in DOMAIN tags |-> WithDefaults(tags[i], sites[at])]
        BY <1>4 DEF Store
    <2> HIDE DEF at
    <2> QED BY <2>1 DEF EntryInv
<1>5. ASSUME NEW r \in Clients, Serve(r) PROVE EntryInv'
    <2>1. PICK i \in DOMAIN entry.tags : /\ client' = [request |-> r, tag |-> i]
                                         /\ args' = NewResourceArgs(r, entry.tags[i])
        BY <1>5 DEF Serve
    <2>2. /\ stage = "cached" /\ stage' = "asking" /\ entry' = entry /\ tags' = tags
          /\ sites' = sites
        BY <1>5 DEF Serve
    <2>3. client'.tag = i /\ args'.tag = entry.tags[i]
        BY <2>1 DEF NewResourceArgs
    <2> QED BY <2>2, <2>3 DEF EntryInv
<1>6. CASE Ask
    <2> DEFINE source == args.tag.src[Len(asked) + 1]
    <2>1. /\ stage = "asking" /\ args' = Filled(args, source)
          /\ stage' \in {"asking", "answered"} /\ entry' = entry /\ tags' = tags
          /\ sites' = sites /\ client' = client
        BY <1>6 DEF Ask
    <2> HIDE DEF source
    <2>2. /\ args'.tag.forwardheaders = args.tag.forwardheaders
          /\ args'.tag.forwardpostdata = args.tag.forwardpostdata
        BY <2>1, FillingKeepsSources DEF LimitsInv
    <2> QED BY <2>1, <2>2 DEF EntryInv
<1>7. CASE GiveUp
    BY <1>7 DEF EntryInv, GiveUp
<1> QED BY <1>1, <1>2, <1>3, <1>4, <1>5, <1>6, <1>7 DEF PipelineNext

(* What is known of a tag that is asked for *)
AskingInv == LimitsInv /\ KeysInv /\ MessageInv /\ EntryInv /\ WrittenInv /\ ParsedAsWritten

LEMMA ServedAsWritten ==
    ASSUME AskingInv, stage \in Served, written # <<>>, Legible
    PROVE  LET attributes == written[client.tag].attributes
           IN  /\ attributes \in Seq(Attributes)
               /\ entry.tags[client.tag] = WithDefaults(Meant(attributes), sites[entry.site])
               /\ IsTag(Meant(attributes))
<1> DEFINE i == client.tag
           attributes == written[i].attributes
<1>1. tags = [j \in DOMAIN written |-> Meant(written[j].attributes)]
    BY DEF AskingInv, ParsedAsWritten, Served
<1>2. /\ i \in DOMAIN entry.tags /\ DOMAIN entry.tags = DOMAIN tags
      /\ \A j \in DOMAIN tags : entry.tags[j] = WithDefaults(tags[j], sites[entry.site])
      /\ \A j \in DOMAIN tags : IsTag(tags[j])
    BY DEF AskingInv, KeysInv, EntryInv, LimitsInv
<1> HIDE DEF i
<1>3. i \in DOMAIN written /\ tags[i] = Meant(attributes)
    BY <1>1, <1>2
<1>4. attributes \in Seq(Attributes)
    <2>1. PICK page \in WrittenPages : written = page.tags
        BY DEF AskingInv, WrittenInv
    <2>2. written \in Seq(WrittenTags)
        BY <2>1, PageTyped
    <2>3. written[i] \in WrittenTags
        BY <1>3, <2>2, ElementOfSeq
    <2> QED BY <2>3, TagTyped
<1> HIDE DEF attributes
<1>5. entry.tags[i] = WithDefaults(Meant(attributes), sites[entry.site]) /\ IsTag(Meant(attributes))
    BY <1>1, <1>2, <1>3
<1> QED BY <1>4, <1>5 DEF attributes, i

LEMMA KeysNamed ==
    ASSUME AskingInv
    PROVE  KeysAsWritten
<1>1. OneKey
    BY DEF AskingInv, KeysInv, KeyAsked, OneKey
<1>2. ASSUME asked # <<>>, written # <<>>, Legible, Plain(client.request), NEW i \in DOMAIN asked
      PROVE  asked[i].tag.key =
                FilledIn(client.request, PartsOf(written[client.tag].attributes, "key"))
    <2> DEFINE r == client.request
               attributes == written[client.tag].attributes
               parts == PartsOf(attributes, "key")
               e == entry.tags[client.tag]
    <2>1. stage \in Served /\ r \in Clients
        BY <1>2 DEF AskingInv, LimitsInv, KeysInv
    <2>2. /\ attributes \in Seq(Attributes)
          /\ e = WithDefaults(Meant(attributes), sites[entry.site]) /\ IsTag(Meant(attributes))
        BY <1>2, <2>1, ServedAsWritten
    <2>3. asked[i].tag.key = Replace(r, e.key)
        BY <1>1, <1>2 DEF OneKey
    <2> HIDE DEF r, attributes, e
    <2>4. e.key = Meant(attributes).key
        BY <2>2, DefaultsKeepKey
    <2>5. parts \in Seq(ValueParts) /\ Meant(attributes).key = ValueText(parts)
        BY <2>2, KeyMeant
    <2> HIDE DEF parts
    <2>6. Plain(r)
        BY <1>2 DEF r
    <2>7. Replace(r, ValueText(parts)) = FilledIn(r, parts)
        BY <2>1, <2>5, <2>6, ReplaceIs
    <2> QED BY <2>3, <2>4, <2>5, <2>7 DEF r, parts, attributes
<1> QED BY <1>1, <1>2 DEF KeysAsWritten

(* The headers that are forwarded, by their names *)
LEMMA HeadersForwarded ==
    ASSUME NEW a
    PROVE  {h[1] : h \in ForwardHeaders(a)} =
              (IF a.tag.forwardheaders.all THEN DOMAIN a.req.header
               ELSE DOMAIN a.req.header \cap Range(a.tag.forwardheaders.names))
                 \ DropHeadersForward
<1> DEFINE has   == DOMAIN a.req.header
           list  == Range(a.tag.forwardheaders.names)
           names == IF a.tag.forwardheaders.all THEN has ELSE list \cap has
           kept  == names \ DropHeadersForward
           Pair(name) == <<name, a.req.header[name]>>
<1>1. ForwardHeaders(a) = {Pair(name) : name \in kept}
    BY DEF ForwardHeaders
<1>2. \A name \in kept : Pair(name)[1] = name
    OBVIOUS
<1> HIDE DEF Pair, kept
<1>3. {h[1] : h \in ForwardHeaders(a)} = kept
    BY <1>1, <1>2
<1>4. list \cap has = has \cap list
    OBVIOUS
<1> QED BY <1>3, <1>4 DEF kept

LEMMA Told ==
    ASSUME AskingInv
    PROVE  ToldAsWritten
<1>1. ProgramsReadBack
    BY ReadWhole DEF AskingInv
<1>2. SUFFICES ASSUME sent # Unset, written # <<>>, Legible
               PROVE  LET kind  == HandlerOf[args.tag.src[Len(asked)]]
                          meant == Meant(written[client.tag].attributes)
                          names == DOMAIN client.request.header
                      IN  /\ kind \in {"http", "grpc"} => DOMAIN sent.header =
                                (IF meant.forwardheaders.all THEN names
                                 ELSE names \cap Range(meant.forwardheaders.names))
                                   \ DropHeadersForward
                          /\ kind = "grpc" /\ sent.body
                                => meant.forwardpostdata /\ client.request.body
    BY <1>1 DEF ToldAsWritten
<1> DEFINE kind  == HandlerOf[args.tag.src[Len(asked)]]
           meant == Meant(written[client.tag].attributes)
           names == DOMAIN client.request.header
           told  == {h[1] : h \in ForwardHeaders(args)}
<1>3. stage \in Served /\ sent = Message(kind, args) /\ args.req = client.request
    BY <1>2 DEF AskingInv, MessageInv, KeysInv
<1>4. args.tag.forwardheaders = meant.forwardheaders /\ args.tag.forwardpostdata = meant.forwardpostdata
    <2> DEFINE e == entry.tags[client.tag]
    <2>1. e = WithDefaults(meant, sites[entry.site]) /\ IsTag(meant)
        BY <1>2, <1>3, ServedAsWritten
    <2>2. args.tag.forwardheaders = e.forwardheaders /\ args.tag.forwardpostdata = e.forwardpostdata
        BY <1>3 DEF AskingInv, EntryInv
    <2> HIDE DEF e, meant
    <2> QED BY <2>1, <2>2, DefaultsKeepKey
<1>5. told = (IF args.tag.forwardheaders.all THEN DOMAIN args.req.header
              ELSE DOMAIN args.req.header \cap Range(args.tag.forwardheaders.names))
                \ DropHeadersForward
    BY HeadersForwarded
<1> HIDE DEF kind, meant, told
<1>6. told = (IF meant.forwardheaders.all THEN names
              ELSE names \cap Range(meant.forwardheaders.names)) \ DropHeadersForward
    BY <1>3, <1>4, <1>5
<1>7. kind = "http" => DOMAIN sent.header = told
    <2>1. kind = "http" => sent = HTTPRequest(args)
        BY <1>3 DEF Message
    <2>2. DOMAIN HTTPRequest(args).header = told
        BY DEF HTTPRequest, told
    <2> QED BY <2>1, <2>2
<1>8. kind = "grpc" => DOMAIN sent.header = told /\ sent.body = IsPostAllowed(args)
    <2>1. kind = "grpc" => sent = GRPCMessage(args)
        BY <1>3 DEF Message
    <2>2. DOMAIN GRPCMessage(args).header = told
        BY DEF GRPCMessage, told
    <2>3. GRPCMessage(args).body = IsPostAllowed(args)
        BY DEF GRPCMessage
    <2> QED BY <2>1, <2>2, <2>3
<1>9. IsPostAllowed(args) => meant.forwardpostdata /\ client.request.body
    BY <1>3, <1>4 DEF IsPostAllowed
<1>10. kind \in {"http", "grpc"} => DOMAIN sent.header = told
    BY <1>7, <1>8
<1>11. kind = "grpc" /\ sent.body => meant.forwardpostdata /\ client.request.body
    BY <1>8, <1>9
<1> QED BY <1>6, <1>10, <1>11 DEF kind, meant

LEMMA AskingInvariant == PipelineSpec => []AskingInv
<1>1. PipelineInit => LimitsInv /\ KeysInv /\ MessageInv /\ EntryInv
    <2> HAVE PipelineInit
    <2>1. tags = <<>> /\ asked = <<>> /\ stage = "scanning" /\ sent = Unset
        BY DEF PipelineInit
    <2>2. DOMAIN tags = {} /\ DOMAIN asked = {}
        BY <2>1
    <2>3. KeysInv /\ MessageInv /\ EntryInv
        BY <2>1, <2>2 DEF KeysInv, MessageInv, EntryInv, Served
    <2> QED BY <2>3, LimitsStart
<1>2. ScannerInv /\ LimitsInv /\ KeysInv /\ MessageInv /\ EntryInv /\ [PipelineNext]_all
        => LimitsInv' /\ KeysInv' /\ MessageInv' /\ EntryInv'
    BY LimitsStep, KeysStep, MessageStep, EntryStep
<1>3. LimitsInv /\ KeysInv /\ MessageInv /\ EntryInv /\ WrittenInv /\ ParsedAsWritten => AskingInv
    BY DEF AskingInv
<1> QED BY <1>1, <1>2, <1>3, ScannerInvariant, WrittenInvariant, PTL DEF PipelineSpec

(* All resources of a tag are asked for the key that the page names, with  *)
(* the values of the request, for every page, Caddyfile and request        *)
(* (Entity.ParseRaw, Resource.DoRequest, replacer.Replace).                *)
THEOREM KeysAreAsWritten == PipelineSpec => []KeysAsWritten
<1>1. AskingInv => KeysAsWritten
    BY KeysNamed
<1> QED BY <1>1, AskingInvariant, PTL

(* A resource is told what the tag says: a program all of its arguments, a *)
(* server the headers that the tag asks for and, with grpc, a body only if *)
(* it asks for that (PrepareForwardHeaders, IsPostAllowed).                *)
THEOREM ResourcesAreTold == PipelineSpec => []ToldAsWritten
<1>1. AskingInv => ToldAsWritten
    BY Told
<1> QED BY <1>1, AskingInvariant, PTL
==============================================================================
