--------------------------- MODULE ResponseWriters ---------------------------
(***************************************************************************)
(* The two writers through which the next handler answers a request:       *)
(*   - injecting (response_proxy_inject.go): the tags are known, every     *)
(*     chunk goes through InjectContent to the client;                     *)
(*   - buffered (response_proxy_buf.go, Middleware.serveBuffered): the     *)
(*     whole page is collected, parsed, and then injected at once.         *)
(* Both hold back the headers of the handler and correct its               *)
(* Content-Length by what the injection adds.                              *)
(*                                                                         *)
(* A header is a sequence of at most one value, as is an answer's head.    *)
(***************************************************************************)
EXTENDS InjectContent, FiniteSetsExt

CONSTANTS DataLens,     \* the lengths of the data of the tags, by index
          Codes         \* the status codes of the handler

ASSUME WriterAssumption ==
    /\ DataLens \in Seq(Nat) /\ Len(DataLens) >= MaxTags
    /\ Codes \subseteq Nat \ {0}

VARIABLES
    kind,          \* the writer: "injecting" or "buffered"
    isText,        \* isResponseAllowed of the page
    declared,      \* the Content-Length header of the handler
    asked,         \* history: the status the handler set before the first byte
    written,       \* bytes the handler has written
    code,          \* bufferedWriter.code: 0 none
    wroteHeader,   \* injectingWriter.wroteHeader
    head,          \* what the client got: status and Content-Length
    returned       \* "no", or how the handler returned: "ok" or "failed"

handler    == <<kind, isText, declared>>
writerVars == <<handler, asked, written, code, wroteHeader, head, returned, vars>>

WriterInit ==
    /\ Init
    /\ kind \in {"injecting", "buffered"} /\ isText \in BOOLEAN
    /\ kind = "buffered" => OwnTags
    /\ declared \in {<<>>, <<PageLen>>}
    /\ asked = <<>> /\ written = 0 /\ code = 0 /\ wroteHeader = FALSE
    /\ head = <<>> /\ returned = "no"

-------------------------------------------------------------------------------
(* Content-Length *)

(* Variant of DataLen: the tags themselves are not subtracted *)
BadDataLen == MapThenSumSet(LAMBDA i : DataLens[i], DOMAIN tags)

(* What the injection of all tags adds to the page; it may be negative *)
DataLen == MapThenSumSet(LAMBDA i : DataLens[i] - (tags[i].end - tags[i].start), DOMAIN tags)

(* The correction of a header; what is absent counts as zero *)
Corrected(length, add) ==
    IF add = 0 THEN length ELSE <<add + (IF length = <<>> THEN 0 ELSE length[1])>>

(* The client's writer keeps the first head only *)
Sent(status, length) == IF head # <<>> THEN head
                        ELSE <<[status |-> status, length |-> length]>>

-------------------------------------------------------------------------------
(* The next handler *)

(* It is at work.  A panic of the injection goes through it and ends the   *)
(* request.                                                                *)
Handling == returned = "no" /\ ~Panics(out)

(* The injecting writer waits for the tags and sends the corrected headers *)
SendHeader(c) ==
    /\ kind = "injecting" /\ ~wroteHeader
    /\ wroteHeader' = TRUE
    /\ head' = Sent(c, Corrected(declared, DataLen))
    /\ UNCHANGED code

(* Variant of RememberStatus: the last call counts *)
BadRememberStatus(c) ==
    /\ kind = "buffered"
    /\ code' = c
    /\ UNCHANGED <<wroteHeader, head>>

(* The buffered writer remembers the first status *)
RememberStatus(c) ==
    /\ kind = "buffered" /\ code = 0
    /\ code' = c
    /\ UNCHANGED <<wroteHeader, head>>

(* The handler calls WriteHeader, as it should before its page, or later *)
WriteHeader(c) ==
    /\ Handling
    /\ SendHeader(c) \/ RememberStatus(c)
    /\ asked' = IF asked = <<>> /\ written = 0 THEN <<c>> ELSE asked
    /\ UNCHANGED <<handler, written, returned, vars>>

Bytes(from, to) == [k \in 1..(to - from) |-> from + k - 1]

(* The injecting writer.  A body without a head gets the status 200, and   *)
(* the headers of the handler stay behind.  What is no text passes through.*)
WriteInjecting(n) ==
    /\ kind = "injecting"
    /\ head' = Sent(200, <<>>)
    /\ \/ isText /\ Call(n)
       \/ /\ ~isText
          /\ out' = out \o Bytes(written, written + n)
          /\ UNCHANGED <<tags, streamPrev, streamCur, writeStates, cuts>>

WriteNext(n) ==
    /\ Handling
    /\ written' = written + n
    /\ \/ WriteInjecting(n)
       \/ kind = "buffered" /\ UNCHANGED <<head, vars>>
    /\ UNCHANGED <<handler, asked, code, wroteHeader, returned>>

(* The handler writes the next part of the page *)
WritePart == \E n \in 1..(PageLen - written) :
                (n >= MinChunk \/ n = PageLen - written) /\ WriteNext(n)

(* serveBuffered after the handler: the buffered page goes to the client,  *)
(* and the tags of its text are replaced; the empty page has none.         *)
TriggerRealWrite ==
    \/ /\ written > 0 /\ isText
       /\ head' = Sent(code, Corrected(declared, DataLen))
       /\ Call(PageLen)
    \/ /\ written = 0 \/ ~isText
       /\ head' = Sent(code, declared)
       /\ out' = Bytes(0, written)
       /\ UNCHANGED <<tags, streamPrev, streamCur, writeStates, cuts>>

(* The handler has written its page, or nothing *)
Return ==
    /\ Handling /\ written \in {0, PageLen}
    /\ returned' = "ok"
    /\ \/ kind = "buffered" /\ TriggerRealWrite
       \/ kind = "injecting" /\ UNCHANGED <<head, vars>>
    /\ UNCHANGED <<handler, asked, written, code, wroteHeader>>

(* The handler returns an error; a buffered page is thrown away *)
Fail ==
    /\ Handling
    /\ returned' = "failed"
    /\ UNCHANGED <<handler, asked, written, code, wroteHeader, head, vars>>

WriterNext == (\E c \in Codes : WriteHeader(c)) \/ WritePart \/ Return \/ Fail

WriterSpec == WriterInit /\ [][WriterNext]_writerVars

-------------------------------------------------------------------------------
(* Properties *)

(* What has reached the client *)
BodyLen == MapThenSumSet(LAMBDA k : IF out[k] < 0 THEN DataLens[-out[k]] ELSE 1, DOMAIN out)
Injects == isText /\ written > 0

WritersTypeOK ==
    /\ TypeOK
    /\ kind \in {"injecting", "buffered"} /\ isText \in BOOLEAN
    /\ declared \in {<<>>, <<PageLen>>} /\ Len(asked) <= 1
    /\ written \in 0..PageLen /\ streamCur \in {0, written}
    /\ code \in Codes \cup {0} /\ wroteHeader \in BOOLEAN
    /\ returned \in {"no", "ok", "failed"} /\ (Panics(out) => returned = "no")
    /\ head = <<>> \/ head[1].status \in Codes \cup {0, 200}

(* Chunks that respect the tags of their page come out with these replaced,*)
(* each byte once and in its place; a buffered page always does but for a  *)
(* tag at its start.  What is no text comes out as it was.                 *)
PageAsItShouldBe ==
    IF Injects THEN ReplacedIfRespected
    ELSE out = IF kind = "buffered" /\ returned # "ok" THEN <<>> ELSE Bytes(0, written)

(* The status that the handler set first, and before its page, is the one  *)
(* that the client gets, through either writer.                            *)
StatusKept == returned = "ok" /\ asked # <<>> => head # <<>> /\ head[1].status = asked[1]

(* A handler that declares the length of its page has the length of the    *)
(* page with its tags replaced sent ahead of it: what DataLen foresees     *)
(* before the first chunk is what InjectContent then writes.  Premises:    *)
(* WriteHeader before the page, tags of the page, chunks that respect      *)
(* them, and text when the writer decides on the length before it sees the *)
(* page.                                                                   *)
LengthMatches ==
    /\ returned = "ok" /\ written = PageLen
    /\ asked # <<>> /\ declared = <<PageLen>>
    /\ OwnTags /\ ChunksRespectTags
    /\ kind = "buffered" \/ isText
    => head[1].length = <<BodyLen>>
===============================================================================
