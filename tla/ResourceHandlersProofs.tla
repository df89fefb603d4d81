------------------------ MODULE ResourceHandlersProofs -------------------------
(***************************************************************************)
(* Proofs about ResourceHandlers: its types with the bound of the redis    *)
(* pool, and that a tag which alone forwards the data of a request sends   *)
(* all of it, for every set of calls, size of the pool and body.           *)
(***************************************************************************)
EXTENDS ResourceHandlers, FiniteSetTheorems, TLAPS

TypeInv == TypeOK /\ IsFiniteSet(inUse)

(* The pool has room before a connection is taken: one more fits *)
LEMMA OneMoreFits ==
    ASSUME NEW c, IsFiniteSet(inUse), Cardinality(inUse) < MaxActive
    PROVE  IsFiniteSet(inUse \cup {c}) /\ Cardinality(inUse \cup {c}) <= MaxActive
<1>1. Cardinality(inUse) \in Nat
    BY FS_CardinalityType
<1>2. IsFiniteSet(inUse \cup {c})
      /\ \/ Cardinality(inUse \cup {c}) = Cardinality(inUse) + 1
         \/ Cardinality(inUse \cup {c}) = Cardinality(inUse)
    BY FS_AddElement
<1> QED BY <1>1, <1>2, HandlerAssumption

(* A connection that is given back makes the set smaller *)
LEMMA OneLessFits ==
    ASSUME NEW c, IsFiniteSet(inUse), Cardinality(inUse) <= MaxActive
    PROVE  IsFiniteSet(inUse \ {c}) /\ Cardinality(inUse \ {c}) <= MaxActive
<1>1. Cardinality(inUse) \in Nat
    BY FS_CardinalityType
<1>2. IsFiniteSet(inUse \ {c})
      /\ \/ Cardinality(inUse \ {c}) = Cardinality(inUse) - 1
         \/ Cardinality(inUse \ {c}) = Cardinality(inUse)
    BY FS_RemoveElement
<1> QED BY <1>1, <1>2, HandlerAssumption

LEMMA TypeInit == Init => TypeInv
<1> SUFFICES ASSUME Init PROVE TypeInv
    OBVIOUS
<1>1. IsFiniteSet({}) /\ Cardinality({}) = 0
    BY FS_EmptySet
<1>2. IsFiniteSet(inUse) /\ Cardinality(inUse) <= MaxActive
    BY <1>1, HandlerAssumption DEF Init
<1>3. kind \in Kinds /\ isCancellable \in BOOLEAN
      /\ posting \in {"none", "one", "several"} /\ (posting # "none" => kind = "grpc")
    BY DEF Init
<1>4. left \in [Bodies -> SUBSET Parts] /\ reading \in [Calls -> Bodies] /\ body \in Bodies
    BY DEF Init, Bodies
<1> QED BY <1>2, <1>3, <1>4 DEF Init, TypeInv, TypeOK, CallerStates, WorkerStates

(* The steps of a call that are about the body of the request *)
LEMMA TypeBody ==
    ASSUME TypeInv, NEW c \in Calls, BodyStep(c) \/ ReadPart(c)
    PROVE  TypeInv'
<1> USE DEF TypeInv, TypeOK, config, post, Bodies
<1>1. CASE ReadBody(c)
    BY <1>1 DEF ReadBody, WorkerStates, Busy
<1>2. CASE ReadEnds(c)
    BY <1>2 DEF ReadEnds, WorkerStates, Busy
<1>3. CASE ReadFails(c)
    BY <1>3 DEF ReadFails, WorkerStates
<1>4. CASE CloseBody(c)
    BY <1>4 DEF CloseBody, WorkerStates, Busy
<1>5. CASE ReplaceBody(c)
    BY <1>5 DEF ReplaceBody, WorkerStates
<1>6. CASE ReadPart(c)
    BY <1>6 DEF ReadPart
<1> QED BY <1>1, <1>2, <1>3, <1>4, <1>5, <1>6 DEF BodyStep

(* The steps in which the store, the server or the program is asked *)
LEMMA TypeAsk ==
    ASSUME TypeInv, NEW c \in Calls, AskStep(c)
    PROVE  TypeInv'
<1> USE DEF TypeInv, TypeOK, config, post
<1>1. CASE Get(c)
    <2>1. IsFiniteSet(inUse') /\ Cardinality(inUse') <= MaxActive
        BY <1>1, OneMoreFits DEF Get
    <2> QED BY <1>1, <2>1 DEF Get, WorkerStates
<1>2. CASE GetFails(c)
    BY <1>2 DEF GetFails, WorkerStates
<1>3. CASE AskFails(c)
    BY <1>3 DEF AskFails, WorkerStates
<1>4. ASSUME NEW k, Asks(c, k) PROVE TypeInv'
    BY <1>4 DEF Asks, WorkerStates
<1> QED BY <1>1, <1>2, <1>3, <1>4
        DEF AskStep, MemcacheAsks, HTTPAsks, ShellAsks, GRPCAsks

(* The steps that end a question *)
LEMMA TypeAnswer ==
    ASSUME TypeInv, NEW c \in Calls,
           \/ RedisAnswers(c) \/ MemcacheAnswers(c) \/ HTTPAnswers(c)
           \/ ShellAnswers(c) \/ GRPCAnswers(c) \/ Interrupted(c)
    PROVE  TypeInv'
<1> USE DEF TypeInv, TypeOK, config, post
<1>1. ASSUME NEW k, Answers(c, k) PROVE TypeInv'
    BY <1>1 DEF Answers, WorkerStates
<1>2. CASE Interrupted(c)
    BY <1>2 DEF Interrupted, WorkerStates
<1> QED BY <1>1, <1>2
        DEF RedisAnswers, MemcacheAnswers, HTTPAnswers, ShellAnswers, GRPCAnswers

LEMMA TypeStep == TypeInv /\ [Next]_vars => TypeInv'
<1> SUFFICES ASSUME TypeInv, [Next]_vars PROVE TypeInv'
    OBVIOUS
<1>1. CASE Close
    BY <1>1 DEF Close, TypeInv, TypeOK, config, post
<1>2. CASE BodyBreaks
    BY <1>2 DEF BodyBreaks, TypeInv, TypeOK, config, post
<1>3. CASE UNCHANGED vars
    BY <1>3 DEF vars, TypeInv, TypeOK, config, post
<1>4. ASSUME NEW c \in Calls, Reject(c) \/ Begin(c) \/ ContextEnds(c) PROVE TypeInv'
    BY <1>4 DEF Reject, Begin, ContextEnds, TypeInv, TypeOK, config, post,
                CallerStates, WorkerStates
<1>5. ASSUME NEW c \in Calls, Deliver(c) PROVE TypeInv'
    BY <1>5 DEF Deliver, TypeInv, TypeOK, config, post, CallerStates, WorkerStates, Bodies
<1>6. ASSUME NEW c \in Calls, Release(c) PROVE TypeInv'
    <2>1. IsFiniteSet(inUse') /\ Cardinality(inUse') <= MaxActive
        BY <1>6, OneLessFits DEF Release, TypeInv, TypeOK
    <2> QED BY <1>6, <2>1 DEF Release, TypeInv, TypeOK, config, post, WorkerStates
<1> QED BY <1>1, <1>2, <1>3, <1>4, <1>5, <1>6, TypeBody, TypeAsk, TypeAnswer DEF Next

(* TypeOK: every variable of a handler keeps its type, and redis never has *)
(* more connections in use than max_active.                                *)
THEOREM HandlersTypeCorrect == Spec => []TypeOK
<1>1. TypeInv => TypeOK
    BY DEF TypeInv
<1> QED BY <1>1, TypeInit, TypeStep, PTL DEF Spec

-------------------------------------------------------------------------------
(* The body of a request whose data one tag alone forwards.  Its calls     *)
(* follow each other: the one that waits has the body to itself.           *)

Active == {"get", "ready", "asking", "value", "error", "refused"} \cup Busy

OneWaits ==
    /\ \A c \in Calls : caller[c] = "waiting" <=> worker[c] \in Active
    /\ \A c, d \in Calls : worker[c] \in Active /\ worker[d] \in Active => c = d

(* Nobody can have the body of a client that left in the middle *)
Spoilt == body = Original /\ original = "broken"

(* What has been read and what is left are the whole body together *)
HalfRead(c) == /\ reading[c] = body
               /\ Spoilt \/ left[body] \cup posted[c] = Parts
               /\ body = Original => original # "closed"

(* Between two readers the body is whole, and not closed *)
BodyReady == \/ Spoilt
             \/ left[body] = Parts /\ (body = Original => original = "open")

ReadOK(c) == /\ worker[c] \notin Active \ {"get"} => posted[c] = {}
             /\ worker[c] = "reading" => HalfRead(c)
             /\ worker[c] \in {"closing", "replacing", "ready", "asking", "value"} =>
                    posted[c] = Parts
             /\ worker[c] = "refused" => original = "broken"

BodyInv == posting = "one" =>
    /\ OneWaits
    /\ \A c \in Calls : ReadOK(c)
    /\ (\A c \in Calls : worker[c] \notin Busy) => BodyReady

LEMMA BodyInit == Init => BodyInv
BY HandlerAssumption
   DEF Init, BodyInv, OneWaits, ReadOK, BodyReady, Active, Busy, Bodies

(* Only the calls of a store can be cancelled *)
CancelsStores == isCancellable => kind \in Stores

(* The steps that hand the body on.  Nobody but c is active.               *)
LEMMA BodySteps ==
    ASSUME TypeOK, BodyInv, posting = "one", NEW c \in Calls, BodyStep(c) \/ ReadPart(c)
    PROVE  BodyInv'
<1> USE DEF BodyInv, OneWaits, Active, Busy, config, post
<1>1. \A d \in Calls \ {c} : worker[d] \notin Active
    BY DEF BodyStep, ReadBody, ReadEnds, ReadFails, CloseBody, ReplaceBody, ReadPart
<1>2. posting' = "one" /\ caller' = caller /\ worker' \in [Calls -> WorkerStates]
      /\ (\A d \in Calls \ {c} : worker'[d] = worker[d] /\ posted'[d] = posted[d])
      /\ worker[c] \in Active /\ worker'[c] \in Active
    BY DEF BodyStep, ReadBody, ReadEnds, ReadFails, CloseBody, ReplaceBody, ReadPart,
           TypeOK, WorkerStates
<1>3. OneWaits'
    BY <1>1, <1>2
<1>4. \A d \in Calls \ {c} : ReadOK(d)'
    BY <1>1, <1>2 DEF ReadOK
<1>5. ReadOK(c)
    OBVIOUS
<1>6. CASE ReadBody(c)
    <2>1. BodyReady /\ posted[c] = {}
        BY <1>1, <1>5, <1>6 DEF ReadBody, ReadOK
    <2>2. HalfRead(c)' /\ worker'[c] = "reading"
        BY <1>6, <2>1 DEF ReadBody, BodyReady, HalfRead, Spoilt, TypeOK
    <2> QED BY <1>2, <1>3, <1>4, <2>2 DEF ReadOK
<1>7. CASE ReadPart(c)
    <2>1. HalfRead(c)
        BY <1>5, <1>7 DEF ReadPart, ReadOK
    <2>2. HalfRead(c)' /\ worker'[c] = "reading"
        BY <1>7, <2>1 DEF ReadPart, HalfRead, Spoilt, TypeOK
    <2> QED BY <1>2, <1>3, <1>4, <2>2 DEF ReadOK
<1>8. CASE ReadEnds(c)
    <2>1. posted'[c] = Parts /\ worker'[c] = "closing"
        BY <1>5, <1>8 DEF ReadEnds, ReadOK, HalfRead, Spoilt, Readable, TypeOK
    <2> QED BY <1>2, <1>3, <1>4, <2>1 DEF ReadOK
<1>9. CASE ReadFails(c)
    <2>1. Spoilt /\ worker'[c] = "refused"
        BY <1>5, <1>9 DEF ReadFails, ReadOK, HalfRead, Spoilt, Readable, TypeOK
    <2>2. Spoilt'
        BY <1>9, <2>1 DEF ReadFails, Spoilt
    <2> QED BY <1>2, <1>3, <1>4, <2>1, <2>2 DEF ReadOK, BodyReady, Spoilt
<1>10. CASE CloseBody(c)
    <2>1. posted'[c] = Parts /\ worker'[c] = "replacing"
        BY <1>5, <1>10 DEF CloseBody, ReadOK, TypeOK
    <2> QED BY <1>2, <1>3, <1>4, <2>1 DEF ReadOK
<1>11. CASE ReplaceBody(c)
    <2>1. posted'[c] = Parts /\ worker'[c] = "ready"
        BY <1>5, <1>11 DEF ReplaceBody, ReadOK, TypeOK
    <2>2. BodyReady'
        BY <1>5, <1>11, HandlerAssumption DEF ReplaceBody, ReadOK, BodyReady, TypeOK, Bodies
    <2> QED BY <1>2, <1>3, <1>4, <2>1, <2>2 DEF ReadOK
<1> QED BY <1>6, <1>7, <1>8, <1>9, <1>10, <1>11 DEF BodyStep

(* The other steps of the active call leave the body alone *)
LEMMA AnswerSteps ==
    ASSUME TypeOK, BodyInv, posting = "one", kind = "grpc", NEW c \in Calls,
           AskStep(c) \/ GRPCAnswers(c) \/ Interrupted(c)
    PROVE  BodyInv'
<1> USE DEF BodyInv, OneWaits, Active, Busy, config, post
<1>1. /\ posting' = "one" /\ caller' = caller /\ UNCHANGED post
      /\ \A d \in Calls \ {c} : worker'[d] = worker[d]
      /\ worker[c] \in {"ready", "asking"} /\ worker'[c] \in {"asking", "value", "error"}
    BY DEF AskStep, Get, GetFails, AskFails, Prepared, Asks, MemcacheAsks, HTTPAsks,
           ShellAsks, GRPCAsks, GRPCAnswers, Answers, Interrupted, TypeOK, Stores
<1>2. \A d \in Calls : ReadOK(d)'
    BY <1>1 DEF ReadOK, HalfRead, Spoilt
<1>3. OneWaits'
    BY <1>1
<1>4. (\A d \in Calls : worker'[d] \notin Busy) => BodyReady'
    BY <1>1 DEF BodyReady, Spoilt
<1> QED BY <1>1, <1>2, <1>3, <1>4

(* A call begins when no other is active, and ends *)
LEMMA CallSteps ==
    ASSUME TypeOK, BodyInv, posting = "one", kind = "grpc", ~isCancellable, NEW c \in Calls,
           Reject(c) \/ Begin(c) \/ Deliver(c) \/ Release(c) \/ ContextEnds(c)
    PROVE  BodyInv'
<1> USE DEF BodyInv, config, post
<1>1. CASE Reject(c)
    BY <1>1 DEF Reject, OneWaits, ReadOK, HalfRead, BodyReady, Spoilt, TypeOK
<1>2. CASE Begin(c)
    <2>1. \A d \in Calls : worker[d] \notin Active
        BY <1>2 DEF Begin, OneWaits
    <2>2. OneWaits'
        BY <1>2, <2>1 DEF Begin, OneWaits, TypeOK, Active
    <2>3. /\ posting' = "one" /\ UNCHANGED post
          /\ \A d \in Calls \ {c} : worker'[d] = worker[d]
          /\ worker'[c] = "get"
        BY <1>2 DEF Begin, TypeOK
    <2>4. \A d \in Calls : ReadOK(d)'
        BY <2>1, <2>3 DEF ReadOK, Active, Busy
    <2>5. BodyReady'
        BY <2>1, <2>3 DEF BodyReady, Spoilt, Active
    <2> QED BY <2>2, <2>3, <2>4, <2>5
<1>3. CASE Deliver(c)
    <2>1. /\ posting' = "one" /\ body' = body /\ original' = original /\ left' = left
          /\ \A d \in Calls \ {c} : worker'[d] = worker[d] /\ posted'[d] = posted[d]
                                    /\ reading'[d] = reading[d] /\ caller'[d] = caller[d]
          /\ worker[c] \in {"value", "error", "refused"} /\ worker'[c] = "release"
          /\ posted'[c] = {} /\ caller'[c] # "waiting"
        BY <1>3 DEF Deliver, TypeOK
    <2>2. OneWaits'
        BY <2>1 DEF OneWaits, Active, Busy
    <2>3. \A d \in Calls : ReadOK(d)'
        BY <2>1 DEF ReadOK, HalfRead, Spoilt, Active, Busy
    <2>4. (\A d \in Calls : worker'[d] \notin Busy) => BodyReady'
        BY <2>1 DEF BodyReady, Spoilt, Busy
    <2> QED BY <2>1, <2>2, <2>3, <2>4
<1>4. CASE Release(c)
    <2>1. /\ posting' = "one" /\ caller' = caller /\ UNCHANGED post
          /\ \A d \in Calls \ {c} : worker'[d] = worker[d]
          /\ worker[c] = "release" /\ worker'[c] = "ended"
        BY <1>4 DEF Release, TypeOK
    <2>2. OneWaits'
        BY <2>1 DEF OneWaits, Active, Busy
    <2>3. \A d \in Calls : ReadOK(d)'
        BY <2>1 DEF ReadOK, HalfRead, Spoilt, Active, Busy
    <2>4. (\A d \in Calls : worker'[d] \notin Busy) => BodyReady'
        BY <2>1 DEF BodyReady, Spoilt, Busy
    <2> QED BY <2>1, <2>2, <2>3, <2>4
<1>5. ~ContextEnds(c)
    BY DEF ContextEnds
<1> QED BY <1>1, <1>2, <1>3, <1>4, <1>5

LEMMA BodyStepInv ==
    ASSUME TypeOK, BodyInv, CancelsStores, [Next]_vars
    PROVE  BodyInv'
<1> SUFFICES ASSUME posting' = "one" PROVE BodyInv'
    BY DEF BodyInv
<1>1. CASE UNCHANGED vars
    BY <1>1 DEF vars, config, post, BodyInv, OneWaits, ReadOK, HalfRead, BodyReady, Spoilt
<1>2. ASSUME Next PROVE posting = "one" /\ kind = "grpc" /\ ~isCancellable
    <2>1. posting' = posting
        BY <1>2 DEF Next, Close, BodyBreaks, Reject, Begin, AskStep, Get, GetFails, AskFails,
            MemcacheAsks, HTTPAsks, ShellAsks, GRPCAsks, Asks, BodyStep, ReadBody, ReadEnds,
            ReadFails, CloseBody, ReplaceBody, ReadPart, RedisAnswers, MemcacheAnswers,
            HTTPAnswers, ShellAnswers, GRPCAnswers, Answers, Interrupted, Deliver, Release,
            ContextEnds, config
    <2> QED BY <2>1 DEF TypeOK, CancelsStores, Stores
<1>3. CASE Close
    BY <1>3 DEF Close, config, post, BodyInv, OneWaits, ReadOK, HalfRead, BodyReady, Spoilt
<1>4. CASE BodyBreaks
    BY <1>4 DEF BodyBreaks, config, post, BodyInv, OneWaits, ReadOK, HalfRead, BodyReady, Spoilt
<1>5. ASSUME NEW c \in Calls,
             \/ RedisAnswers(c) \/ MemcacheAnswers(c) \/ HTTPAnswers(c) \/ ShellAnswers(c)
      PROVE  kind # "grpc"
    BY <1>5 DEF RedisAnswers, MemcacheAnswers, HTTPAnswers, ShellAnswers, Answers
<1> QED BY <1>1, <1>2, <1>3, <1>4, <1>5, BodySteps, AnswerSteps, CallSteps DEF Next

LEMMA CancelsStep == CancelsStores /\ [Next]_vars => CancelsStores'
BY DEF CancelsStores, Next, Close, BodyBreaks, Reject, Begin, AskStep, Get, GetFails, AskFails,
       MemcacheAsks, HTTPAsks, ShellAsks, GRPCAsks, Asks, BodyStep, ReadBody, ReadEnds,
       ReadFails, CloseBody, ReplaceBody, ReadPart, RedisAnswers, MemcacheAnswers,
       HTTPAnswers, ShellAnswers, GRPCAnswers, Answers, Interrupted, Deliver, Release,
       ContextEnds, config, vars

(* PostsWholeBody: what one tag alone forwards arrives whole at each of    *)
(* its resources, for any number of them and any body.                     *)
THEOREM WholeBodyPosted == Spec => []PostsWholeBody
<1>1. BodyInv => PostsWholeBody
    BY DEF BodyInv, PostsWholeBody, ReadOK
<1>2. Init => CancelsStores
    BY DEF Init, CancelsStores
<1>3. TypeInv => TypeOK
    BY DEF TypeInv
<1> QED BY <1>1, <1>2, <1>3, TypeInit, TypeStep, BodyInit, BodyStepInv, CancelsStep, PTL DEF Spec
===============================================================================
