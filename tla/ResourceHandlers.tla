-------------------------- MODULE ResourceHandlers --------------------------
(***************************************************************************)
(* The resource handlers (esitag/backend): each call of DoRequest asks one *)
(* server, program or key-value store.                                     *)
(*   - redis: over a connection of a bounded pool, given back at the end   *)
(*   - memcache: over connections that its client manages                  *)
(*   - http, shell: in a context that ends with the timeout of the tag     *)
(*   - grpc: over one connection, in the context of the request            *)
(* With the parameter cancellable=1 of redis and memcache a worker         *)
(* goroutine does the work and hands the outcome to the call over one of   *)
(* two unbuffered channels, while the call also waits for the end of its   *)
(* context.  The shell has a worker too, otherwise the call does the work  *)
(* itself.  The call and its worker are told apart here in all cases.      *)
(*                                                                         *)
(* The calls are those of one request.  With forwardpostdata a grpc call   *)
(* reads its body, closes it and leaves a copy to the next call.  That no  *)
(* one else reads it is presumed: neither the next handler nor a           *)
(* placeholder {F...}, which parses a form.                                *)
(***************************************************************************)
EXTENDS Naturals, FiniteSets

CONSTANTS Calls,        \* the calls of DoRequest
          MaxActive,    \* the parameter max_active of redis: connections of its pool
          Parts,        \* the numbers of the parts that the body is read in
          Original      \* the body as the server has it, which the client sends

ASSUME HandlerAssumption == /\ MaxActive \in Nat \ {0}
                            /\ Parts \subseteq Nat /\ Original \notin Calls

VARIABLES caller,   \* [Calls -> ...]: where DoRequest is
          worker,   \* [Calls -> ...]: where the code that asks the store is
          inUse,    \* the workers that have a connection of the pool
          open,     \* the pool or the connection of the handler is open
          kind,     \* the handler, one of Kinds
          isCancellable,  \* the parameter cancellable of a store's URL
          posting,    \* which tags of the request forward its data: none, one or several
          body,       \* r.Body: Original, or the call that left a copy
          original,   \* the original body is open, closed or broken
          left,       \* [bodies -> ...]: the parts that can still be read
          reading,    \* [Calls -> ...]: the body that the call reads
          posted      \* [Calls -> ...]: the parts that the call has read

config == <<kind, isCancellable, posting>>      \* they never change
post   == <<body, original, left, reading, posted>>
vars   == <<caller, worker, inUse, open, config, post>>

Kinds  == {"redis", "memcache", "http", "shell", "grpc"}
Stores == {"redis", "memcache"}

CallerStates == {"idle", "waiting", "answered", "failed", "cancelled"}
Busy         == {"reading", "closing", "replacing"}
WorkerStates == {"none", "get", "ready", "asking", "value", "error", "refused", "release", "ended"} \cup Busy
Bodies       == Calls \cup {Original}

TypeOK == /\ caller \in [Calls -> CallerStates]
          /\ worker \in [Calls -> WorkerStates]
          /\ inUse \subseteq Calls /\ Cardinality(inUse) <= MaxActive
          /\ open \in BOOLEAN /\ isCancellable \in BOOLEAN
          /\ kind \in Kinds /\ (kind # "redis" => inUse = {})
          /\ posting \in {"none", "one", "several"} /\ (posting # "none" => kind = "grpc")
          /\ body \in Bodies /\ original \in {"open", "closed", "broken"}
          /\ left \in [Bodies -> SUBSET Parts] /\ posted \in [Calls -> SUBSET Parts]
          /\ reading \in [Calls -> Bodies]

Init == /\ caller = [c \in Calls |-> "idle"]
        /\ worker = [c \in Calls |-> "none"]
        /\ inUse = {}
        /\ open = TRUE
        /\ kind \in Kinds
        /\ isCancellable \in IF kind \in Stores THEN BOOLEAN ELSE {FALSE}
        /\ posting \in IF kind = "grpc" THEN {"none", "one", "several"} ELSE {"none"}
        /\ body = Original /\ original = "open"
        /\ left = [b \in Bodies |-> Parts]
        /\ reading = [c \in Calls |-> Original]
        /\ posted = [c \in Calls |-> {}]

(* Validate or ValidateWithKey fails *)
Reject(c) == /\ caller[c] = "idle"
             /\ caller' = [caller EXCEPT ![c] = "failed"]
             /\ UNCHANGED <<worker, inUse, open, config, post>>

(* One tag asks its resources one after the other, until one answers *)
Begin(c) == /\ caller[c] = "idle"
            /\ posting = "one" => \A d \in Calls : caller[d] \notin {"waiting", "answered"}
            /\ caller' = [caller EXCEPT ![c] = "waiting"]
            /\ worker' = [worker EXCEPT ![c] = "get"]
            /\ UNCHANGED <<inUse, open, config, post>>

(* Variant of Get: a connection in use does not count as active *)
BadGet(c) == /\ kind = "redis" /\ worker[c] = "get" /\ open
             /\ worker' = [worker EXCEPT ![c] = "asking"]
             /\ inUse' = inUse \cup {c}
             /\ UNCHANGED <<caller, open, config, post>>

(* pool.Get: an idle connection or a new one, if there may be one more *)
Get(c) == /\ kind = "redis" /\ worker[c] = "get" /\ open
          /\ Cardinality(inUse) < MaxActive
          /\ worker' = [worker EXCEPT ![c] = "asking"]
          /\ inUse' = inUse \cup {c}
          /\ UNCHANGED <<caller, open, config, post>>

(* The pool is exhausted or closed, or the server does not accept: redis   *)
(* gets a connection on which every command fails, memcache an error       *)
GetFails(c) == /\ kind \in Stores /\ worker[c] = "get"
               /\ worker' = [worker EXCEPT ![c] = "error"]
               /\ UNCHANGED <<caller, inUse, open, config, post>>

-------------------------------------------------------------------------------
(* The body: r := args.ExternalReq, ioutil.ReadAll(r.Body) *)

ReadBody(c) == /\ posting # "none" /\ worker[c] = "get"
               /\ worker'  = [worker EXCEPT ![c] = "reading"]
               /\ reading' = [reading EXCEPT ![c] = body]
               /\ UNCHANGED <<caller, inUse, open, config, body, original, left, posted>>

Readable(c) == reading[c] = Original => original = "open"
ReadByOther(c) == \E d \in Calls \ {c} : worker[d] = "reading" /\ reading[d] = reading[c]

(* The server's body has a lock, a copy has none: two calls that read it   *)
(* at the same time may get the same part                                  *)
ReadPart(c) ==
    /\ worker[c] = "reading" /\ Readable(c)
    /\ \E part \in left[reading[c]] \ posted[c] :
          /\ \A p \in left[reading[c]] \ posted[c] : part <= p
          /\ posted' = [posted EXCEPT ![c] = @ \cup {part}]
          /\ \/ left' = [left EXCEPT ![reading[c]] = @ \ {part}]
             \/ reading[c] # Original /\ ReadByOther(c) /\ UNCHANGED left
    /\ UNCHANGED <<caller, worker, inUse, open, config, body, original, reading>>

ReadEnds(c) == /\ worker[c] = "reading" /\ Readable(c)
               /\ left[reading[c]] \subseteq posted[c]
               /\ worker' = [worker EXCEPT ![c] = "closing"]
               /\ UNCHANGED <<caller, inUse, open, config, post>>

(* Another call has closed the body, or the client is gone.  The call      *)
(* closes it, too, and fails                                               *)
ReadFails(c) == /\ worker[c] = "reading" /\ ~Readable(c)
                /\ worker' = [worker EXCEPT ![c] = "refused"]
                /\ UNCHANGED <<caller, inUse, open, config, post>>

(* r.Body.Close(): a copy has nothing to close *)
CloseBody(c) == /\ worker[c] = "closing"
                /\ worker'   = [worker EXCEPT ![c] = "replacing"]
                /\ original' = IF reading[c] = Original THEN "closed" ELSE original
                /\ UNCHANGED <<caller, inUse, open, config, body, left, reading, posted>>

(* Variant of ReplaceBody: the body is not replaced *)
BadReplaceBody(c) == /\ worker[c] = "replacing"
                     /\ worker' = [worker EXCEPT ![c] = "ready"]
                     /\ UNCHANGED <<caller, inUse, open, config, post>>

ReplaceBody(c) == /\ worker[c] = "replacing"
                  /\ worker' = [worker EXCEPT ![c] = "ready"]
                  /\ body'   = c
                  /\ left'   = [left EXCEPT ![c] = posted[c]]
                  /\ UNCHANGED <<caller, inUse, open, config, original, reading, posted>>

(* The client of the request leaves before all of the body was read *)
BodyBreaks == /\ posting # "none" /\ original = "open"
              /\ original' = "broken"
              /\ UNCHANGED <<caller, worker, inUse, open, config, body, left, reading, posted>>

-------------------------------------------------------------------------------
(* The other handlers ask at once, or fail to put the question together *)
Prepared(c) == worker[c] = IF posting = "none" THEN "get" ELSE "ready"

Asks(c, k) == /\ kind = k /\ Prepared(c)
              /\ worker' = [worker EXCEPT ![c] = "asking"]
              /\ UNCHANGED <<caller, inUse, open, config, post>>
AskFails(c) == /\ kind \in {"http", "shell", "grpc"} /\ Prepared(c)
               /\ worker' = [worker EXCEPT ![c] = "error"]
               /\ UNCHANGED <<caller, inUse, open, config, post>>

(* The client of memcache opens as many connections as it needs *)
MemcacheAsks(c) == Asks(c, "memcache")
HTTPAsks(c)     == Asks(c, "http")
ShellAsks(c)    == Asks(c, "shell")
GRPCAsks(c)     == open /\ Asks(c, "grpc")

(* The answer is a value, or it is none: not found, a status other than    *)
(* 200, an exit code, or another error, as that of grpc when the client    *)
(* of the request has left                                                 *)
Answers(c, k) == /\ kind = k /\ worker[c] = "asking"
                 /\ \E outcome \in {"value", "error"} :
                       worker' = [worker EXCEPT ![c] = outcome]
                 /\ UNCHANGED <<caller, inUse, open, config, post>>

RedisAnswers(c) == Answers(c, "redis")
(* At the latest when the timeout of its client, idle_timeout, has passed; *)
(* its connection has been put back                                        *)
MemcacheAnswers(c) == Answers(c, "memcache")
HTTPAnswers(c)  == Answers(c, "http")
ShellAnswers(c) == Answers(c, "shell")
GRPCAnswers(c)  == Answers(c, "grpc")

(* The context with the timeout of the tag interrupts the transfer or kills *)
(* the program; with grpc it is the close of the connection that does       *)
Interrupted(c) == /\ worker[c] = "asking"
                  /\ kind \in {"http", "shell"} \/ (kind = "grpc" /\ ~open)
                  /\ worker' = [worker EXCEPT ![c] = "error"]
                  /\ UNCHANGED <<caller, inUse, open, config, post>>

(* The call gets the outcome: with cancellable=1 the send on content or    *)
(* retErr meets its select.  Without, it is at its return statement, and   *)
(* what it deferred follows with Release.  What it has read of the body    *)
(* was its own.                                                            *)
Deliver(c) ==
    /\ worker[c] \in {"value", "error", "refused"} /\ caller[c] = "waiting"
    /\ caller' = [caller EXCEPT ![c] = IF worker[c] = "value" THEN "answered" ELSE "failed"]
    /\ worker' = [worker EXCEPT ![c] = "release"]
    /\ posted' = [posted EXCEPT ![c] = {}]
    /\ reading' = [reading EXCEPT ![c] = Original]
    /\ UNCHANGED <<inUse, open, config, body, original, left>>

(* Variant of Release: the connection is not given back after an error *)
BadRelease(c) == /\ worker[c] = "release"
                 /\ worker' = [worker EXCEPT ![c] = "ended"]
                 /\ inUse' = IF caller[c] = "failed" THEN inUse ELSE inUse \ {c}
                 /\ UNCHANGED <<caller, open, config, post>>

(* The worker ends; redis: defer conn.Close() *)
Release(c) == /\ worker[c] = "release"
              /\ worker' = [worker EXCEPT ![c] = "ended"]
              /\ inUse' = inUse \ {c}
              /\ UNCHANGED <<caller, open, config, post>>

(* Variant of ContextEnds: the context is not watched once a connection was taken *)
BadContextEnds(c) == /\ isCancellable /\ caller[c] = "waiting" /\ c \notin inUse
                     /\ caller' = [caller EXCEPT ![c] = "cancelled"]
                     /\ UNCHANGED <<worker, inUse, open, config, post>>

(* The timeout of the tag passes or the client leaves, and the select      *)
(* takes this branch                                                       *)
ContextEnds(c) == /\ isCancellable /\ caller[c] = "waiting"
                  /\ caller' = [caller EXCEPT ![c] = "cancelled"]
                  /\ UNCHANGED <<worker, inUse, open, config, post>>

(* Close of redis: idle connections are closed, those in use when they     *)
(* come back; of grpc: the connection; the others have nothing to close    *)
Close == /\ open /\ kind \in {"redis", "grpc"}
         /\ open' = FALSE
         /\ UNCHANGED <<caller, worker, inUse, config, post>>

BodyStep(c) == ReadBody(c) \/ ReadEnds(c) \/ ReadFails(c) \/ CloseBody(c) \/ ReplaceBody(c)

AskStep(c) == \/ Get(c) \/ GetFails(c) \/ AskFails(c)
              \/ MemcacheAsks(c) \/ HTTPAsks(c) \/ ShellAsks(c) \/ GRPCAsks(c)

Next == Close \/ BodyBreaks \/ \E c \in Calls :
            \/ Reject(c) \/ Begin(c) \/ AskStep(c) \/ BodyStep(c) \/ ReadPart(c)
            \/ RedisAnswers(c) \/ MemcacheAnswers(c)
            \/ HTTPAnswers(c) \/ ShellAnswers(c) \/ GRPCAnswers(c) \/ Interrupted(c)
            \/ Deliver(c) \/ Release(c) \/ ContextEnds(c)

(* What a goroutine does without waiting for an answer, or for a part of   *)
(* the body                                                                *)
WorkerStep(c) == \/ AskStep(c) \/ BodyStep(c) \/ MemcacheAnswers(c) \/ Interrupted(c)
                 \/ Deliver(c) \/ Release(c)

Spec == Init /\ [][Next]_vars

(* The goroutines run, every context with a timeout ends, and the memcache *)
(* client has a timeout.  Nothing says that a redis or grpc server answers, *)
(* or that the client sends the body.                                      *)
FairSpec == Spec /\ \A c \in Calls : WF_vars(WorkerStep(c)) /\ WF_vars(ContextEnds(c))

-------------------------------------------------------------------------------
(* Properties *)

(* The server answers in the end, whatever it is asked, and the client     *)
(* sends the body                                                          *)
Answering == \A c \in Calls : []<>(worker[c] \notin {"asking", "reading"})

(* A call of DoRequest returns.  With cancellable=1 it does so also when   *)
(* the store does not answer, because its context ends, and so do http and *)
(* shell; memcache relies on the timeout of its client, redis and grpc on  *)
(* the server, or on the close of the connection.                          *)
CallsReturn ==
    isCancellable \/ kind \in {"memcache", "http", "shell"} \/ Answering =>
        \A c \in Calls :
            caller[c] = "waiting" ~> caller[c] \in {"answered", "failed", "cancelled"}

(* When one tag alone forwards the data of the request, each resource it   *)
(* asks is sent all of it, although the call before has read and closed    *)
(* the body; and no call fails for the body unless the client has left.    *)
(* Several tags read it from each other: nothing is promised to them.      *)
PostsWholeBody ==
    posting = "one" =>
        \A c \in Calls : /\ worker[c] \in {"asking", "value"} => posted[c] = Parts
                         /\ worker[c] = "refused" => original = "broken"

(* As long as the server answers, a connection that was taken from the     *)
(* pool comes back to it: otherwise every Get fails after max_active calls.*)
ConnectionsReturn ==
    Answering => \A c \in Calls : c \in inUse ~> c \notin inUse

(* The same for the calls that cannot be cancelled.                        *)
PlainConnectionsReturn == ~isCancellable => ConnectionsReturn
===============================================================================
