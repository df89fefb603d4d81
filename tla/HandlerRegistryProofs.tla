------------------------ MODULE HandlerRegistryProofs ------------------------
(***************************************************************************)
(* Theorems about HandlerRegistry, for all sites, aliases, configurations  *)
(* and any number of reloads.                                              *)
(***************************************************************************)
EXTENDS HandlerRegistry, TLAPS

-------------------------------------------------------------------------------
(* The inductive invariant *)

(* What goes with a phase *)
Phased == /\ (phase = "setup" => last \notin live /\ hooked = "no" /\ hooks = {})
          /\ (phase \in {"run", "restart", "takeover", "shutdown"} => serving \in live)
          /\ (phase = "restart" => last <= MaxReloads)
          /\ (phase = "takeover" => last \in live /\ serving # last)

(* Handlers are those of items that were registered, and these have sites *)
Fresh    == \A h \in created : h.inst = last => h.item <= count
HasSites == \A h \in created : configs[h.inst].sites # {}

(* The aliases registered since the last load lead to its own handlers *)
Own == \A k \in 1..count : registry[items[k]] \in created /\ registry[items[k]].inst = last

(* Only an instance that takes requests has cached tags, and those of the  *)
(* newest one have the handlers that are registered                        *)
Unparsed == \A i \in Instances : i \notin live => cached[i] = NoTags
Looked   == \A s \in Sites, a \in Aliases : cached[last][s][a] \in {NoHandler, registry[a]}

(* What hooks did since the last load *)
OpenUntilHook == hooked = "no" => \A h \in created : h.inst = last => h \notin closed
Hooked        == /\ hooked = "done" => Registered \subseteq closed
                 /\ hooked = "failed" => Failing # {}

(* A hook of the reload that succeeded has closed all that is registered *)
HooksClose == phase \in {"restart", "takeover"} /\ hooks # HooksOf({serving})
                 => Registered \subseteq closed

(* Hence a registered handler that is older than the instance that is set  *)
(* up or serves is open only if there was a reload without hooks           *)
After(h) == \E i \in 1..(h.inst - 1) : WithoutHooks(i)
Newest   == IF phase = "setup" THEN last ELSE serving
OldOnes  == \A h \in Registered \ closed : h.inst < Newest => After(h)

IInv == /\ TypeOK /\ Phased
        /\ Fresh /\ HasSites /\ Own
        /\ Unparsed /\ Looked
        /\ OpenUntilHook /\ Hooked
        /\ HooksClose /\ OldOnes /\ OpenOnesAreKnown

-------------------------------------------------------------------------------
(* Facts about types *)

(* NoHandler is no handler. *)
LEMMA NotAHandler == NoHandler \notin Handlers
  BY DEF NoHandler, Handlers

(* The parts of a configuration. *)
LEMMA ConfigParts ==
    ASSUME NEW c \in Configs
    PROVE  /\ c.sites \subseteq Sites /\ c.items \in Seq(Aliases)
           /\ (c.sites = {} => c.items = <<>>)
  BY RegistryAssumption

(* The last configuration and its items. *)
LEMMA LastItems ==
    ASSUME TypeOK
    PROVE  /\ last \in 1..(MaxReloads + 1) /\ last \in Nat /\ configs[last] \in Configs
           /\ items \in Seq(Aliases) /\ count \in 0..Len(items)
           /\ \A i \in 1..last : configs[i] \in Configs
           /\ \A k \in 1..count : items[k] \in Aliases
<1>1. last \in 1..(MaxReloads + 1) /\ last \in Nat /\ configs \in Seq(Configs)
  BY RegistryAssumption DEF TypeOK, Instances
<1>2. \A i \in 1..last : configs[i] \in Configs
  BY <1>1 DEF last
<1>3. configs[last] \in Configs
  BY <1>1, <1>2
<1>4. items \in Seq(Aliases) /\ count \in 0..Len(items)
  BY <1>3, ConfigParts DEF items, TypeOK
<1> QED
  BY <1>1, <1>2, <1>3, <1>4

(* A handler that was created: its parts, and the registered ones are such. *)
LEMMA HandlerParts ==
    ASSUME TypeOK
    PROVE  /\ \A h \in created : /\ h \in Handlers /\ h # NoHandler
                                 /\ h.inst \in Instances /\ h.inst \in 1..last
                                 /\ h.item \in Nat /\ h.alias \in Aliases
           /\ Registered \subseteq created
           /\ \A h \in Registered : registry[h.alias] = h
<1>1. \A h \in created : h \in Handlers /\ h # NoHandler /\ h.inst <= last
  BY NotAHandler DEF TypeOK
<1>2. \A h \in created : h.inst \in Instances /\ h.item \in Nat /\ h.alias \in Aliases
  BY <1>1 DEF Handlers
<1>3. \A h \in created : h.inst \in 1..last
  BY <1>1, <1>2, LastItems, RegistryAssumption DEF Instances
<1>4. Registered \subseteq created /\ \A h \in Registered : registry[h.alias] = h
  BY DEF TypeOK, Registered
<1> QED
  BY <1>1, <1>2, <1>3, <1>4

-------------------------------------------------------------------------------
(* The initial states satisfy the invariant. *)
LEMMA InitInv == Init => IInv
<1> SUFFICES ASSUME Init PROVE IInv
  OBVIOUS
<1> USE RegistryAssumption
<1>1. PICK c \in Configs : configs = <<c>>
  BY DEF Init
<1>2. /\ registry = [a \in Aliases |-> NoHandler] /\ created = {} /\ closed = {}
      /\ phase = "setup" /\ count = 0 /\ live = {} /\ serving = 0 /\ hooks = {}
      /\ cached = [i \in Instances |-> NoTags] /\ hooked = "no"
  BY DEF Init
<1>3. last = 1 /\ configs \in Seq(Configs) /\ items \in Seq(Aliases) /\ last \in Instances
  BY <1>1, ConfigParts DEF last, items, Instances
<1>4. TypeOK
  <2>1. cached \in [Instances -> [Sites -> [Aliases -> created \cup {NoHandler}]]]
    BY <1>2 DEF NoTags
  <2>2. count \in 0..Len(items) /\ serving \in 0..last /\ live \subseteq 1..last
    BY <1>2, <1>3
  <2> QED
    BY <1>2, <1>3, <2>1, <2>2 DEF TypeOK, Phases
<1>5. Phased /\ Fresh /\ HasSites /\ Own /\ Unparsed
  BY <1>2 DEF Phased, Fresh, HasSites, Own, Unparsed
<1>6. Looked
  BY <1>2, <1>3 DEF Looked, NoTags
<1>7. Registered = {}
  BY <1>2 DEF Registered
<1>8. OpenUntilHook /\ Hooked /\ HooksClose /\ OldOnes /\ OpenOnesAreKnown
  BY <1>2, <1>7 DEF OpenUntilHook, Hooked, HooksClose, OldOnes, OpenOnesAreKnown
<1> QED
  BY <1>4, <1>5, <1>6, <1>8 DEF IInv

(* Registering an item preserves it. *)
LEMMA RegisterInv ==
    ASSUME IInv, Register
    PROVE  IInv'
<1> DEFINE a == items[count + 1]
           h == [inst |-> last, item |-> count + 1, alias |-> a]
<1> USE RegistryAssumption
<1>1. /\ phase = "setup" /\ count < Len(items)
      /\ created' = created \cup {h}
      /\ registry' = [registry EXCEPT ![a] = h]
      /\ count' = count + 1
      /\ UNCHANGED <<closed, configs, live, serving, phase, hooks, cached, hooked>>
  BY DEF Register
<1>2. TypeOK /\ Phased /\ last' = last /\ items' = items
  BY <1>1 DEF IInv, last, items
<1>3. /\ count \in Nat /\ count' \in 0..Len(items) /\ last \in Instances /\ last \in Nat
      /\ a \in Aliases /\ items \in Seq(Aliases)
  BY <1>1, <1>2, LastItems DEF Instances
<1>4. /\ h \in Handlers /\ h # NoHandler
      /\ h.inst = last /\ h.item = count + 1 /\ h.alias = a
  BY <1>3, NotAHandler DEF Handlers
<1> HIDE DEF h
<1>5. h \notin created
  BY <1>3, <1>4 DEF IInv, Fresh
<1>6. registry' = [b \in Aliases |-> IF b = a THEN h ELSE registry[b]]
  BY <1>1, <1>2 DEF TypeOK
<1> HIDE DEF a
<1>7. \A g \in created : g.inst \in 1..last /\ g.item \in Nat /\ g.alias \in Aliases
  BY <1>2, HandlerParts
<1>8. TypeOK'
  <2>1. registry' \in [Aliases -> created' \cup {NoHandler}]
    BY <1>1, <1>2, <1>6 DEF TypeOK
  <2>2. \A b \in Aliases : registry'[b] # NoHandler => registry'[b].alias = b
    BY <1>2, <1>4, <1>6 DEF TypeOK
  <2>3. closed' \subseteq created' /\ created' \subseteq Handlers
    BY <1>1, <1>2, <1>4 DEF TypeOK
  <2>4. \A g \in created' : g.inst <= last'
    BY <1>1, <1>2, <1>3, <1>4 DEF TypeOK
  <2>5. cached' \in [Instances -> [Sites -> [Aliases -> created' \cup {NoHandler}]]]
    BY <1>1, <1>2 DEF TypeOK
  <2>6. HooksOf(live)' = HooksOf(live)
    BY <1>1 DEF HooksOf
  <2> QED
    BY <1>1, <1>2, <1>3, <2>1, <2>2, <2>3, <2>4, <2>5, <2>6 DEF TypeOK
<1>9. Phased' /\ HooksClose'
  BY <1>1, <1>2 DEF Phased, HooksClose
<1>10. Fresh'
  BY <1>1, <1>2, <1>3, <1>4, <1>7 DEF IInv, Fresh
<1>11. HasSites'
  <2>1. items # <<>> /\ configs[last] \in Configs
    BY <1>1, <1>2, <1>3, LastItems
  <2>2. configs[last].sites # {}
    BY <2>1, ConfigParts DEF items
  <2> QED
    BY <1>1, <1>4, <2>2 DEF IInv, HasSites
<1>12. Own'
  <2>1. ASSUME NEW k \in 1..(count + 1)
        PROVE  registry'[items[k]] \in created' /\ registry'[items[k]].inst = last
    <3>1. CASE k = count + 1
      BY <1>1, <1>3, <1>4, <1>6, <3>1 DEF a
    <3>2. CASE k \in 1..count
      <4>1. /\ items[k] \in Aliases /\ registry[items[k]] \in created
            /\ registry[items[k]].inst = last
        BY <1>2, <3>2, LastItems DEF IInv, Own
      <4> QED
        BY <1>1, <1>4, <1>6, <4>1
    <3> QED
      BY <1>3, <3>1, <3>2
  <2> QED
    BY <1>1, <1>2, <2>1 DEF Own
<1>13. Unparsed' /\ Looked'
  <2>1. cached[last] = NoTags
    BY <1>1, <1>2, <1>3 DEF IInv, Unparsed, Phased
  <2> QED
    BY <1>1, <1>2, <2>1 DEF IInv, Unparsed, Looked, NoTags
<1>14. OpenUntilHook' /\ Hooked'
  BY <1>1, <1>2, <1>5 DEF IInv, OpenUntilHook, Hooked, TypeOK, Phased
<1>15. OldOnes'
  <2>1. SUFFICES ASSUME NEW g \in Registered', g \notin closed', g.inst < last
                 PROVE  After(g)'
    BY <1>1, <1>2 DEF OldOnes, Newest
  <2>2. g # h /\ g \in Registered
    BY <1>3, <1>4, <1>6, <2>1 DEF Registered
  <2>3. After(g)
    BY <1>1, <2>1, <2>2 DEF IInv, OldOnes, Newest
  <2> QED
    BY <1>1, <2>3 DEF After, WithoutHooks
<1>16. OpenOnesAreKnown'
  <2>1. ASSUME NEW g \in created', g \notin closed
        PROVE  \/ registry'[g.alias] = g
               \/ \E t \in created' : t.inst = g.inst /\ t.alias = g.alias /\ t.item > g.item
               \/ After(g)
    <3>1. CASE g = h
      BY <1>3, <1>4, <1>6, <3>1
    <3>2. CASE g # h /\ registry[g.alias] # g
      BY <1>1, <2>1, <3>2 DEF IInv, OpenOnesAreKnown, After
    <3>3. CASE g # h /\ registry[g.alias] = g
      <4>1. /\ g \in created /\ g \in Registered
            /\ g.alias \in Aliases /\ g.inst \in 1..last /\ g.item \in Nat
        BY <1>1, <1>2, <1>7, <2>1, <3>3, HandlerParts DEF Registered
      <4>2. CASE g.alias # a
        BY <1>6, <3>3, <4>1, <4>2
      <4>3. CASE g.alias = a /\ g.inst = last
        BY <1>1, <1>3, <1>4, <4>1, <4>3 DEF IInv, Fresh
      <4>4. CASE g.inst < last
        BY <1>1, <2>1, <4>1, <4>4 DEF IInv, OldOnes, Newest
      <4> QED
        BY <1>3, <4>1, <4>2, <4>3, <4>4
    <3> QED
      BY <3>1, <3>2, <3>3
  <2> QED
    BY <1>1, <2>1 DEF OpenOnesAreKnown, After, WithoutHooks
<1> QED
  BY <1>8, <1>9, <1>10, <1>11, <1>12, <1>13, <1>14, <1>15, <1>16 DEF IInv

(* Steps that touch no handler leave what is said of handlers. *)
LEMMA HandlersUnmoved ==
    ASSUME IInv, UNCHANGED <<handlers, configs, count, cached, hooked>>
    PROVE  (Fresh /\ HasSites /\ Own /\ Looked /\ OpenUntilHook /\ Hooked /\ OpenOnesAreKnown)'
<1>1. /\ UNCHANGED <<registry, created, closed, configs, count, cached, hooked>>
      /\ last' = last /\ items' = items
  BY DEF handlers, last, items
<1>2. Registered' = Registered /\ Failing' = Failing
  BY <1>1 DEF Registered, Failing
<1>3. Fresh' /\ HasSites' /\ Own' /\ Looked'
  BY <1>1 DEF IInv, Fresh, HasSites, Own, Looked
<1>4. OpenUntilHook' /\ Hooked'
  BY <1>1, <1>2 DEF IInv, OpenUntilHook, Hooked
<1>5. OpenOnesAreKnown'
  BY <1>1 DEF IInv, OpenOnesAreKnown, WithoutHooks
<1> QED
  BY <1>3, <1>4, <1>5

(* So do the end of a setup and the orders to reload and to end. *)
LEMMA PhaseInv ==
    ASSUME IInv, SetupFails \/ Serve \/ Restart \/ Shutdown \/ Exit
    PROVE  IInv'
<1> USE RegistryAssumption
<1>1. /\ UNCHANGED <<registry, created, closed, configs, count, cached, hooked>>
      /\ UNCHANGED <<handlers, configs, count, cached, hooked>>
  BY DEF SetupFails, Serve, Restart, Shutdown, Exit, handlers, server
<1>2. (Fresh /\ HasSites /\ Own /\ Looked /\ OpenUntilHook /\ Hooked /\ OpenOnesAreKnown)'
  BY <1>1, HandlersUnmoved
<1>3. last' = last /\ items' = items /\ Registered' = Registered
  BY <1>1 DEF last, items, Registered
<1>4. TypeOK /\ Phased /\ last \in Instances /\ last \in Nat
  BY LastItems DEF IInv, Instances
<1>5. ASSUME TypeOK', Phased', Unparsed', HooksClose', OldOnes'
      PROVE  IInv'
  BY <1>2, <1>5 DEF IInv
<1>6. CASE SetupFails
  <2>1. /\ phase = "setup" /\ phase' \in Phases /\ hooks = {}
        /\ ((phase' = "run" /\ live # {}) \/ phase' = "stopped")
        /\ UNCHANGED <<live, serving, hooks>>
    BY <1>4, <1>6 DEF SetupFails, server, Phases, Phased
  <2>2. TypeOK'
    BY <1>1, <1>3, <1>4, <2>1 DEF TypeOK, HooksOf
  <2>3. Phased' /\ HooksClose' /\ Unparsed'
    BY <1>1, <1>4, <2>1 DEF IInv, TypeOK, Phased, HooksClose, Unparsed
  <2>4. OldOnes'
    <3>1. SUFFICES ASSUME NEW h \in Registered \ closed, h.inst < serving
                   PROVE  After(h)'
      BY <1>1, <1>3, <2>1 DEF OldOnes, Newest
    <3>2. h.inst < last
      <4>1. h.inst \in Nat /\ serving \in Nat /\ serving <= last
        BY <1>4, HandlerParts DEF TypeOK
      <4> QED
        BY <1>4, <3>1, <4>1
    <3>3. After(h)
      BY <2>1, <3>2 DEF IInv, OldOnes, Newest
    <3> QED
      BY <1>1, <3>3 DEF After, WithoutHooks
  <2> QED
    BY <1>5, <2>2, <2>3, <2>4
<1>7. CASE Serve
  <2>1. /\ phase = "setup" /\ last \notin live /\ live' = live \cup {last} /\ hooks = {}
        /\ \/ live = {} /\ phase' = "run" /\ serving' = last /\ hooks' = hooks
           \/ /\ live # {} /\ phase' = "takeover" /\ serving' = serving
              /\ serving \in live /\ hooks' = HooksOf({serving})
    BY <1>4, <1>7 DEF Serve, Phased, TypeOK
  <2>2. TypeOK'
    <3>1. live' \subseteq 1..last /\ serving' \in 0..last /\ serving' \in live'
      BY <1>4, <2>1 DEF TypeOK, Instances
    <3>2. hooks' \subseteq HooksOf(live)'
      BY <1>1, <2>1 DEF HooksOf
    <3>3. phase' \in Phases /\ (hooks' # {} => phase' = "takeover")
      BY <2>1 DEF Phases
    <3> QED
      BY <1>1, <1>3, <1>4, <3>1, <3>2, <3>3 DEF TypeOK
  <2>3. Phased' /\ Unparsed'
    BY <1>1, <1>3, <1>4, <2>1 DEF IInv, Phased, Unparsed
  <2>4. HooksClose'
    BY <1>1, <2>1 DEF HooksClose, HooksOf
  <2>5. OldOnes'
    <3>1. SUFFICES ASSUME NEW h \in Registered \ closed, h.inst < serving'
                   PROVE  After(h)'
      BY <1>1, <1>3, <2>1 DEF OldOnes, Newest
    <3>2. h.inst < last
      <4>1. h.inst \in Nat /\ serving' \in Nat /\ serving' <= last
        BY <1>4, <2>1, HandlerParts DEF TypeOK
      <4> QED
        BY <1>4, <3>1, <4>1
    <3>3. After(h)
      BY <2>1, <3>2 DEF IInv, OldOnes, Newest
    <3> QED
      BY <1>1, <3>3 DEF After, WithoutHooks
  <2> QED
    BY <1>5, <2>2, <2>3, <2>4, <2>5
<1>8. CASE Restart \/ Shutdown \/ Exit
  <2>1. /\ phase \in {"run", "shutdown"} /\ serving \in live
        /\ \/ phase' = "restart" /\ last <= MaxReloads /\ hooks' = HooksOf({serving})
           \/ phase' = "shutdown" /\ hooks' = HooksOf(live)
           \/ phase' = "stopped" /\ hooks' = {}
        /\ UNCHANGED <<live, serving>>
    BY <1>4, <1>8 DEF Restart, Shutdown, Exit, server, Phased
  <2>2. TypeOK'
    <3>1. hooks' \subseteq HooksOf(live)' /\ HooksOf(live)' = HooksOf(live)
      BY <1>1, <2>1 DEF HooksOf
    <3>2. phase' \in Phases /\ (hooks' # {} => phase' \in {"restart", "shutdown"})
      BY <2>1 DEF Phases
    <3> QED
      BY <1>1, <1>3, <1>4, <2>1, <3>1, <3>2 DEF TypeOK
  <2>3. Phased' /\ HooksClose' /\ Unparsed'
    BY <1>1, <1>3, <2>1 DEF IInv, Phased, HooksClose, HooksOf, Unparsed
  <2>4. OldOnes'
    BY <1>1, <1>3, <2>1 DEF IInv, OldOnes, Newest, After, WithoutHooks
  <2> QED
    BY <1>5, <2>2, <2>3, <2>4
<1> QED
  BY <1>6, <1>7, <1>8

(* So does a request that parses a tag. *)
LEMMA ParseInv ==
    ASSUME IInv, NEW i \in Instances, NEW s \in Sites, NEW a \in Aliases, ParseTag(i, s, a)
    PROVE  IInv'
<1>1. /\ i \in live /\ registry[a] # NoHandler /\ registry[a] \in created
      /\ cached' = [cached EXCEPT ![i][s][a] = registry[a]]
      /\ UNCHANGED <<registry, created, closed, configs, count, live, serving,
                     phase, hooks, hooked>>
  BY DEF ParseTag, handlers, server, IInv, TypeOK
<1>2. last' = last /\ items' = items /\ Registered' = Registered /\ Failing' = Failing
  BY <1>1 DEF last, items, Registered, Failing
<1>3. cached \in [Instances -> [Sites -> [Aliases -> created \cup {NoHandler}]]]
  BY DEF IInv, TypeOK
<1>4. cached' \in [Instances -> [Sites -> [Aliases -> created \cup {NoHandler}]]]
  BY <1>1, <1>3
<1>5. \A j \in Instances, t \in Sites, b \in Aliases :
         cached'[j][t][b] = IF j = i /\ t = s /\ b = a THEN registry[a] ELSE cached[j][t][b]
  BY <1>1, <1>3
<1>6. \A j \in Instances : j # i => cached'[j] = cached[j]
  BY <1>1, <1>3
<1>7. TypeOK'
  BY <1>1, <1>2, <1>4 DEF IInv, TypeOK, HooksOf
<1>8. Phased' /\ Fresh' /\ HasSites' /\ Own'
  BY <1>1, <1>2 DEF IInv, Phased, Fresh, HasSites, Own
<1>9. Unparsed'
  BY <1>1, <1>6 DEF IInv, Unparsed
<1>10. Looked'
  <2>1. last \in Instances
    BY DEF IInv, TypeOK
  <2> QED
    BY <1>1, <1>2, <1>5, <2>1 DEF IInv, Looked
<1>11. OpenUntilHook' /\ Hooked' /\ HooksClose'
  BY <1>1, <1>2 DEF IInv, OpenUntilHook, Hooked, HooksClose, HooksOf
<1>12. OldOnes' /\ OpenOnesAreKnown'
  BY <1>1, <1>2 DEF IInv, OldOnes, Newest, After, WithoutHooks, OpenOnesAreKnown
<1> QED
  BY <1>7, <1>8, <1>9, <1>10, <1>11, <1>12 DEF IInv

(* What a hook does to the handlers: all that are registered get closed,   *)
(* or there is one that fails, now and later.                              *)
LEMMA CloseFacts ==
    ASSUME IInv, CloseAllResourceHandler, UNCHANGED <<registry, created, configs, count>>
    PROVE  /\ closed \subseteq closed' /\ closed' \subseteq created
           /\ hooked' \in {"done", "failed"}
           /\ (Failing = {} => Registered' \subseteq closed')
           /\ Fresh' /\ HasSites' /\ Own' /\ OpenUntilHook' /\ Hooked' /\ OpenOnesAreKnown'
<1>1. Registered \subseteq created /\ closed \subseteq created /\ Registered' = Registered
  BY HandlerParts DEF IInv, TypeOK, Registered
<1>2. PICK hs \in SUBSET Registered : /\ closed' = closed \cup hs
                                     /\ (Failing = {} => hs = Registered)
  BY DEF CloseAllResourceHandler
<1>3. hooked' = IF Failing = {} THEN "done" ELSE "failed"
  BY DEF CloseAllResourceHandler
<1>4. closed \subseteq closed' /\ closed' \subseteq created
  BY <1>1, <1>2
<1>5. Failing \subseteq Failing'
  BY <1>1, <1>4 DEF Failing
<1>6. Failing = {} => Registered' \subseteq closed'
  BY <1>1, <1>2
<1>7. hooked' \in {"done", "failed"} /\ OpenUntilHook' /\ Hooked'
  BY <1>3, <1>5, <1>6 DEF OpenUntilHook, Hooked
<1>8. last' = last /\ items' = items
  BY DEF last, items
<1>9. Fresh' /\ HasSites' /\ Own'
  BY <1>8 DEF IInv, Fresh, HasSites, Own
<1>10. OpenOnesAreKnown'
  BY <1>4 DEF IInv, OpenOnesAreKnown, WithoutHooks
<1> QED
  BY <1>4, <1>6, <1>7, <1>9, <1>10

(* So does the hook of a site, in a reload or at the end of the process. *)
LEMMA HookInv ==
    ASSUME IInv, NEW i \in Instances, NEW s \in Sites,
           RestartHook(s) \/ TakeoverHook(s) \/ ShutdownHook(i, s)
    PROVE  IInv'
<1>1. /\ CloseAllResourceHandler
      /\ UNCHANGED <<registry, created, configs, count, live, serving>>
  BY DEF RestartHook, TakeoverHook, ShutdownHook, RunHook, server
<1>2. /\ closed \subseteq closed' /\ closed' \subseteq created
      /\ hooked' \in {"done", "failed"}
      /\ (Failing = {} => Registered' \subseteq closed')
      /\ Fresh' /\ HasSites' /\ Own' /\ OpenUntilHook' /\ Hooked' /\ OpenOnesAreKnown'
  BY <1>1, CloseFacts
<1>3. last' = last /\ items' = items /\ Registered' = Registered
  BY <1>1 DEF last, items, Registered
<1>4. \/ cached' = cached
      \/ serving \in live /\ cached' = [cached EXCEPT ![serving][s] = NoTags[s]]
  <2>1. phase = "restart" => serving \in live
    BY DEF IInv, Phased
  <2> QED
    BY <2>1 DEF RestartHook, TakeoverHook, ShutdownHook
<1>5. \/ /\ phase \in {"restart", "takeover"} /\ phase' = phase /\ Failing = {}
         /\ hooks' \subseteq hooks
      \/ phase \in {"restart", "takeover"} /\ phase' = "run" /\ hooks' = {}
      \/ phase = "shutdown" /\ phase' = "shutdown" /\ hooks' \subseteq hooks
  BY DEF RestartHook, TakeoverHook, ShutdownHook, RunHook
<1>6. cached \in [Instances -> [Sites -> [Aliases -> created \cup {NoHandler}]]]
  BY DEF IInv, TypeOK
<1>7. serving \in live => serving \in Instances
  BY LastItems, RegistryAssumption DEF IInv, TypeOK, Instances
<1>8. NoTags[s] = [a \in Aliases |-> NoHandler]
  BY DEF NoTags
<1>9. /\ cached' \in [Instances -> [Sites -> [Aliases -> created \cup {NoHandler}]]]
      /\ \A j \in Instances, t \in Sites, a \in Aliases :
            cached'[j][t][a] \in {NoHandler, cached[j][t][a]}
  <2>1. CASE cached' = cached
    BY <1>6, <2>1
  <2>2. CASE serving \in live /\ cached' = [cached EXCEPT ![serving][s] = NoTags[s]]
    <3> DEFINE none == NoTags[s]
    <3>1. none \in [Aliases -> created \cup {NoHandler}]
      BY <1>8
    <3>2. \A a \in Aliases : none[a] = NoHandler
      BY <1>8
    <3>3. cached' = [cached EXCEPT ![serving][s] = none] /\ serving \in Instances
      BY <1>7, <2>2
    <3> HIDE DEF none
    <3>4. cached' \in [Instances -> [Sites -> [Aliases -> created \cup {NoHandler}]]]
      BY <1>6, <3>1, <3>3
    <3>5. \A j \in Instances, t \in Sites :
             cached'[j][t] = IF j = serving /\ t = s THEN none ELSE cached[j][t]
      BY <1>6, <3>3
    <3> QED
      BY <3>2, <3>4, <3>5
  <2> QED
    BY <1>4, <2>1, <2>2
<1>10. TypeOK'
  <2>1. /\ phase' \in Phases /\ hooks' \subseteq HooksOf(live)'
        /\ (hooks' # {} => phase' \in {"restart", "takeover", "shutdown"})
    BY <1>1, <1>5 DEF IInv, TypeOK, Phases, HooksOf
  <2> QED
    BY <1>1, <1>2, <1>3, <1>9, <2>1 DEF IInv, TypeOK
<1>11. Phased'
  BY <1>1, <1>3, <1>5 DEF IInv, Phased
<1>12. Unparsed'
  <2>1. \A j \in Instances : j \notin live => cached'[j] = cached[j]
    BY <1>4, <1>6, <1>7
  <2> QED
    BY <1>1, <2>1 DEF IInv, Unparsed
<1>13. Looked'
  <2>1. last \in Instances
    BY DEF IInv, TypeOK
  <2> QED
    BY <1>1, <1>3, <1>9, <2>1 DEF IInv, Looked
<1>14. HooksClose'
  BY <1>2, <1>5 DEF HooksClose
<1>15. OldOnes'
  <2>1. Newest' = Newest
    BY <1>1, <1>3, <1>5 DEF Newest
  <2> QED
    BY <1>1, <1>2, <1>3, <2>1 DEF IInv, OldOnes, After, WithoutHooks
<1> QED
  BY <1>2, <1>10, <1>11, <1>12, <1>13, <1>14, <1>15 DEF IInv

(* When all hooks of a reload have run, every handler that is registered   *)
(* is closed, or came after an instance without hooks.                     *)
LEMMA NoneLeftOpen ==
    ASSUME IInv, phase \in {"restart", "takeover"}, hooks = {},
           NEW h \in Registered \ closed
    PROVE  After(h)
<1>1. serving \in live /\ hooks = HooksOf({serving})
  BY DEF IInv, Phased, HooksClose
<1>2. serving \in 1..last /\ serving \in Nat
  BY <1>1 DEF IInv, TypeOK
<1>3. h \in created /\ h.inst \in Nat
  BY HandlerParts DEF IInv
<1>4. configs[serving].sites = {}
  <2>1. SUFFICES ASSUME NEW s \in configs[serving].sites PROVE FALSE
    OBVIOUS
  <2>2. s \in Sites
    BY <1>2, LastItems, ConfigParts DEF IInv
  <2>3. <<serving, s>> \in HooksOf({serving})
    BY <2>1, <2>2 DEF HooksOf
  <2> QED
    BY <1>1, <2>3
<1>5. h.inst # serving
  BY <1>3, <1>4 DEF IInv, HasSites
<1>6. CASE h.inst < serving
  BY <1>6 DEF IInv, OldOnes, Newest
<1>7. CASE serving < h.inst
  <2>1. serving \in 1..(h.inst - 1)
    BY <1>2, <1>3, <1>7
  <2> QED
    BY <1>4, <2>1 DEF After, WithoutHooks
<1> QED
  BY <1>2, <1>3, <1>5, <1>6, <1>7

(* So does the load of a new configuration. *)
LEMMA LoadInv ==
    ASSUME IInv, Load
    PROVE  IInv'
<1> USE RegistryAssumption
<1>1. PICK c \in Configs : configs' = Append(configs, c)
  BY DEF Load
<1>2. /\ phase = "restart" /\ hooks = {} /\ phase' = "setup" /\ count' = 0 /\ hooked' = "no"
      /\ UNCHANGED <<registry, created, closed, live, serving, hooks, cached>>
  BY DEF Load, handlers
<1>3. TypeOK /\ configs \in Seq(Configs) /\ last \in Nat /\ last \in 1..MaxReloads
  BY <1>2, LastItems DEF IInv, TypeOK, Phased
<1>4. configs' \in Seq(Configs) /\ last' = last + 1 /\ \A i \in 1..last : configs'[i] = configs[i]
  BY <1>1, <1>3 DEF last
<1>5. last' \in Instances /\ items' = c.items /\ items' \in Seq(Aliases)
  BY <1>1, <1>3, <1>4, ConfigParts DEF Instances, items, last
<1>6. \A h \in created : h.inst \in 1..last /\ h.inst # last'
  BY <1>3, <1>4, HandlerParts
<1>7. Registered' = Registered /\ Registered \subseteq created
  BY <1>2, <1>3, HandlerParts DEF Registered
<1>8. TypeOK'
  <2>1. count' \in 0..Len(items')
    BY <1>2, <1>5
  <2>2. live' \subseteq 1..last' /\ serving' \in 0..last'
    BY <1>2, <1>3, <1>4 DEF TypeOK
  <2>3. \A h \in created' : h.inst <= last'
    BY <1>2, <1>3, <1>4, <1>6
  <2>4. phase' \in Phases /\ hooks' = {} /\ hooked' \in {"no", "done", "failed"}
    BY <1>2 DEF Phases
  <2> QED
    BY <1>2, <1>3, <1>4, <1>5, <2>1, <2>2, <2>3, <2>4 DEF TypeOK
<1>9. last' \notin live
  BY <1>3, <1>4 DEF TypeOK
<1>10. Phased' /\ HooksClose' /\ Hooked' /\ Own'
  BY <1>2, <1>9 DEF Phased, HooksClose, Hooked, Own
<1>11. Fresh' /\ OpenUntilHook'
  BY <1>2, <1>6 DEF Fresh, OpenUntilHook
<1>12. HasSites'
  BY <1>2, <1>4, <1>6 DEF IInv, HasSites
<1>13. Unparsed'
  BY <1>2 DEF IInv, Unparsed
<1>14. Looked'
  <2>1. cached[last'] = NoTags
    BY <1>5, <1>9 DEF IInv, Unparsed
  <2> QED
    BY <1>2, <2>1 DEF Looked, NoTags
<1>15. ASSUME NEW h \in created, After(h) PROVE After(h)'
  <2>1. PICK i \in 1..(h.inst - 1) : configs[i].sites = {}
    BY <1>15 DEF After, WithoutHooks
  <2>2. i \in 1..last
    BY <1>3, <1>6, <2>1
  <2> QED
    BY <1>4, <2>1, <2>2 DEF After, WithoutHooks
<1>16. OldOnes'
  BY <1>2, <1>7, <1>15, NoneLeftOpen DEF OldOnes
<1>17. OpenOnesAreKnown'
  <2>1. ASSUME NEW h \in created, \E i \in 1..(h.inst - 1) : WithoutHooks(i)
        PROVE  \E i \in 1..(h.inst - 1) : WithoutHooks(i)'
    BY <1>15, <2>1 DEF After
  <2> QED
    BY <1>2, <2>1 DEF IInv, OpenOnesAreKnown
<1> QED
  BY <1>8, <1>10, <1>11, <1>12, <1>13, <1>14, <1>16, <1>17 DEF IInv

(* So does the end of the old instance. *)
LEMMA TakeOverInv ==
    ASSUME IInv, TakeOver
    PROVE  IInv'
<1> USE RegistryAssumption
<1>1. /\ phase = "takeover" /\ hooks = {} /\ phase' = "run"
      /\ live' = live \ {serving} /\ serving' = last
      /\ cached' = [cached EXCEPT ![serving] = NoTags]
      /\ UNCHANGED <<registry, created, closed, configs, count, hooks, hooked>>
  BY DEF TakeOver, handlers
<1>2. last' = last /\ items' = items /\ Registered' = Registered /\ Failing' = Failing
  BY <1>1 DEF last, items, Registered, Failing
<1>3. last \in live /\ serving \in live /\ serving # last
  BY <1>1 DEF IInv, Phased
<1>4. TypeOK /\ last \in Instances /\ serving \in Instances
  BY <1>3, LastItems DEF IInv, TypeOK, Instances
<1>5. cached' \in [Instances -> [Sites -> [Aliases -> created \cup {NoHandler}]]]
  BY <1>1, <1>4 DEF TypeOK, NoTags
<1>6. \A i \in Instances : cached'[i] = IF i = serving THEN NoTags ELSE cached[i]
  BY <1>1, <1>4 DEF TypeOK
<1>7. TypeOK'
  <2>1. live' \subseteq 1..last /\ serving' \in live' /\ serving' \in 0..last
    BY <1>1, <1>3, <1>4 DEF TypeOK, Instances
  <2> QED
    BY <1>1, <1>2, <1>4, <1>5, <2>1 DEF TypeOK, Phases
<1>8. Phased' /\ HooksClose' /\ Fresh' /\ HasSites' /\ Own'
  BY <1>1, <1>2, <1>3 DEF IInv, Phased, HooksClose, Fresh, HasSites, Own
<1>9. Unparsed' /\ Looked'
  BY <1>1, <1>2, <1>3, <1>4, <1>6 DEF IInv, Unparsed, Looked
<1>10. OpenUntilHook' /\ Hooked' /\ OpenOnesAreKnown'
  BY <1>1, <1>2 DEF IInv, OpenUntilHook, Hooked, OpenOnesAreKnown, WithoutHooks
<1>11. OldOnes'
  BY <1>1, <1>2, NoneLeftOpen DEF OldOnes, After, WithoutHooks
<1> QED
  BY <1>7, <1>8, <1>9, <1>10, <1>11 DEF IInv

(* Every step preserves the invariant. *)
LEMMA StepInv == IInv /\ [Next]_vars => IInv'
<1> SUFFICES ASSUME IInv, [Next]_vars PROVE IInv'
  OBVIOUS
<1>1. CASE Register
  BY <1>1, RegisterInv
<1>2. CASE SetupFails \/ Serve \/ Restart \/ Shutdown \/ Exit
  BY <1>2, PhaseInv
<1>3. CASE Load
  BY <1>3, LoadInv
<1>4. CASE TakeOver
  BY <1>4, TakeOverInv
<1>5. CASE \E s \in Sites : RestartHook(s) \/ TakeoverHook(s)
  <2>1. 1 \in Instances
    BY RegistryAssumption DEF Instances
  <2> QED
    BY <1>5, <2>1, HookInv
<1>6. CASE \E i \in Instances, s \in Sites : ShutdownHook(i, s)
  BY <1>6, HookInv
<1>7. CASE \E i \in Instances, s \in Sites, a \in Aliases : ParseTag(i, s, a)
  BY <1>7, ParseInv
<1>8. CASE UNCHANGED vars
  <2>1. /\ UNCHANGED <<handlers, configs, count, cached, hooked>>
        /\ UNCHANGED <<registry, created, closed, configs, count, live, serving,
                       phase, hooks, cached, hooked>>
    BY <1>8 DEF vars, handlers, server
  <2>2. (Fresh /\ HasSites /\ Own /\ Looked /\ OpenUntilHook /\ Hooked /\ OpenOnesAreKnown)'
    BY <2>1, HandlersUnmoved
  <2>3. last' = last /\ items' = items /\ Registered' = Registered
    BY <2>1 DEF last, items, Registered
  <2>4. TypeOK'
    BY <2>1, <2>3 DEF IInv, TypeOK, HooksOf
  <2>5. Phased' /\ Unparsed' /\ HooksClose'
    BY <2>1, <2>3 DEF IInv, Phased, Unparsed, HooksClose, HooksOf
  <2>6. OldOnes'
    BY <2>1, <2>3 DEF IInv, OldOnes, Newest, After, WithoutHooks
  <2> QED
    BY <2>2, <2>4, <2>5, <2>6 DEF IInv
<1> QED
  BY <1>1, <1>2, <1>3, <1>4, <1>5, <1>6, <1>7, <1>8 DEF Next

(* Hence it holds in every reachable state. *)
LEMMA InvHolds == Spec => []IInv
  BY InitInv, StepInv, PTL DEF Spec

-------------------------------------------------------------------------------
(* The theorems *)

(* Every variable keeps its type, and the registry, the cached tags and    *)
(* the closed handlers are handlers that were created.                     *)
THEOREM RegistryTypeCorrect == Spec => []TypeOK
<1>1. IInv => TypeOK
  BY DEF IInv
<1> QED
  BY <1>1, InvHolds, PTL

(* From its start on the newest instance uses its own handlers only; they  *)
(* are open until a hook runs, and closed once one has run and not failed, *)
(* as after every reload of an instance that has sites.                    *)
THEOREM EachServesItsOwn == Spec => []ServesItsOwn
<1>1. IInv => ServesItsOwn
  <2> SUFFICES ASSUME IInv, last \in live, NEW h \in InUse
               PROVE  /\ h.inst = last
                      /\ hooked = "no" => h \notin closed
                      /\ hooked = "done" => h \in closed
    BY DEF ServesItsOwn
  <2>1. h \in Registered /\ h \in created /\ h.inst = last
    <3>1. CASE \E k \in 1..count : h = registry[items[k]]
      BY <3>1, LastItems, HandlerParts DEF IInv, Own, Registered
    <3>2. CASE \E s \in Sites, k \in 1..count : h = cached[last][s][items[k]] /\ h # NoHandler
      <4>1. PICK s \in Sites, k \in 1..count : h = cached[last][s][items[k]] /\ h # NoHandler
        BY <3>2
      <4>2. items[k] \in Aliases
        BY LastItems DEF IInv
      <4>3. h = registry[items[k]]
        BY <4>1, <4>2 DEF IInv, Looked
      <4> QED
        BY <4>1, <4>2, <4>3 DEF IInv, Own, Registered
    <3> QED
      BY <3>1, <3>2 DEF InUse
  <2> QED
    BY <2>1 DEF IInv, OpenUntilHook, Hooked
<1> QED
  BY <1>1, InvHolds, PTL

(* An open handler that is not in the registry lost its alias to a later   *)
(* item of its own configuration, or an instance without this middleware   *)
(* was loaded before it.                                                   *)
THEOREM OpenHandlersAreKnown == Spec => []OpenOnesAreKnown
<1>1. IInv => OpenOnesAreKnown
  BY DEF IInv
<1> QED
  BY <1>1, InvHolds, PTL

(* The first hook of a reload ends it only if a hook ran since the last    *)
(* load or a gRPC handler is left from an earlier load; and it does end it *)
(* when a hook ran since the last load and there is a gRPC handler.        *)
THEOREM ReloadsRefusedForAReason == Spec => RefusedForAReason
<1>1. ASSUME IInv, Next, FirstHook
      PROVE  /\ Refused => \E h \in StrictOnes : hooked # "no" \/ h.inst < last
             /\ hooked # "no" /\ StrictOnes # {} => Refused
  <2>1. PICK s \in Sites : RestartHook(s)
    BY <1>1 DEF Next, FirstHook, Register, SetupFails, Serve, Restart, Load, TakeOver,
                Shutdown, Exit, TakeoverHook, ShutdownHook, ParseTag
  <2>2. Refused <=> Failing # {}
    BY <1>1, <2>1 DEF RestartHook, RunHook, Refused, FirstHook
  <2>3. Failing \subseteq StrictOnes
    <3>1. \A h \in Failing : h \in Registered /\ h.alias \in Strict /\ h # NoHandler
      BY DEF Failing, Registered
    <3> QED
      BY <1>1, <3>1, HandlerParts DEF IInv, StrictOnes
  <2>4. \A h \in Failing : hooked # "no" \/ h.inst < last
    <3>1. \A h \in Failing : h \in closed /\ h \in created
      BY <1>1, HandlerParts DEF IInv, Failing
    <3>2. \A h \in created : h.inst \in 1..last /\ last \in Nat
      BY <1>1, HandlerParts, LastItems DEF IInv
    <3> QED
      BY <1>1, <3>1, <3>2 DEF IInv, OpenUntilHook
  <2>5. ASSUME hooked # "no", StrictOnes # {} PROVE Failing # {}
    <3>1. CASE hooked = "failed"
      BY <1>1, <3>1 DEF IInv, Hooked
    <3>2. CASE hooked = "done"
      <4>1. PICK a \in Strict : registry[a] # NoHandler
        BY <2>5 DEF StrictOnes
      <4>2. a \in Aliases /\ registry[a] \in Registered
        BY <4>1, RegistryAssumption DEF Registered
      <4>3. registry[a].alias = a /\ registry[a] \in closed
        BY <1>1, <3>2, <4>1, <4>2 DEF IInv, TypeOK, Hooked
      <4> QED
        BY <4>1, <4>2, <4>3 DEF Failing
    <3> QED
      BY <1>1, <2>5, <3>1, <3>2 DEF IInv, TypeOK
  <2> QED
    BY <2>2, <2>3, <2>4, <2>5
<1>2. ASSUME IInv, [Next]_vars
      PROVE  [FirstHook =>
                 /\ Refused => \E h \in StrictOnes : hooked # "no" \/ h.inst < last
                 /\ hooked # "no" /\ StrictOnes # {} => Refused]_vars
  BY <1>1, <1>2
<1> QED
  BY <1>2, InvHolds, PTL DEF Spec, RefusedForAReason
===============================================================================
