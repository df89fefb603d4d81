--------------------------- MODULE HandlerRegistry ---------------------------
(***************************************************************************)
(* The global registry of resource handlers (esitag/resource.go) and what  *)
(* the start, the reloads and the end of the server do to it (setup.go).   *)
(*                                                                         *)
(* An instance of the server has sites with this middleware, or none.  Its *)
(* setup creates a handler for each item of their resource files, in their *)
(* order, and registers it under the alias of the item.  Caddy, which is   *)
(* external, reloads in this order: the restart hooks of the old instance, *)
(* the setup and the start of a new one, the shutdown hooks of the old one *)
(* ("including restarts"), the end of the old one.  A step that fails ends *)
(* the reload and the old instance is the one that is reloaded next.  The  *)
(* registry is shared by all instances.  The handlers of http, https and   *)
(* sh, which cannot be closed, are left out.                               *)
(***************************************************************************)
EXTENDS Naturals, Sequences

CONSTANTS Sites,       \* blocks of the Caddyfile that configure the middleware
          Aliases,     \* aliases of the resource files
          Strict,      \* aliases of handlers that fail to close a second time (gRPC)
          Configs,     \* the configurations that the server may be given
          MaxReloads   \* bound: how many reloads get to the setup

(* A configuration has the sites, and the aliases of their items in order; *)
(* a site may list an alias again, as another may                          *)
ASSUME RegistryAssumption ==
    /\ Strict \subseteq Aliases /\ MaxReloads \in Nat
    /\ Configs \subseteq [sites : SUBSET Sites, items : Seq(Aliases)]
    /\ \A c \in Configs : c.sites = {} => c.items = <<>>

VARIABLES registry,   \* [Aliases -> handler or NoHandler]: rhRegistry.handlers
          created,    \* the handlers that were created
          closed,     \* those of them that were closed
          phase,      \* what Caddy does, one of Phases
          configs,    \* the configuration of each instance, the last loaded at the end
          count,      \* the items of the last one that are registered
          live,       \* the instances that take requests
          serving,    \* the one that Caddy reloads next, 0 before the first
          hooks,      \* the hooks that have still to run: <<instance, site>>
          cached,     \* [instance -> [site -> [alias -> the handler of a cached tag]]]
          hooked      \* history: what hooks did since the last load

handlers == <<registry, created, closed>>
server   == <<configs, count, live, serving>>
vars     == <<handlers, server, phase, hooks, cached, hooked>>

Phases    == {"setup", "run", "restart", "takeover", "shutdown", "stopped"}
Instances == 1..(MaxReloads + 1)
Handlers  == [inst : Instances, item : Nat, alias : Aliases]
NoHandler == [inst |-> 0]
NoTags    == [s \in Sites |-> [a \in Aliases |-> NoHandler]]

last  == Len(configs)              \* the number of the instance loaded last
items == configs[last].items       \* the aliases of its items, in their order
HooksOf(is) == {h \in is \X Sites : h[2] \in configs[h[1]].sites}

TypeOK == /\ registry \in [Aliases -> created \cup {NoHandler}]
          /\ \A a \in Aliases : registry[a] # NoHandler => registry[a].alias = a
          /\ closed \subseteq created /\ created \subseteq Handlers
          /\ phase \in Phases /\ hooked \in {"no", "done", "failed"}
          /\ configs \in Seq(Configs) /\ last \in Instances
          /\ \A h \in created : h.inst <= last
          /\ count \in 0..Len(items)
          /\ live \subseteq 1..last /\ serving \in 0..last
          /\ (serving \in live \/ (serving = 0 /\ live = {}))
          /\ hooks \subseteq HooksOf(live)
          /\ (hooks # {} => phase \in {"restart", "takeover", "shutdown"})
          /\ cached \in [Instances -> [Sites -> [Aliases -> created \cup {NoHandler}]]]

(* The server starts *)
Init == /\ registry = [a \in Aliases |-> NoHandler]
        /\ created = {} /\ closed = {}
        /\ phase = "setup" /\ count = 0
        /\ \E c \in Configs : configs = <<c>>
        /\ live = {} /\ serving = 0
        /\ hooks = {} /\ cached = [i \in Instances |-> NoTags] /\ hooked = "no"

-------------------------------------------------------------------------------
(* Setup: configLoadParams, "resources" *)

(* Variant of Register: an alias keeps the handler it has *)
BadRegister ==
    /\ phase = "setup" /\ count < Len(items)
    /\ LET a == items[count + 1]
           h == [inst |-> last, item |-> count + 1, alias |-> a]
       IN  /\ created' = created \cup {h}
           /\ registry' = [registry EXCEPT ![a] = IF @ = NoHandler THEN h ELSE @]
    /\ count' = count + 1
    /\ UNCHANGED <<closed, configs, live, serving, phase, hooks, cached, hooked>>

(* NewResourceHandler, then RegisterResourceHandler: the handler that the  *)
(* alias had drops out of the registry as it is                            *)
Register ==
    /\ phase = "setup" /\ count < Len(items)
    /\ LET a == items[count + 1]
           h == [inst |-> last, item |-> count + 1, alias |-> a]
       IN  /\ created' = created \cup {h}
           /\ registry' = [registry EXCEPT ![a] = h]
    /\ count' = count + 1
    /\ UNCHANGED <<closed, configs, live, serving, phase, hooks, cached, hooked>>

(* The Caddyfile or a resource file is not valid, or a store does not      *)
(* answer its ping: the instance that serves goes on.  When there is none, *)
(* the process ends.                                                       *)
SetupFails ==
    /\ phase = "setup"
    /\ phase' = IF live = {} THEN "stopped" ELSE "run"
    /\ UNCHANGED <<handlers, server, hooks, cached, hooked>>

(* The new instance starts; its PathConfigs have no tags yet.  The first   *)
(* one serves, a later one has to take over from that which does.          *)
Serve ==
    /\ phase = "setup" /\ count = Len(items)
    /\ live' = live \cup {last}
    /\ \/ live = {} /\ phase' = "run" /\ serving' = last /\ UNCHANGED hooks
       \/ live # {} /\ phase' = "takeover" /\ hooks' = HooksOf({serving}) /\ UNCHANGED serving
    /\ UNCHANGED <<handlers, configs, count, cached, hooked>>

-------------------------------------------------------------------------------
(* Requests *)

(* A request of a page of site s, served by instance i, parses a tag with  *)
(* src=a: NewResource looks the alias up, and the tag keeps the handler in *)
(* the cache.  A parse that fails, because there is no such alias, leaves  *)
(* no tag.                                                                 *)
ParseTag(i, s, a) ==
    /\ phase # "stopped" /\ i \in live /\ s \in configs[i].sites
    /\ cached[i][s][a] = NoHandler /\ registry[a] # NoHandler
    /\ cached' = [cached EXCEPT ![i][s][a] = registry[a]]
    /\ UNCHANGED <<handlers, server, phase, hooks, hooked>>

-------------------------------------------------------------------------------
(* Hooks *)

Registered == {registry[a] : a \in Aliases} \ {NoHandler}

(* The registered handlers that cannot be closed, as they are closed *)
Failing == {h \in Registered \cap closed : h.alias \in Strict}

(* Variant of CloseAllResourceHandler: only those of the instance that serves *)
BadCloseAllResourceHandler ==
    /\ \/ Failing = {} /\ closed' = closed \cup {h \in Registered : h.inst = serving}
       \/ Failing # {} /\ \E hs \in SUBSET (Registered \ Failing) : closed' = closed \cup hs
    /\ hooked' = IF Failing = {} THEN "done" ELSE "failed"

(* All of them are closed, or those that the map yields before the first   *)
(* that fails                                                              *)
CloseAllResourceHandler ==
    /\ \/ Failing = {} /\ closed' = closed \cup Registered
       \/ Failing # {} /\ \E hs \in SUBSET (Registered \ Failing) : closed' = closed \cup hs
    /\ hooked' = IF Failing = {} THEN "done" ELSE "failed"

(* Caddy runs the hooks of the instance one by one and gives the reload up *)
(* at the first that fails                                                 *)
RunHook(h) ==
    /\ h \in hooks
    /\ CloseAllResourceHandler
    /\ \/ Failing = {} /\ hooks' = hooks \ {h} /\ UNCHANGED phase
       \/ Failing # {} /\ hooks' = {} /\ phase' = "run"
    /\ UNCHANGED <<registry, created, server>>

-------------------------------------------------------------------------------
(* Reload and end *)

Restart ==
    /\ phase = "run" /\ last <= MaxReloads
    /\ phase' = "restart" /\ hooks' = HooksOf({serving})
    /\ UNCHANGED <<handlers, server, cached, hooked>>

(* Variant of RestartHook: the error of the close is dropped *)
DeafRestartHook(s) ==
    /\ phase = "restart" /\ <<serving, s>> \in hooks
    /\ cached' = [cached EXCEPT ![serving][s] = NoTags[s]]
    /\ CloseAllResourceHandler
    /\ hooks' = hooks \ {<<serving, s>>}
    /\ UNCHANGED <<registry, created, server, phase>>

(* Variant of RestartHook: the other hooks are kept when one fails *)
BadRestartHook(s) ==
    /\ phase = "restart" /\ <<serving, s>> \in hooks
    /\ cached' = [cached EXCEPT ![serving][s] = NoTags[s]]
    /\ CloseAllResourceHandler
    /\ hooks' = hooks \ {<<serving, s>>}
    /\ phase' = IF Failing = {} THEN phase ELSE "run"
    /\ UNCHANGED <<registry, created, server>>

(* The restart hook of a site of the old instance: its cached tags are     *)
(* purged and the handlers of all sites closed                             *)
RestartHook(s) ==
    /\ phase = "restart" /\ RunHook(<<serving, s>>)
    /\ cached' = [cached EXCEPT ![serving][s] = NoTags[s]]

(* All restart hooks have run: Caddy reads the new Caddyfile *)
Load ==
    /\ phase = "restart" /\ hooks = {}
    /\ phase' = "setup" /\ count' = 0 /\ hooked' = "no"
    /\ \E c \in Configs : configs' = Append(configs, c)
    /\ UNCHANGED <<handlers, live, serving, hooks, cached>>

(* The shutdown hook of a site of the old instance, while the new one has  *)
(* registered its handlers and serves.  When it fails, both go on.         *)
TakeoverHook(s) ==
    /\ phase = "takeover" /\ RunHook(<<serving, s>>)
    /\ UNCHANGED cached

(* All of them have run: the old instance is stopped *)
TakeOver ==
    /\ phase = "takeover" /\ hooks = {}
    /\ phase' = "run" /\ live' = live \ {serving} /\ serving' = last
    /\ cached' = [cached EXCEPT ![serving] = NoTags]
    /\ UNCHANGED <<handlers, configs, count, hooks, hooked>>

(* The process is told to end *)
Shutdown ==
    /\ phase = "run"
    /\ phase' = "shutdown" /\ hooks' = HooksOf(live)
    /\ UNCHANGED <<handlers, server, cached, hooked>>

(* The end of the process: here Caddy only logs the error of a hook *)
ShutdownHook(i, s) ==
    /\ phase = "shutdown" /\ <<i, s>> \in hooks
    /\ CloseAllResourceHandler
    /\ hooks' = hooks \ {<<i, s>>}
    /\ UNCHANGED <<registry, created, server, phase, cached>>

Exit ==
    /\ phase = "shutdown" /\ hooks = {}
    /\ phase' = "stopped"
    /\ UNCHANGED <<handlers, server, hooks, cached, hooked>>

Next == \/ Register \/ SetupFails \/ Serve \/ Restart \/ Load \/ TakeOver \/ Shutdown \/ Exit
        \/ \E s \in Sites : RestartHook(s) \/ TakeoverHook(s)
        \/ \E i \in Instances, s \in Sites :
              ShutdownHook(i, s) \/ \E a \in Aliases : ParseTag(i, s, a)

Spec == Init /\ [][Next]_vars

-------------------------------------------------------------------------------
(* Properties *)

(* What the aliases of the newest instance and its cached tags lead to *)
InUse == {registry[items[k]] : k \in 1..count}
         \cup ({cached[last][s][items[k]] : s \in Sites, k \in 1..count} \ {NoHandler})

(* From its start on, what the aliases of the newest instance and its      *)
(* cached tags lead to is its own, whatever earlier instances registered,  *)
(* closed or left undone.  It is open until the first hook runs, be it a   *)
(* hook of the instance itself or of the one it takes over from, and       *)
(* closed when no hook failed: a reload leaves the new instance nothing    *)
(* but closed handlers.                                                    *)
ServesItsOwn ==
    last \in live =>
        /\ \A h \in InUse : h.inst = last
        /\ hooked = "no"   => InUse \cap closed = {}
        /\ hooked = "done" => InUse \subseteq closed

WithoutHooks(i) == configs[i].sites = {}

(* A handler that is still open can be closed, as it is in the registry.   *)
(* Lost is only one whose alias was taken by a later item of its own       *)
(* configuration, in the same site or another, or one that was loaded      *)
(* after an instance without this middleware, the reload of which runs no  *)
(* hook.                                                                   *)
OpenOnesAreKnown ==
    \A h \in created \ closed :
        \/ registry[h.alias] = h
        \/ \E t \in created : t.inst = h.inst /\ t.alias = h.alias /\ t.item > h.item
        \/ \E i \in 1..(h.inst - 1) : WithoutHooks(i)

FirstHook == phase = "restart" /\ hooks = HooksOf({serving}) /\ hooks' # hooks
Refused   == phase' = "run"
StrictOnes == {registry[a] : a \in Strict} \ {NoHandler}

(* The first hook of a reload ends it only because of a gRPC handler that  *)
(* an earlier hook may have closed: one ran since the last load, or the    *)
(* handler is from an earlier load.  And once a hook has run since the     *)
(* last load, as it has after a reload that succeeded, gRPC handlers have  *)
(* every further reload refused.                                           *)
RefusedForAReason ==
    [][FirstHook =>
          /\ Refused => \E h \in StrictOnes : hooked # "no" \/ h.inst < last
          /\ hooked # "no" /\ StrictOnes # {} => Refused]_vars
===============================================================================
