----------------------------- MODULE PathConfigs -----------------------------
(***************************************************************************)
(* The sites of a Caddyfile (setup.go: configEsiParse, configLoadParams,   *)
(* setupLogger) and what a request finds in them (config.go): its path     *)
(* configuration, whether its method is allowed, and the ID of its page.   *)
(*                                                                         *)
(* A Caddyfile is a sequence of blocks, each with the arguments behind the *)
(* word esi and with lines: a key, and its argument, a text, or NoArg.     *)
(***************************************************************************)
EXTENDS ResourceArguments

CONSTANTS NoArg,
          Loadable,     \* the arguments of resources and cache that load
          LogFiles,     \* the log files that open, with stderr and stdout
          DefaultTimeOut, DefaultMaxBodySize, DefaultOnError

ASSUME DefaultAssumption == /\ DefaultTimeOut \in Nat \ {0} /\ DefaultMaxBodySize \in Nat \ {0}
                            /\ DefaultOnError # <<>>

NewPathConfig ==
    [scope |-> <<"/">>, timeout |-> DefaultTimeOut, ttl |-> 0, max_body_size |-> 0,
     page_id_source |-> <<>>, allowed_methods |-> <<>>, cmd_header_name |-> <<>>,
     on_error |-> <<>>, log_file |-> <<>>, log_level |-> <<>>, log |-> "BlackHole"]

-------------------------------------------------------------------------------
(* configLoadParams *)

Keys == (DOMAIN NewPathConfig \ {"scope", "log"}) \cup {"cache", "resources"}

Loads(key, arg) ==
    CASE key \in {"timeout", "ttl"}       -> arg \in DOMAIN Durations
      [] key = "max_body_size"            -> arg \in DOMAIN Sizes
      [] key = "on_error"                 -> ParsesOnError(arg)
      [] key \in {"cache", "resources"}   -> arg \in Loadable
      [] OTHER                            -> TRUE

(* The registries of caches and resources are not part of the configuration *)
Loaded(pc, key, arg) ==
    CASE key \in {"timeout", "ttl"}  -> [pc EXCEPT ![key] = Durations[arg]]
      [] key = "max_body_size"       -> [pc EXCEPT !.max_body_size = Sizes[arg]]
      [] key = "on_error"            -> [pc EXCEPT !.on_error = OnErrorText(arg)]
      [] key = "page_id_source"      -> [pc EXCEPT !.page_id_source = CommaListToSlice(arg)]
      [] key = "allowed_methods"     -> [pc EXCEPT !.allowed_methods = CommaListToSlice(Upper(arg))]
      [] key \in {"cmd_header_name", "log_level"} -> [pc EXCEPT ![key] = Lower(arg)]
      [] key = "log_file"            -> [pc EXCEPT !.log_file = arg]
      [] OTHER                       -> pc

(* setupLogger: without a level or a file there is no log *)
Logs(pc)     == pc.log_level \in {<<"debug">>, <<"info">>, <<"fatal">>} /\ pc.log_file # <<>>
LogOpens(pc) == Logs(pc) => pc.log_file \in LogFiles
WithLogger(pc) == [pc EXCEPT !.log = IF Logs(pc) THEN "Zap" ELSE "BlackHole"]

(* Zero means default; a negative timeout stays *)
WithFallbacks(pc) ==
    [pc EXCEPT !.max_body_size = IF @ = 0 THEN DefaultMaxBodySize ELSE @,
               !.timeout       = IF @ = 0 THEN DefaultTimeOut ELSE @,
               !.on_error      = IF @ = <<>> THEN DefaultOnError ELSE @]

(* One block of the Caddyfile; the first line that fails ends the setup *)
ParsedBlock(block) ==
    LET Load(acc, line) ==
            IF ~acc.ok \/ line.key \notin Keys \/ line.arg = NoArg \/ ~Loads(line.key, line.arg)
            THEN [acc EXCEPT !.ok = FALSE]
            ELSE [acc EXCEPT !.pc = Loaded(@, line.key, line.arg)]
        start == [ok |-> Len(block.args) <= 1,
                  pc |-> IF block.args = <<>> THEN NewPathConfig
                         ELSE [NewPathConfig EXCEPT !.scope = block.args[1]]]
        loaded == FoldLeft(Load, start, block.lines)
    IN  [ok |-> loaded.ok /\ LogOpens(loaded.pc), pc |-> WithFallbacks(WithLogger(loaded.pc))]

configEsiParse(file) == [ok    |-> \A i \in DOMAIN file : ParsedBlock(file[i]).ok,
                         sites |-> [i \in DOMAIN file |-> ParsedBlock(file[i]).pc]]

-------------------------------------------------------------------------------
(* config.go *)

(* The first site whose scope the path matches, or 0: httpserver.Path *)
Matches(path, scope) == scope \in {<<>>, <<"/">>} \/ IsPrefix(scope, path)
ConfigForPath(sites, r) ==
    LET fits == {i \in DOMAIN sites : Matches(r.path, sites[i].scope)}
    IN  IF fits = {} THEN 0 ELSE CHOOSE i \in fits : \A j \in fits : i <= j

IsRequestAllowed(pc, r) ==
    IF pc.allowed_methods = <<>> THEN r.method = "GET"
    ELSE <<r.method>> \in Range(pc.allowed_methods)

DefaultPageIDSource == << <<"host">>, <<"path">> >>

(* Variant of FromSource: the path as it was encoded, which is seldom set *)
BadFromSource(source, r) ==
    CASE source \in {<<"path">>, <<"rawpath">>} -> r.rawpath
      [] source = <<"host">>                     -> r.host
      [] OTHER                                   -> <<>>

(* What one source adds to the buffer: cookie-name and header-name, or one *)
(* of the names; another name adds nothing                                 *)
FromSource(source, r) ==
    LET name  == Lower(SubSeq(source, 3, Len(source)))
        baked == {i \in DOMAIN r.cookies : r.cookies[i].name = SubSeq(source, 3, Len(source))}
    IN  CASE source[1] = "cookie"       -> IF baked = {} THEN <<>> ELSE r.cookies[Min(baked)].value
          [] source[1] = "header"       -> Get(r.header, name)
          [] source = <<"remoteaddr">>  -> r.remote
          [] source = <<"realip">>      -> RealIP(r)
          [] source = <<"scheme">>      -> r.scheme
          [] source = <<"host">>        -> r.host
          [] source = <<"path">>        -> r.path
          [] source = <<"rawpath">>     -> r.rawpath
          [] source = <<"rawquery">>    -> r.query
          [] source = <<"url">>         -> URLText(r)
          [] OTHER                      -> <<>>

Buffer(sources, r) == FlattenSeq([i \in DOMAIN sources |-> FromSource(sources[i], r)])

(* pageID: the buffer stands for its hash.  Sources that give no value are *)
(* replaced by the default ones                                            *)
PageID(pc, r) ==
    LET buffer == Buffer(IF pc.page_id_source = <<>> THEN DefaultPageIDSource
                         ELSE pc.page_id_source, r)
    IN  IF buffer = <<>> THEN Buffer(DefaultPageIDSource, r) ELSE buffer
==============================================================================
