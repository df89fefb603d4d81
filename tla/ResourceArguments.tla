-------------------------- MODULE ResourceArguments --------------------------
(***************************************************************************)
(* The arguments of a call of a resource (esitag/resource.go), with the    *)
(* values of the request put in for placeholders (esitag/replacer.go) and  *)
(* the address of the client behind proxies (helper/realip.go).            *)
(*                                                                         *)
(* A request is a record with the fields of http.Request and those of its  *)
(* URL (ResourceMessages!NewRequest).  Header, trailer and forms, which are *)
(* parsed, are functions from names to sequences of values; cookies is a   *)
(* sequence of names and values; of the body only whether there is one is  *)
(* kept.  Values are texts (TagAttributes).                                *)
(***************************************************************************)
EXTENDS TagAttributes

CONSTANTS Addresses,  \* what net.ParseIP accepts
          Unicast     \* the addresses that IsGlobalUnicast accepts

(* An address has no brace *)
ASSUME AddressAssumption == /\ Unicast \subseteq Addresses /\ Addresses \subseteq Seq(STRING)
                            /\ \A address \in Addresses : "{" \notin Range(address)

(* http.Header.Get, strings.Join *)
Get(header, name)  == IF name \in DOMAIN header THEN header[name][1] ELSE <<>>
Join(values, sep) ==
    FlattenSeq([i \in DOMAIN values |-> (IF i = 1 THEN <<>> ELSE <<sep>>) \o values[i]])

(* net.SplitHostPort fails without a port *)
HasPort(address) == Cardinality({i \in DOMAIN address : address[i] = ":"}) = 1
HostOf(address)  == IF HasPort(address) THEN SplitAt(address, ":")[1] ELSE address
PortOf(address)  == IF HasPort(address) THEN SplitAt(address, ":")[2] ELSE <<>>

-------------------------------------------------------------------------------
(* helper.RealIP *)

ForwardedIPHeaders ==
    << <<"x-forwarded">>, <<"x-forwarded-for">>, <<"forwarded">>, <<"forwarded-for">>,
       <<"x-real-ip">>, <<"client-ip">>, <<"x-cluster-client-ip">> >>

(* filterIP keeps digits, letters and punctuation *)
Filtered(address) == SelectSeq(address, LAMBDA s : s \notin Spaces \cup {"<", ">", "="})

(* The headers in this order, the addresses in each from right to left *)
FindIP(r) ==
    LET Hosts(k) == LET list == SplitAt(Get(r.header, ForwardedIPHeaders[k]), ",")
                    IN  [i \in DOMAIN list |-> HostOf(Filtered(list[i]))]
        good(k)  == {i \in DOMAIN Hosts(k) : Hosts(k)[i] \in Unicast}
        has      == {k \in DOMAIN ForwardedIPHeaders : good(k) # {}}
    IN  IF has = {} THEN <<>> ELSE Hosts(Min(has))[Max(good(Min(has)))]

RealIP(r) ==
    LET own == Filtered(HostOf(r.remote))
    IN  IF FindIP(r) # <<>> THEN FindIP(r) ELSE IF own \in Addresses THEN own ELSE <<>>

-------------------------------------------------------------------------------
(* replacer *)

(* path.Split *)
LastSlash(path) == LET at == {i \in DOMAIN path : path[i] = "/"}
                   IN  IF at = {} THEN 0 ELSE CHOOSE i \in at : \A j \in at : i >= j

(* The names without a value of the request's own: {hostname}, {when} and  *)
(* {when_iso} are one word each                                            *)
Foreign == {"hostname", "when", "when_iso"}

(* url.QueryEscape leaves no brace *)
Escaped(text) == [i \in DOMAIN text |-> IF text[i] \in {"{", "}"} THEN "escaped" ELSE text[i]]

OriginalPath(r) == LET rewritten == Get(r.header, <<"caddy-rewrite-original-uri">>)
                   IN  IF rewritten = <<>> THEN r.path ELSE rewritten

(* URL.RequestURI and URL.String, but for escapes and opaque URLs *)
QueryText(r) == IF r.forcequery \/ r.query # <<>> THEN <<"?">> \o r.query ELSE <<>>
URI(r)       == (IF r.path = <<>> THEN <<"/">> ELSE r.path) \o QueryText(r)
URLText(r) ==
    (IF r.scheme = <<>> THEN <<>> ELSE r.scheme \o <<":">>)
    \o (IF r.scheme \o r.host \o r.user = <<>> THEN <<>> ELSE <<"/", "/">>)
    \o (IF r.user = <<>> THEN <<>> ELSE r.user \o <<"@">>) \o r.host \o r.path \o QueryText(r)
    \o (IF r.fragment = <<>> THEN <<>> ELSE <<"#">> \o r.fragment)

(* {real_remote} splits an address that has no port any more, and is the   *)
(* remote address, with its port, therefore                                *)
Default(r, name) ==
    CASE name = <<"method">>       -> <<r.method>>
      [] name = <<"scheme">>       -> <<IF r.tls THEN "https" ELSE "http">>
      [] name = <<"host">>         -> r.Host
      [] name = <<"hostonly">>     -> HostOf(r.Host)
      [] name = <<"path">>         -> OriginalPath(r)
      [] name = <<"path_escaped">> -> Escaped(OriginalPath(r))
      [] name = <<"rewrite_path">> -> r.path
      [] name = <<"rewrite_path_escaped">> -> Escaped(r.path)
      [] name = <<"query">>        -> r.query
      [] name = <<"query_escaped">> -> Escaped(r.query)
      [] name = <<"fragment">>     -> r.fragment
      [] name = <<"proto">>        -> r.proto
      [] name = <<"remote">>       -> HostOf(r.remote)
      [] name = <<"port">>         -> PortOf(r.remote)
      [] name = <<"real_remote">>  -> IF HasPort(RealIP(r)) THEN HostOf(RealIP(r)) ELSE r.remote
      [] name = <<"uri">>          -> URI(r)
      [] name = <<"uri_escaped">>  -> Escaped(URI(r))
      [] name = <<"file">>         -> SubSeq(r.path, LastSlash(r.path) + 1, Len(r.path))
      [] name = <<"dir">>          -> SubSeq(r.path, 1, LastSlash(r.path))
      [] Len(name) = 1 /\ name[1] \in Foreign -> name
      [] OTHER                     -> <<>>

(* getSubstitution: headers in any letter case, cookies, form fields; what *)
(* no header and no cookie has may still be one of the default names       *)
Substitution(r, name) ==
    LET want   == IF name = <<>> THEN <<>> ELSE Tail(name)
        baked  == {i \in DOMAIN r.cookies : r.cookies[i].name = want}
        letter == IF name = <<>> THEN "none" ELSE name[1]
    IN  CASE letter = "H" /\ Lower(want) \in DOMAIN r.header -> Join(r.header[Lower(want)], ",")
          [] letter = "C" /\ baked # {}                      -> r.cookies[Min(baked)].value
          [] letter = "F" -> Get(r.form, want)
          [] OTHER        -> Default(r, name)

(* Replace: from each { to the next }; what is put in is not scanned again. *)
(* A { without a } stays as it is, with all that follows                    *)
Replace(r, text) ==
    LET scan == FoldLeft(
          LAMBDA acc, s :
             IF acc.hole = <<>> THEN IF s = "{" THEN [acc EXCEPT !.hole = <<s>>]
                                     ELSE [acc EXCEPT !.out = Append(@, s)]
             ELSE IF s = "}" THEN [out  |-> acc.out \o Substitution(r, Tail(acc.hole)),
                                   hole |-> <<>>]
             ELSE [acc EXCEPT !.hole = Append(@, s)],
          [out |-> <<>>, hole |-> <<>>], text)
    IN  scan.out \o scan.hole

-------------------------------------------------------------------------------
(* ResourceArgs: the request, the URL and the configuration of the tag *)

NewResourceArgs(r, tag) == [req |-> r, url |-> <<>>, tag |-> tag]

(* Variant of Filled: the key is replaced like the URL *)
BadFilled(args, url) == [args EXCEPT !.url = Replace(args.req, url),
                                     !.tag.key = Replace(args.req, url)]

(* Resource.DoRequest: the same arguments for every resource of the tag,   *)
(* so the key that one has filled in is the template of the next           *)
Filled(args, url) == [args EXCEPT !.url = Replace(args.req, url),
                                  !.tag.key = Replace(args.req, @)]

Limited(args)         == args.tag.timeout >= 1 /\ args.tag.maxbodysize # 0
Validate(args)        == args.url # <<>> /\ Limited(args)
ValidateWithKey(args) == args.tag.key # <<>> /\ Limited(args)

IsPostAllowed(args) == args.tag.forwardpostdata /\ args.req.body
                       /\ args.req.method \in {"POST", "PUT", "PATCH"}

DropHeadersForward ==
    {<<"cache-control">>, <<"connection">>, <<"host">>, <<"pragma">>, <<"upgrade">>}

(* PrepareForwardHeaders, as a set: the order is that of a Go map *)
ForwardHeaders(args) ==
    LET has   == DOMAIN args.req.header
        names == IF args.tag.forwardheaders.all THEN has
                 ELSE Range(args.tag.forwardheaders.names) \cap has
    IN  {<<name, args.req.header[name]>> : name \in names \ DropHeadersForward}
==============================================================================
