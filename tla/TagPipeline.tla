----------------------------- MODULE TagPipeline -----------------------------
(***************************************************************************)
(* The way of a tag from the page to its resources: the page is scanned    *)
(* (TagFinder) and its tags are parsed (TagAttributes); the site that the  *)
(* Caddyfile configures fills in its defaults and keeps the tags under the *)
(* ID of the page (PathConfigs); a later request that has this ID asks the *)
(* resources of a tag, one after the other (ResourceArguments).            *)
(*                                                                         *)
(* A page is also given as it was written: a sequence of tags, each with a *)
(* sequence of attributes.  An attribute has a name and a value, and a     *)
(* value is a sequence of parts, texts and placeholders.                   *)
(***************************************************************************)
EXTENDS TagFinder, PathConfigs, ResourceMessages

CONSTANTS WrittenPages,   \* pages as they were written
          Caddyfiles, Clients

-------------------------------------------------------------------------------
(* How a page is written *)

PartText(part)   == IF part.hole THEN <<"{">> \o part.text \o <<"}">> ELSE part.text
ValueText(parts) == FlattenSeq([i \in DOMAIN parts |-> PartText(parts[i])])

(* What is between the quotes, and the whole attribute *)
Inside(a)        == a.left \o ValueText(a.value) \o a.right
AttributeText(a) ==
    a.before \o <<a.name>> \o a.equals \o (<<a.quote>> \o Inside(a) \o <<a.quote>>)

RawText(tag) ==
    <<"include">> \o FlattenSeq([i \in DOMAIN tag.attributes |-> AttributeText(tag.attributes[i])])
        \o tag.end
TagText(tag) == tag.gap \o (EsiOpen \o RawText(tag) \o EsiEnd)
PageText(p)  == FlattenSeq([i \in DOMAIN p.tags |-> TagText(p.tags[i])]) \o p.rest

Within(pattern, t) ==
    \E q \in 0..(Len(t) - Len(pattern)) : SubSeq(t, q + 1, q + Len(pattern)) = pattern

(* A placeholder ends with the next brace, and no other begins without one *)
ValueParts == {part \in [hole : BOOLEAN, text : Seq(STRING)] :
            (IF part.hole THEN "}" ELSE "{") \notin Range(part.text)}

(* Spaces and = are before and behind a name, which is a word.  A value    *)
(* does not contain its own quote; the spaces around it are not its own.   *)
Separators == Spaces \cup {"="}
Attributes ==
    {a \in [name : STRING, value : Seq(ValueParts), quote : Quotes, left : Seq(Spaces),
            right : Seq(Spaces), before : Seq(Separators), equals : Seq(Separators)] :
        /\ a.name \notin Chars \ {"x"}
        /\ a.before # <<>> /\ a.equals # <<>>
        /\ LET value == ValueText(a.value)
           IN  /\ a.quote \notin Range(value)
               /\ value # <<>> => value[1] \notin Spaces /\ value[Len(value)] \notin Spaces}

(* A tag does not contain the end of a tag, what is between tags no        *)
(* beginning of one                                                        *)
WrittenTags ==
    {tag \in [gap : Seq(STRING), attributes : Seq(Attributes), end : Seq(Separators)] :
        ~Within(EsiOpen, tag.gap) /\ ~Within(EsiEnd, RawText(tag))}

ASSUME WrittenAssumption == \A p \in WrittenPages :
    p.tags \in Seq(WrittenTags) /\ p.rest \in Seq(STRING) /\ ~Within(EsiOpen, p.rest)

-------------------------------------------------------------------------------
(* What the Caddyfile and the requests are *)

(* A Caddyfile is a sequence of blocks *)
Blocks == [args : Seq(Seq(STRING)), lines : Seq([key : STRING, arg : Seq(STRING) \cup {NoArg}])]
ASSUME CaddyfileAssumption == Caddyfiles \subseteq Seq(Blocks)

(* A request has every field, and a name in it has a value.  The server    *)
(* has cleaned its path, which begins with a slash; only OPTIONS has none. *)
ASSUME ClientAssumption == \A r \in Clients :
    /\ r = [field \in DOMAIN NewRequest |-> r[field]]
    /\ \A values \in {r.header, r.trailer, r.form, r.postform} :
          \A name \in DOMAIN values : values[name] \in Seq(Seq(STRING)) \ {<<>>}
    /\ r.cookies \in Seq([name : Seq(STRING), value : Seq(STRING)])
    /\ r.method \in STRING
    /\ \A value \in {r.scheme, r.user, r.host, r.path, r.rawpath, r.query, r.fragment, r.remote,
                     r.Host, r.proto} : value \in Seq(STRING)
    /\ r.path # <<>> /\ (r.path[1] = "/" \/ r.path = <<"*">>)

VARIABLES
    written,    \* the tags as they were written, or <<>> for another text
    stage,      \* where the page and the tag are
    tags,       \* the entities of the page
    sites,      \* the path configurations
    entry,      \* the entry of the cache: site, ID, tags and the request it is from
    client,     \* the request that is served from the cache, and the tag it asks for
    args,       \* the ResourceArgs of the tag that is asked for
    asked,      \* the arguments that the resources were asked with
    sent        \* what the last of them was sent

pipeline == <<written, stage, tags, sites, entry, client, args, asked, sent>>
all      == <<vars, pipeline>>

Unset == [none |-> TRUE]

PipelineInit ==
    /\ \/ written = <<>> /\ text \in Texts
       \/ \E p \in WrittenPages : written = p.tags /\ text = PageText(p)
    /\ FinderInit
    /\ stage = "scanning" /\ tags = <<>> /\ sites = <<>> /\ asked = <<>>
    /\ entry = Unset /\ client = Unset /\ args = Unset /\ sent = Unset

ScanPage == stage = "scanning" /\ Next /\ UNCHANGED pipeline

(* Parse, at the end of the page; without tags there is nothing to do *)
ParsePage ==
    /\ stage = "scanning" /\ read = Len(text)
    /\ LET parsed == ParsedTags([i \in DOMAIN found |-> found[i].raw])
       IN  /\ stage' = IF parsed.ok /\ found # <<>> THEN "parsed" ELSE "unparsed"
           /\ tags'  = IF parsed.ok THEN parsed.tags ELSE <<>>
    /\ UNCHANGED <<vars, written, sites, entry, client, args, asked, sent>>

Configure(file) ==
    /\ stage = "parsed"
    /\ LET parsed == configEsiParse(file)
       IN  /\ stage' = IF parsed.ok THEN "configured" ELSE "refused"
           /\ sites' = IF parsed.ok THEN parsed.sites ELSE <<>>
    /\ UNCHANGED <<vars, written, tags, entry, client, args, asked, sent>>

(* A request that gets through to ESITagsByRequest *)
Enters(r) == LET at == ConfigForPath(sites, r)
             IN  at # 0 /\ IsRequestAllowed(sites[at], r)

(* The request that had the page parsed: UpsertESITags *)
Store(r) ==
    /\ stage = "configured" /\ Enters(r)
    /\ LET at == ConfigForPath(sites, r)
       IN  entry' = [site |-> at, id |-> PageID(sites[at], r), request |-> r,
                     tags |-> [i \in DOMAIN tags |-> WithDefaults(tags[i], sites[at])]]
    /\ stage' = "cached"
    /\ UNCHANGED <<vars, written, tags, sites, client, args, asked, sent>>

(* A later request that finds the entry asks for one of its tags *)
Serve(r) ==
    /\ stage = "cached" /\ Enters(r)
    /\ entry.site = ConfigForPath(sites, r)
    /\ entry.id = PageID(sites[entry.site], r)
    /\ \E i \in DOMAIN entry.tags :
          /\ client' = [request |-> r, tag |-> i]
          /\ args'   = NewResourceArgs(r, entry.tags[i])
    /\ stage' = "asking"
    /\ UNCHANGED <<vars, written, tags, sites, entry, asked, sent>>

(* The next resource is asked.  It rejects the arguments or fails, and the *)
(* next one follows, or it answers                                         *)
Ask ==
    /\ stage = "asking" /\ Len(asked) < Len(args.tag.src)
    /\ LET source  == args.tag.src[Len(asked) + 1]
           accepts == Accepts(HandlerOf[source], args')
       IN  /\ args' = Filled(args, source)
           /\ sent' = IF accepts THEN Message(HandlerOf[source], args') ELSE Unset
           /\ \/ UNCHANGED stage
              \/ accepts /\ stage' = "answered"
    /\ asked' = Append(asked, args')
    /\ UNCHANGED <<vars, written, tags, sites, entry, client>>

(* All have failed *)
GiveUp ==
    /\ stage = "asking" /\ Len(asked) = Len(args.tag.src)
    /\ stage' = "failed"
    /\ UNCHANGED <<vars, written, tags, sites, entry, client, args, asked, sent>>

PipelineNext == \/ ScanPage \/ ParsePage \/ Ask \/ GiveUp
                \/ \E file \in Caddyfiles : Configure(file)
                \/ \E r \in Clients : Store(r) \/ Serve(r)

PipelineSpec == PipelineInit /\ [][PipelineNext]_all

-------------------------------------------------------------------------------
(* The reference: what a tag means, from how it was written *)

(* The values that attributes give to a name, in the order of the page *)
ValuesOf(attributes, name) ==
    FlattenSeq([i \in DOMAIN attributes |->
       IF attributes[i].name = name THEN <<ValueText(attributes[i].value)>> ELSE <<>>])

Known(name) == name \in Names \/ name \in {"x", "xsrc"}
Fine(a)     == Known(a.name) /\ (a.name \in Names => Converts(a.name, ValueText(a.value)))
Valid(attributes) == ValuesOf(attributes, "src") # <<>>
                     /\ \A i \in DOMAIN attributes : Fine(attributes[i])

HeadersMeant(values) ==
    LET lists == {i \in DOMAIN values : values[i] # <<"all">>}
    IN  [all   |-> lists # DOMAIN values,
         names |-> IF lists = {} THEN <<>> ELSE CommaListToSlice(Lower(values[Max(lists)]))]

(* Resources in their order; of everything else the last value counts, but *)
(* all headers once asked for are all headers                              *)
Meant(attributes) == [name \in Names |->
    LET values == ValuesOf(attributes, name)
    IN  IF name = "src" THEN values
        ELSE IF name \in {"forwardheaders", "returnheaders"} THEN HeadersMeant(values)
        ELSE IF values = <<>> THEN NewEntity[name]
        ELSE Setting(name, NewEntity[name], Last(values))]

(* Between the quotes of every attribute is something, and the finder does *)
(* not stumble                                                             *)
Legible == /\ \A i \in DOMAIN written : \A j \in DOMAIN written[i].attributes :
                 Inside(written[i].attributes[j]) # <<>>
           /\ ~Stumbles

-------------------------------------------------------------------------------
(* Properties *)

(* However its values are quoted and spaced, a tag is taken for what was   *)
(* written, and a page is refused only for a tag without a resource, with  *)
(* an unknown name or a value that does not convert.  An empty value keeps *)
(* its quotes, and is excepted.                                            *)
ParsedAsWritten ==
    stage # "scanning" /\ written # <<>> /\ Legible =>
        IF \A i \in DOMAIN written : Valid(written[i].attributes)
        THEN tags = [i \in DOMAIN written |-> Meant(written[i].attributes)]
        ELSE stage = "unparsed"

(* Every resource is asked with a timeout and with a limit of its answer,  *)
(* whatever the page and the Caddyfile leave out or set to zero; only a    *)
(* site with a negative timeout lets its resources reject every call.      *)
AskedWithLimits ==
    asked # <<>> /\ sites[entry.site].timeout > 0 => \A i \in DOMAIN asked : Limited(asked[i])

(* No value of a request looks like a placeholder *)
NoBrace(value) == "{" \notin Range(value)
Plain(r) ==
    /\ \A values \in {r.header, r.form} :
          \A name \in DOMAIN values : \A i \in DOMAIN values[name] : NoBrace(values[name][i])
    /\ \A i \in DOMAIN r.cookies : NoBrace(r.cookies[i].value)
    /\ \A value \in {<<r.method>>, r.Host, r.path, r.query, r.fragment, r.proto, r.remote} :
          NoBrace(value)

(* All resources of a tag are asked for one key, that of the tag with the  *)
(* values of the request put in, although they share their arguments and   *)
(* the key is filled in for each of them                                   *)
OneKey ==
    asked # <<>> /\ Plain(client.request) =>
        \A i \in DOMAIN asked :
           asked[i].tag.key = Replace(client.request, entry.tags[client.tag].key)

(* The parts of the last value of a name *)
PartsOf(attributes, name) ==
    LET own == {i \in DOMAIN attributes : attributes[i].name = name}
    IN  IF own = {} THEN <<>> ELSE attributes[Max(own)].value
FilledIn(r, parts) ==
    FlattenSeq([i \in DOMAIN parts |->
       IF parts[i].hole THEN Substitution(r, parts[i].text) ELSE parts[i].text])

(* All resources of a tag are asked for the key that the page names, with  *)
(* the values of the request.  Only values that look like placeholders     *)
(* themselves can break it.                                                *)
KeysAsWritten ==
    /\ OneKey
    /\ asked # <<>> /\ written # <<>> /\ Legible /\ Plain(client.request) =>
          \A i \in DOMAIN asked :
             asked[i].tag.key =
                FilledIn(client.request, PartsOf(written[client.tag].attributes, "key"))

(* What JSON leaves out: the body, the TLS state, the parsed cookies, who  *)
(* the user is, and what is not of a tag's configuration                   *)
ReadRequest(r) == [r EXCEPT !.body = FALSE, !.tls = FALSE, !.cookies = <<>>,
                            !.user = IF @ = NoUser THEN NoUser ELSE Anonymous]
ReadTag(t)     == [t EXCEPT !.src = <<>>, !.condition = FALSE, !.onerror = <<>>]
ReadBack(a)    == [req |-> ReadRequest(a.req), url |-> a.url, tag |-> ReadTag(a.tag)]

(* A program reads its arguments back whole from the JSON it is sent *)
ProgramsReadBack ==
    sent # Unset /\ HandlerOf[args.tag.src[Len(asked)]] = "shell" =>
        UnmarshalJSON(sent) = ReadBack(Last(asked))

(* A resource is told what the tag says.  A program has its arguments; a   *)
(* server gets those headers of the request that the tag asks for, in any  *)
(* letter case, but none of the ones that are never forwarded, and only    *)
(* grpc, and only a tag with forwardpostdata, forwards a body.             *)
ToldAsWritten ==
    /\ ProgramsReadBack
    /\ sent # Unset /\ written # <<>> /\ Legible =>
          LET kind  == HandlerOf[args.tag.src[Len(asked)]]
              meant == Meant(written[client.tag].attributes)
              names == DOMAIN client.request.header
          IN  /\ kind \in {"http", "grpc"} => DOMAIN sent.header =
                    (IF meant.forwardheaders.all THEN names
                     ELSE names \cap Range(meant.forwardheaders.names)) \ DropHeadersForward
              /\ kind = "grpc" /\ sent.body => meant.forwardpostdata /\ client.request.body

(* A request is served the tags of the page with its own path, if the path *)
(* is the last source of the ID and the values before it have no slash:    *)
(* the values are put together without anything between them.              *)
TagsOfOwnPath ==
    client # Unset =>
        LET pc      == sites[entry.site]
            sources == IF pc.page_id_source = <<>> THEN DefaultPageIDSource ELSE pc.page_id_source
            NoSlash(r) == \A i \in 1..(Len(sources) - 1) : "/" \notin Range(FromSource(sources[i], r))
        IN  Last(sources) = <<"path">> /\ NoSlash(client.request) /\ NoSlash(entry.request) =>
                client.request.path = entry.request.path
==============================================================================
