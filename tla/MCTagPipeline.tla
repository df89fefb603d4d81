---------------------------- MODULE MCTagPipeline ----------------------------
(* Instances of TagPipeline for TLC: pages put together from pieces of tags, *)
(* pages written from attributes, Caddyfiles and requests                    *)
EXTENDS TagPipeline

Pieces == {<<"<", "e", "s", "i", ":">>, <<"<">>, <<"<", "e", "s">>, <<"x">>,
           <<"/">>, <<">">>, <<"/", ">">>}

Five == UNION {[1..n -> Pieces] : n \in 1..5}
PagesOfPieces == {FlattenSeq(ps) : ps \in Five}

-------------------------------------------------------------------------------
(* The function of these pairs *)
FunctionOf(pairs) ==
    [key \in {p[1] : p \in pairs} |-> (CHOOSE p \in pairs : p[1] = key)[2]]

(* The conversions *)
SomeDurations == FunctionOf({<< <<"20s">>, 20>>, << <<"0">>, 0>>, << <<"minus">>, -1>>})
SomeSizes     == FunctionOf({<< <<"5MB">>, 5>>, << <<"0">>, 0>>})
OneFile       == FunctionOf({<< <<"error.html">>, <<"sorry">> >>})
SomeFileNames == {<<"error.html">>, <<"gone.html">>}
Aliases       == FunctionOf({<< <<"redis1">>, "store">>, << <<"redis2">>, "store">>,
                   << <<"grpc1">>, "grpc">>, << <<"sh", ":", "/", "/", "program">>, "shell">>,
                   << <<"http", ":", "/", "/", "host", "{", "path", "}">>, "http">>})
LowerWords    == FunctionOf({<<"TRUE", "true">>, <<"COOKIE", "cookie">>, <<"GET", "get">>,
                             <<"POST", "post">>})
TheAddresses  == {<<"10.0.0.1">>, <<"8.8.8.8">>, <<"127.0.0.1">>}
TheUnicast    == {<<"10.0.0.1">>, <<"8.8.8.8">>}
FilesOfLogs   == {<<"stderr">>}
ThatLoads     == {<<"items">>}
Sorry         == <<"not", "available">>

-------------------------------------------------------------------------------
(* The pages that were written *)
Text(t) == <<[hole |-> FALSE, text |-> t]>>
Hole(t) == <<[hole |-> TRUE, text |-> t]>>
Attr(name, value) == [name |-> name, value |-> value]

First == Attr("src", Text(<<"redis1">>))
Others ==
    {Attr("src", Text(<<"redis2">>)), Attr("src", Text(<<"nobody">>)),
     Attr("src", Text(<<"http", ":", "/", "/", "host">>) \o Hole(<<"path">>)),
     Attr("src", Text(<<"sh", ":", "/", "/", "program">>)), Attr("src", Text(<<"grpc1">>)),
     Attr("key", Text(<<"k">>) \o Hole(<<"H", "COOKIE">>)),
     Attr("key", Hole(<<"real_remote">>) \o Text(<<"'">>)),
     Attr("key", Text(<<>>)),
     Attr("key", Hole(<<"C", "session">>) \o Text(<<"=", " ">>) \o Hole(<<"F", "q">>)),
     Attr("timeout", Text(<<"minus">>)), Attr("timeout", Text(<<"20s">>)),
     Attr("maxbodysize", Text(<<"0">>)), Attr("ttl", Text(<<"soon">>)),
     Attr("coalesce", Text(<<"TRUE">>)), Attr("coalesce", Text(<<"1">>)),
     Attr("onerror", Text(<<"error.html">>)), Attr("onerror", Text(<<"gone.html">>)),
     Attr("forwardheaders", Text(<<"all">>)),
     Attr("forwardheaders", Text(<<"COOKIE", ",", " ", "host">>)),
     Attr("returnheaders", Text(<<"x">>)), Attr("printdebug", Text(<<"1">>)),
     Attr("forwardpostdata", Text(<<"TRUE">>)),
     Attr("xsrc", Text(<<"off">>)), Attr("unknown", Text(<<"1">>))}

(* The ways to write them *)
Styles ==
    {[quote |-> "'", before |-> <<" ">>, equals |-> <<"=">>, left |-> <<>>, right |-> <<>>,
      end |-> <<>>, rest |-> <<>>],
     [quote |-> "\"", before |-> <<"\n", " ">>, equals |-> <<" ", "=", " ">>, left |-> <<" ">>,
      right |-> <<"\n">>, end |-> <<" ">>, rest |-> <<"/", ">">>]}

Styled(a, style) ==
    [name |-> a.name, value |-> a.value, quote |-> style.quote, before |-> style.before,
     equals |-> style.equals, left |-> style.left, right |-> style.right]
StyledTag(tag, style) ==
    [gap |-> <<"x">>, attributes |-> [i \in DOMAIN tag |-> Styled(tag[i], style)],
     end |-> style.end]

(* A value must not contain its own quote *)
Fits(tag, style) == \A i \in DOMAIN tag : style.quote \notin Range(ValueText(tag[i].value))

(* A call over grpc that may have a body *)
Forwarding == <<Attr("src", Text(<<"grpc1">>)), Attr("key", Text(<<"k">>)),
                Attr("forwardpostdata", Text(<<"TRUE">>)), Attr("forwardheaders", Text(<<"all">>))>>

OneTag  == {<<First>>, Forwarding} \cup {<<First, a>> : a \in Others} \cup {<<a>> : a \in Others}
           \cup {<<First, a, b>> : a, b \in Others}
TwoTags == {<< <<First, a>>, <<First, b>> >> : a, b \in
               {Attr("key", Hole(<<"H", "COOKIE">>)), Attr("timeout", Text(<<"0">>)),
                Attr("src", Text(<<"redis2">>))}}

TagLists == {<<tag>> : tag \in OneTag} \cup TwoTags
TheWrittenPages ==
    {[tags |-> [i \in DOMAIN p[1] |-> StyledTag(p[1][i], p[2])], rest |-> p[2].rest] :
        p \in {q \in TagLists \X Styles : \A i \in DOMAIN q[1] : Fits(q[1][i], q[2])}}

-------------------------------------------------------------------------------
(* Caddyfiles *)
Line(key, arg) == [key |-> key, arg |-> arg]
Block(scope, lines) == [args |-> scope, lines |-> lines]

TheCaddyfiles ==
    {<<Block(<<>>, <<>>)>>,
     <<Block(<< <<"/", "shop">> >>, <<Line("timeout", <<"0">>), Line("ttl", <<"20s">>),
                                      Line("max_body_size", <<"0">>)>>),
       Block(<< <<"/">> >>, <<Line("timeout", <<"minus">>)>>)>>,
     <<Block(<<>>, <<Line("page_id_source", <<"cookie", "-", "session", ",", "path">>),
                     Line("allowed_methods", <<"get", ",", "POST">>),
                     Line("on_error", <<"error.html">>),
                     Line("log_level", <<"info">>), Line("log_file", <<"stderr">>)>>)>>,
     <<Block(<<>>, <<Line("page_id_source", <<"realip">>), Line("cache", <<"items">>),
                     Line("cmd_header_name", <<"X-Esi">>)>>)>>,
     <<Block(<<>>, <<Line("on_error", <<"gone.html">>)>>)>>,
     <<Block(<<>>, <<Line("timeout", NoArg)>>)>>}

(* Requests *)
Request == [NewRequest EXCEPT
              !.method = "GET", !.Host = <<"shop.com", ":", "80">>, !.path = <<"/", "shop">>,
              !.proto = <<"HTTP", "/", "1">>, !.major = 1, !.minor = 1, !.length = -1,
              !.remote = <<"8.8.8.8", ":", "1234">>, !.uri = <<"/", "shop">>]
TheClients ==
    {[Request EXCEPT !.header = FunctionOf({<< <<"cookie">>, << <<"session", "=", "b">>, <<"z">> >> >>,
                                            << <<"host">>, << <<"x">> >> >>}),
                     !.cookies = <<[name |-> <<"session">>, value |-> <<"b">>]>>,
                     !.user = <<"me">>, !.query = <<"x">>, !.fragment = <<"e">>, !.close = TRUE,
                     !.trailer = FunctionOf({<< <<"x">>, << <<"e">>, <<"s">> >> >>})],
     [Request EXCEPT !.path = <<"/", "home">>, !.method = "POST", !.body = TRUE,
                     !.length = 4, !.rawpath = <<"/", "home">>, !.forcequery = TRUE,
                     !.scheme = <<"http">>, !.host = <<"host">>,
                     !.form = FunctionOf({<< <<"q">>, << <<"books">> >> >>}),
                     !.postform = FunctionOf({<< <<"q">>, << <<"books">> >> >>}),
                     !.encoding = << <<"chunked">> >>],
     [Request EXCEPT !.path = <<"/", "home">>,
                     !.header = FunctionOf(
                        {<< <<"x-forwarded-for">>,
                            << <<"127.0.0.1", ",", " ", "10.0.0.1", ":", "99">> >> >>,
                         << <<"cookie">>, << <<"{", "path", "}">> >> >>})]}
==============================================================================
