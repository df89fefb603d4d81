-------------------------- MODULE ResourceMessages ---------------------------
(***************************************************************************)
(* What the handlers send to a resource (esitag/backend): a request, a     *)
(* message with a part of the arguments, or, to a program, the arguments   *)
(* as JSON (esitag/resource_easyjson.go).                                  *)
(*                                                                         *)
(* A JSON object is a function of the names of its members.  How a text is *)
(* quoted is left to the library.                                          *)
(***************************************************************************)
EXTENDS ResourceArguments

(* The user of a URL; NoUser is nil *)
NoUser    == <<>>
Anonymous == <<"anonymous">>

(* new(http.Request): nothing is set *)
NewRequest ==
    [method |-> "", tls |-> FALSE, Host |-> <<>>, scheme |-> <<>>, opaque |-> <<>>,
     user |-> NoUser, host |-> <<>>, path |-> <<>>, rawpath |-> <<>>, forcequery |-> FALSE,
     query |-> <<>>, fragment |-> <<>>, proto |-> <<>>, major |-> 0, minor |-> 0,
     header |-> <<>>, length |-> 0, encoding |-> <<>>, close |-> FALSE, cookies |-> <<>>,
     form |-> <<>>, postform |-> <<>>, trailer |-> <<>>, remote |-> <<>>, uri |-> <<>>,
     body |-> FALSE]

(* The members that are not empty: only they are written *)
Given(members, empty) == [k \in {k \in DOMAIN members : members[k] # empty} |-> members[k]]

(* One object with the members of several *)
Joined(objects) ==
    [k \in UNION {DOMAIN objects[i] : i \in DOMAIN objects} |->
       LET i == CHOOSE i \in DOMAIN objects : k \in DOMAIN objects[i] IN objects[i][k]]

(* The member of an object, or what a new value has *)
Member(object, name, empty) == IF name \in DOMAIN object THEN object[name] ELSE empty

-------------------------------------------------------------------------------
(* The encoder *)

(* Its fields are not exported: {} *)
EncodeUser(user) == Given(<<>>, user)

(* Variant of EncodeURL: the escaped path is forgotten *)
BadEncodeURL(r) ==
    Joined(<<Given([scheme |-> r.scheme, opaque |-> r.opaque, host |-> r.host, path |-> r.path,
                    raw_query |-> r.query, fragment |-> r.fragment], <<>>),
             Given([force_query |-> r.forcequery], FALSE),
             IF r.user = NoUser THEN <<>> ELSE [user |-> EncodeUser(r.user)]>>)

EncodeURL(r) ==
    Joined(<<Given([scheme |-> r.scheme, opaque |-> r.opaque, host |-> r.host, path |-> r.path,
                    raw_path |-> r.rawpath, raw_query |-> r.query, fragment |-> r.fragment], <<>>),
             Given([force_query |-> r.forcequery], FALSE),
             IF r.user = NoUser THEN <<>> ELSE [user |-> EncodeUser(r.user)]>>)

EncodeRequestLine(r) ==
    Joined(<<Given([method |-> r.method], ""),
             [url |-> EncodeURL(r)],
             Given([proto |-> r.proto, header |-> r.header, transfer_encoding |-> r.encoding,
                    host |-> r.Host], <<>>),
             Given([proto_major |-> r.major, proto_minor |-> r.minor,
                    content_length |-> r.length], 0),
             Given([close |-> r.close], FALSE)>>)

(* Instead of the body there is a remark in the place of it *)
EncodeRequest(r) ==
    Joined(<<EncodeRequestLine(r),
             Given([form |-> r.form, post_form |-> r.postform, trailer |-> r.trailer,
                    remote_addr |-> r.remote, request_uri |-> r.uri], <<>>),
             IF r.body /\ r.method \in {"POST", "PUT", "PATCH"}
             THEN [body |-> <<"TODO", "read", "body">>] ELSE <<>> >>)

EncodeConfig(tag) ==
    Joined(<<Given([forward_headers |-> tag.forwardheaders.names,
                    return_headers  |-> tag.returnheaders.names, key |-> tag.key], <<>>),
             Given([forward_post_data |-> tag.forwardpostdata, coalesce |-> tag.coalesce,
                    forward_headers_all |-> tag.forwardheaders.all,
                    return_headers_all |-> tag.returnheaders.all,
                    print_debug |-> tag.printdebug], FALSE),
             Given([timeout |-> tag.timeout, ttl |-> tag.ttl,
                    max_body_size |-> tag.maxbodysize], 0)>>)

MarshalJSON(args) ==
    Joined(<<[external_req |-> EncodeRequest(args.req), tag |-> EncodeConfig(args.tag)],
             Given([url |-> args.url], <<>>)>>)

-------------------------------------------------------------------------------
(* The decoder, into new values; members it does not know are skipped *)

DecodeUser(object) == Anonymous

DecodeURL(r, o) ==
    [r EXCEPT !.scheme = Member(o, "scheme", @), !.opaque = Member(o, "opaque", @),
              !.user = IF "user" \in DOMAIN o THEN DecodeUser(o["user"]) ELSE @,
              !.host = Member(o, "host", @), !.path = Member(o, "path", @),
              !.rawpath = Member(o, "raw_path", @),
              !.forcequery = Member(o, "force_query", @),
              !.query = Member(o, "raw_query", @), !.fragment = Member(o, "fragment", @)]

DecodeRequestLine(r, o) ==
    [DecodeURL(r, Member(o, "url", <<>>)) EXCEPT
        !.method = Member(o, "method", @), !.proto = Member(o, "proto", @),
        !.major = Member(o, "proto_major", @), !.minor = Member(o, "proto_minor", @),
        !.header = Member(o, "header", @), !.length = Member(o, "content_length", @),
        !.encoding = Member(o, "transfer_encoding", @)]

(* Whatever is in the place of the body, there is none *)
DecodeRequest(r, o) ==
    [DecodeRequestLine(r, o) EXCEPT
        !.close = Member(o, "close", @), !.Host = Member(o, "host", @),
        !.form = Member(o, "form", @), !.postform = Member(o, "post_form", @),
        !.trailer = Member(o, "trailer", @), !.remote = Member(o, "remote_addr", @),
        !.uri = Member(o, "request_uri", @), !.body = FALSE]

DecodeConfig(tag, o) ==
    [tag EXCEPT !.forwardheaders = [all   |-> Member(o, "forward_headers_all", @.all),
                                    names |-> Member(o, "forward_headers", @.names)],
                !.returnheaders  = [all   |-> Member(o, "return_headers_all", @.all),
                                    names |-> Member(o, "return_headers", @.names)],
                !.forwardpostdata = Member(o, "forward_post_data", @),
                !.timeout = Member(o, "timeout", @), !.ttl = Member(o, "ttl", @),
                !.maxbodysize = Member(o, "max_body_size", @), !.key = Member(o, "key", @),
                !.coalesce = Member(o, "coalesce", @),
                !.printdebug = Member(o, "print_debug", @)]

UnmarshalJSON(o) ==
    [req |-> DecodeRequest(NewRequest, Member(o, "external_req", <<>>)),
     url |-> Member(o, "url", <<>>),
     tag |-> DecodeConfig(NewEntity, Member(o, "tag", <<>>))]

-------------------------------------------------------------------------------
(* The handlers *)

ShellPrefix == <<"sh", ":", "/", "/">>

(* DoRequest refuses arguments that it cannot use *)
Accepts(kind, args) == /\ kind # "store" => Validate(args)
                       /\ kind = "shell" => Len(args.url) > Len(ShellPrefix)
                       /\ kind \in {"store", "grpc"} => ValidateWithKey(args)

(* Always a GET; Header.Set keeps the last value of a header only *)
HTTPRequest(args) ==
    LET headers == ForwardHeaders(args)
    IN  [method |-> "GET", url |-> args.url,
         header |-> [name \in {h[1] : h \in headers} |-> <<Last(args.req.header[name])>>]]

GRPCMessage(args) ==
    [method |-> args.req.method, target |-> URLText(args.req), host |-> args.req.Host,
     proto |-> args.req.proto, major |-> args.req.major, minor |-> args.req.minor,
     length |-> args.req.length, encoding |-> args.req.encoding, close |-> args.req.close,
     header |-> [name \in {h[1] : h \in ForwardHeaders(args)} |-> args.req.header[name]],
     body |-> IsPostAllowed(args), remote |-> args.req.remote, uri |-> args.req.uri,
     url |-> args.url, max_body_size |-> args.tag.maxbodysize, key |-> args.tag.key,
     return_headers |-> args.tag.returnheaders]

Message(kind, args) == CASE kind = "http"  -> HTTPRequest(args)
                         [] kind = "grpc"  -> GRPCMessage(args)
                         [] kind = "shell" -> MarshalJSON(args)
                         [] OTHER          -> [key |-> args.tag.key]
==============================================================================
