# Verification of caddy-esi

caddy-esi is a middleware of the Caddy web server, written in Go, that
replaces Edge Side Include tags (`<esi:include src="..."/>`) in the pages of
the next handler by data fetched from backends.  This directory holds TLA+
modules translated from its source, TLC configurations that check them on
small instances, and TLAPS proofs.

## The system

| component | state | operations | interacts with |
|---|---|---|---|
| Middleware (`middleware.go`) | a singleflight group for parsing, one for coalesced tags | `ServeHTTP`, `serveBuffered`, `handleHeaderCommands` | everything below, the next handler |
| PathConfig (`config.go`) | map from page ID to parsed tags, under a RW mutex; log level | `ESITagsByRequest`, `UpsertESITags`, `purgeESICache`, `pageID` | looked up and filled by requests, purged by the header command and by a restart |
| Entity, Entities (`esitag/esi_tag.go`) | configuration and resources of a tag, shared by all requests once cached | `Entity.QueryResources`, `Entities.QueryResources`, `SplitCoalesce`, `UniqueID`, `ParseRaw` | one goroutine per tag and request, a channel of DataTags |
| Resource (`esitag/resource.go`) | circuit breaker: failure count and time of the last failure, atomics shared by all requests | `CBState`, `CBRecordFailure`, `CBReset`, `DoRequest` | called by Entity, calls a handler |
| Handler registry (`esitag/resource.go`) | global map of handlers, one of factories | register, lookup, `CloseAllResourceHandler` | setup, restart, parsing of a tag |
| Resource handlers (`esitag/backend/*.go`) | a connection pool or client each | `DoRequest`, `Close` | external servers, the context of the request |
| Parser (`esitag/esi_parser.go`, `esitag/esi_tag.go`) | finite state machine `finder` | `Parse`, `split`, `scan`, `SplitAttributes`, `ParseRaw` | fed by the buffered page, looks up handlers |
| DataTags (`esitag/data_tag.go`) | tags in page order, position in the stream, one write state per tag | `InjectContent`, `DataLen`, `ResetStates` | called by both response writers |
| Response writers (`response_proxy_inject.go`, `response_proxy_buf.go`) | header, status code, flags | `WriteHeader`, `Write`, `initLazyTags`, `TriggerRealWrite` | the next handler above, the client's writer below |
| Setup (`setup.go`, `resource_config.go`) | path configurations | Caddyfile and resource files; hooks for shutdown and restart | runs before the requests |
| Replacer, arguments (`esitag/replacer.go`, `esitag/resource.go`, `helper/*.go`) | per request | variables in URLs and keys, headers, validation | called by `Resource.DoRequest` and the handlers |
| JSON codec (`esitag/resource_easyjson.go`) | none | `MarshalJSON`, `UnmarshalJSON` | the shell handler, and the program it starts |
| Data cache, buffer pool, helpers | registry stub, `sync.Pool` | | |

A request goes one of two ways.  On the *slow path* the tags of its page are not
in the cache: the page is rendered into a buffer, parsed once for all requests
that wait for it, the tags enter the cache, are queried and injected.  On the
*fast path* the tags are known: they are queried while the next handler
renders, and the first write of the page waits until all of them have arrived.

What is hard here:

- *Interleaving.* Breakers are two words without a lock, used by every request
  of every page.  A request on the fast path has up to three levels of
  goroutines which send to one unbuffered channel that must be closed exactly
  after the last send.
- *Sharing.* Two singleflight groups hand the result of one request, computed
  with its own page, request and context, to others.
- *Cancellation.* The context of a request ends when its client leaves or the
  handler returns; goroutines race it.
- *Staleness.* Positions of tags are cached apart from the page they belong to.
- *Chunks.* A page arrives in arbitrary pieces and tags may span them.
- *Arithmetic.* An exponential back-off in 64-bit nanoseconds.

What makes the parts correct is stated by the properties below.

## Modules

| module | models | properties |
|---|---|---|
| `CircuitBreaker` | arithmetic of `CBState`, `CBThresholdCalc` | (used by `EntityQuery`) |
| `EntityQuery` | `Entity.QueryResources` and all atomic accesses to the breakers | `TypeOK`, `FailuresAreDated`, `OvershootBounded`, `ClosedOnlyByProbe`, `FirstRecovers`, `TriesAgain` |
| `EntityQueryProofs` | theorems about `EntityQuery` | |
| `TagStream` | the fast path: `ServeHTTP`, `Entities.QueryResources`, `initLazyTags`, the coalesce group | `TypeOK`, `ClosedAfterLastSend`, `CompleteUnlessDropped`, `OneFlight`, `SharedAlike`, `WriterProceeds`, `SendersEnd`, `Gathers`, `StreamCloses` |
| `TagGathering` | what the fast path promises the writer, as an abstract specification that `TagStream` implements | (property `Gathers` of `TagStream`) |
| `TagStreamProofs` | theorems about `TagStream` | |
| `PageCache` | lookup, slow path, parse group, purge | `TypeOK`, `OneParse`, `QuietPurgeWorks`, `EventuallyCached`, `Answered`, `PurgeWorks` |
| `PageCacheProofs` | theorems about `PageCache` | |
| `InjectContent` | `DataTags.InjectContent` over all chunkings | `PanicsOnlyOnOverlap`, `TagsOnceInOrder`, `PageReplaced` |
| `ResponseWriters` | both writers around `InjectContent`: status, headers, Content-Length | `WritersTypeOK`, `PageAsItShouldBe`, `StatusKept`, `LengthMatches` |
| `ResponseWritersProofs` | theorems about `InjectContent` and `ResponseWriters` | |
| `TagFinder` | `Parse`, `finder.split` and `finder.scan`, byte by byte | `TypeOK`, `FoundAreTags`, `FoundAll` |
| `TagAttributes` | `SplitAttributes`, `Entity.ParseRaw`, `SetDefaultConfig` | (operators) |
| `ResourceArguments` | `replacer`, `RealIP`, `ResourceArgs`, `Resource.DoRequest` | (operators) |
| `PathConfigs` | `configEsiParse` with its directives and defaults, `ConfigForPath`, `IsRequestAllowed`, `pageID` | (operators) |
| `ResourceMessages` | the JSON encoder and decoder of the arguments, the requests of the HTTP and gRPC handlers | (operators) |
| `TagPipeline` | the five modules above in the order in which a tag meets them, from its page to its resources | `ParsedAsWritten`, `AskedWithLimits`, `KeysAsWritten`, `TagsOfOwnPath`, `ToldAsWritten` |
| `TagPipelineProofs` | theorems about `TagFinder` and `TagPipeline` | |
| `RecursionLemmas` | induction, recursion, folds and sums over an interval, and parts of a sequence, for the proofs | |
| `ResourceHandlers` | `DoRequest` and `Close` of the redis, memcache, HTTP, shell and gRPC handlers | `TypeOK`, `PostsWholeBody`, `CallsReturn`, `PlainConnectionsReturn`, `ConnectionsReturn` |
| `ResourceHandlersProofs` | theorems about `ResourceHandlers` | |
| `HandlerRegistry` | the registry of handlers over starts, reloads and the end: `configLoadParams` (resources), `RegisterResourceHandler`, `LookupResourceHandler`, `CloseAllResourceHandler`, the hooks of `PluginSetup` | `TypeOK`, `ServesItsOwn`, `OpenOnesAreKnown`, `RefusedForAReason` |
| `HandlerRegistryProofs` | theorems about `HandlerRegistry` | |
| `MC...` | values of the constants for TLC | |

The modules meet at their edges: a call of `Entity.QueryResources` (all of
`EntityQuery`) is the step `QueryEnds` or `FetchEnds` of `TagStream`; a call of
a handler (all of `ResourceHandlers`) is one of the steps `CallNotFound`,
`CallFails`, `CallSucceeds` of `EntityQuery`; `HandlerRegistry` says which
handler it is and when its `Close`, an action of `ResourceHandlers`, comes; the
sorted tags of `TagStream` and of `PageCache`'s step `Respond` are the tags of
`InjectContent`, which `ResponseWriters` extends and whose action `Call` it
uses; the step `Parse` of `PageCache` is a run of `TagFinder` and the step
`ParsePage` of `TagPipeline`, and
`FoundAreTags` gives what `InjectContent` calls `OwnTags`, the tags of a page in
order and without overlap.  What a coalesced flight that another page leads adds to
them has the positions of that page, and nothing of the kind: `Layouts` has those
too.  `TagPipeline` and `PageCache` share the cache: the one says
which tags a page ID leads to, the other what concurrent requests and purges do
to them.  The loop over the resources, with its breakers, is `EntityQuery`;
`TagPipeline` has the same loop (`Ask`, `GiveUp`) for the arguments that it
changes on the way, without the breakers: a resource whose breaker is open is asked
there too, where the code goes on to the next one with the arguments as they are.

Definitions named `Bad...` or `Late...` are variants of the definition that
follows them, with a plausible mistake in it.  No specification uses them;
each property is shown to fail when such a variant takes the place of the
original, so that it does depend on the code.

### CircuitBreaker and EntityQuery

A step is one atomic load, add or store, one reading of the clock, or the
outcome of one backend call.  `pc[p]` is the place of request `p` in
`Entity.QueryResources` or in the breaker's method it is in, `idx[p]` the
resource, `seenFailures`, `seenLast`, `cbState`, `failTime` are Go locals,
`failures` and `lastFailure` the two shared words.  `failedProbes` is a history
variable: the failed calls of requests that found the breaker half-open, since
the counter was last cleared.  A request slot is used again when its query has
ended, so that the number of requests is not bounded.

Times are integers of `Width` bits with `Second` ticks per second: the
code's are 64 bits with 10^9 ticks.  With `Width = 8` and `Second = 1` the
overflow of `2^failures` seconds, in the code at 33 failures, is within reach.
`CBMaxFailures` is 12 in the code and 1 or 2 in the runs; the proofs hold for every
value.  Bounds: `MaxTime` stops the clock, `MaxFailTime` and
`MaxFailures` stop the backend from failing.

### TagStream

Variables hold the state of each goroutine of a request (`next`, `stream`,
`sender`, `coal`, `fetch`), `flight` and `lead` the singleflight group,
`received` the tags the writer got.  A send on the unbuffered `chanTag` is
one step with its receive.  The group's call has three steps, as in
the library: the function returns, waiters wake, the key is forgotten.  A
request that joins between the first and the last gets the ended result.
Requests are used once, hence there are final states
(`CHECK_DEADLOCK FALSE`).

`TagGathering` is what the writer relies on, without goroutines, channels and
flights: a stream per request that is opened, hands over tags one by one to a
writer that waits, none twice, and is sealed when only lost tags are missing;
tags are lost only after some client has left, which for a flight need not be
the request's own.  The refinement mapping of `TagStream` computes the phase of
the stream from the goroutine that closes it (`Phase`), the writer from the next
handler (`Writer`), and the lost tags as those that an ended context has dropped
(`Lost`).  That a stream is sealed at all is no part of it: it fails
(`StreamCloses`).

### PageCache

One page: pages do not interact, except that a purge empties all of them.  The
next handler renders the current version `content`; a set of tags is
identified with the version it was parsed from.  `Versions` has pages with
tags, without tags and with a tag the parser rejects; that the next handler
fails or renders something other than text is the step `EndUninjected`.
`edits` and `purges` are bounded by `MaxEdits` and `MaxPurges`; `edited`,
`late` and `quiet` are history variables for the properties.  The commands
that set the log level do not touch this state.

### InjectContent

The page is the sequence of its positions, the data of a tag one symbol, so
that the output shows where every byte came from.  All layouts of tags and all
ways to cut the page into chunks are explored; a slice expression out of range
yields the symbol `Panic`, and nothing is written after it.  `Replaced` is the
reference, defined from the positions alone.  The tags of a page of which no tag
is known go to the client as they are and are left out, as are chunks without a
byte, which are written as they are and move nothing.  The page ends
(`CHECK_DEADLOCK FALSE`).

The tags of a request come from two sources: those of its own page, and the
coalesced ones, which carry the positions of the page that leads their flight
(`middleware.go:138-140`; `UniqueID`, `esitag/esi_tag.go:426-433`, leaves positions
out).  The writer sorts them by their starts.  `Layouts` is what can come of that:
two families of tags, each without overlap in itself, that may overlap each other
and may lie behind the end of the page.  `OwnTags` is the premise, where there is
one, that all of them are the page's.  `PanicsOnlyOnOverlap` needs none: it says
that the slice of the text between two tags (`data_tag.go:175`) is the only one that
can be out of range, and that it takes two tags of different pages that overlap and
end in the chunk at hand.  The other slice that looks exposed
(`data_tag.go:188`) is not: it is written for the last tag only, and ends with the
chunk.

`ReplacedIfRespected` says for which chunks the page comes out right
(`ChunksRespectTags`); the premise is as weak as the code allows, and
`PageReplaced`, without it, fails.  What a page with the tags of another one
looks like has no right answer; of it only `PanicsOnlyOnOverlap` and
`TagsOnceInOrder` speak.

### ResponseWriters

One response.  `kind` chooses the writer, `written` counts what the next
handler has written, `head` is what `net/http` has sent ahead of the body: the
first `WriteHeader` or, at the first body byte, an implicit 200 without the
handler's headers.  The injecting writer passes each chunk to
`InjectContent!Call` unless the page is no text; the buffered one keeps all
and, when the handler returns, passes the page in one call.  The handler may
call `WriteHeader` before its page, within it, several times or never, and it
may fail or write nothing.  A panic of the injection goes through the handler and
ends the request (`Handling`).  The buffered writer injects the tags that were
parsed from its page, or from that of the leader of the parse flight, and none of
another page's: the slow path does not coalesce.  `LengthMatches` compares the Content-Length that
was corrected by `DataLen` before the first chunk with the bytes that
`InjectContent` wrote (`BodyLen`); each premise of it is needed (see the known
disagreements).

### TagFinder

A page is a sequence of bytes from the alphabet that the state machine tells
apart.  A step hands the next bytes, as many as the `bufio.Scanner` happens to
have, to `split`; the scanner's own buffer and its limit are left out.
`TagsOfPage` is the reference: each tag reaches from `<esi:` to the next `/>`.
`FoundAreTags` holds for every page; `FoundAll` for those in which the state
machine does not stumble: no opening stands right behind a part of one, and no
`/>` behind another slash (`Stumbles`).  Both would be missed.

### TagPipeline

The life of one page and one of its tags.  `TagFinder` scans the page;
`ParsePage` makes entities of what it found; `Configure` sets up the sites of a
Caddyfile; `Store` is the request that had the page parsed, `Serve` a later one
that finds the entry under its own page ID; `Ask` asks the next resource, which
rejects its arguments, fails or answers.  `args` is the one `ResourceArgs` that
all resources of the tag share, `asked` what each of them got, and `sent` what
the last was sent: a request, a message, or a JSON object on the standard input
of a program.

Texts are sequences of symbols: the bytes that the code tells apart, and words
of three bytes or more.  Durations, sizes, addresses, files and handlers are
constants: functions or sets that stand for the library function that decides
about a text.  A header name has one spelling, all lower case.  A page ID stands
for its hash.  `strings.FieldsFunc` is presumed to call its function once for
each character, in order.  Its documentation does not promise this, but its
implementation does so; older ones do it twice, which makes no difference for
quotes that close.

A page is either any text, or it is given together with what its author wrote:
a sequence of tags, each with a sequence of attributes, whose values have texts
and placeholders as parts.  `PageText` says how such a page is spelled: an
attribute has one of the quotes, any spaces between the quotes and the value, and
any spaces and `=` before and behind its name.  What can be written so is
`WrittenTags` and `Attributes`: a value does not contain its own quote, a tag not
the end of a tag, and what is between the tags no beginning of one
(`WrittenAssumption`).  A name is one word or the symbol `x`, the only one-symbol
name there is.  `Legible` leaves out pages with nothing at all between some
quotes, whose quotes stay (see the known disagreements), and those in which the
finder stumbles.  `TagsOfPage` is the reference for the first kind of page,
`Meant`, `FilledIn` and `ReadBack` for the second.  `TypeOK` and the two properties
of `TagFinder` are checked on both.

- `ParsedAsWritten`: whichever quotes and spaces are around the values, the
  parser gets what was meant, and refuses exactly the pages with a tag that has
  no resource, an unknown name or a value that does not convert.
- `AskedWithLimits`: tag, Caddyfile and built-in defaults together give every
  call a timeout and a limit.
- `KeysAsWritten`: although the key is filled in again for each resource, all of
  them are asked for one key (`OneKey`), which is the one that the page names.
- `TagsOfOwnPath`: which page IDs tell pages apart.
- `ToldAsWritten`: what goes out is what the tag and the request say.  The
  decoder reads back what the encoder of the same file wrote for a program
  (`ProgramsReadBack`); a server gets the headers that the tag asks for, but none
  of those that are never forwarded, and a body only over gRPC and only for a tag
  with `forwardpostdata`.

The constants have the shapes that their sources give them.  A page is a
sequence of bytes; a Caddyfile is a sequence of blocks of lines, as Caddy's lexer
hands them over (`CaddyfileAssumption`); a request of `net/http` has every field,
at least one value for each name in it, and a path that the server has cleaned,
which begins with a slash unless it is the `*` of OPTIONS (`ClientAssumption`); an
address has no brace (`AddressAssumption`); the built-in timeout and limit are
positive (`DefaultAssumption`).  TLC evaluates them for the values of the run.

The page is done when its tag has been asked for (`CHECK_DEADLOCK FALSE`).

### ResourceHandlers

`caller` is the call of `DoRequest`, `worker` the code that asks the store, the
server or the program.  The worker is a goroutine of its own in the shell handler
and, when `isCancellable`, in those of the stores; the others do the same steps
themselves.  `kind` and `isCancellable` are chosen at the start.  With redis the
worker has a connection from `pool.Get` to the deferred `conn.Close`.  The pool
of redigo is external: at most `MaxActive` connections, and an error when there
is none.  The client of memcache is external too: it has no such limit, and a
timeout.  `Interrupted` is the end of the context that HTTP and shell put around
their work, or the close of the connection of gRPC; a killed program is presumed
to take its pipes with it.

The calls are those of one request.  With `posting` a gRPC call reads the body
of the request in `Parts`, closes it and leaves a copy of what it has read to
the next: `ReadBody`, `ReadPart`, `CloseBody` and `ReplaceBody` are steps of
their own, because the calls of several tags interleave them.  `body` is
`r.Body`, by the call that left it; `left` what each body still has.  Two calls
that read one copy at the same time may both get a part, since a copy has no
lock.  When one tag alone forwards the data, its resources are asked one after
the other, and `PostsWholeBody` holds; when several do, they read it from each
other, and nothing is promised.  Calls are used once (`CHECK_DEADLOCK FALSE`).

### HandlerRegistry

Handlers are records of the instance, the item and the alias they were created
for; `registry` is the global map, `closed` the handlers whose `Close` was
called with success.  A configuration has the sites of the Caddyfile that use the
middleware and the list of the items of their resource files, in the order in which
the setup registers them; an alias may come again, in another site or in the same
file, as in the test "Overwrite duplicate key in KVServices"
(`setup_backend_test.go:116-137`).  A configuration may also have no such site.

`phase` follows Caddy, which is external.  A reload runs the restart hooks of the
sites of the instance that serves (`hooks`) and gives up when one fails; it then
reads the new configuration (`Load`), sets up its items one by one (`count`) and
starts the new instance; when the setup fails, the old instance goes on.  Once the
new one has started Caddy runs the shutdown hooks of the old one (`TakeoverHook`):
`OnShutdown` is for restarts too, only `OnFinalShutdown` is not.  The registry is
shared, so that these hooks close the handlers that the new instance has just
registered.  When one of them fails Caddy returns from the reload with both
instances alive and the old one still the one to reload next.  `serving` is that
one, `live` are all that take requests.  At the end of the process the shutdown
hooks of all of them run, and their errors are only logged.

The bodies of hooks are one step, as `CloseAllResourceHandler` holds the lock of
the registry; requests parse tags between any two steps, and `cached` has the
handler that each instance's tags keep.  `Strict` are the aliases of gRPC, whose
connection returns an error when closed a second time.  The handlers of http, https
and sh have nothing to close and are left out.  How a tag or a file is parsed is
left out; `Configs` are all results for the given sites and aliases.  A redis client
whose ping fails at setup is never registered, and its pool, which has no
connection, is left out.  At most `MaxReloads` reloads get to the setup.  The server
ends (`CHECK_DEADLOCK FALSE`).

`ServesItsOwn` is about the newest instance, `OpenOnesAreKnown` about every
handler ever created, `RefusedForAReason` about the first hook of a reload: when it
must fail, and when it must not.

## Runs

| run | bounds | shows |
|---|---|---|
| `breaker_recovers` | 2 requests, 1 resource, limit 1, failures up to time 6, clock to 15 | the safety of the breakers with clients that leave, and that a breaker closes again |
| `breaker_overflow` | 3 requests, 1 resource, limit 2, 5-bit times | **fails**: open for ever after an overflow |
| `stream_mixed` | 2 requests, 2 pages, a plain and a coalesced tag that both pages have | no tag lost or doubled, no send after the close, flights shared alike; writers and plain senders come to an end; the whole implements `TagGathering` |
| `stream_leak` | the same, 1 page | **fails**: goroutines of the coalesced tags leak |
| `page_cache` | 2 request slots used again and again, 4 versions, 2 edits, 2 purges | one parse at a time, purges in quiet work, requests are answered, pages get cached |
| `cache_race` | 2 requests, 2 versions, few edits and purges | **fails**: a late parse undoes a purge |
| `page_written` | 7 bytes, up to 3 tags of 2 or 3 bytes from one page or two, 2 status codes, data of 1, 5 and 0 bytes | panics on overlap only, order, the page when chunks respect tags, status and length |
| `inject_split` | 6 bytes, 1 tag | **fails**: a page cut at the edge of a tag comes out wrong |
| `finder_scan` | pages of up to 5 pieces of tags and pages of written tags with up to 3 attributes of 24, in 2 ways to write them; read in parts of up to 4 bytes; 6 Caddyfiles, 3 clients, 4 kinds of handlers | positions, found and missed tags, and the way of a tag to its resources |
| `handler_calls` | 3 calls, 2 connections, a body of 1 part, each handler | calls return, connections return without cancellation, and the body is sent whole |
| `redis_leak` | the same | **fails**: connections do not return with cancellation |
| `reloads` | 2 sites, 2 aliases, one of them gRPC, up to 2 items, 2 reloads | which handlers are open or closed after a reload, lost handlers, refused reloads |

Why the bounds are enough.  Two requests suffice for every race between two
atomic accesses; a failure at time 3, its back-off of two seconds and a failed
probe at time 6 fit the clock of `breaker_recovers`.  One resource is all that
run has; that its safety holds with fall-back to further ones is proved, for
any number of them.  In `stream_mixed` one
request leads while the other follows or comes between the end of a flight and
its removal; for any number of requests its safety properties are proved.  Two
edits let a page change and change back, and a request slot is used
again, so that what an earlier request left behind meets a later one.  Seven
bytes hold three tags of two bytes with text in one place around them or two of
three, a tag as the first or the last bytes or behind the end, two or three that
overlap, and chunks that cut a tag once or twice.  Five
pieces hold a whole tag with a piece before it and two behind, and four bytes
end within the opening of a tag.  Two attributes besides the first give every
pair of names twice over and each value with each other; one Caddyfile has two
sites, others have each of the defaults left out, zero or negative, and the IDs
from cookie, address and path; one of the clients has a value that looks like a
placeholder.  One tag (`Forwarding`) is for gRPC and has a key, all headers and
the body, which no two attributes give together.  A pool of two with three calls runs out.  One part
of the body suffices to lose it, and `PostsWholeBody` is proved for any number;
three calls let a copy be read, closed and replaced again.  Two reloads let one that
failed, was refused or succeeded be followed by another, and an instance without
the middleware stand between two others; two items can share an alias, in one site or
two.

The failing runs are disagreements between the code and its documentation, each
listed with the quoted sentence under `findings` of `PROJECT.json`.

### Known disagreements that are not runs

They were met while modelling; the models contain them, and the properties
have them as premises or leave room for them.

- Clients that go away are counted as failures of the backend and open the
  breaker of a healthy one (`esitag/esi_tag.go:328`).
- A request that joined a flight loses tags when the client of its leader
  leaves, whose context the query runs under (`middleware.go:121`).
- The key of a flight, `UniqueID`, ignores positions, so that two pages with
  the same coalesced tag share the positions of one of them
  (`esitag/esi_tag.go:430`).  When such a tag overlaps one of the page and both end
  in one chunk, `InjectContent` panics (`esitag/data_tag.go:175`).
- A page is parsed twice when a request looks into the cache before the first
  flight stores its tags and joins the group after it ended, against the comment at
  `middleware.go:190-194`.
- A malformed tag makes every request of the page fail with status 500
  (`esitag/esi_parser.go:62`), against the comment at `esi_parser.go:30-31`.
- A tag at offset 0 is never replaced, and of several whole tags in a chunk
  without the page's last tag the text around is repeated
  (`esitag/data_tag.go:142`, `:195`).
- A redis call without `cancellable=1` ignores the timeout of its tag
  (`esitag/backend/redis.go:136`), and so does every gRPC call
  (`esitag/backend/grpc.go:154`).
- The finder misses a tag right behind a part of an opening, as in `<<esi:`,
  and an end behind a slash, `//>` (`esitag/esi_parser.go:127`, `:152`).
- An absent Content-Length is set to what the tags add, without the page
  (`response_proxy_inject.go:88-90`, `response_proxy_buf.go:96-98`), and that
  of a page that turns out to be no text is corrected although nothing is
  injected (`response_proxy_inject.go:83-91`).
- A handler that never calls `WriteHeader` loses its headers in the injecting
  writer and gets status 0 in the buffered one (`response_proxy_buf.go:104`).
- After each reload that succeeds, the handlers of the new instance are closed:
  the shutdown hook of the old one (`setup.go:65-67`) runs last, on the registry that
  both share.  When the old instance had no site with the middleware, they stay open.
- A gRPC connection returns an error when closed again (`setup.go:73`,
  `esitag/resource.go:271`).  So a reload from a gRPC configuration with two sites is
  refused at its second restart hook; when the new configuration has an item for
  every gRPC alias and the old one had a single site, the first reload succeeds, its
  shutdown hook closes the new connection, and every further reload is refused.
- When the new configuration lacks a gRPC alias of the old one, the shutdown hook of
  the old instance fails at the connection that the restart hook has closed, and both
  instances are left running (`setup.go:65-67`).
- After a reload that failed or was refused the old instance goes on with
  handlers its hooks have closed, or with those that the failed setup had
  registered (`setup.go:68-74`).
- A reload of an instance without the middleware runs no hooks: what was registered
  before it and is replaced after it is never closed.
- Two items with the same alias, in one site or in two: the first handler is never
  closed (`esitag/resource.go:239`), against the comment at `resource.go:423`; and
  all sites use the last.
- An alias that the new configuration no longer has still leads to its closed
  handler instead of an error (`esitag/resource.go:262`).
- An empty value keeps its quotes, a value without quotes loses its first and
  last letter (`esitag/esi_tag.go:126`).
- A negative timeout in a Caddyfile stays, and its resources reject every call
  (`setup.go:109`, `esitag/resource.go:85`).
- The values of a page ID are hashed without anything between them, so that
  different pages can share an entry (`config.go:230-275`).
- `{real_remote}` never is the address behind the proxies: an address without a
  port does not split, and the remote address with its port takes its place
  (`esitag/replacer.go:180`), against `README.md:453`.
- A value of the request that looks like a placeholder is replaced as one when
  the next resource of the tag is asked (`esitag/resource.go:507`).
- The HTTP handler forwards the last value of a header only
  (`esitag/backend/http.go:93`), against `README.md:338`, and the headers that a
  resource returns are not used at all, whatever `returnheaders` says.
- A program does not get the body of a request, only the remark `TODO read body`
  (`esitag/resource_easyjson.go:788-795`), against `README.md:534`.
- Several tags with `forwardpostdata` may each send a part of the body, and the
  next handler or a placeholder `{F...}`, which parses the form, may have read
  all of it before (`esitag/backend/grpc.go:123`).
- The README of the repository speaks of back-offs of 2, 4, 8 milliseconds
  (`README.md:244-246`), the code uses seconds; the models follow the code.

### Fairness

- `EntityQuery`: goroutines are scheduled (weak fairness of `Step`); the clock
  runs (strong fairness of `Tick`, because a bound may hold it up while a failure is
  being recorded); a backend that is called again and again succeeds at last
  (strong fairness of `CallSucceeds` for each request and resource).  The last is the
  premise of recovery.  That requests keep coming is part of it: a breaker
  closes by a request and not by itself.
- `TagStream`: weak fairness of the goroutines.  That a query ends is justified
  by the timeout the HTTP and shell handlers put around it; the redis handler
  does so with `cancellable=1` only.  Nothing is assumed of `Collect`, `Return`
  and `ClientLeaves`: the next handler may never write and the client may stay.
- `PageCache`: weak fairness of the steps of a request that has arrived; no
  request, edit or purge has to come.
- `ResourceHandlers`: goroutines run, every context with a timeout ends, and the
  memcache client has a timeout: weak fairness of `WorkerStep`, all that a
  goroutine does without waiting for others, and of `ContextEnds`.  That a redis
  or gRPC server answers, or the client sends its body, is no fairness but the
  premise `Answering` of the properties that need it.

## Proofs

`EntityQueryProofs` proves for every set of requests, number of resources,
width, limit and clock, from `BreakerAssumption` and `QueryAssumption` alone:

- `TypeCorrect`.  `TypeInv` adds to `TypeOK` that a request beyond the loop's
  head is at a resource and that one about to reset has found the breaker
  half-open at its limit; without it `failures[idx[p]]` need not be defined.
- `FailuresDated`.  `FailuresAreDated` is inductive given `TypeInv` and that a
  request about to store a time read a positive clock.  The pending request is
  what the order of the two stores in `CBReset` provides.
- `ClosesByProbeOnly`.  A decrease of a counter is the second store of
  `CBReset`, and `TypeInv` says who gets there.
- `OvershootIsBounded`.  Not inductive: the invariant `Overshoot` counts, for
  each breaker, the requests that were admitted while it was closed and can
  still fail; counter plus admitted requests never exceed the bound.  The steps move
  requests into and out of that set, with the cardinality lemmas of
  FiniteSetTheorems.

`PageCacheProofs` proves for every set of requests and versions:

- `PageTypeCorrect`, the type invariant.
- `ParsedByOne`: `OneParse` together with "no flight, no leader" is inductive.
- `QuietPurge`: while nobody was in progress at the last purge and the page was
  not edited since, the cache, the flight and every request hold the current
  version or nothing (`Fresh`).  The step `Purge` needs that idle requests hold
  nothing and that a flight has a leader (`FlightLed`): this is how a purge in
  quiet also finds the group empty.

`TagStreamProofs` proves for every set of requests, pages and tags:

- `StreamTypeCorrect`, the type invariant.
- `ClosesLast`: the place of the goroutine that closes the channel says that
  all senders of its request have ended.
- `OneFlightOnly`: a flight under way has one leader, the request whose
  goroutine is at it.
- `FlightsShareAlike` and `PagesComplete` rest on `StreamInv`, eight parts that
  are inductive together.  `ControlOK` and `DataOK` give the places and the
  types; `Ordered` says what has ended before the next goroutine goes on; `Led`
  and `LeadersOK` tie the flight and all that share it to one leader;
  `ResultOK` says that a result is what the leader's fetches sent, and that all
  of them have ended when it is shared; `Waited` that a page is injected only
  after the close of its channel; `Counted` that the writer has got, once each,
  the tags its senders sent and the part of the flight's result that is no
  longer to be shared.  Without `Counted` a tag could come twice, without
  `ResultOK` a follower could share a result that is still growing.

- `StreamGathers`, the refinement: `TagStream` implements `TagGathering`.  Each
  step is mapped to one of the abstract steps, or to none: a delivery to `Gather`,
  a drop to `Lose`, the close to `Seal`.  `GatheringInv` adds to `StreamInv` that
  a request has a stream from its arrival on (`Opened`) and that whatever is
  dropped had a client that left (`LostForSomebody`).  That the close is a `Seal`
  is `NothingElseMissing`: what the writer has not got by then, `Counted` and
  `ResultOK` say, was dropped.

`ResourceHandlersProofs` proves for every set of calls, size of the pool and
number of parts:

- `HandlersTypeCorrect`, the type invariant with the bound of the pool; it
  needs that the set of connections in use is finite.
- `WholeBodyPosted`.  While one tag alone posts, one call at most is at work
  (`OneWaits`); between two readers the body is whole and open (`BodyReady`), and
  within one what it has read and what is left make the whole together
  (`HalfRead`), unless the client has left in the middle.

`ResponseWritersProofs` proves for every page, layout of tags, set of codes and
way to write the page in chunks:

- `StatusIsKept`: the injecting writer has sent what the handler asked for
  (`SentAtOnce`), the buffered one keeps it until the handler has returned
  (`KeptForLater`); in both, nothing was sent or kept while the handler has
  neither asked for a status nor written.
- `WritersTypeCorrect`, `WritersPanicOnlyOnOverlap` and `TagsAreOnceInOrder` from
  one invariant, `WriterInv`, for the tags of two pages as well as of one.  Its core
  is `Passed`: a tag that the stream has begun is no longer waiting, and one that
  waits is ahead or wholly behind.  `InjectInv` says so between two chunks
  (`Steady`), or that the last call panicked and two tags overlap in its chunk
  (`Broken`).  `LoopInv` says so within a chunk, between two tags, where `prevEnd` is
  zero or the end of a tag that is in the chunk as a whole (`FromFull`): of the five
  slice expressions only the one that begins at `prevEnd` can be out of range, and
  only when the next full tag starts before that end.  `Known` says that the data in
  the output is that of tags which are not waiting, in order.  With `OwnTags` no two
  tags overlap and no call panics (`OwnSteady`), which the second half of
  `WritersPanicOnlyOnOverlap` states.
- `PageIsAsItShouldBe`.  While the tags are the page's and the chunks
  respect them (`Respected`) the output is `Replaced` of the position, and the state of each tag is a function
  of the position alone (`StateAt`).  Within a chunk no tag has been met
  (`Untouched`), the chunk is written (`Finished`), or it is written up to a tag
  and has the rest of the tags in it (`Between`); no other branch of
  `ReplaceTag` is taken.  From it follows `BufferedPageIsReplaced`: one piece
  respects all tags, unless one begins the page.
- `DeclaredLengthMatches`.  The bytes of the output are a fold over what was
  written, the correction of the header a fold over the tags.  That both give
  the same number is induction over the position: `Replaced` drops the bytes of
  a tag and adds its data at its start.

`TagPipelineProofs` proves for every page, Caddyfile, request, handler and table
of durations, sizes and files:

- `FinderTypeCorrect`, `TagsAreFound` and `AllTagsAreFound` from `ScannerInv`,
  which holds after each byte of each part that the scanner hands over.  The
  finder has what the page has at its place: `OpensAt` for the bytes of an
  opening, `InTag` for the text of a tag (`FinderOK`).  `NothingMissed` relates it
  to the reference: what was found, followed by the tags that the reference finds
  from the finder's base on, are the tags of the page, unless the state machine
  stumbles.  The reference is recursive; `RestIs` gives its equation and
  `SameTags` that nothing is found where nothing opens.
- `LimitsReachResources`.  `LimitsInv` follows a tag and its limits from stage to
  stage; the folds over attributes and directives keep the types of all settings
  whatever texts they meet (`ParsedTyped`, `BlockTyped`), and what a tag leaves
  out `DefaultsLimit` fills in.
- `OwnPathServed`.  `PlacesInv`: the entry has the ID of both requests.  Both IDs end
  with a path, which begins with a slash, behind values that have none; the first
  slash of the ID is therefore where the path begins, in both (`SlashDecides`).
- `PagesAreParsedAsWritten` follows a page from its spelling to its entities.
  `TagsAreWritten`: the tags that the reference finds in the text of a page are
  those it was put together from, where they were put (`LiesInSum`); nothing opens
  earlier and nothing ends earlier.  `FieldsAre`: the scan with its quotes, over one
  attribute, leaves its name and its quoted value behind (`RunOfAttribute`), so that
  over a tag it leaves all of them; `UnquotedIs` and `TrimmedIs` take quotes and
  spaces off.  `ParsedIs`: the loop over the attributes has, after each one, the
  entity that is meant by the attributes so far (`MeantStep`, `WrittenStep`) as long
  as they are fine, and gives up with the first that is not.  `WrittenInv` says that
  the text is that of the page.
- `ProgramsAreTold`, the part `ProgramsReadBack` of `ToldAsWritten`.  `MessageInv`
  says what was sent last; that the decoder reads it back is `ArgumentsReadBack`,
  member by member: each name is in one group of the object only, and a member
  that was left out has the value that the decoder begins with.
- `OneKeyAsked`, the part `OneKey` of `KeysAsWritten`.  `KeysInv` says that the key
  is the page's before the first resource is asked and the replaced one from then
  on.  What a replaced text has left is text without `{` and at most one
  placeholder that nothing closes (`ReplaceSteps`, `ScanStates`), provided that
  no value that is put in has a brace (`SubstitutionPlain`), and such a text stays
  as it is (`Settled`): `ReplaceOnce`.
- `KeysAreAsWritten` adds that the replaced key is the page's.  `EntryInv`: an entry
  has the tags of the page with the defaults of its site, which leave the key alone.
  `KeyMeant`: the key that is meant is the text of the parts of the last attribute
  of that name.  `ReplaceIs`: to replace such a text is to fill in its parts one by
  one, since a text has no `{` to begin a placeholder and a placeholder no `}` to
  end it early (`PartIs`).
- `ResourcesAreTold`, the rest of `ToldAsWritten`: what is forwarded is neither
  replaced nor a default (`EntryInv`), and is therefore what the page asked for
  (`ServedAsWritten`); `HeadersForwarded` gives the names of the headers.

TLC has checked each of these invariants, before it was proved, on the states of
`page_written` and `finder_scan`.

Many of these definitions are recursive functions or folds over a sequence.  The
induction theorems of the library take an operator as a parameter, which the
provers cannot instantiate; `RecursionLemmas` states the same for sets and
functions.  `Induction` is over the members of a set, `Iteration` and
`CourseOfValues` give the function that a recursion describes, `FoldExists` the one
that a fold of the community modules chooses, and `SumExists` with `AddingUp`
that of a sum over a set.  `Runs` relates the
states before and behind a part of a sequence over which a fold goes: two runs, one
behind the other, are one (`RunOn`), which lets a fold over a whole be put together
from its parts.  They follow from the well-foundedness of the natural
numbers.

`HandlerRegistryProofs` proves for all sites, aliases, configurations and any
number of reloads `RegistryTypeCorrect`, `EachServesItsOwn`, `OpenHandlersAreKnown`
and `ReloadsRefusedForAReason` from one invariant.  `Phased` says what goes with a
phase of the reload, `Fresh`, `HasSites` and `Own` what a setup has created and where
its aliases lead, `Unparsed` and `Looked` what tags in a cache can have found.
`OpenUntilHook` and `Hooked` tie the history of hooks to what is closed, which is
`ServesItsOwn`.  `HooksClose` and `OldOnes` carry the success of a hook to the setup
behind it: what a later registration replaces is closed, a twin, or older than an
instance without hooks.  This is what makes `OpenOnesAreKnown` inductive.

Every safety property of a passing run, and the refinement, is a theorem.  Only
model-checked is liveness (`FirstRecovers`, `WriterProceeds`, `SendersEnd`,
`EventuallyCached`, `Answered`, `CallsReturn`, `PlainConnectionsReturn`), which is
out of the prover's reach.  The properties of the failing runs are false.

## Not modelled, and the plan

In this order:

1. `OnErrorData`: slices with capacity for the debug text appended to the
   shared `OnError` (`esitag/esi_tag.go:484`).
2. What becomes of an answer: the limit of its length in each handler, and the
   headers, should the middleware come to use them.
3. The log commands of the header and the race of `pc.Log` with the requests
   (`middleware.go:293`); the pass-through methods of the response writers.
4. The reading of resource items from XML and JSON (`resource_config.go`).

Left out for good: logging, the generated gRPC messages, the buffer pool, the
data cache (a stub no request uses), test tooling.
