# maock in TLA+

maock is a mock HTTP server: a JSON file lists *services* (a request pattern and
weighted responses), and the server answers every HTTP/1.1 or HTTP/2 request
with the response of the best matching service, optionally rewritten by a Lua
script.  These modules model the parts of it that carry its own logic, check
them with TLC on small instances, and prove the central results with TLAPS.

## The system

| Part | Source | State | Operations | Talks to |
|---|---|---|---|---|
| connection | `asio_server_connection.h` | socket, `writing_`, `stopped_`, deadline, buffers | `do_read`, `do_write`, `stop`, `handle_deadline` | handler, kernel |
| HTTP/1.1 handler | `asio_server_http1_handler.cc` | llhttp parser, `request_count`, `should_keep_alive`, `stream_ids_to_respond` | parser callbacks, `on_read`, `on_write`, `signal_write` | connection, mux |
| HTTP/2 handler | `asio_server_http2_handler.cc` | nghttp2 session, stashed bytes | nghttp2 callbacks, `on_read`, `on_write`, `start_response` | connection, mux, nghttp2 |
| base handler | `asio_server_base_handler.cc` | streams, `inside_callback_`, `write_signaled_`, the thread's live handlers | `create_stream`, `close_stream`, `find_handler` | both handlers, `send_response` |
| response | `asio_server_response.cc` | INITIAL / HEADER_DONE / BODY_STARTED | `write_head`, `end`, `write_trailer`, `call_read` | handler |
| mux | `asio_server_serve_mux.cc` | path patterns | `handler`, `match` | handlers, request callback |
| request callback | `asio_util.cc` (`asio_svr_entry`) | per-thread matcher, strands, counters | match, select, throttle, script, `send_response` | everything below |
| matching | `H2Server.h`, `H2Server_Request.h` | services, rule cache | `get_matched_request`, `match` | request callback |
| response selection | `H2Server.h`, `H2Server_Response.h` | weights, throttle ratio | `get_response_to_return`, `is_response_throttled` | request callback |
| response templates | `H2Server_Response.h` | tokenised headers and payload | `produce_headers`, `produce_payload`, `update_response_with_lua` | Lua |
| Lua store | `common_lua.cc` | 256 x 256 buckets with a mutex each, of which one row is used | `store_value`, `get_value`, `delete_value` | scripts of all threads |
| thread pool | `asio_io_service_pool.cc`, `asio_server.cc` | io_services, acceptors | accept, round robin, stop | connections |
| statistics | `asio_util.cc` | per-thread counters | periodic totals and rates | worker threads |
| configuration | `H2Server_Config_Schema.h` | the JSON file | read once at start | everything |

Every connection belongs to one worker thread (one io_service) for its whole
life: its handlers run one at a time.  Concurrency enters through the *offload*
threads, which run Lua scripts on strands and post `send_response` back to the
connection's io_service; through the kernel, which completes reads, writes and
deadlines in any order; and through state shared by all threads (the Lua store,
the statistics, the installation of request processors).

What is hard, and what makes each part correct:

* **HTTP/1.1 connection.** Requests are pipelined and scripts finish in any
  order; responses must leave in the order of the requests, each once, none
  forgotten, and no buffer may be overwritten while the kernel reads it.
* **HTTP/2 connection.** nghttp2 pulls bodies later, through a raw pointer;
  output that does not fit is stashed; streams are reset while their script
  runs; the session decides when the connection ends.  No dangling pointer, no
  lost, repeated or reordered chunk, no lost wakeup, no truncated end.
* **Matching.** The order of rules and services decides which are considered
  equal, which answers, and which cached outcome is used.  The service found
  satisfies all its rules and none with more rules is passed over.
* **Lua store.** Three operations on buckets; they must be atomic.
* **Lifetime and deadline.** A connection is owned by its pending operations,
  and by the accept handler for a moment; every read and write moves the
  deadline, which aborts the one wait.  Idle connections end, busy ones do not,
  and stopping the server ends the threads.
* **Request callback and threads.** The same ids name streams in every thread;
  scripts run elsewhere and their answers come back by posting; counters are
  passed by reference.  An answer reaches its request, no Lua state is used by
  two threads, and the statistics count what was sent.
* **Texts, numbers and memory.** Helpers that edit in place, go back over what
  they wrote, or compute sizes beforehand; codecs; numbers at their limits; a
  block allocator and pooled chunk lists.
* **Responses.** Weighted draws, templates cut at placeholders, JSON pointers
  with steps of their own, results of scripts told apart by the order they are
  popped in.
* **Protobuf for scripts.** A hash table that moves entries, a schema that can be
  reloaded and fails half way, a wire format with two varint readers.

## Modules

| Module | What it is |
|---|---|
| `Http1Connection` | connection, HTTP/1.1 handler, response, `send_response` |
| `PipelineServer` | what it promises: requests answered in order, at most once |
| `QueueLemmas` | lemmas on queues, ranges and least numbers the proofs share |
| `Http1ConnectionProofs` | proofs about `Http1Connection` |
| `Http2Connection` | connection, HTTP/2 handler, `send_response`; nghttp2 as external |
| `Http2ConnectionProofs` | proofs about `Http2Connection` |
| `ConnectionLifetime` | acceptor, TLS handshake, start, deadline, ownership, io_service pool, stop |
| `ConnectionLifetimeProofs` | proofs about `ConnectionLifetime` |
| `RequestDispatch` | worker, offload, application and statistics threads around `asio_svr_entry` |
| `RequestDispatchProofs` | proofs about `RequestDispatch` |
| `LuaStore`, `MCLuaStore` | the store the scripts share |
| `KeyValueStore` | what it promises: atomic operations on one map |
| `LuaStoreProofs` | proofs about `LuaStore` |
| `ServiceMatching`, `MCServiceMatching` | order of rules and services, ids, cache, search |
| `ServiceMatchingProofs` | proofs about `ServiceMatching` |
| `Memchunks`, `MCMemchunks` | pool, chunk lists, peeking lists, buffer, iovecs of `memchunk.h` |
| `ByteQueues` | what they promise: queues of bytes |
| `ProtoTable` | the hash table of `pb.h` |
| `ProtoSchema`, `MCProtoSchema` | types, fields and names of `pb.h`: load, reload, clear, delete |
| `ProtoSchemaProofs` | proofs about `ProtoSchema` |
| `ProtoWire` | varints, fixed values, messages, maps and packed fields of `pb.h` and `pb.c` |
| `UriText` | percent encoding, `path_join`, path cleaning, push targets, location rewriting, the serve mux |
| `HeaderText` | header fields, `Link`, `TE`, status codes |
| `NumberText` | numbers, durations, times, base64, hex, host and port, edit distance, `BlockAllocator` |
| `ResponseTemplate` | weights, tokens, JSON pointers, substrings, results of scripts |
| `MCAlgorithms` | calls the operators of the last five on bounded inputs and compares them with reference definitions |

Variables keep the names of the members they stand for where there is one, and
their declaration says which.  A definition called `X_Something` after a comment
that begins with "Mutant" is never used by a specification: it is a plausible
error in the code behind `X`, kept to show that a property would notice.

**Http1Connection.** One action per completion handler (`ReadSome`, `ReadError`,
`WriteOk`, `WriteError`), parser callback (`MsgBegin`, `MsgComplete`), posted
handler (`InitiateWrite`, `SendResponse`), deadline and script run.  `on_read` is
opened between callbacks, because a read may hold several requests;
`insideCallback` is TRUE then and no other handler of the thread runs.  What the
callback does with a request (answer, drop, hand to a strand) is a choice among
`Outcomes`; what a script makes of it is one among `LuaOutcomes`.

**Http2Connection.** `pc` says whether the thread is inside `on_read` or
`on_write`; both are opened into the frames nghttp2 processes.  `sess`, `queue`,
`aob`, `provider`, `blocked` and `goaway` are nghttp2's, modelled from how the
handler uses them; in particular what nghttp2 does after a frame was sent
happens at the next `nghttp2_session_mem_send`, which is why the stash matters.
Sizes are counted in chunks, a body is one DATA frame.  A connection begins with
what `start()` queued (`Preface`): the SETTINGS frame and, if `WideWindow` says that
`connection_window_bits` is more than the default, the WINDOW_UPDATE of the connection.
After `start()` only a read is begun, so these frames wait for it: `NoLostWakeup`
excepts exactly this state (`BeforeFirstRead`).  After `stop()` the
handler lives on only while an operation owns it; `send_response` may or may not
find it.

**LuaStore.** A key is a sequence of bytes, so that `get_u16_sum` and the bucket
are computed as in the code (the row is always 0: a 16-bit sum shifted by 16).
What happens under a mutex is several steps.

**ServiceMatching.** A rule has the fields `operator<` looks at, strings being
sequences; a request is the set of rules it satisfies.  The iteration of a
`std::set` backwards is the enumeration of its members that `operator<` makes
decreasing.  A service may be configured with the same rule twice, which `emplace`
merges: `BestFit` counts it once.  `RulesDistinct` says that `operator<` tells any two rules apart, which
the code does not ensure (see below); `MCServiceMatching` asserts it of its rules.

**ConnectionLifetime.** A connection has a set `ops` of outstanding operations and
its handlers wait in the queue of its io_service; both hold a reference, and so
do the listener's accept handler and `accepting`.  The lambda that `start` posts
holds none (`StartAfterFree`).  Time passes one tick at a time and only matters
relative to `Timeout`; `idle` is the time since the last read or write began.
`registered` is the worker's `alive_handlers`.  `MaxEvents` bounds what a client
does, so that it falls silent at last.

**RequestDispatch.** A worker matches, lets a request processor veto, throttles,
answers, runs the script itself or posts it to the strand of the response; a pool
thread runs the head of a free strand and posts the answer to the io_service it
was given.  Handler ids are those of the thread, so a stream is (thread, id).
`IntWidth` is the width of the totals of the statistics.  What was matched and
whether the throttle hits are free choices.

**Memchunks.** Chunks are numbered, with `pos`, `last` and `next` as in the code and
the freelist of the pool linked through `next`; the refinement to `ByteQueues`
reads the bytes off the links.  `ByteQueues` also says what a peek hands out: the bytes
from its cursor on, and what `disable_peek(drain)` takes is as many bytes as were
handed out, from the front.  Where the cursor stands at the end of a chunk the code
does not go on with the next byte (see below), so the abstract `lost` lets a peek
skip bytes from there, and only from there.  The texts appended come from `MCInput`.

**ProtoTable, ProtoSchema, ProtoWire.** The table is modelled slot by slot (relative
links, `lastfree` running downwards, the resize that doubles).  The schema keeps
the two tables of a type (by name, by number), the fields with a flag for being
freed, and the reference counts of names.  A load is opened into its declarations
(`Lpb_load`, one `pbL_loadFile` per declaration, `Loaded`), since the Lua states of
other threads go on meanwhile; it ends early at a field without a name or when the
pool of `MaxFields` fields has no memory left.  What is freed together is freed in
closed form: the names lose the references their fields held.  The codec is a pair of functions on
bytes; widths are constants.

**Text modules.** Texts are sequences of character codes (`UriText`, `NumberText`) or
of words (`HeaderText`, `ResponseTemplate`) where only whole words are told apart.
Pointers into a buffer became suffixes.  These modules are about the texts
themselves, hence they keep the characters that the functions tell apart, and no
others.  A `double` is a mantissa of `DoubleBits` bits and an exponent, rounded to the
nearest as IEEE 754 does, because `duration_str` truncates `t * 1000`.  `MCAlgorithms` makes one call per step
and keeps arguments and result in `call`.

## Runs

| Run | Shows | Instance |
|---|---|---|
| `http1_offload` | order on the wire, bookkeeping, single answer, no lost wakeup, buffer stability, a requested close only over requests still with a script, refinement of `PipelineServer`; every complete request is written, dropped on purpose or overtaken by the end | 3 requests, 2 strands |
| `http1_close_loses_answer` | *violation*: `Connection: close` loses the answer of an offloaded script | 2 requests, 1 strand |
| `http2_session` | body pointers, streams, chunks, wakeups, end of the connection | 2 streams, buffer of 1 chunk, SETTINGS and WINDOW_UPDATE queued at the start |
| `http2_live` | requests are answered and slots freed; a failed session ends | 2 offloaded streams, one slot: the second waits for the first; SETTINGS queued at the start |
| `lua_store` | exclusive buckets, atomicity; calls return | 2 threads, 3 keys in 2 buckets |
| `service_matching` | right, complete and best match through cache and order | every configuration of up to 3 services with lists of up to 2 of 3 rules, every request |
| `connection_lifetime` | the deadline ends idle connections only; every connection ends; `stop_server` ends the threads | 2 connections one after the other, 1 worker, 2 client events each, with and without TLS |
| `request_dispatch` | answers reach their requester, a Lua state has one user, counters and reports are true and catch up, offloaded requests are answered | 2 workers, 2 pool threads, 2 requests, 3 responses |
| `memchunks` | lists are byte queues, peeks included (refinement), a chunk has one owner, iovecs are prefixes within their limit | 3 chunks of 2 bytes; 3 bytes per call and per list, 5 in the peeked list |
| `proto_table` | lookups and iteration are exact through collisions, moves, deletion and resize | 8 keys, sizes 4 to 16 |
| `proto_schema` | nothing freed is reachable, no field is lost | 2 Lua states, 2 types, 2 field names, 3 numbers, a pool of 4 fields, 3 loads |
| `algorithms` | the pure functions agree with reference definitions | the sets in `MCAlgorithms` |

The bounds: three pipelined requests are the fewest with one written, one
waiting behind it and one overtaking; two strands are the fewest that finish out
of order; a buffer of one chunk makes every second chunk a stashed one, and two
streams are enough for one to be reset, blocked or finished while the other is
being sent; two keys in one bucket and one outside make both kinds of meeting;
three services allow a best, an equal and a worse one.  Two connections let one
wind down while the next is accepted; two workers with one request each let an
answer be posted to the wrong one, and two pool threads let two scripts meet.
Three chunks are a head, a middle and a tail, and bytes per call exceed a chunk; five
bytes in the peeked list fill three chunks, so that one can be skipped.
The keys of the table collide modulo 4 and modulo 8, so entries move and the
table doubles twice.  Three loads are load, exchange and exchange back, and four fields are so few that
a load also fails for want of memory.  The
widths of `algorithms` are scaled so that TLC's integers hold them: `int64_max` is
2^31 - 1, `W32` and `W64` are 16 and 24 bits, so that varints have up to four bytes
and a negative 32-bit number is sign-extended into more bytes than it has itself;
the allocator has its 16-byte alignment but blocks of 64 bytes.  Texts are long
enough for every branch of the parsers (six characters for `path_join`; for path
cleaning a slash and five pieces, a piece being a character or an escape).  With
`DoubleBits` = 21 a thousandth is not exact, and durations lose a millisecond as
they do with 53 bits.
Connections end, so the connection, dispatch and schema runs do not check for
deadlock; the others never stop.

**Fairness.** The worker thread finishes the handler it is in (weak).  Posted
handlers and completed writes get their turn although reads keep coming (strong:
asio queues are first in, first out, but in the models the handlers are enabled
only between reads).  An outstanding write completes or fails.  Offload threads
run what is posted to them.  A mutex that becomes free again and again is
obtained (strong).  In `ConnectionLifetime` time passes, expired waits complete
and an io_service without work returns from `run`.  In `RequestDispatch` workers,
pool threads and the statistics thread keep running.  Nothing is assumed of the
client, of when an application answers, or of `stop_server` being called.

**Finding.** The violation is a disagreement between the code and `README.md`; it is
quoted in `PROJECT.json`.

## What the models show besides

Steps of the models, or inputs the runs leave out because the code does not do
what a property says there.  None of them is checked by a run of its own.

* A script that ends with status code 0 closes its stream without `signal_write`:
  a finished answer behind it waits for the next unrelated event (add `"close"` to
  `LuaOutcomes` of `http1_offload`: `NoLostWakeup` fails; `asio_util.cc:66`).
* A throttled or status-0 request on HTTP/2 is dropped without telling nghttp2:
  it keeps its slot of `max_concurrent_streams` (`asio_util.cc:350`), although
  `H2Server_Config_Schema.json:192` speaks of silently consuming requests.
* An HTTP/2 request whose `END_STREAM` is on its trailers is never dispatched
  (`RecvTrailers`, `asio_server_http2_handler.cc:148`).
* `Match_Rule::operator<` compares concatenations without separators: "/id"
  equal to "11" and "/id1" equal to "1" are one rule to `std::set`
  (`H2Server_Request.h:247`).
* If the accept handler is the last owner of a connection, the listener thread
  erases the handler from its own `alive_handlers` and the worker's keeps a
  dangling pointer (`DestroyedByListener`, `asio_server_base_handler.cc:48`).
* An expiry queued behind the end of the TLS handshake frees the connection
  before the lambda of `start` runs (`StartAfterFree`, `asio_server_connection.h:94`).
* After `no_descriptors` accepting never starts again (`AcceptNoDescriptors`).
* `scaled_throttle_ratio` is `static thread_local`: the first throttled response of
  a thread decides for all (`H2Server_Response.h:734`).
* `luaL_dostring` is given the text of `luaScript`, also where that is meant as the
  name of a file (`README.md:85`).  A script that fails has its message sent as the body; one
  that returns a single value is padded with nil, which is an error; an empty
  table of headers makes the trailers headers.
* Integers and arrays reached by a JSON pointer yield an empty text if negative or
  composite; a substring that starts beyond its text yields the whole text.
* Registering "/foo/" and then "/foo" succeeds but keeps the redirect.
* `path_join` is not idempotent ("/.//a"): the redirect takes two hops, and settles.
  A relative path of dots only leaves a base that is a file as it is.  The fragment
  of a relative link stays in the target that is pushed (`http2.cc:1804`).
* The last `Forwarded`, `X-Forwarded-For`, `X-Forwarded-Proto` and `Via` of a request
  are held back and never copied.
* `hex_to_uint` takes "G" for 16; `make_hostport` on an allocator reserves no room for
  the terminating zero; the borders of `levenshtein` ignore the costs of adding and
  deleting.
* A deletion and a resize of the hash table overwrite the value of key 0
  (`pb.h:911`); `LookupRight` leaves that key out from then on.
* `pb.use("global")` keeps a pointer to the `pb_State` of another Lua state; when that
  one is closed, `global_state` is reset but the pointer is not (`Lpb_use`,
  `pb.c:2004`; `Lpb_delete`, `pb.c:172`).
* `lpbD_map` does not skip unknown fields of an entry, `lpbD_message` reads on after a
  value it cannot skip, and decoding stops silently at a bad tag.
* `PeekMemchunks::remove` moves to the next chunk without its position (`memchunk.h:475`).
  After a peek that ended at the end of a chunk, the next one returns nothing, or the
  bytes of the chunk after the next; `disable_peek(true)` then drains as many bytes from the
  front, which are not the ones handed out; and `assert(cur->next)` fails if nothing
  was appended meanwhile (`PeekRemove` is disabled there).  The class is used nowhere
  else in the repository.
* The SETTINGS frame of the server leaves only with or after the first bytes of the
  client: `http2_handler::start` submits it (`asio_server_http2_handler.cc:328`), but
  `asio_server_connection::start` goes on with `do_read` alone (`asio_server_connection.h:117`).
* A path with a `%` that begins no escape is not cleaned in one pass: "/%%32E" becomes
  "/%2E" (`http2.cc:2028`).  `PathsClean` speaks of paths whose every `%` begins an
  escape.
* `duration_str` truncates: 1.001 is written "1s" (`util.cc:1357`), so that a duration
  read back may be a millisecond short.  `ConversionsExact` allows that one
  millisecond, and nothing for whole seconds.
* A header that is held back and released by a later one of the same kind moves
  behind what came between: via, x, via is forwarded as x, via (`http2.cc:489`).
  `FieldsKept` compares the order name by name.

## Proofs

Every theorem holds for any values of the constants that satisfy the assumption
its component's module declares; other hypotheses are named below.  Each rests
on an inductive invariant, proved action by action and part by part.

`Http1ConnectionProofs`, for any number of requests, strands and any outcomes:
`TypeCorrect`, `BookkeepingCorrect`, `AnsweredAtMostOnce`, `ResponsesInOrder`,
`OutbufNeverOverwritten`, and `ConnectionIsPipeline` (every step of the
connection is a step of `PipelineServer` or none).  The inductive invariant is
`TypeOK /\ StreamBookkeeping /\ AnswerOnce /\ OrderOnWire`.  `OrderOnWire` alone
is not inductive: that a batch continues where the wire ended needs to know that
every number to respond names an open stream (`StreamBookkeeping`), and that an
open stream has not been answered before, neither in the buffer nor in a posted
answer nor in a strand, needs `AnswerOnce`.
`WakeupsArrive` (`NoLostWakeup`) has the hypothesis `LuaOutcomes \subseteq {"respond"}`,
because the code does lose a wakeup when a script closes its stream (see above);
it needs that a posted answer is what some script made of it.
`ClosesOnlyOverScripts` needs `WithScript`: on an open connection an open stream
without an answer is being parsed or is with its script, so that the oldest open
stream, which exists because the numbers are well-ordered, is one of them.

`Http2ConnectionProofs`, for any number of streams, any size of `outbuf_` and any
outcomes: `TypeCorrect`, `AnsweredAtMostOnce`, `ProviderNeverDangles`,
`WireIsSession`, `WakeupsArrive` and `EndsGracefully`.  The invariant has one part per concern.  `OneAnswer`: a request is
dispatched once, and is then with a script, with a posted answer, or answered,
never two of them; without it a second response could be submitted for a stream
whose first body is being read, and `ProviderAlive` would not be inductive.
`Buffers`: `on_write` starts with an empty stash and no write outstanding, and what
the session produced but the socket has not got is `outbuf_` followed by `buf_`; from
it follows that chunks are neither lost nor swapped.  `Signals`: `write_signaled_`
means that `initiate_write` is posted, so not posting another one loses nothing; until the first
read completes the queue is what `start()` left in it, the exception of `WakeupsArrive`.
`Endings`: `should_stop` is a cause only when nothing is left to write.

`RequestDispatchProofs`, for any finite sets of workers, requests and responses and
any offload threads: `DispatchInvariant`, `AnswersReachRequesters`,
`LuaStatesExclusive` and `CountersAreTruthful`.  An answer is posted with a thread
and a handler id that every thread uses; that it meets its own stream needs that
indices are drawn one at a time and the matcher of an index knows the io_service
of its thread (`Threads`), that an id names one connection within its thread
(`Connections`), and where a request may be in each phase (`Handling`).  A Lua state
is used by the thread of its matcher or by the one running handler of its strand
(`Strands`, `LuaStates`).  The counters compare with cardinalities of sets of
requests, which each step changes by at most one member.

`ServiceMatchingProofs`, for any finite set of rules, any number of services and
rules per service: `VerdictsExact`, `VerdictsFitBest` and `RequestsStrictlyOrdered`,
all under `RulesDistinct`.  Without it they are false: two rules that are one to `std::set` share a place in a
service and an id in the cache.  Along the way: `operator<` on strings and on rules is
a strict order; a finite set of rules has exactly one decreasing enumeration (by
the rank of a rule, the number of greater rules); hence `H2Server_Request::operator<`
is a strict total order on sets of rules (`RequestsStrictlyOrdered`, what `std::map`
demands of it), in which a service with more rules comes first; and ids are different for different rules.  The invariant says that the map
holds the configured services (`Configured`), that what was rejected fails and what is
being tried has only satisfied rules behind it and no untried service with more
(`Searching`), and that the cache is true (`CacheTrue`).

`ConnectionLifetimeProofs`, for any number of connections, workers, events and any
timeout: `TypeCorrect`, `ExpiryIsHonest`, `DeadlineNeverLost`, `OpenConnectionsAreOwned`
and `NobodyIsCutOff`.  For the first two the invariant ties the deadline to the past:
what is left of it and the time since the last read or write began add up to
`Timeout`, also while a completed wait is still queued.  The others are the safety
half of `ConnectionEnds` and `ServerStops`.  `DeadlineArmed`: an open connection has
its wait outstanding or the handler of the wait ready, so that somebody will look at
the deadline again.  It is inductive together with `Placed` (a handler waits in the
io_service of its own, accepted connection) and `Begun` (nothing is begun before
`accept`).  Each function of the connection is shown to give up a wait only for its
handler (`Keeps`), which covers reads, writes and handshakes at once; `handle_deadline`
alone consumes one, and either arms the next or stops the connection.  A wait is an
owner, hence no open connection is destroyed, and it is work of the io_service,
hence `run` returns over none.  These three have no run of their own; `Armed` was
checked with TLC on the instance of `connection_lifetime` before it was proved.

`ProtoSchemaProofs`, for any Lua states, types, fields, numbers, files and any size of
the pool: `SchemaInvariant`, `NothingFreedReachable` and `NoFieldIsLost`.  The two
properties need each other: a field may be freed only because no other entry leads to
it, and a freed place of the pool is handed out again.  The invariant adds the types
and `Filled`, that a live field has a name and a number and a freed one nothing.
References are counted as cardinalities of sets of fields, so that freeing some
fields takes away exactly what those fields held (`UsesSplit`).  `Covered` is an
inequality because `pb_newname` also counts names that no field took after all;
between `pb_newname` and `pb_newfield` it is strict for the name of the new field,
and that spare reference is the one the field takes.  For the tables, the new field
takes one entry by name and one by number, the fields that lose their last entry are
exactly `Displaced`, and the entries of other types are untouched because types share
no field.

`LuaStoreProofs`, for any threads, keys and values: `BucketExclusion` and
`StoreIsAtomic`.  The invariant says that a thread inside a bucket holds its mutex
and that the entry a delete is about to erase still has the value it will return;
the latter is what makes find and erase one step of `KeyValueStore`.  Nothing about
`get_u16_sum` is needed: any function from keys to buckets will do.

The type theorems are used by every other proof about their component; the runs
do not repeat them.

Only model-checked:

* liveness, out of reach of the prover: `AnswerDelivered`, `StreamReleased`,
  `EndedSessionCloses`, `CallReturns`, `ConnectionEnds`, `ServerStops`,
  `OffloadedIsAnswered`, `ReportCatchesUp`;
* `Memchunks`, `ProtoTable`, `ProtoWire`, the text modules and `MCAlgorithms`, which use
  recursive operators and are therefore out of reach of the prover too.

## Plan

Done: the connections, their lifetime, dispatch, store and matching, the libraries
below them, and the proofs above.  Left, in this order:

1. `Http1Framing`: the bytes of a batch and the size of `outbuf_`; header spans.
2. Server push and `resume` of deferred bodies in `Http2Connection`.

## Not modelled

* llhttp, url-parser, StaticJSON and Lua: vendored; what the code expects of them is
  part of the models.  nghttp2 is external to `Http2Connection`.
* OpenSSL set-up (`tls.cc`, `asio_server_tls_context.cc`): calls into a library.
* Reading of the configuration and start-up: one pass before any thread exists.
* How a rule compares texts (prefix, regular expression): a request is the set of
  rules it satisfies.
* Of the nghttp2 helpers: formatting of dates and sizes, sockets, files, random
  bytes, hexdumps.  Of `pb.c`: `conv`, `buffer`, `slice` and `io`, hooks, options and
  floating-point values.
* Resolving and binding of addresses, logging, rates in the statistics, and
  failures to allocate memory.
