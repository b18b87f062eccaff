# httpserver.h in TLA+

A verification project for [httpserver.h](../src/README.md), a C library that
runs an event driven, single threaded HTTP/1.1 server on epoll. The modules here
are translations of its source; `PROJECT.json` maps every definition to the
lines it stands for. `Connection`, `HttpServer` and `HttpExchange` follow
`src/src/*.c` and `src/src/parser.rl`. The modules that count bytes (`Parser`,
`Tokens`, `ResponseBuffer`, `DataPath`) follow `src/httpserver.h`, the header
users include: it consists of the same C files and, instead of `parser.rl`, of
the state machine ragel makes of it, where one sees what `fbreak` does to the
position and which actions share a transition.

## 1. The system

### Components

| component | files | state | operations |
|---|---|---|---|
| event loop | `server.c` | epoll instance, event list of one entry, listening socket | `hs_server_run_event_loop`, `hs_server_poll_events` |
| event handlers | `io_events.c` | – | readable / writable socket, request timer, new connections, `begin_read`, `begin_write` |
| connections | `connection.c` | one `http_request_s` per connection: state, timeout, flags, buffer, parser, tokens, `chunk_cb` | accept, terminate |
| reading | `read_socket.c`, `buffer_util.h` | `buffer` (capacity, length, index, sequence id) | read until it would block, grow, parse and call back |
| parser | `parser.rl` | machine state, flags, `content_length`, `content_remaining`, sequence id | one token per call of `hsh_parser_exec` |
| responses | `respond.c` | response buffer, header list | `http_respond`, `http_respond_chunk`, `http_respond_chunk_end`, errors |
| writing | `write_socket.c` | `bytes_written`, `errno` | `hs_write_socket` |
| accessors | `request_util.c` | – | look-ups in the token array, keep-alive detection |
| public API | `api.c`, `api.h` | – | the calls of an application |
| memory accounting | all of the above | `server->memused` | every allocation, growth and free of a buffer |

### How they interact

`epoll_wait` delivers one event with the address of a `http_request_s` (or of
the server). The handler reads or writes and ends in a callback of the
application (`request_handler` or `chunk_cb`), which may call the library again
from inside the callback or later, between two events. `http_respond` replaces
the request buffer by the response and writes at once; when the write is
complete the connection is terminated, or the next request is read *in the same
call chain*, or `chunk_cb` is called for the next chunk. So handlers nest
arbitrarily deep, and each of them may free the request. Only two frames do
anything after the call they make: the accept loop
(`_hs_accept_and_begin_request_cycle`) and the parse loop after the `chunk_cb`
call for the last piece of a large body, which then injects a zero-length body.

### What is hard

- Everything is edge-triggered: an edge that is not followed by reading (or
  writing) until the call would block is lost.
- A request struct is freed by whichever handler comes first: the end of a
  response, an error, the end of the stream, the timer. Events, frames and the
  application hold its address.
- One bit, `0x1`, is both `HTTP_KEEP_ALIVE` and `HTTP_FLG_STREAMED`; one pointer,
  `chunk_cb`, is both for pieces of a request body and for written chunks; one
  buffer holds first the request, then the response.
- `memused` is kept by hand at each allocation.
- The timer counts through all phases, also while the application has the
  request.
- Requests arrive, and responses leave, in pieces of any size; the client may
  half-close or reset at any point.
- The parser works in the buffer `read` fills. It moves and forgets data there,
  sets positions back, and says by sequence ids whether there is anything new;
  tokens are offsets into the buffer and must outlive all this.
- The grammar of chunked bodies is ambiguous, so that several of its actions run
  on the same byte.
- The print buffer grows in the middle of a response.

### What makes each component correct

| component | property |
|---|---|
| event loop, connections | no freed request is ever used; the connection of a silent client is reclaimed; the backlog is emptied |
| handlers, reading, parser | no wake-up is lost; a request is delivered once it is complete |
| parser, accessors | request, headers and body are what was sent, however it arrived |
| responses | what is sent is what was made, whatever it takes to hold it |
| responses, writing | a response is written whole; callbacks and calls alternate as the API says; keep-alive is what the request asked for |
| memory | `memused` is what the buffers have |
| timer | always armed, always something left to count |

The hazards of the code, with their lines and the properties for them, are in
`PROJECT.json` under `hazards`.

## 2. The modules

| module | what it is |
|---|---|
| `Kernel` | the operating system: a socket with its receive queue, send space, epoll registration and readiness, and the timerfd (external) |
| `Connection` | `http_request_s` and what reading, parsing, responding and writing do to it: operators from requests to requests |
| `HttpServer` | the system: event loop, handlers, application, clients, clock; properties |
| `HttpExchange` | abstract specification: what the library promises an application about one connection |
| `MCServer` | instance of `HttpServer` for TLC |
| `Parser` | `hsh_parser_exec` byte by byte: the transitions and actions of the generated machine |
| `Tokens` | the accessors: look-ups in the token array, header iteration, keep-alive detection |
| `ResponseBuffer` | the growing print buffer, and what the functions that respond print into it |
| `DataPath` | the bytes of one connection, from the network through buffer, parser and tokens to the application, and from its response to what is sent; properties |
| `BodyTransfer` | abstract specification: what an application is promised about bodies |
| `Requests` | the requests that are read into the buffer as a whole: where the machine stands after each of their bytes, which tokens they have, and the invariant that says so (`Whole`) |
| `MCDataPath` | instances of `Requests`, and so of `DataPath`, for TLC |
| `HttpServer_proofs`, `Handle_proofs`, `Exchange_proofs`, `KeepAlive_proofs`, `Wakeup_proofs`, `Memory_proofs`, `DataPath_proofs`, `Requests_proofs` | the TLAPS proofs |

`HttpServer` extends `Connection`, which extends `Kernel`; it has all that can
happen to connections, with data in fragments. `DataPath` extends `Tokens`, which
extends `Parser`, and `ResponseBuffer`; it has every byte, and of the rest only
what the bytes need. `Requests` extends `DataPath` by what is said about it, and
adds no step. A definition whose
comment begins with "(mutant)" is a wrong variant of the one that follows it. It
is used by no specification; it is there to show that the properties notice.

### State

| variable | in the code |
|---|---|
| `life[c]` | is the request struct of connection `c` allocated ("open"), still in the backlog, freed |
| `sock[c]` | the socket: unread fragments, what the peer did, room to send, epoll interest, on the ready list, timer armed, timer expired |
| `req[c]` | the struct: `state`, `timeout`, `cap` and `len` of the buffer, `pending` (index .. length), `written`, parser state `pst`, `gap` (buffer minus parser sequence id), `flags`, `tokens`, `chunk_cb` |
| `app[c]` | the handle an application has, and what it was called for |
| `client[c]` | how far the client is in its request |
| `memused`, `errno` | the same |
| `pc`, `cur`, `accepting`, `inject` | where the process is: the point before its next system call and the two frames named above |
| `lready`, `batch` | the listening socket is ready; events returned by `epoll_wait` and not handled yet |
| `fault` | the code used a null buffer |

In `DataPath`:

| variable | in the code |
|---|---|
| `shape`, `left`, `sent`, `taken` | the request on the wire, what is unread of the one before, how much arrived and was read |
| `edge` | the readable event of the socket |
| `state`, `buffer`, `parser`, `tokens`, `flags` | the fields of `http_request_s`, the buffer with its memory |
| `machine` | the local variables of `hsh_parser_exec` |
| `pc`, `inject` | the point of the program, and the frame that injects a zero-length body |
| `held`, `given`, `complete` | what the application was called for, what it has of the body |
| `wrote`, `should` | what was sent, and what the request and the application's answer demand |
| `answered`, `chunks` | counted up to `MaxRequests` and `MaxChunks` |

### Steps

A step of the process goes from one system call, or entry of application code,
to the next. What the environment can do in between (bytes arrive, the client
resets, the clock ticks, room to send appears) interleaves exactly there, the
only places where the code could notice. Steps of the process and the lines they
stand for:

| action | code |
|---|---|
| `EpollWait` | `server.c:108-129` |
| `OnReadable`, `OnWritable`, `OnIgnored` | `io_events.c:115-122` |
| `OnTimer` | `io_events.c:124-133` |
| `OnListen`, `AcceptConnection`, `AcceptFails` | `io_events.c:71-84,135-139`, `connection.c:46-66,87-119` |
| `ReadData`, `ReadNothing` | one `read()` of `read_socket.c:33-59`, and what follows it |
| `ParseAndCall`, `InjectEnd` | `read_socket.c:71-122`, `parser.rl:62-174,241-261` |
| `WriteSocket` | `write_socket.c:20-50`, `io_events.c:42-69` |
| `AppRespond`, `AppRespondChunk`, `AppRespondChunkEnd`, `AppReadChunk`, `AppSetConnection`, `AppFreeBuffer` | `api.c`, `respond.c`, `request_util.c` |
| `AppDefer` | the callback returns first |

Steps of `DataPath` (lines of `src/httpserver.h`):

| action | code |
|---|---|
| `Accept`, `Refuse`, `OnReadable` | 2697-2709, 2741-2744, up to `read()` or the parser (1998-2012) |
| `ReadData`, `ReadNothing` | one `read()` of 1899-1925 and what follows it |
| `ParserEnter`, `ParserStep`, `ParserLeave` | 1535-1864: the call, one byte, the return and the callback (1937-1988) |
| `InjectEnd` | 1965-1974 |
| `AppReadsChunk` | 1054-1059 |
| `AppResponds`, `AppRespondsChunk`, `AppRespondsChunkEnd` | 1006-1018, 2124-2249, 2668-2692 |
| `Arrive` | the network |

### Abstractions

In `HttpServer`:

- Data is cut into fragments, each of which the parser takes whole or not at
  all; buffers are measured in fragments. Bytes are the matter of `DataPath`.
- A response has any of the lengths in `OutLens`; its text is the matter of
  `ResponseBuffer`.
- The token array is the sequence of the heads of all requests on the
  connection, of which keep-alive detection uses two things: where a token
  stands, which depends on the length of the first line, and what the Connection
  header says.
- Clients speak HTTP/1.1 and do not pipeline: they send the next request after
  the answer to the last one.
- Allocation succeeds. `epoll_ctl`, `timerfd_create` and `fcntl` succeed.
- Connections are used once each; a freed struct never becomes "open" again,
  which makes a use after free visible.

In `DataPath`:

- A byte is a symbol, and a word that is read letter by letter without an action
  that depends on it ("GET", "Content-Length", "chunked") is one symbol and
  counts as one byte. The digits of lengths and sizes, line ends and separators,
  and the data are bytes.
- There is one connection. Its client speaks what the grammar accepts, neither
  closes nor pipelines; the application answers inside the callback; `write()`
  takes a whole response; no time passes; `memused` is left out (`Accept` or
  `Refuse` is a free choice). All of this is in `HttpServer`.
- `memcpy` with overlapping operands (`parser.rl:120`) copies as if they did not
  overlap, which is what happens with the C library the project is built with.
- A parser that reads beyond what was read from the socket finds what the memory
  held, or "junk" if it never held anything.

### What applications do

`AppCalls` names what the application of a run may do; `respond` from any
callback after which it has the complete request, `chunks`, `defer`,
`connection` (set the directive), and `free` (free the buffer, once the directive
is set). Three further values leave the paths the library can bear:

| value | what it adds | what then happens |
|---|---|---|
| `overdue` | answers later than the request timeout | run `x_overdue` |
| `free_auto` | frees the buffer and leaves keep-alive to the server | `NoFault` fails (section 5) |
| `defer_last` | defers the call for the last piece of a large body | `ImplementsExchange` fails: the zero-length body is delivered before the application asks for it (`read_socket.c:97-108`); the safety invariants of run `one`, which has this value, still hold |

## 3. The runs

| run | checks | instance |
|---|---|---|
| `one` | `TypeOK`, `NoLostWakeup`, `CallbackRegistered`, `KeepAliveHonoured`, `NoFault`, `MemoryNotOverstated` | one connection, all well-formed requests, all answers, closing and resetting client, 4 fragments |
| `two` | `NoDanglingRequest`, `HandleLive`, `TimerRuns`, `BacklogEmptied`, `MemoryAccounted`, `ResponseNotCut` | two connections, whole requests and large bodies in pieces, deferred answers, half-closes, a memory limit that one connection exceeds |
| `bytes` | `DataFits`, `InBounds`, `RequestExact`, `NoStall`, `NotDropped`, `ResponseExact`, `Whole`, `ImplementsTransfer` | two equal requests of each of six kinds (without a body, to be closed, HTTP/1.0, with a small, a large and a chunked body) on one connection, each cut in almost any way; answers as a whole and in chunks |
| `exchange` | `ImplementsExchange`, `Reclaimed` | one connection, all requests (malformed ones too), all answers, under `FairSpec` |
| `x_...` | one property each, which the code violates | see section 5 |

Properties:

- `NoDanglingRequest`: no frame, pending event or registration refers to a freed
  struct. It depends on the event list having one entry (`server.c:112`): with
  two, the timer of a connection can free it while its socket event waits.
- `HandleLive`: what an application owes an answer to exists.
- `TimerRuns`: the timer is armed and the countdown is positive.
- `NoLostWakeup`: when the process waits and no event is on its way for a
  connection, the next move is not the server's.
- `CallbackRegistered`: `chunk_cb` is the kind of function it is called as.
- `KeepAliveHonoured`: a response keeps the connection alive exactly if the
  request it answers asked for that.
- `NoFault`: no access through a null buffer.
- `BacklogEmptied`: the loop never waits with connections in the backlog.
- `MemoryAccounted`, `MemoryNotOverstated`: `memused` is (is at most) the memory
  of all buffers, at every step.
- `ResponseNotCut`: a connection in the middle of a response is closed only when
  the rest fits, its client is gone or its time is up.
- `ImplementsExchange`: the refinement. `Phase(c)` maps the struct's state, flags
  and parser state and the application's handle to the phase of an exchange; every
  step is a step of `HttpExchange` or leaves the phases alone.
- `Reclaimed`: an open connection is freed in the end, or its client sends data, or
  its application chunks, again and again for ever. Each event on the socket
  renews the timeout (`read_socket.c:135`, `io_events.c:45`), so that nothing is
  promised of a client that trickles its request or uses its connection again and
  again: the library sets no limit to the time a connection takes. TLC cannot run
  such a client, whose data is not finite: with `MaxFragments` 4 and `MaxChunks` 1
  every client of run `exchange` falls silent, anywhere in its requests, and every
  response ends, and what the run shows is that the timer then does its work,
  whatever state the connection was left in.

Of `DataPath`:

- `DataFits`: what was read fits in the buffer and the buffer in its limit, after
  everything that reading, the parser and a response do to it; otherwise the size
  asked of `read()` would be negative, that is, huge.
- `InBounds`: the parser's position never passes the end of what was read, and
  the machine never stands on a byte that was not.
- `RequestExact`: in every callback the accessors return the method, the target
  and the headers that were sent, although the parser reuses the buffer behind
  them for the pieces of a body and the array still has the tokens of the request
  before.
- `NoStall`: when the server waits with no event on its way, it has read and
  looked at all that arrived, and the request is not complete.
- `NotDropped`: a connection is closed only with a response.
- `ResponseExact`: what is sent is what the answer demands, byte for byte. The
  oracle (`Reply`, `ReplyChunk`, `ReplyEnd`, `Directive`) computes it from the
  request on the wire and the application's answer, with no buffer.
- `Whole`: while the client sends the same modest request again and again (section
  4), the machine stands, after every byte, where the grammar says, with the
  tokens the request has, and no byte is lost, however the buffer grows. It is
  the inductive invariant of `Requests_proofs`, stated for TLC.
- `ImplementsTransfer`: the application is given the body in order, whole and
  once, and is told so at the end (refinement of `BodyTransfer`).
- `BodyExact`: the same as a state predicate, for the runs that violate it.

### Bounds

For the runs of `HttpServer`: `MaxFragments` 4 is enough for a streamed request with headers, pieces and end,
and for two requests on one connection; the send buffer of one unit against
responses of one and two units gives whole and partial writes; `InitCap` 2
with requests of up to four fragments makes the buffer grow, `BodyCap` 3 makes
`done_headers` resize it; `REQUEST_TIMEOUT` 2 and `KEEPALIVE_TIMEOUT` 3 let a
timer expire once without and once with effect, and tell the two apart;
`MaxChunks` 1 is one chunk and the end; two connections suffice for an `errno`,
a memory limit and a batch that are shared. `SeqIds` is the true 2^8. `MaxCap`
(16, and 17 in run `one`) is never reached in the passing runs: with `MaxCap = 4` TLC finds
`NoLostWakeup` violated in run `one`, because the loop of
`_hs_read_into_buffer` ends as soon as the buffer has its maximum capacity
(`read_socket.c:54`) whether or not the socket is empty, while
`state_diagram.uml:4-5` has it read until EWOULDBLOCK. In the same way
`FdLimit = 1` in run `two` violates `BacklogEmptied`: any failure of `accept()`
ends the accept loop (`connection.c:109-111`). `Lines = {"short", "long"}` in run
`one` violates `KeepAliveHonoured`: run `x_directive` has a case of the same
cause. `SYMMETRY` is used with two connections for safety only.

For run `bytes`: the initial buffer of 10 bytes is smaller than any head, so
that it grows, with the large body to its maximum of 48; the small body fits behind its head only
when `done_headers` resizes the buffer; the large body of 32 bytes does not
fit and is delivered in pieces through the same part of the buffer; the chunks
have two digits in their data, one of them 0, for the ambiguous grammar to go
astray on. The print buffer of 22 symbols holds every head and no long body, so
that `grwmemcpy` grows it. `SeqIds` is the true 2^8. The second request equals
the first one (`Repeats`), because the tokens of the first are used for the
second: with different ones `RequestExact` fails for the cause of `x_directive`.

`Apart` says where an arrival may pause. It leaves out what the code does not
cope with: the first chunk cut between two of its bytes (`x_chunk`), the last
byte of a body or of a chunk arriving alone (`x_split`), a pause that leaves the
CRLF at the end of the body unread (`x_trailer`). To keep the run small, heads
are cut after every third byte and the long body after every sixth instead of
after each. The four requests without a body or with the small one have at most 23
bytes, less than half of the largest buffer, so that they are modest and `Whole`
applies to them.
With `SeqIds = 2` TLC finds `NoStall` violated: reads that each end right behind
a token advance the buffer's id and not the parser's, and after 2^8 of them what
is new passes for old.

### Fairness

`FairSpec` assumes of the process that it does not stop inside a handler (weak
fairness of all handler steps together: there is one thread); of the kernel that
an event that is reported again and again is delivered in the end (`epoll` keeps
the ready list in order; strong fairness, because a socket may stop being ready
in between) and that the clock goes on (the timerfd is periodic); and of the
application that it answers what it deferred, or asks for the next piece. It
assumes nothing of clients: they may stop in any state. (`Reclaimed` itself names
those that never stop.)

The timer is not assumed to wait for the application, except that, unless
`overdue` is in `AppCalls`, a deferred request is answered while it has a second
left (`TimerExpires`). Without this `HandleLive` is violated (`x_overdue`).

## 4. The proofs

For any number of connections, buffer sizes, limits, timeouts and application
behaviour (`AppCalls`, `Faults`, `Requests`, ... are constants), from the
assumptions `SndBufAssumption`, `ConnectionAssumption` and `ServerAssumption`:

| theorem | states |
|---|---|
| `TypeCorrect` | `Spec => []TypeOK` |
| `NeverDangling` | `Spec => []NoDanglingRequest` |
| `TimersAlwaysRun` | `Spec => []TimerRuns` |

They follow from one inductive invariant `IInv` (`Init => IInv` is `Initially`;
`IInv /\ [Next]_vars => IInv'` is `Inductive`; `IInvSuffices` gives the three).
None of the three is inductive by itself. `IInv` is the conjunction of

- `ConnsInv`: for each connection the types, and `Sound`: what the life cycle, the
  registration, the timer, the struct and the application's handle of one connection have to
  do with each other; in particular the countdown is positive while the
  connection is open, what is pending has a buffer, `bytes_written` is at most the
  length of the response while one is written, and a connection the application
  holds is in state NOP or gone;
- `ProcInv`: what a point of the program implies of the connection it works for:
  inside a handler the connection is open and there is no event left over (this
  is where the single-entry event list is used); in the read loop its state is
  READ, before a write WRITE; and while the frame of the injected body is on the
  stack, the parser is done, with the last piece still in the buffer, and a
  callback that runs on top of the frame is the one for a piece of the body, so
  that the application can ask for more, which returns at once, but owes no
  response yet (`InjectFrame`).

The first part of `HttpServer_proofs` has the facts about the operators of
`Connection`: each keeps the type of a request and says what it leaves alone
(`Alike`). Then there is a lemma for each part of a handler (`BeginRead`,
`BeginWrite`, `TerminateConnection`) and one for each action.

`InjectFrame` is why the code after the `chunk_cb` call (`read_socket.c:97-108`)
does not use a freed struct: it can only if a complete response is written from
inside that callback, and an application that has not yet seen the zero-length
body owes none.

`Handle_proofs` has the theorems about what the application holds. They add a
condition on it, because without it the code violates them:

| theorem | under | states |
|---|---|---|
| `HandlesLive` | `Punctual` | `Spec => []HandleLive` |
| `CallbacksRegistered` | `Punctual` | `Spec => []CallbackRegistered` |
| `NeverFaults` | `Punctual`, no `free_auto` | `Spec => []NoFault` |
| `BacklogNeverForgotten` | `Roomy` | `Spec => []BacklogEmptied` |
| `ResponsesWhole` | no `rst` in `Faults` | `Spec => ResponseNotCut` |

`Punctual` says that `overdue` is not in `AppCalls` and that `REQUEST_TIMEOUT` is
at least two ticks (`x_overdue` shows what happens otherwise); `Roomy`, that there
are descriptors for all connections. The first three follow from `KInv`, which is
inductive on top of `IInv` (`KeptInductive`). Its conjunct `Kept` says of each
connection: a connection the application holds is open, and has more than one
second left when its timer has expired; the `CHUNKED_RESPONSE` flag is set exactly
while a chunk is written or was just reported, and `chunk_cb` is then the one of
the response; while a streamed body is read it is the one of the request; and who
reads, or may be looked into by keep-alive detection, has a buffer. Its conjunct
`Working` says that between a read and the end of the callback the timeout is
fresh: this is why the expiry that was pending when the request came cannot end
the connection under the application. `BacklogNeverForgotten` needs only that a
connection in the backlog is `Noticed`: by the ready list, by an event on its way,
or by the accept loop. `ResponsesWhole` needs `Calm`: where no client resets its
connection `errno` is never `EPIPE`, so that a connection with a response is ended
only by its timer or by the write that takes the rest (with `rst`, `x_epipe`
violates the property).

`Exchange_proofs` and `KeepAlive_proofs` stand on `IInv` and `KInv`:

| theorem | under | states |
|---|---|---|
| `ServerImplementsExchange` | `Prompt` | `Spec => ImplementsExchange` |
| `KeepAliveAlwaysHonoured` | `Punctual`, not `HeadsVary` | `Spec => []KeepAliveHonoured` |

`Prompt` is `Punctual` without `defer_last`, which violates the refinement. Of a
step the refinement needs to know the phase before and after (`Follows`, one
`...Flow` lemma per action). The phase is read off the struct, so the invariant
`XInv` has to say what the struct does not. `Settled`: which parser states go with
what the application holds, so that a response is never taken for a body being
read. `Turn`: when the zero-length body is passed on, the application has asked
for more. `Wire`: in the buffer, in the socket and at the client a chunk is
followed only by a chunk or the zero chunk, wherever the data was cut; without
it a body that was begun could end in the parser's error state, and the
connection would fall back from fetching to reading.

`KeepAliveAlwaysHonoured` is about a property that survives only by luck: the
token array is emptied only when the connection is made (`connection.c:99`), so that detection
finds the tokens of the first request of a connection. `Honest` says that all
tokens agree with the client's head, and that what is being answered has the
flag this head asks for. The second half has to be carried over every step of a
response, chunk by chunk. Where heads vary in the length of the first line or in the
value of the header, `x_directive` violates the property; where only the presence
of the header varies, run `one` checks it.

`Wakeup_proofs` stands on `IInv` alone:

| theorem | under | states |
|---|---|---|
| `WakeupsNeverLost` | `Fluent` | `Spec => []NoLostWakeup` |

`Fluent` says that requests are well-formed and the CRLF after the zero chunk
comes with it (`x_trailer` shows what happens otherwise), and bounds what one
client sends in the whole life of its connection: less than a quarter of the
largest buffer, so that none reaches its maximum capacity (with `MaxCap = 4` the
property fails, see Bounds in section 3), and in fewer reads than there are sequence ids, so that these do
not wrap around. So the theorem is about any number of connections, but not about
ones that go on for ever. Run `one` is an instance of it. An edge is reported once, so the invariant `AllAttended` has to say, at every
point of the program, where what it announced is: on the ready list, in the batch,
in the hands of the process at a certain place of a handler (`Place`, `Report`,
`Frame`), or seen to (`Told`). That the process did see to it is a matter of the
parser: it must never come to rest on a request that is complete. So `Carried`
says that the parser state, what is in the buffer and what is in the socket make
up the request the client is sending, and nothing after it (`InTransit`). Clients
make it longer (`TransitGrows`), reads move it from the socket to the buffer
(`Moved`), the parser shortens it or finds its end (`ParseAdvances`). `Placed` says
what the state of the struct implies of parser and application, and `Within`
that there is room, and that there are sequence ids, for all a client may still
send. There is one `Attended...` lemma for each action.

`Memory_proofs` stands on `IInv` alone:

| theorem | under | states |
|---|---|---|
| `MemoryNeverOverstated` | | `Spec => []MemoryNotOverstated` |
| `MemoryAlwaysAccounted` | `NoResize` | `Spec => []MemoryAccounted` |

`NoResize` says that "bighead" is not in `Requests`: with it the second property
fails (section 5), and the first one says in which direction. Their invariant
`MInv` adds to them that a connection that is not open has no buffer, because
accepting one charges for a buffer without crediting another, and, where nobody
sends a "bighead", that there is none in any socket or buffer either, because the
parser would resize for it whenever it comes to it. What a handler has to show
(`Charges`, one `...Charges` lemma per action) is only about the connection it
works for: `memused` changes by the change of its capacity, or, in the parser,
by no more. `CapacitiesUpdate` carries this over to the sum of all of them. The
sum is the community modules' `MapThenSumSet`, a recursive function that takes
chosen elements off the set. That it exists (`SumsExist`), is a number
(`SumType`) and changes with one entry as it should (`SumUpdate`) is shown for all
finite sets by contradiction: if a claim fails for some subset, it fails for a smallest
one (`SmallestFailure`, from the well-foundedness of strict inclusion), and one
step of the recursion leads to a smaller.

`DataPath_proofs` is about `DataPath` and stands on no other proof. Its
assumptions are those of `DataPath`, `Parser` and `ResponseBuffer`, among them
that what clients send is made of the bytes of the alphabet (`WireAssumption`).

| theorem | under | states |
|---|---|---|
| `DataPathInvariant` | | `Spec => []DInv` |
| `DataAlwaysFits` | | `Spec => []DataFits` |
| `InBoundsWithoutChunks` | not `Chunky` | `Spec => []InBounds` |

`Chunky` says that some request has the word "Transfer-Encoding" in it. With
chunks the last property does not hold for every cutting: with the comparison of
`parser.rl:110` a chunk is taken for complete when its last byte has not arrived,
and the index passes the length by one (run `bytes` with `Cut` set to `Anywhere`
violates it). `DataFits` holds all the same, and the invariant `DInv` has to say
why. `Rest` and `Anchored` are about the parser between its calls, `Placed` about
the machine within one. In the states of a head, and of a body that is sent with
its length, the machine is in what was read (`Plain`). In those of chunks it is
only known to be behind the headers, and, once it is in a chunk, so is the token
of that chunk (`Held`): this is what keeps the data in the buffer when
`chunk_read` moves it down there. A parser that has not seen an announcement of
chunks is in none of these states. All transitions of the machine are in one of a
few forms (`Entries`, with one lemma for each group of states), and for each
action there is a lemma (`...Keeps`). A transition is a fold over its actions;
that such a fold (`Fold`: of actions, or of the headers of a response) exists and
does one thing after the other (`RunsExist`, `StepRuns`) is shown as for the sums above, with a smallest set of indices for which it fails.

The module ends with the operators of the print buffer, for every
capacity, content and text. `Buffers` are the buffers `grwprintf_init` makes and
the operations should keep; `Appended(c, text, d)` says that `d` holds what `c`
holds and `text` behind it.

| theorem | states |
|---|---|
| `MemcpyAppends` | `grwmemcpy` appends exactly, whether or not the buffer has to grow |
| `PrintfAppends` | `grwprintf` appends exactly, and leaves the capacity alone, if there is room for the text and its terminator |
| `PrintfOvercounts` | if the buffer has to grow, more is counted as printed than was: run `x_print` shows one case |
| `StatusInTable` | the status printed has an entry in the table of texts, whatever the application sets |

The first two come from three facts about the memory: `realloc` keeps what is
there (`ReallocKeeps`), a store changes what it stores and nothing else
(`StoreExact`), and a buffer with the bytes of the old one and those of the text
behind them has the text appended (`AppendedBytes`).

`Requests_proofs` stands on `DInv` and is about the requests that are read into
the buffer as a whole. `Modest(s)` says of a request `s` that it is well-formed, has
no body or one of less than 100 bytes that is sent with its length, and fits in
half of the largest buffer, so that the buffer still has room when it has come.
It also names what of the settings is needed: the limits of the parser allow for
the request and for what the machine counts against them besides; the buffer can
grow; there are two sequence ids at least; and the body does not arrive so
that all of it but the last byte can be read, because the machine takes it for
complete then (`x_split`).

| theorem | under | states |
|---|---|---|
| `RequestInvariant` | | `Spec => []Whole` |
| `ModestInvariant` | all `Shapes` are `Modest` | `Spec => []RInv` |
| `NeverStalls` | all `Shapes` are `Modest` | `Spec => []NoStall` |
| `TransferImplemented` | all `Shapes` are `Modest`, `Repeats` | `Spec => ImplementsTransfer` |
| `RequestsShown` | `Repeats` | `Spec => [](Modest(shape) => RequestExact)` |
| `NeverDropped` | all `Shapes` are `Modest`, answers are in `AnswerType` | `Spec => []NotDropped` |
| `ResponsesExact` | the same, `Repeats` and `Fitting` | `Spec => []ResponseExact` |

`Whole` is `Repeats /\ Modest(shape) => RInv`: a client may mix modest requests and
others as long as it keeps to the one it began with. Where all are modest `RInv`
needs no `Repeats`; only what it says of the tokens does (`Knows`), because the
look-ups find those of the first request of the connection (`x_directive`).

`RInv` says where everything is, by the place in the program. Its core is `Stands`:
which state the machine is in behind `p` bytes of a request, how many tokens were
found by then, what the token it is in has of type, position and counted bytes,
and which content length was read. That every transition leads from one of these
places to the next is `PlaceStep`, from the request line (`LineStep`) through the
headers, where the one for the length has states of its own (`OtherStep`,
`LengthStep`), to the empty line and the body (`TailStep`). It needs to know which
byte a request has at a position, `Layout`, and what the transition of a state on
a byte is, as a list of actions (`Transitions`), and what these do one after the
other (`StepIs`). Positions in the request are sums over the headers before, and
`Wire` concatenates sequences of sequences. Both are recursive functions; what
they return for every number of headers is shown by the smallest number for which
it would fail (`AllNumbers`), as for the sums of `Memory_proofs`. `Holds` says that
the buffer begins with what was read, while it grows and when `done_headers`
resizes it. `NeverStalls` follows from what `RInv` says of the waiting server
(`Waiting`) and from `c < Total(shape)`: a token of the request is still missing,
so a byte is. For the refinement the body that is passed on must be the one that
was sent (`BodyGiven`: the look-up finds the body's token of this request or of
an earlier one, which agree), and every other step must leave the mapped state
alone (`OthersStutter`).

The last three theorems are about what leaves the server. `RequestsShown` uses
that at a callback the array begins with the tokens of the request (`AllListed`),
that it has no others (`Listed`), and that a token stands for the part of the
request it was set for (`PartGiven`): so the look-up of the first line finds its
tokens (`LineGiven`), the i-th header lies where the iterator looks for it
(`HeaderGiven`), and the iterator, which goes on from the offset it returned
last, gets from each header to the next (`Iterated`).

`AnswerType` gives the answers of an application their types: a status that is
any integer, headers that are pairs of words, a body of symbols. `NeverDropped`
then has two halves. The buffer is never full when it is read into
(`ReadsOnlyWithRoom`), so that no 0 of `read()` can be taken for the end of the
stream; and what is sent before a connection is closed is not empty, because
every print adds to the size, whatever it does to the buffer (`Sized`,
`PrintedSomething`).

`Fitting` says that the head of every response, and every chunk with what is
printed before and behind it, has fewer symbols than the print buffer has when it
is made; the body of a response that is sent as a whole may have any length,
since `grwmemcpy` grows the buffer correctly. It cannot be dropped: a head that
does not fit is printed wrongly for every size of the buffer (`PrintfOvercounts`,
`x_print`). The run `bytes` satisfies it, with a chunk that just fits. The proof has
two parts. The first is about what the functions of `respond.c` print: a
response that is built header by header has the headers of the answer in reverse
order (`BuiltIs`), and a buffer that was not filled yet (`Holding`) has the status
line, the length, these headers and the body, in this order (`HoldHeaders`,
`HoldHead`, `RespondExact`, `FirstChunkExact`, `NextChunkExact`, `EndExact`). The
second is about the directive (`KeepIs`): the token the look-up finds first is
that of the first header with the name "Connection" (`OnlyKeys`,
`ConnectionGiven`), so that keep-alive detection decides as `Directive` does,
which looks at the request alone.

Only model-checked:

- what `RequestExact`, `NotDropped` and `ResponseExact` say of requests that are
  not modest, and `RequestExact` and `ResponseExact` where a connection has a
  modest request after a different one. None of the three holds for every value
  of the constants: `RequestExact` fails where the requests of a connection differ
  (Bounds in section 3), and so does the directive of `ResponseExact`, which also
  fails in `x_print`; `NotDropped` fails where chunks fill the buffer exactly
  (requests `OnlyFull` with `MaxCap = 40`);
- requests that are not read as a whole (large and chunked bodies), as far as
  what is in them is concerned: there the position in the buffer and the one in
  the request part, and the grammar is ambiguous. `RequestInvariant` says nothing
  of them; the run does, for the arrivals of `Apart`;
- `InBounds` with chunked requests, for the arrivals of `Apart`;
- `Reclaimed`: liveness under fairness is out of the prover's reach.

## 5. Where code and documentation differ

| run | property | what happens |
|---|---|---|
| `x_directive` | `KeepAliveHonoured` | tokens are never reset: the second request's "Connection: close" is looked up with the first one's offsets and lengths |
| `x_epipe` | `ResponseNotCut` | `errno` is consulted after a write that succeeded (`write_socket.c:29`) |
| `x_overdue` | `HandleLive` | the timer frees a request the application still holds |
| `x_trailer` | `NoLostWakeup` | the CRLF after the zero chunk is taken for the next request |
| `x_chunk` | `BodyExact` | a first chunk that arrives in two reads is also parsed as the size of the next one (`parser.rl:223`) |
| `x_split` | `BodyExact` | a body is complete one byte before its end (`parser.rl:146`, also 110 and 158) |
| `x_move` | `NoStall` | after `chunk_read` moved a chunk, an event is handled without reading (`parser.rl:119`) |
| `x_print` | `ResponseExact` | growth of the print buffer counts the text twice (`respond.c:116`) |

Also met, without a run:

- The keep-alive timeout of `io_events.c:45` is overwritten by
  `read_socket.c:135` in the same call; `api.h:68-69` promises 120 seconds to
  connections that get 20.
- No parse error is ever reported: the error actions only leave the machine
  (`parser.rl:176`), `HSH_TOK_ERR` is returned nowhere, and the 400 of
  `io_events.c:28` is unreachable. The connection waits for its timeout.
- A token that is longer than its limit makes the machine leave after each of its
  further bytes; `HTTP_MAX_TOKEN_LENGTH` of `api.h:75` does not exist.
- `done_headers` resizes the buffer without charging it to `memused`
  (`parser.rl:82-85`), which is given back in full later: `MemoryAccounted` fails
  with "bighead" among the requests, and the limit of `api.h:71-73` is not kept.
- `http_request_free_buffer` and then `http_respond` with the default keep-alive
  detection reads the version through a null buffer (`request_util.c:55`), against
  `api.h:331`: `NoFault` fails with "free_auto" in `AppCalls`.
- A buffer that is full at its maximum and consumed makes `read()` be asked for no
  bytes; its 0 is taken for the end of the stream (`read_socket.c:38,147`). Run
  `bytes` has `NotDropped`: none of its chunked requests fills the buffer.
- A request without headers is never complete: the line end after the request
  line is taken for the name of a header (`parser.rl:213`).
- `http_respond_chunk_end` prints one line end more than the encoding has.
- `HTTP_FLG_STREAMED` is set on requests without a body (`read_socket.c:83-85`),
  against `api.h:205-208`; and a request with a small body finds it set when the
  response before kept the connection alive, since that is the same bit.
- The exceptions named under "Bounds" and "What applications do".

## 6. Not modelled

- The letters of words, and so the machine's partial matches of "Content-Length"
  and "Transfer-Encoding", the case of names, folded header lines.
- The date, and allocation failures (they end the program by `assert`).
- kqueue (the same control with one registration per filter); `socket`, `bind`,
  `listen` (straight-line set-up without error handling); the server's date timer;
  user data; tests and fuzzer.
- Pipelined requests. `http_respond` frees the buffer with whatever of the next
  request is in it.

## 7. Plan

Done: all modules of section 2 with their runs, the inductive invariants of
`HttpServer` with their theorems, the refinement of `HttpExchange`, the wake-ups,
the memory accounting, the bounds of the request buffer, the requests that are
read as a whole with what the application is told of them and the refinement of
`BodyTransfer`, the responses to them, and the theorems of the print buffer.

What is left is in section 4 under "Only model-checked". `WakeupsNeverLost` cannot
drop the assumption that requests are well-formed: the parser never returns
`HSH_TOK_ERR`, so that `HS_READ_RC_PARSE_ERR` (`read_socket.c:114`) does not
occur, and a malformed request waits for the timer instead of being answered.
