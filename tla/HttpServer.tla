----------------------------- MODULE HttpServer -----------------------------
(***************************************************************************)
(* The server: its event loop, the handlers of connection, timer and       *)
(* listening socket events, and the application and the clients it runs    *)
(* between.  One process executes the handlers; a step of it reaches up to *)
(* its next system call or to the application's code, so that clients, the *)
(* network and the clock interleave wherever the code can notice them.     *)
(*                                                                         *)
(* The calls of the handlers are tail calls except in two places, and the  *)
(* call stack is modelled by these two frames: the accept loop (accepting) *)
(* and the code after the chunk_cb call for the last piece of a large body *)
(* (inject).                                                               *)
(***************************************************************************)
EXTENDS Connection, FiniteSetsExt

CONSTANTS Conn,          \* connections, each used once
          NoConn,
          MemLimit,      \* HTTP_MAX_TOTAL_EST_MEM_USAGE
          FdLimit,       \* connections the process has descriptors for
          OutLens,       \* lengths a response or a chunk of one may have
          Requests,      \* fragments a client may begin a request with
          MaxFragments,  \* bound: fragments one client sends in all
          MaxChunks,     \* bound: chunks of one response
          AppCalls,      \* what the application does, see App below
          Faults,        \* what clients may do: "fin", "rst", "split"
          Lines,         \* lengths of the first line of a request
          Directives,    \* Connection headers of a request
          HeadsVary      \* do the requests of one client differ in these?

ASSUME ServerAssumption ==
  /\ IsFiniteSet(Conn) /\ NoConn \notin Conn
  /\ MemLimit \in Nat /\ FdLimit \in Nat
  /\ OutLens \subseteq Nat \ {0}
  /\ Requests \subseteq {"get", "head", "bighead", "stream", "large", "bad"}
  /\ MaxFragments \in Nat /\ MaxChunks \in Nat
  /\ AppCalls \subseteq {"respond", "chunks", "defer", "defer_last", "overdue",
                         "connection", "free", "free_auto"}
  /\ Faults \subseteq {"fin", "rst", "split"}
  /\ Lines \subseteq {"short", "long"}
  /\ Directives \subseteq {"none", "keep", "close"}
  /\ HeadsVary \in BOOLEAN

VARIABLES
  life,       \* is the connection's request struct allocated?
  sock,       \* its socket and timer
  req,        \* its request struct
  app,        \* what the application holds of it
  client,     \* its client
  memused,    \* server->memused
  errno,      \* "EPIPE", or any other value
  pc, cur,    \* where the process is, for which connection
  accepting,  \* is the accept loop on the stack?
  inject,     \* connection whose final zero-length body is still to be passed
  lready,     \* listening socket is on the ready list
  batch,      \* events epoll_wait returned that were not yet handled
  fault       \* the code read through a null buffer

conns   == <<life, sock, req, app, client>>
server  == <<memused, errno>>
process == <<pc, cur, accepting, inject>>
events  == <<lready, batch>>
vars    == <<conns, server, process, events, fault>>

\* The heads of the requests clients send.
Heads == [line : Lines, conn : Directives]

\* held: a request that is complete in memory; a piece of a streamed body, or
\* its headers; the zero-length end of a streamed body; a chunk of the
\* response was written.
App == [held   : {"none", "request", "body", "complete", "notify"},
        chunks : 0 .. MaxChunks]
Client == [at   : {"idle", "small", "chunked", "tail", "late", "large",
                   "await"},
           sent : 0 .. MaxFragments,
           head : Heads]     \* of its current request

Event == ({"io", "timer"} \X Conn) \cup {<<"listen", NoConn>>}

Backlog == {c \in Conn : life[c] = "backlog"}
Open    == {c \in Conn : life[c] = "open"}

Init ==
  /\ life = [c \in Conn |-> "new"]
  /\ sock = [c \in Conn |-> NewSocket]
  /\ req = [c \in Conn |-> RequestInit]
  /\ app = [c \in Conn |-> [held |-> "none", chunks |-> 0]]
  /\ client \in [Conn -> [at : {"idle"}, sent : {0}, head : Heads]]
  /\ memused = 0 /\ errno = "other"
  /\ pc = "loop" /\ cur = NoConn
  /\ accepting = FALSE /\ inject = NoConn
  /\ lready = FALSE /\ batch = {}
  /\ fault = FALSE

-----------------------------------------------------------------------------
(* Parts of handlers.                                                      *)

\* The process goes on at p for connection c.
Goto(p, c) == pc' = p /\ cur' = c /\ UNCHANGED <<accepting, inject>>

\* (mutant) the accept loop ends with its first connection
Return_LeavesLoop ==
  /\ UNCHANGED inject /\ accepting' = FALSE
  /\ IF inject # NoConn THEN pc' = "inject" /\ cur' = inject
                        ELSE pc' = "loop" /\ cur' = NoConn

\* The innermost handler returns to the frame below it.
Return ==
  /\ UNCHANGED <<accepting, inject>>
  /\ IF inject # NoConn
     THEN pc' = "inject" /\ cur' = inject
     ELSE pc' = (IF accepting THEN "accept" ELSE "loop") /\ cur' = NoConn

\* hs_request_terminate_connection: registrations, timer, socket, buffer and
\* the struct itself.
TerminateConnection(c) ==
  /\ life' = [life EXCEPT ![c] = "freed"]
  /\ sock' = [sock EXCEPT ![c] = NewSocket]
  /\ req' = [req EXCEPT ![c] = RequestInit]
  /\ memused' = memused - req[c].cap
  /\ Return

\* hs_request_begin_read up to the first read() or the parser; r, s and mem
\* are the request, the socket and memused just before.
BeginRead(c, r, s, mem) ==
  LET q == EnterRead(r)
  IN  /\ req' = [req EXCEPT ![c] = q]
      /\ sock' = [sock EXCEPT ![c] = EpollCtl(s, "in")]
      /\ memused' = mem + Charge(r, q)
      /\ Goto(IF RequiresRead(q) THEN "read" ELSE "parse", c)

\* hs_request_begin_write up to write(), r being the request with its
\* response.
BeginWrite(c, r, s) ==
  /\ req' = [req EXCEPT ![c] = r]
  /\ sock' = [sock EXCEPT ![c] = EpollCtl(s, "out")]
  /\ memused' = memused + Charge(req[c], r)
  /\ Goto("write", c)

\* A callback of the application runs and holds the request as h.
Call(c, h) ==
  /\ app' = [app EXCEPT ![c].held = h]
  /\ pc' = "callback" /\ cur' = c /\ UNCHANGED accepting

-----------------------------------------------------------------------------
(* The event loop.                                                         *)

\* (mutant) room for two events
EvListSize_Two == 2

\* The size of the event list hs_server_run_event_loop passes to epoll_wait.
EvListSize == 1

ReadyEvents ==
  {<<"io", c>> : c \in {d \in Open : sock[d].ready}}
    \cup {<<"timer", c>> : c \in {d \in Open : sock[d].tick}}
    \cup (IF lready THEN {<<"listen", NoConn>>} ELSE {})

\* epoll_wait takes entries off the ready list and returns those that still
\* have something to report.
EpollWait(taken) ==
  /\ pc = "loop" /\ batch = {}
  /\ taken \subseteq ReadyEvents
  /\ taken # {} /\ Cardinality(taken) <= EvListSize
  /\ batch' = {e \in taken : e[1] = "io" => Reportable(sock[e[2]])}
  /\ sock' = [c \in Conn |-> IF <<"io", c>> \in taken
                             THEN [sock[c] EXCEPT !.ready = FALSE]
                             ELSE sock[c]]
  /\ lready' = (lready /\ <<"listen", NoConn>> \notin taken)
  /\ UNCHANGED <<life, req, app, client, server, process, fault>>

TakeFromBatch(e) ==
  /\ pc = "loop" /\ e \in batch
  /\ batch' = batch \ {e} /\ UNCHANGED lready

\* _hs_on_epoll_client_connection_event
OnReadable(c) ==
  /\ TakeFromBatch(<<"io", c>>)
  /\ req[c].state = "READ"
  /\ LET q == EnterRead(req[c])
     IN  /\ req' = [req EXCEPT ![c] = q]
         /\ memused' = memused + Charge(req[c], q)
         /\ Goto(IF RequiresRead(q) THEN "read" ELSE "parse", c)
  /\ UNCHANGED <<life, sock, app, client, errno, fault>>

OnWritable(c) ==
  /\ TakeFromBatch(<<"io", c>>)
  /\ req[c].state = "WRITE"
  /\ Goto("write", c)
  /\ UNCHANGED <<conns, server, fault>>

OnIgnored(c) ==
  /\ TakeFromBatch(<<"io", c>>)
  /\ req[c].state \notin {"READ", "WRITE"}
  /\ UNCHANGED <<conns, server, process, fault>>

\* _hs_on_epoll_request_timer_event
OnTimer(c) ==
  /\ TakeFromBatch(<<"timer", c>>)
  /\ IF TimedOut(CountDown(req[c]))
     THEN TerminateConnection(c)
     ELSE /\ req' = [req EXCEPT ![c] = CountDown(@)]
          /\ sock' = [sock EXCEPT ![c].tick = FALSE]
          /\ UNCHANGED <<life, memused, process>>
  /\ UNCHANGED <<app, client, errno, fault>>

\* hs_on_epoll_server_connection_event
OnListen ==
  /\ TakeFromBatch(<<"listen", NoConn>>)
  /\ pc' = "accept" /\ accepting' = TRUE
  /\ UNCHANGED <<conns, server, cur, inject, fault>>

-----------------------------------------------------------------------------
(* Handlers between system calls.                                          *)

\* One accept() and the beginning of the request cycle.  The new struct has
\* no tokens yet, so the 503 is sent with "Connection: close".
AcceptConnection(c) ==
  /\ pc = "accept" /\ c \in Backlog /\ Cardinality(Open) < FdLimit
  /\ life' = [life EXCEPT ![c] = "open"]
  /\ LET s == EpollCtl(ArmTimer(sock[c]), "in")
     IN  IF memused > MemLimit
         THEN \E n \in OutLens : BeginWrite(c, Respond(RequestInit, n), s)
         ELSE BeginRead(c, RequestInit, s, memused)
  /\ UNCHANGED <<app, client, errno, events, fault>>

\* accept() fails: nothing to accept, or no descriptor for it.
AcceptFails ==
  /\ pc = "accept"
  /\ Backlog = {} \/ Cardinality(Open) >= FdLimit
  /\ errno' = "other"
  /\ accepting' = FALSE /\ pc' = "loop" /\ cur' = NoConn
  /\ UNCHANGED <<conns, memused, inject, events, fault>>

Least(a, b) == IF a < b THEN a ELSE b

\* One read() of _hs_read_into_buffer that delivers something.
ReadData(c) ==
  /\ pc = "read" /\ cur = c
  /\ LET n == Least(req[c].cap - req[c].len, Len(sock[c].rx))
         r == Receive(req[c], SubSeq(sock[c].rx, 1, n))
         on == ReadsOn(n, r)
     IN  /\ n > 0
         /\ sock' = [sock EXCEPT ![c].rx = SubSeq(@, n + 1, Len(@))]
         /\ req' = [req EXCEPT ![c] = IF on THEN r ELSE EndRead(r)]
         /\ memused' = memused + Charge(req[c], r)
         /\ Goto(IF on THEN "read" ELSE "parse", c)
  /\ UNCHANGED <<life, app, client, errno, events, fault>>

\* One read() that delivers nothing.  Zero is taken for the end of the
\* stream, also after data that was not parsed yet.
ReadNothing(c) ==
  /\ pc = "read" /\ cur = c
  /\ LET room == req[c].cap - req[c].len
     IN  /\ room = 0 \/ sock[c].rx = <<>>
         /\ \E bytes \in EmptyRead(sock[c], room) :
              /\ errno' = (IF bytes = -1 THEN "other" ELSE errno)
              /\ IF bytes = 0
                 THEN TerminateConnection(c)
                 ELSE /\ req' = [req EXCEPT ![c] = EndRead(@)]
                      /\ Goto("parse", c)
                      /\ UNCHANGED <<life, sock, memused>>
  /\ UNCHANGED <<app, client, events, fault>>

\* _hs_parse_buffer_and_exec_user_cb
ParseAndCall(c) ==
  /\ pc = "parse" /\ cur = c
  /\ LET o == Parse(req[c], client[c].head)
     IN  IF o.call = "none"
         THEN req' = [req EXCEPT ![c] = o.req] /\ Return /\ UNCHANGED app
         ELSE /\ req' = [req EXCEPT ![c] = ExecCallback(o.req)]
              /\ Call(c, CASE o.call = "request" -> "request"
                           [] o.call = "end"     -> "complete"
                           [] OTHER              -> "body")
              /\ inject' = (IF o.call = "last" THEN c ELSE inject)
  /\ UNCHANGED <<life, sock, client, server, events, fault>>

\* chunk_cb for the last piece has returned: the zero-length body.
InjectEnd(c) ==
  /\ pc = "inject" /\ cur = c
  /\ inject' = NoConn
  /\ req' = [req EXCEPT ![c] = ExecCallback(@)]
  /\ Call(c, "complete")
  /\ UNCHANGED <<life, sock, client, server, events, fault>>

\* What write() took, and the errno it leaves: a call that does not fail
\* leaves errno alone.
WriteCall(c) ==
  IF sock[c].peer = "rst" THEN {<<0, "EPIPE">>, <<0, "other">>}
  ELSE IF sock[c].space = 0 THEN {<<0, "other">>}
  ELSE {<<Least(Unsent(req[c]), sock[c].space), errno>>}

\* The client has the whole response.
Answered(k) == [k EXCEPT !.at = CASE @ = "await" -> "idle"
                                  [] @ = "tail"  -> "late"
                                  [] OTHER       -> @]

\* _hs_write_socket_and_handle_return_code
WriteSocket(c) ==
  /\ pc = "write" /\ cur = c
  /\ \E w \in WriteCall(c) :
       LET r  == [req[c] EXCEPT !.written = @ + w[1]]
           s  == [sock[c] EXCEPT !.space = @ - w[1]]
           rc == WriteRc(r, w[2])
           q  == AfterWrite(r, rc)
           freed == memused + Charge(r, q)
       IN  /\ errno' = w[2]
           /\ CASE rc = "CONTINUE" ->
                     /\ req' = [req EXCEPT ![c] = q]
                     /\ sock' = [sock EXCEPT ![c] = s]
                     /\ Return
                     /\ UNCHANGED <<life, app, client, memused>>
                [] rc = "SUCCESS" ->
                     /\ BeginRead(c, q, s, freed)
                     /\ client' = [client EXCEPT ![c] = Answered(@)]
                     /\ UNCHANGED <<life, app>>
                [] rc = "SUCCESS_CHUNK" ->
                     /\ req' = [req EXCEPT ![c] = ExecCallback(q)]
                     /\ sock' = [sock EXCEPT ![c] = s]
                     /\ memused' = freed
                     /\ Call(c, "notify")
                     /\ UNCHANGED <<life, client, inject>>
                [] OTHER -> TerminateConnection(c) /\ UNCHANGED <<app, client>>
  /\ UNCHANGED <<events, fault>>

-----------------------------------------------------------------------------
(* The application, through api.c.  It calls the library from a callback,  *)
(* or later, between two events, for a request it deferred.  It answers a  *)
(* streamed request after having read its body to the end.                 *)

Acting(c) ==
  /\ app[c].held # "none" /\ life[c] = "open"
  /\ \/ pc = "callback" /\ cur = c
     \/ pc = "loop" /\ batch = {}

Complete == {"request", "complete"}

\* http_respond
AppRespond(c) ==
  /\ Acting(c) /\ "respond" \in AppCalls
  /\ app[c].held \in Complete
  /\ app' = [app EXCEPT ![c].held = "none"]
  /\ \E n \in OutLens : BeginWrite(c, Respond(req[c], n), sock[c])
  /\ fault' = (fault \/ (InspectsBuffer(req[c]) /\ ~HasBuffer(req[c])))
  /\ UNCHANGED <<life, client, errno, events>>

\* http_respond_chunk
AppRespondChunk(c) ==
  /\ Acting(c) /\ "chunks" \in AppCalls
  /\ app[c].held \in Complete \cup {"notify"}
  /\ app[c].chunks < MaxChunks
  /\ app' = [app EXCEPT ![c] = [held |-> "none", chunks |-> @.chunks + 1]]
  /\ \E n \in OutLens : BeginWrite(c, RespondChunk(req[c], n), sock[c])
  /\ fault' = (fault \/ /\ "CHUNKED_RESPONSE" \notin req[c].flags
                        /\ InspectsBuffer(req[c]) /\ ~HasBuffer(req[c]))
  /\ UNCHANGED <<life, client, errno, events>>

\* http_respond_chunk_end
AppRespondChunkEnd(c) ==
  /\ Acting(c) /\ app[c].held = "notify"
  /\ app' = [app EXCEPT ![c] = [held |-> "none", chunks |-> 0]]
  /\ \E n \in OutLens : BeginWrite(c, RespondChunkEnd(req[c], n), sock[c])
  /\ UNCHANGED <<life, client, errno, events, fault>>

\* http_request_read_chunk
AppReadChunk(c) ==
  /\ Acting(c) /\ app[c].held = "body"
  /\ app' = [app EXCEPT ![c].held = "none"]
  /\ BeginRead(c, [req[c] EXCEPT !.cb = "body"], sock[c], memused)
  /\ UNCHANGED <<life, client, errno, events, fault>>

\* The callback returns and the application answers later; "defer_last":
\* also from the call for the last piece of a large body.
AppDefer(c) ==
  /\ pc = "callback" /\ cur = c /\ "defer" \in AppCalls
  /\ inject = c => "defer_last" \in AppCalls
  /\ Return
  /\ UNCHANGED <<conns, server, events, fault>>

\* http_request_connection
AppSetConnection(c) ==
  /\ Acting(c) /\ "connection" \in AppCalls /\ app[c].held \in Complete
  /\ \E d \in {"keep", "close"} : req' = [req EXCEPT ![c] = SetKeepAlive(@, d)]
  /\ UNCHANGED <<life, sock, app, client, server, process, events, fault>>

\* http_request_free_buffer; "free": only once the application has decided
\* about the connection itself, "free_auto": whenever it holds a request.
AppFreeBuffer(c) ==
  /\ Acting(c) /\ app[c].held \in Complete
  /\ \/ "free" \in AppCalls /\ "AUTOMATIC" \notin req[c].flags
     \/ "free_auto" \in AppCalls
  /\ HasBuffer(req[c])
  /\ req' = [req EXCEPT ![c] = BufferFree(@)]
  /\ memused' = memused + Charge(req[c], BufferFree(req[c]))
  /\ UNCHANGED <<life, sock, app, client, errno, process, events, fault>>

AppAnswers(c) == \/ AppRespond(c) \/ AppRespondChunk(c)
                 \/ AppRespondChunkEnd(c) \/ AppReadChunk(c)

-----------------------------------------------------------------------------
(* Clients, the network and the clock.                                     *)

Connect(c) ==
  /\ life[c] = "new"
  /\ life' = [life EXCEPT ![c] = "backlog"]
  /\ lready' = TRUE
  /\ UNCHANGED <<sock, req, app, client, server, process, batch, fault>>

Connected(c) == life[c] \in {"backlog", "open"} /\ sock[c].peer = "up"

\* What a client that does not pipeline may send next, and where it is then.
MaySend(at) ==
  CASE at = "idle"             -> Requests
    [] at = "small"            -> {"part", "body"}
    [] at = "chunked"          -> {"chunk", "zero"}
    [] at \in {"tail", "late"} -> {"tail"}
    [] at = "large"            -> {"piece", "last"}
    [] OTHER                   -> {}

AfterSend(at, f) ==
  CASE f \in {"head", "bighead", "part"}         -> "small"
    [] f \in {"stream", "chunk"}                 -> "chunked"
    [] f \in {"large", "piece"}                  -> "large"
    [] f = "zero" /\ "split" \in Faults          -> "tail"
    [] f = "tail" /\ at = "late"                 -> "idle"
    [] OTHER                                     -> "await"

\* The CRLF that ends a chunked body is sent with the zero chunk, unless
\* "split" \in Faults.
ClientSend(c, f) ==
  /\ Connected(c) /\ client[c].sent < MaxFragments
  /\ f \in MaySend(client[c].at)
  /\ client[c].at = "idle" => sock[c].space = SndBuf
  /\ \E h \in Heads :
       /\ h # client[c].head => client[c].at = "idle" /\ HeadsVary
       /\ client' = [client EXCEPT ![c] =
            [at |-> AfterSend(@.at, f), sent |-> @.sent + 1, head |-> h]]
  /\ sock' = [sock EXCEPT ![c] =
       Arrival(@, IF f = "zero" /\ "split" \notin Faults
                  THEN <<"zero", "tail">> ELSE <<f>>)]
  /\ UNCHANGED <<life, req, app, server, process, events, fault>>

ClientCloses(c) ==
  /\ Connected(c) /\ "fin" \in Faults
  /\ sock' = [sock EXCEPT ![c] = HalfClose(@)]
  /\ UNCHANGED <<life, req, app, client, server, process, events, fault>>

ClientResets(c) ==
  /\ life[c] \in {"backlog", "open"} /\ sock[c].peer # "rst"
  /\ "rst" \in Faults
  /\ sock' = [sock EXCEPT ![c] = Reset(@)]
  /\ UNCHANGED <<life, req, app, client, server, process, events, fault>>

Drain(c) ==
  /\ life[c] = "open" /\ sock[c].space < SndBuf
  /\ sock' = [sock EXCEPT ![c] = Drained(@)]
  /\ UNCHANGED <<life, req, app, client, server, process, events, fault>>

\* An application that is not "overdue" answers while the request has a
\* second left.
TimerExpires(c) ==
  /\ sock[c].timer /\ ~sock[c].tick
  /\ app[c].held # "none" /\ "overdue" \notin AppCalls => req[c].timeout > 1
  /\ sock' = [sock EXCEPT ![c] = Expired(@)]
  /\ UNCHANGED <<life, req, app, client, server, process, events, fault>>

-----------------------------------------------------------------------------

\* The process waits in epoll_wait.
Idle == pc = "loop" /\ batch = {}

Handler(c) == \/ OnReadable(c) \/ OnWritable(c) \/ OnIgnored(c) \/ OnTimer(c)
              \/ AcceptConnection(c)
              \/ ReadData(c) \/ ReadNothing(c) \/ ParseAndCall(c)
              \/ InjectEnd(c) \/ WriteSocket(c)

Application(c) == \/ AppRespond(c) \/ AppRespondChunk(c)
                  \/ AppRespondChunkEnd(c) \/ AppReadChunk(c) \/ AppDefer(c)
                  \/ AppSetConnection(c) \/ AppFreeBuffer(c)

Environment(c) == \/ Connect(c) \/ \E f \in Fragment : ClientSend(c, f)
                  \/ ClientCloses(c) \/ ClientResets(c) \/ Drain(c)
                  \/ TimerExpires(c)

\* Every connection of the instance has come and gone.
Finished == Idle /\ life = [c \in Conn |-> "freed"] /\ UNCHANGED vars

Next == \/ Finished
        \/ \E taken \in SUBSET Event : EpollWait(taken)
        \/ OnListen \/ AcceptFails
        \/ \E c \in Conn : Handler(c) \/ Application(c) \/ Environment(c)

Spec == Init /\ [][Next]_vars

\* The process never stops in a handler; epoll_wait takes the ready list in
\* the order in which entries were put on it, so that none is passed over
\* for ever; the application answers what it deferred; the clock goes on.
\* Nothing is assumed of clients.
Fairness ==
  /\ WF_vars(OnListen \/ AcceptFails \/ \E c \in Conn : Handler(c))
  /\ \A e \in Event : SF_vars(\E taken \in SUBSET Event :
                                e \in taken /\ EpollWait(taken))
  /\ \A c \in Conn : /\ SF_vars(AppAnswers(c))
                     /\ WF_vars(TimerExpires(c))

FairSpec == Spec /\ Fairness

-----------------------------------------------------------------------------
(* Properties.                                                             *)

\* Every variable has its type.
TypeOK ==
  /\ life \in [Conn -> {"new", "backlog", "open", "freed"}]
  /\ sock \in [Conn -> Socket]
  /\ req \in [Conn -> Request]
  /\ app \in [Conn -> App]
  /\ client \in [Conn -> Client]
  /\ memused \in Int /\ errno \in {"EPIPE", "other"}
  /\ pc \in {"loop", "accept", "read", "parse", "callback", "write", "inject"}
  /\ cur \in Conn \cup {NoConn} /\ inject \in Conn \cup {NoConn}
  /\ accepting \in BOOLEAN /\ lready \in BOOLEAN /\ fault \in BOOLEAN
  /\ batch \in SUBSET Event

\* No frame of the call stack, no event waiting to be handled and no epoll
\* registration refers to a request struct that terminate_connection freed:
\* one event per epoll_wait and the tail calls of the handlers see to it.
NoDanglingRequest ==
  /\ pc \notin {"loop", "accept"} => cur \in Open
  /\ inject # NoConn => inject \in Open
  /\ \A e \in batch : e[1] # "listen" => e[2] \in Open
  /\ \A c \in Conn : sock[c].interest # "none" \/ sock[c].timer => c \in Open

\* What the application still has to answer is a connection that exists.
HandleLive == \A c \in Conn : app[c].held # "none" => c \in Open

\* The timer of an open connection runs, and has something left to count.
TimerRuns == \A c \in Open : sock[c].timer /\ req[c].timeout > 0

\* Whenever the process waits in epoll_wait and no event is on its way for
\* a connection whose client is still there, the next move is not the
\* server's: the application holds the request, or the send buffer is full,
\* or the client has not sent all of its request.
NoLostWakeup ==
  Idle => \A c \in Open : sock[c].ready \/ sock[c].peer # "up" \/
            CASE req[c].state = "NOP"   -> app[c].held # "none"
              [] req[c].state = "WRITE" -> sock[c].space = 0
              [] OTHER                  -> client[c].at # "await"

\* chunk_cb is one pointer for two purposes: whoever is called through it
\* asked for this kind of call.
CallbackRegistered ==
  \A c \in Conn :
    /\ app[c].held = "complete" => req[c].cb = "body"
    /\ app[c].held = "notify" => req[c].cb = "write"
    /\ req[c].state = "READ" /\ req[c].pst \in {"chunked", "large"}
         => req[c].cb = "body"

\* memused is the memory the buffers have: after every step, also between
\* the system calls of a handler.
MemoryAccounted ==
  memused = MapThenSumSet(LAMBDA c : req[c].cap, Conn)

\* memused never exceeds the memory the buffers have: no connection is
\* refused for memory that is not in use.
MemoryNotOverstated ==
  memused <= MapThenSumSet(LAMBDA c : req[c].cap, Conn)

\* The loop does not wait with connections left in the backlog: the
\* listening socket is edge-triggered, only another client would wake it.
BacklogEmptied == Idle => Backlog = {} \/ lready

\* While the application has not decided itself, a response keeps the
\* connection alive exactly if the request it answers asked for it.
KeepAliveHonoured ==
  \A c \in Open :
    req[c].state = "WRITE" /\ InspectsBuffer(req[c]) =>
      ("KEEP_ALIVE" \in req[c].flags <=> client[c].head.conn # "close")

\* The code reads no request through a null buffer.
NoFault == ~fault

\* A connection with a response to send is closed only when the kernel takes
\* all of the rest, when its client is gone, or when its time is up.
ResponseNotCut ==
  [][\A c \in Conn :
       life[c] = "open" /\ life'[c] = "freed" /\ req[c].state = "WRITE" =>
         \/ sock[c].peer = "rst" \/ req[c].timeout = 1
         \/ Unsent(req[c]) <= sock[c].space]_vars

\* A connection is freed in the end once its client is silent and its
\* application adds no more chunks to a response: data and chunks renew the
\* timeout, and who goes on with them for ever is never timed out.  Where the
\* client stops is left open: within a request, with a response unread,
\* half-closed or not.
Reclaimed ==
  \A c \in Conn :
    \/ life[c] = "open" ~> life[c] = "freed"
    \/ []<><<\E f \in Fragment : ClientSend(c, f)>>_vars
    \/ []<><<AppRespondChunk(c)>>_vars

-----------------------------------------------------------------------------
(* The server implements HttpExchange.                                     *)

\* l, r and a are the connection's life, its request and what the
\* application holds of it.
PhaseOf(l, r, a) ==
  IF l \in {"new", "backlog"} THEN "absent"
  ELSE IF l = "freed" THEN "closed"
  ELSE CASE a.held \in Complete -> "handling"
         [] a.held = "body"     -> "streaming"
         [] a.held = "notify"   -> "notified"
         [] a.held = "none" ->
              IF r.state = "WRITE"
              THEN IF "CHUNKED_RESPONSE" \in r.flags
                   THEN "chunking" ELSE "sending"
              ELSE IF r.pst \in {"chunked", "large", "done"}
                   THEN "fetching" ELSE "reading"

Phase(c) == PhaseOf(life[c], req[c], app[c])

Exchange == INSTANCE HttpExchange WITH phase <- [c \in Conn |-> Phase(c)]

\* Requests, callbacks and responses of every connection come in the order
\* the API promises.
ImplementsExchange == Exchange!Spec
=============================================================================
