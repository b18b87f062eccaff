---------------------------- MODULE HttpExchange ----------------------------
(***************************************************************************)
(* What the library promises an application about one connection: the      *)
(* order in which requests are read, callbacks run and responses are       *)
(* written.  Events, buffers, partial reads and writes do not show.        *)
(***************************************************************************)
CONSTANT Conn

VARIABLE phase
\* absent     not accepted yet
\* reading    waiting for, or inside, a request
\* handling   the application has a complete request and owes a response
\* streaming  the application has a piece of the body (or the headers)
\* fetching   it asked for the next piece
\* sending    a whole response, or the end of a chunked one, is written
\* chunking   a chunk of the response is written
\* notified   the application owes the next chunk, or the end
\* closed

Phases == {"absent", "reading", "handling", "streaming", "fetching",
           "sending", "chunking", "notified", "closed"}

Init == phase = [c \in Conn |-> "absent"]

Move(c, from, to) == phase[c] \in from /\ phase' = [phase EXCEPT ![c] = to]

\* A connection is accepted, or refused with a 503.
Accept(c) == Move(c, {"absent"}, "reading")
Refuse(c) == Move(c, {"absent"}, "sending")

\* request_handler, for a complete request or for a streamed one.
HandleRequest(c) == Move(c, {"reading"}, "handling")
HandleHeaders(c) == Move(c, {"reading"}, "streaming")

\* http_request_read_chunk, and chunk_cb with a piece or with the end.
ReadChunk(c)   == Move(c, {"streaming"}, "fetching")
HandleChunk(c) == Move(c, {"fetching"}, "streaming")
HandleEnd(c)   == Move(c, {"fetching"}, "handling")

\* http_respond; http_respond_chunk, chunk_cb, http_respond_chunk_end.
Respond(c)         == Move(c, {"handling"}, "sending")
RespondChunk(c)    == Move(c, {"handling", "notified"}, "chunking")
ChunkWritten(c)    == Move(c, {"chunking"}, "notified")
RespondChunkEnd(c) == Move(c, {"notified"}, "sending")

\* The response is written: keep-alive.
NextRequest(c) == Move(c, {"sending"}, "reading")

\* Response written, client gone or timeout; never while the application
\* owes the library a call.
Close(c) == Move(c, {"reading", "fetching", "sending", "chunking"}, "closed")

Step(c) == \/ Accept(c) \/ Refuse(c)
           \/ HandleRequest(c) \/ HandleHeaders(c)
           \/ ReadChunk(c) \/ HandleChunk(c) \/ HandleEnd(c)
           \/ Respond(c) \/ RespondChunk(c) \/ ChunkWritten(c)
           \/ RespondChunkEnd(c) \/ NextRequest(c) \/ Close(c)

Next == \E c \in Conn : Step(c)

Spec == Init /\ [][Next]_phase
=============================================================================
