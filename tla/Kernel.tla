------------------------------- MODULE Kernel -------------------------------
(***************************************************************************)
(* The operating system as the server uses it: one connected, non-blocking *)
(* TCP socket with its edge-triggered epoll registration, and the periodic *)
(* one second timerfd that is registered next to it.                       *)
(*                                                                         *)
(* Abstractions.  The bytes on the wire are cut into fragments, each of    *)
(* which the HTTP parser either uses as a whole or not at all; buffers are *)
(* measured in fragments.  The send buffer has SndBuf units of space.      *)
(***************************************************************************)
EXTENDS Integers, Sequences

CONSTANT SndBuf      \* units a socket accepts before a write would block

ASSUME SndBufAssumption == SndBuf \in Nat \ {0}

\* What a piece of a request can be: a whole request without a body; the
\* beginning of a request whose body fits the buffer as it is (head) or only
\* once the buffer has been resized (bighead), a part of that body, and its
\* end; the headers of a chunked request, one chunk, the zero chunk, and the
\* CRLF after it; the headers of a request too large for the buffer, a piece
\* of its body and the last piece; a malformed request.
Fragment == {"get", "head", "bighead", "part", "body", "stream", "chunk",
             "zero", "tail", "large", "piece", "last", "bad"}

Socket == [rx       : Seq(Fragment),           \* received, not yet read
           peer     : {"up", "fin", "rst"},    \* what the client did to it
           space    : 0 .. SndBuf,             \* free room to send
           interest : {"none", "in", "out"},   \* epoll registration
           ready    : BOOLEAN,                 \* on the epoll ready list
           timer    : BOOLEAN,                 \* timerfd armed, registered
           tick     : BOOLEAN]                 \* timerfd expired, not read

NewSocket == [rx |-> <<>>, peer |-> "up", space |-> SndBuf,
              interest |-> "none", ready |-> FALSE,
              timer |-> FALSE, tick |-> FALSE]

-----------------------------------------------------------------------------
(* System calls of the server.                                             *)

\* Does the registered interest hold now?  epoll_wait drops a ready entry
\* for which it does not.  A reset is reported whatever the interest.
Reportable(s) ==
  \/ s.interest = "in"  /\ (s.rx # <<>> \/ s.peer # "up")
  \/ s.interest = "out" /\ s.space > 0
  \/ s.interest # "none" /\ s.peer = "rst"

\* EPOLL_CTL_ADD and EPOLL_CTL_MOD re-evaluate the condition: a socket that
\* already satisfies the new interest is put on the ready list.
EpollCtl(s, interest) ==
  LET t == [s EXCEPT !.interest = interest]
  IN  [t EXCEPT !.ready = s.ready \/ Reportable(t)]

ArmTimer(s) == [s EXCEPT !.timer = TRUE]

\* What read() returns when it has nothing to deliver: 0 for a read of no
\* bytes or at the end of the stream, -1 when it would block; a reset
\* connection reports its error once and the end of the stream afterwards.
EmptyRead(s, room) ==
  IF room = 0 THEN {0}
  ELSE CASE s.peer = "up"  -> {-1}
         [] s.peer = "fin" -> {0}
         [] s.peer = "rst" -> {-1, 0}

-----------------------------------------------------------------------------
(* What the network does to a socket.  Each event wakes epoll only when    *)
(* the interest registered at that moment matches.                         *)

Arrival(s, frags) == [s EXCEPT !.rx = @ \o frags,
                               !.ready = @ \/ s.interest = "in"]

HalfClose(s) == [s EXCEPT !.peer = "fin", !.ready = @ \/ s.interest = "in"]

Reset(s) == [s EXCEPT !.peer = "rst", !.ready = @ \/ s.interest # "none"]

\* The client took everything sent so far.  Only leaving the full state is
\* an edge.
Drained(s) == [s EXCEPT !.space = SndBuf,
                        !.ready = @ \/ (s.interest = "out" /\ s.space = 0)]

Expired(s) == [s EXCEPT !.tick = TRUE]
=============================================================================
