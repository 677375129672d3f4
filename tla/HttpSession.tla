----------------------------- MODULE HttpSession -----------------------------
(***************************************************************************)
(* One connection of the server: SslSession in src/http/ssl_session.{h,cpp} *)
(* (plain TCP or TLS) with the client at its other end.                    *)
(*                                                                         *)
(* The session is a chain of completion handlers (handshake, read, interim  *)
(* write, response write), each starting the next operation, plus the       *)
(* handler of the keep-alive timer.  The io_context runs on several threads *)
(* and the session has no strand, so the timer's handler may run between    *)
(* any two steps of the chain, also after a cancel that came too late.      *)
(*                                                                         *)
(* A byte is a pair <<i, j>>: byte j of the i-th request the client sends.  *)
(* The header of request i ends with its byte number head; the bytes after  *)
(* it are the body announced by Content-Length.                             *)
(***************************************************************************)
EXTENDS Integers, FiniteSets, SequencesExt

CONSTANTS Script,      \* the requests of the client: [head, body, expect, close]
          InitialSize  \* the size _buf starts with

ASSUME SessionAssumption ==
    /\ InitialSize \in Nat \ {0}
    /\ Script \in Seq([head : Nat \ {0}, body : Nat, expect : BOOLEAN, close : BOOLEAN])

VARIABLES tls,       \* whether SocketType is an ssl::stream; it never changes
          pc,        \* the pending operation or running handler of the chain
          buf,       \* the used part of _buf: _used is its length
          size,      \* _buf.size()
          have,      \* _have_headers
          hlen,      \* _headers_len
          clen,      \* _content_length
          expect,    \* _expect_continue
          keep,      \* _keep_alive
          current,   \* the header and body handed to process_request
          armed,     \* a wait on _ka_timer is pending
          queued,    \* a wait has expired and its handler has not run yet
          since,     \* history: bytes read when the pending wait was started, else 0
          overtaken, \* history: bytes read between the start of a wait and its expiry
          sock,      \* the server's socket: "open", "shut" or "closed"
          client,    \* the client's socket: "open" or "closed"
          sent,      \* bytes the client has sent
          received,  \* bytes read from the socket
          served,    \* history: the requests handed to process_request
          continued, \* history: how often "100 Continue" was written in each request
          answered   \* history: the requests whose response was written

parser == <<have, hlen, clen, expect>>
timer == <<armed, queued, since, overtaken>>
network == <<tls, client, sent>>
history == <<served, continued, answered>>
vars == <<pc, buf, size, parser, keep, current, timer, sock, network, received, history>>

HeadOf(i) == [j \in 1..Script[i].head |-> <<i, j>>]
BodyOf(i) == [j \in 1..Script[i].body |-> <<i, Script[i].head + j>>]

\* Everything the client has to send, in order.
Stream == FlattenSeq([i \in 1..Len(Script) |-> HeadOf(i) \o BodyOf(i)])

NoRequest == [head |-> <<>>, body |-> <<>>]

Init ==
    /\ tls \in BOOLEAN
    /\ pc = IF tls THEN "handshake" ELSE "reading"
    /\ buf = <<>>
    /\ size = InitialSize
    /\ have = FALSE
    /\ hlen = 0
    /\ clen = 0
    /\ expect = FALSE
    /\ keep = FALSE
    /\ current = NoRequest
    /\ armed = FALSE
    /\ queued = FALSE
    /\ since = 0
    /\ overtaken = 0
    /\ sock = "open"
    /\ client = "open"
    /\ sent = 0
    /\ received = 0
    /\ served = <<>>
    /\ continued = [i \in 1..Len(Script) |-> 0]
    /\ answered = <<>>

-----------------------------------------------------------------------------
(* The client.                                                              *)

ClientSend ==
    /\ client = "open"
    /\ sent < Len(Stream)
    /\ sent' = sent + 1
    /\ UNCHANGED <<pc, buf, size, parser, keep, current, timer, sock, tls, client, received, history>>

ClientClose ==
    /\ client = "open"
    /\ client' = "closed"
    /\ UNCHANGED <<pc, buf, size, parser, keep, current, timer, sock, tls, sent, received, history>>

-----------------------------------------------------------------------------
(* Reading and parsing.                                                     *)

Connected == sock = "open" /\ client = "open"

\* Mutant: the buffer never grows.
EnsuredSize_Fixed(b) == size

\* ensure_capacity.
EnsuredSize(b) == IF Len(b) = size THEN size * 2 ELSE size

\* do_read: the buffer is made large enough and the next read is started.
do_read ==
    /\ size' = EnsuredSize(buf)
    /\ pc' = "reading"

Handshake ==
    /\ pc = "handshake"
    /\ \/ Connected /\ do_read
       \/ pc' = "ended" /\ UNCHANGED size
    /\ UNCHANGED <<buf, parser, keep, current, timer, sock, network, received, history>>

\* A wait that has expired already is not undone by a cancel.
\* Mutants: the cancel is forgotten; the timer is cancelled but not started.
cancel_keep_alive_timeout_Not == UNCHANGED <<armed, since>>
cancel_keep_alive_timeout == armed' = FALSE /\ since' = 0
arm_keep_alive_timeout_Not == armed' = FALSE /\ since' = 0
arm_keep_alive_timeout == armed' = TRUE /\ since' = received

\* The read handler's first half: some bytes came, the timer is cancelled.
ReadSome ==
    /\ pc = "reading"
    /\ sock = "open"
    /\ \E n \in 1..(size - Len(buf)) :
         /\ received + n <= sent
         /\ buf' = buf \o SubSeq(Stream, received + 1, received + n)
         /\ received' = received + n
    /\ cancel_keep_alive_timeout
    /\ pc' = "parse"
    /\ UNCHANGED <<size, parser, keep, current, queued, overtaken, sock, network, history>>

\* Mutant: after an error the session reads again.
ReadError_ReadsOn ==
    /\ pc = "reading"
    /\ ~Connected
    /\ UNCHANGED vars

\* End of stream, a reset, or the socket was closed under the read: the chain
\* ends.  What the client sent before it closed may be lost.
ReadError ==
    /\ pc = "reading"
    /\ ~Connected
    /\ pc' = "ended"
    /\ UNCHANGED <<buf, size, parser, keep, current, timer, sock, network, received, history>>

\* find_header_end: the positions where a header is complete.
HeaderEnds == {p \in 1..Len(buf) : buf[p][2] = Script[buf[p][1]].head}

AfterScan(request) == IF request.expect THEN "interim" ELSE "parse"

\* try_parse_and_handle sees the end of the headers for the first time.
ScanHeaders ==
    /\ pc = "parse"
    /\ ~have
    /\ HeaderEnds # {}
    /\ LET end == CHOOSE p \in HeaderEnds : \A q \in HeaderEnds : p <= q
           request == Script[buf[end][1]]
       IN  /\ hlen' = end
           /\ clen' = request.body
           /\ expect' = request.expect
           /\ pc' = AfterScan(request)
    /\ have' = TRUE
    /\ UNCHANGED <<buf, size, keep, current, timer, sock, network, received, history>>

Complete == have /\ Len(buf) >= hlen + clen

\* try_parse_and_handle returns false: read on.
NeedMore ==
    /\ pc = "parse"
    /\ IF have THEN Len(buf) < hlen + clen ELSE HeaderEnds = {}
    /\ do_read
    /\ UNCHANGED <<buf, parser, keep, current, timer, sock, network, received, history>>

\* "100 Continue" was written: parse on if the body is there, else read on.
InterimWritten ==
    /\ pc = "interim"
    /\ Connected
    /\ continued' = [continued EXCEPT ![buf[hlen][1]] = @ + 1]
    /\ IF Complete THEN pc' = "parse" /\ UNCHANGED size ELSE do_read
    /\ UNCHANGED <<buf, parser, keep, current, timer, sock, network, received, served, answered>>

InterimFails ==
    /\ pc = "interim"
    /\ ~Connected
    /\ pc' = "ended"
    /\ UNCHANGED <<buf, size, parser, keep, current, timer, sock, network, received, history>>

\* Mutant: what was pipelined behind the request is dropped.
Rest_Dropped == <<>>

\* The bytes after the request move to the front of the buffer.
Rest == SubSeq(buf, hlen + clen + 1, Len(buf))

ResetParser == have' = FALSE /\ hlen' = 0 /\ clen' = 0 /\ expect' = FALSE

\* The request is cut out of the buffer, the parser reset, the request handed
\* to process_request.
TakeRequest ==
    /\ pc = "parse"
    /\ Complete
    /\ current' = [head |-> SubSeq(buf, 1, hlen), body |-> SubSeq(buf, hlen + 1, hlen + clen)]
    /\ served' = Append(served, current')
    /\ buf' = Rest
    /\ ResetParser
    /\ pc' = "process"
    /\ UNCHANGED <<size, keep, timer, sock, network, received, continued, answered>>

-----------------------------------------------------------------------------
(* Answering.                                                               *)

\* Connection: close or not.
KeepsAlive(r) == ~Script[r.head[1][1]].close

\* process_request: the application's handler has run, its response or the
\* response made from its exception is formatted, do_write starts the write.
ProcessRequest ==
    /\ pc = "process"
    /\ keep' = KeepsAlive(current)
    /\ pc' = "writing"
    /\ UNCHANGED <<buf, size, parser, current, timer, sock, network, received, history>>

Sent == IF Connected THEN Append(answered, current) ELSE answered

\* The write handler ignores the error code.  With keep-alive the timer is
\* started anew and the next read begins.
WrittenKeepAlive ==
    /\ pc = "writing"
    /\ keep
    /\ answered' = Sent
    /\ arm_keep_alive_timeout
    /\ do_read
    /\ UNCHANGED <<buf, parser, keep, current, queued, overtaken, sock, network, received, served, continued>>

\* Without it the socket is shut down; TLS does so in a blocking call that
\* waits for the close_notify of the client.
WrittenClose ==
    /\ pc = "writing"
    /\ ~keep
    /\ answered' = Sent
    /\ IF tls
         THEN pc' = "closing" /\ UNCHANGED sock
         ELSE pc' = "ended" /\ sock' = IF sock = "open" THEN "shut" ELSE sock
    /\ UNCHANGED <<buf, size, parser, keep, current, timer, network, received, served, continued>>

TlsClosed ==
    /\ pc = "closing"
    /\ ~Connected
    /\ pc' = "ended"
    /\ UNCHANGED <<buf, size, parser, keep, current, timer, sock, network, received, history>>

-----------------------------------------------------------------------------
(* The keep-alive timer and the end of the session object.                  *)

TimerExpires ==
    /\ armed
    /\ armed' = FALSE
    /\ queued' = TRUE
    /\ since' = 0
    /\ overtaken' = overtaken + (received - since)
    /\ UNCHANGED <<pc, buf, size, parser, keep, current, sock, network, received, history>>

TimerHandler ==
    /\ queued
    /\ queued' = FALSE
    /\ sock' = "closed"
    /\ UNCHANGED <<pc, buf, size, parser, keep, current, armed, since, overtaken, network, received, history>>

\* The last handler that keeps the session alive is gone: the destructor
\* closes the socket.
Released ==
    /\ pc = "ended"
    /\ ~armed
    /\ ~queued
    /\ sock # "closed"
    /\ sock' = "closed"
    /\ UNCHANGED <<pc, buf, size, parser, keep, current, timer, network, received, history>>

SessionStep ==
    \/ Handshake \/ ReadSome \/ ReadError
    \/ ScanHeaders \/ NeedMore \/ InterimWritten \/ InterimFails \/ TakeRequest
    \/ ProcessRequest \/ WrittenKeepAlive \/ WrittenClose \/ TlsClosed
    \/ Released

TimerStep == TimerExpires \/ TimerHandler

Next == ClientSend \/ ClientClose \/ SessionStep \/ TimerStep

Spec == Init /\ [][Next]_vars

\* Operations that are ready complete and their handlers run; the ten seconds
\* of the timer pass.  The client need not send, close or finish a handshake,
\* but it reads: a response that is written gets out or fails.
FairSpec ==
    /\ Spec
    /\ WF_vars(SessionStep /\ (pc = "handshake" => ~Connected))
    /\ WF_vars(TimerExpires)
    /\ WF_vars(TimerHandler)

-----------------------------------------------------------------------------
(* Properties.                                                              *)

Bytes == {<<i, j>> : i \in 1..Len(Script), j \in 1..Len(Stream)}

\* The types of the members of SslSession.
TypeOK ==
    /\ tls \in BOOLEAN
    /\ pc \in {"handshake", "reading", "parse", "interim", "process", "writing", "closing", "ended"}
    /\ buf \in Seq(Bytes)
    /\ size \in Nat
    /\ have \in BOOLEAN
    /\ hlen \in 0..Len(buf)
    /\ clen \in Nat
    /\ expect \in BOOLEAN
    /\ keep \in BOOLEAN
    /\ current \in [head : Seq(Bytes), body : Seq(Bytes)]
    /\ armed \in BOOLEAN
    /\ queued \in BOOLEAN
    /\ since \in 0..received
    /\ overtaken \in Nat
    /\ sock \in {"open", "shut", "closed"}
    /\ client \in {"open", "closed"}
    /\ sent \in 0..Len(Stream)
    /\ received \in 0..sent
    /\ served \in Seq([head : Seq(Bytes), body : Seq(Bytes)])
    /\ continued \in [1..Len(Script) -> Nat]
    /\ answered \in Seq([head : Seq(Bytes), body : Seq(Bytes)])

\* However the bytes are cut into reads, and whatever was pipelined behind a
\* request, the n-th request processed is the n-th request sent, with its own
\* header and its own body: no byte is lost, repeated or taken for another's.
Framed ==
    /\ Len(served) <= Len(Script)
    /\ \A i \in 1..Len(served) : served[i].head = HeadOf(i) /\ served[i].body = BodyOf(i)

\* A read always has room: an empty read would complete at once with nothing
\* and the session would spin.
RoomToRead == Len(buf) <= size /\ (pc = "reading" => Len(buf) < size)

\* "100 Continue" is written once in every request that asks for it, before it
\* is processed, and in no other.
ContinueOnce ==
    \A i \in 1..Len(Script) :
      /\ continued[i] <= 1
      /\ continued[i] = 1 => Script[i].expect /\ i <= Len(served) + 1
      /\ Script[i].expect /\ i <= Len(served) => continued[i] = 1

\* The keep-alive timer measures silence: from the response that started a wait to
\* the expiry of that wait no byte was read.  So a handler that finds a request being
\* read, processed or answered and closes the socket under it was overtaken: its wait
\* had expired before the first of those bytes was read.  Only bytes pipelined behind
\* an earlier request, which are in the buffer when the wait starts, are timed with
\* the silence after them, be they a complete request.
TimedBySilence ==
    /\ armed => pc \in {"reading", "ended"} /\ ~have /\ received = since
    /\ overtaken = 0

\* Nothing is processed after a request that asked to close.
NothingAfterClose == \A i \in 1..Len(served) : Script[i].close => i = Len(served)

\* Responses go out in the order of the requests, one for each: as long as the
\* connection is whole, nothing processed is left unanswered when the session
\* reads again.
AnsweredInOrder ==
    /\ IsPrefix(answered, served)
    /\ Connected /\ pc \notin {"process", "writing"} => answered = served
    /\ Connected => Len(served) <= Len(answered) + 1

\* The conversation is what HTTP asks for: the requests as they were sent, each
\* announced if it asked for that, answered in their order, none after a close.
Conversation ==
    TypeOK /\ Framed /\ ContinueOnce /\ AnsweredInOrder /\ NothingAfterClose

End(i) == Len(FlattenSeq([n \in 1..i |-> HeadOf(n) \o BodyOf(n)]))

\* A request that has arrived completely is processed, or the server closes the
\* connection: a session never sits on a complete request for ever, not even on
\* a pipelined one that no further read completion announces.
RequestsSettled ==
    \A i \in 1..Len(Script) :
      received >= End(i) ~> (Len(served) >= i \/ pc \in {"closing", "ended"})

\* When the client is gone the session ends and its socket is closed.
SessionReclaimed == client = "closed" ~> (pc = "ended" /\ sock = "closed")

=============================================================================
