------------------------------ MODULE HttpClient ------------------------------
(***************************************************************************)
(* The blocking client http::request (src/http/http_common.cpp) and the     *)
(* server it talks to: the request is written, the response header is read  *)
(* up to its empty line, and the body is read by the framing the header     *)
(* announces, a length, chunks or the end of the stream.                    *)
(*                                                                         *)
(* The stream is a sequence of units: every \r, every \n and every byte of   *)
(* data is one, and so is each digit of a size line, the first standing for *)
(* all but the last; the text of a header or trailer line, which the code    *)
(* never looks at before its \r\n, is one as well.  A read delivers any      *)
(* number of the units that have arrived: the stream is cut inside a size     *)
(* line, inside the end of the header, and between \r and \n.                *)
(***************************************************************************)
EXTENDS Integers, SequencesExt

CONSTANTS Responses,    \* what a server may answer: [framing, body, trailers, extra, fault]
          ReadTimeout   \* whether set_timeout_ms gave a read timeout

Framings == {"length", "chunked", "none"}

ASSUME ClientAssumption ==
    /\ ReadTimeout \in BOOLEAN
    /\ \A r \in Responses :
         /\ r.framing \in Framings
         /\ r.body \in Seq(Nat)        \* the sizes of its chunks, or its size
         /\ r.framing # "chunked" => Len(r.body) = 1
         /\ r.framing = "chunked" => 0 \notin Range(r.body)   \* it would be the last
         /\ r.trailers \in Nat         \* trailer lines after the last chunk
         /\ r.extra \in Nat            \* bytes after the end of the body
         /\ r.fault \in {"none", "size", "crlf"}

VARIABLES pc,        \* where request() is
          response,  \* what this server answers
          sent,      \* units of it on the wire
          taken,     \* units of it read
          conn,      \* the server's end: "open", "eof" or "reset"
          polling,   \* sync_recv has left recv and waits in poll
          stash,     \* header_raw, then the stash of the body reader
          code,      \* result.code
          length,    \* content_length of the parsed header
          chunk,     \* chunk_size
          body       \* result.body

server == <<response, sent, conn>>
parsed == <<code, length, chunk>>
vars == <<pc, server, taken, polling, stash, parsed, body>>

Kinds == {"status", "length", "chunked", "digit", "garbled", "data", "trailer",
          "cr", "lf"}
Units == [kind : Kinds, n : Nat]

Unit(k, n) == [kind |-> k, n |-> n]
Data(after, count) == [j \in 1..count |-> Unit("data", after + j)]

Total(sizes) == FoldLeft(LAMBDA a, b : a + b, 0, sizes)

Line(text) == text \o <<Unit("cr", 0), Unit("lf", 0)>>

HeaderLines(r) ==
    Line(<<Unit("status", 200)>>)
      \o (CASE r.framing = "length"  -> Line(<<Unit("length", r.body[1])>>)
            [] r.framing = "chunked" -> Line(<<Unit("chunked", 0)>>)
            [] r.framing = "none"    -> <<>>)
      \o Line(<<>>)

SizeText(r, i) ==
    <<Unit("digit", r.body[i] \div 16),
      Unit(IF r.fault = "size" THEN "garbled" ELSE "digit", r.body[i] % 16)>>

\* The i-th chunk; a faulty server sends other bytes for its CRLF or garbles its size.
Chunk(r, i) ==
    Line(SizeText(r, i))
      \o Data(Total(SubSeq(r.body, 1, i - 1)), r.body[i])
      \o (IF r.fault = "crlf" THEN Data(0, 2) ELSE Line(<<>>))

BodyUnits(r) ==
    IF r.framing = "chunked"
      THEN FlattenSeq([i \in 1..Len(r.body) |-> Chunk(r, i)])
             \o Line(<<Unit("digit", 0)>>)
             \o FlattenSeq([j \in 1..r.trailers |-> Line(<<Unit("trailer", j)>>)])
             \o Line(<<>>)
      ELSE Data(0, r.body[1])

Stream(r) == HeaderLines(r) \o BodyUnits(r) \o Data(Total(r.body), r.extra)
Payload(r) == [j \in 1..Total(r.body) |-> j]

Init ==
    /\ pc = "connect"
    /\ response \in Responses
    /\ sent = 0
    /\ taken = 0
    /\ conn = "open"
    /\ polling = FALSE
    /\ stash = <<>>
    /\ code = -1
    /\ length = 0
    /\ chunk = 0
    /\ body = <<>>

-----------------------------------------------------------------------------
(* The server and the network.                                              *)

ServerSends ==
    /\ pc # "connect"
    /\ conn = "open"
    /\ sent < Len(Stream(response))
    /\ sent' = sent + 1
    /\ UNCHANGED <<pc, response, conn, taken, polling, stash, parsed, body>>

ServerCloses ==
    /\ pc # "connect"
    /\ conn = "open"
    /\ conn' \in {"eof", "reset"}
    /\ UNCHANGED <<pc, response, sent, taken, polling, stash, parsed, body>>

-----------------------------------------------------------------------------
(* Reading from the socket.                                                 *)

Readable == taken < sent /\ conn # "reset"
Ended == conn # "open" /\ ~Readable

\* Mutant: a lone \r, the end of what has arrived, is taken for the end of a line.
LineEnds_LoneCr(s) == {i \in 1..Len(s) : s[i].kind = "cr"}

\* Where find("\r\n") stops.
LineEnds(s) == {i \in 1..Len(s) - 1 : s[i].kind = "cr" /\ s[i + 1].kind = "lf"}
HasLine == LineEnds(stash) # {}

\* The stages in which request() is inside read_some.
MustRead ==
    \/ pc = "header"
    \/ pc = "counted" /\ Len(body) < length
    \/ pc = "to_eof"
    \/ pc \in {"size", "trailer"} /\ ~HasLine
    \/ pc = "data" /\ Len(stash) < chunk + 2

\* One read_some returns n, any number of the units that have arrived.
Received(n) ==
    /\ Readable
    /\ taken' = taken + n
    /\ polling' = FALSE

Arrived(n) == SubSeq(Stream(response), taken + 1, taken + n)

\* SO_RCVTIMEO ends recv with EAGAIN, and sync_recv goes on to poll the socket
\* with no deadline.
RecvTimesOut ==
    /\ MustRead
    /\ ReadTimeout
    /\ conn = "open" /\ ~Readable
    /\ polling' = TRUE
    /\ UNCHANGED <<pc, server, taken, stash, parsed, body>>

-----------------------------------------------------------------------------
(* request: connecting and the header.                                      *)

\* Resolving, connecting, the TLS handshake and writing the request; any of them
\* may throw, which leaves the result at code -1.
Connect ==
    /\ pc = "connect"
    /\ pc' \in {"header", "done"}
    /\ UNCHANGED <<server, taken, polling, stash, parsed, body>>

\* Where find("\r\n\r\n") stops.
HeaderEnds(s) == {i \in LineEnds(s) : i + 2 \in LineEnds(s)}

read_response_header ==
    /\ pc = "header"
    /\ \E n \in 1..sent - taken :
         /\ Received(n)
         /\ stash' = stash \o Arrived(n)
    /\ pc' = IF HeaderEnds(stash') # {} THEN "parse" ELSE "header"
    /\ UNCHANGED <<server, parsed, body>>

\* End of stream or an error: whatever has been read is parsed.
HeaderCut ==
    /\ pc = "header"
    /\ Ended
    /\ pc' = "parse"
    /\ UNCHANGED <<server, taken, polling, stash, parsed, body>>

FirstOf(s, count) == SubSeq(s, 1, IF count < Len(s) THEN count ELSE Len(s))

\* The header as far as it was read, and what came after its empty line.
HeaderPart == IF HeaderEnds(stash) # {}
                THEN FirstOf(stash, Min(HeaderEnds(stash)) + 3)
                ELSE stash
Leftover == SubSeq(stash, Len(HeaderPart) + 1, Len(stash))

\* A header counts once its \r\n has been read, the status line before that.
Announced(k) ==
    LET header == HeaderPart
        ends == LineEnds(header)
        Counts(i) == k = "status" \/ i + 1 \in ends
    IN  {header[i].n : i \in {j \in 1..Len(header) : header[j].kind = k /\ Counts(j)}}

Numbers(units) == [i \in 1..Len(units) |-> units[i].n]

\* Mutant: chunks are looked for only when no length is given, and never found.
Framing_NoChunks(announced) == IF announced > 0 THEN "counted" ELSE "to_eof"

\* Which reader read_response_body chooses.
Framing(announced) ==
    CASE Announced("chunked") # {} -> "size"
      [] Announced("chunked") = {} /\ announced > 0 -> "counted"
      [] OTHER -> "to_eof"

parse_response_header ==
    /\ pc = "parse"
    /\ LET announced == Max(Announced("length") \cup {0})
           reader == Framing(announced)
       IN  /\ code' = Max(Announced("status") \cup {0})
           /\ length' = announced
           /\ pc' = reader
           /\ stash' = IF reader = "size" THEN Leftover ELSE <<>>
           /\ body' = CASE reader = "size"    -> <<>>
                        [] reader = "counted" -> FirstOf(Numbers(Leftover), announced)
                        [] reader = "to_eof"  -> Numbers(Leftover)
    /\ UNCHANGED <<server, taken, polling, chunk>>

-----------------------------------------------------------------------------
(* read_response_body: a length, or the end of the stream.                  *)

Needed(units) == FirstOf(Numbers(units), length - Len(body))

ReadCounted ==
    /\ pc = "counted"
    /\ MustRead
    /\ \E n \in 1..sent - taken :
         /\ Received(n)
         /\ body' = body \o Needed(Arrived(n))
    /\ UNCHANGED <<pc, server, stash, parsed>>

\* Mutant: the reader goes on when the stream ends before the length is reached.
CountedDone_NotAtEof ==
    /\ pc = "counted"
    /\ ~MustRead
    /\ pc' = "done"
    /\ UNCHANGED <<server, taken, polling, stash, parsed, body>>

CountedDone ==
    /\ pc = "counted"
    /\ ~MustRead \/ Ended
    /\ pc' = "done"
    /\ UNCHANGED <<server, taken, polling, stash, parsed, body>>

ReadToEof ==
    /\ pc = "to_eof"
    /\ \E n \in 1..sent - taken :
         /\ Received(n)
         /\ body' = body \o Numbers(Arrived(n))
    /\ UNCHANGED <<pc, server, stash, parsed>>

EofDone ==
    /\ pc = "to_eof"
    /\ Ended
    /\ pc' = "done"
    /\ UNCHANGED <<server, taken, polling, stash, parsed, body>>

-----------------------------------------------------------------------------
(* read_response_body_chunked.                                              *)

read_more ==
    /\ pc \in {"size", "data", "trailer"}
    /\ MustRead
    /\ \E n \in 1..sent - taken :
         /\ Received(n)
         /\ stash' = stash \o Arrived(n)
    /\ UNCHANGED <<pc, server, parsed, body>>

\* The stream ends before the size line or the whole chunk is there.
ChunksCut ==
    /\ pc \in {"size", "data"}
    /\ MustRead
    /\ Ended
    /\ pc' = "done"
    /\ UNCHANGED <<server, taken, polling, stash, parsed, body>>

\* try_get_line: the first line of the stash, and what it leaves there.
FirstEnd == Min(LineEnds(stash))
FirstLine == SubSeq(stash, 1, FirstEnd - 1)
AfterLine == SubSeq(stash, FirstEnd + 2, Len(stash))

\* parse_hex_size_line
WellFormed(line) == line # <<>> /\ \A i \in 1..Len(line) : line[i].kind = "digit"
SizeOf(line) == 16 * (IF Len(line) = 1 THEN 0 ELSE line[1].n) + line[Len(line)].n

SizeLine ==
    /\ pc = "size"
    /\ HasLine
    /\ IF ~WellFormed(FirstLine)
         THEN pc' = "done" /\ UNCHANGED chunk
         ELSE /\ chunk' = SizeOf(FirstLine)
              /\ pc' = IF chunk' = 0 THEN "trailer" ELSE "data"
    /\ stash' = AfterLine
    /\ UNCHANGED <<server, taken, polling, code, length, body>>

AfterChunk == SubSeq(stash, chunk + 3, Len(stash))

ChunkData ==
    /\ pc = "data"
    /\ ~MustRead
    /\ body' = body \o Numbers(SubSeq(stash, 1, chunk))
    /\ stash' = AfterChunk
    /\ pc' = IF chunk + 1 \in LineEnds(stash) THEN "size" ELSE "done"
    /\ UNCHANGED <<server, taken, polling, parsed>>

TrailerLine ==
    /\ pc = "trailer"
    /\ HasLine
    /\ stash' = AfterLine
    /\ pc' = IF FirstLine = <<>> THEN "done" ELSE "trailer"
    /\ UNCHANGED <<server, taken, polling, parsed, body>>

\* read_more fails: only the inner loop is left, line is not empty, and the
\* outer loop starts over.
TrailerCut ==
    /\ pc = "trailer"
    /\ MustRead
    /\ Ended
    /\ UNCHANGED vars

-----------------------------------------------------------------------------

ClientStep ==
    \/ Connect
    \/ read_response_header \/ HeaderCut \/ parse_response_header
    \/ ReadCounted \/ CountedDone \/ ReadToEof \/ EofDone
    \/ read_more \/ ChunksCut \/ SizeLine \/ ChunkData \/ TrailerLine \/ TrailerCut
    \/ RecvTimesOut

Done == pc = "done" /\ UNCHANGED vars

Next == ServerSends \/ ServerCloses \/ ClientStep \/ Done

Spec == Init /\ [][Next]_vars

\* The calling thread runs on; nothing is assumed of the server.
FairSpec == Spec /\ WF_vars(ClientStep)

-----------------------------------------------------------------------------
(* Properties.                                                              *)

Stages == {"connect", "header", "parse", "counted", "to_eof", "size", "data",
           "trailer", "done"}

\* The types of request()'s locals and of the result, and what the stash is: the
\* end of what has been read, with nothing in it that was consumed before.
TypeOK ==
    /\ pc \in Stages
    /\ response \in Responses
    /\ sent \in 0..Len(Stream(response))
    /\ taken \in 0..sent
    /\ conn \in {"open", "eof", "reset"}
    /\ polling \in BOOLEAN
    /\ stash \in Seq(Units)
    /\ code \in {-1, 0, 200}
    /\ length \in Nat
    /\ chunk \in Nat
    /\ body \in Seq(Nat)
    /\ Len(stash) <= taken
    /\ stash = SubSeq(Stream(response), taken - Len(stash) + 1, taken)

\* Answers whose end is that of the stream: for the code a length of 0 is none.
ReadsToEof(r) ==
    r.framing = "none" \/ (r.framing = "length" /\ Total(r.body) = 0)

\* However the stream is cut into reads, inside a size line, inside the end of the
\* header or between \r and \n, the body holds bytes of the payload, in order and
\* from the start: no size line or CRLF gets into it, and no surplus, unless the
\* code takes all up to the end of the stream for the body.
BodyIsPrefix ==
    response.fault = "none" /\ (ReadsToEof(response) => response.extra = 0)
      => IsPrefix(body, Payload(response))

\* A response that was delivered whole is returned whole.
CompleteWhenDelivered ==
    /\ pc = "done"
    /\ code # -1
    /\ conn # "reset"
    /\ sent = Len(Stream(response))
    /\ response.fault = "none"
    => Payload(response) = FirstOf(body, Total(response.body))

\* The body that is returned is the payload of the response: nothing of the framing
\* gets into it, and it is whole if all of it was delivered.
BodyIsPayload == TypeOK /\ BodyIsPrefix /\ CompleteWhenDelivered

\* The announced framing has arrived to its end.
FrameSent ==
    /\ response.fault = "none"
    /\ response.framing # "none"
    /\ sent >= Len(HeaderLines(response)) + Len(BodyUnits(response))

\* A response with a length above 0 or with chunks is returned once it has
\* arrived, also when the server keeps the connection open afterwards.
ReturnsWhenComplete ==
    FrameSent /\ conn = "open" /\ Total(response.body) > 0 ~> pc = "done" \/ conn # "open"

\* A server that goes away ends the request, unless it does so among the trailers.
ReturnsOnceClosed == conn # "open" ~> pc \in {"done", "trailer"}

\* Violated: the comment on the trailers says they are consumed and the reader
\* stops; when the stream ends before the empty line it never does.
TrailersEnd == pc = "trailer" /\ conn # "open" ~> pc = "done"

\* Violated: set_timeout_ms gives a read timeout, so a read from a silent server
\* should end; sync_recv turns it into a wait without a deadline.
ReadTimeoutEnds == MustRead /\ ReadTimeout ~> ~MustRead \/ Readable

=============================================================================
