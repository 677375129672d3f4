----------------------------- MODULE MCHttpClient -----------------------------
(* A server for HttpClient: one answer per framing, an empty one, chunks with *)
(* and without trailers, surplus bytes, and the two ways chunks go wrong.     *)
EXTENDS HttpClient

Answer(framing, sizes, trailers, extra, fault) ==
    [framing |-> framing, body |-> sizes, trailers |-> trailers, extra |-> extra,
     fault |-> fault]

MCResponses ==
    {Answer("length", <<2>>, 0, 1, "none"), Answer("length", <<0>>, 0, 0, "none"),
     Answer("none", <<2>>, 0, 0, "none"),
     Answer("chunked", <<2, 1>>, 1, 1, "none"),
     Answer("chunked", <<>>, 0, 0, "none"),
     Answer("chunked", <<1>>, 0, 0, "size"), Answer("chunked", <<1, 1>>, 0, 0, "crlf")}

=============================================================================
