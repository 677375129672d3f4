------------------------------ MODULE Exchange -------------------------------
(***************************************************************************)
(* A request from the code that builds it to the handlers that answer it:    *)
(* the library's client (Outgoing, http::request in http_common.cpp) against  *)
(* the library's server (Routing), over a connection of its own.             *)
(*                                                                          *)
(* The two are joined by the text of the request: what SslSession takes to    *)
(* be its header and its body (ssl_session.h) and what RequestIncoming reads  *)
(* in them (RequestIncoming.cpp).  How the bytes travel is left to HttpSession *)
(* and HttpClient.                                                           *)
(***************************************************************************)
EXTENDS Routing, FiniteSets, SequencesExt

CONSTANTS Names, Values,  \* parameters
          Data,           \* bodies the program sets
          Lengths,        \* Content-Lengths the program sets by itself
          Needed,         \* the form parameter an endpoint may need
          MaxRegistrations,  \* bound: calls of add_endpoint and add_handler
          MaxCalls,       \* bound: those and calls that change the request
          MaxSends        \* bound: how often the request is sent

ASSUME ExchangeAssumption ==
    /\ Needed \in Names
    /\ IsFiniteSet(Names)
    /\ Data \subseteq Seq(Values)
    /\ Lengths \subseteq Nat
    /\ {MaxRegistrations, MaxCalls, MaxSends} \subseteq Nat

VARIABLES method, headers, query, form, data,  \* the RequestOutgoing
          phase,    \* "setup", "idle", "sent", "answered" or "hung"
          message,  \* the last request's text
          seen,     \* the body and parameters the server took from it
          ran,      \* whose functions ran for it
          given,    \* what the server answered and http::request returned
          calls,    \* calls of the program
          sends,    \* how often it has sent the request
          bodies,   \* history: the lengths of the bodies it has sent
          own       \* history: the Content-Lengths it has set by itself

Object == INSTANCE Outgoing

object == <<method, headers, query, form, data>>
server == <<seen, ran, given>>
history == <<sends, bodies, own>>
vars == <<routes, object, phase, message, server, calls, history>>

Unseen == [body |-> <<>>, query |-> <<>>, form |-> <<>>]

Init ==
    /\ RoutingInit
    /\ Object!OutgoingInit
    /\ phase = "setup"
    /\ message = <<>>
    /\ seen = Unseen
    /\ ran = <<>>
    /\ given = Response404
    /\ calls = 0
    /\ sends = 0
    /\ bodies = {}
    /\ own = {}

Count == calls < MaxCalls /\ calls' = calls + 1

-----------------------------------------------------------------------------
(* The program registers its handlers, runs the server and builds requests.  *)

Register ==
    /\ phase = "setup"
    /\ Len(registered) < MaxRegistrations
    /\ Count
    /\ \/ \E key \in Keys, level \in Levels, guard \in Guards, does \in Deeds :
            add_endpoint(key, level, guard, does)
       \/ \E m \in Methods, guard \in Guards, does \in Deeds : add_handler(m, guard, does)
    /\ UNCHANGED <<object, phase, message, server, history>>

RunServer ==
    /\ phase = "setup"
    /\ phase' = "idle"
    /\ UNCHANGED <<routes, object, message, server, calls, history>>

\* A request may be changed between two sends.
Build ==
    /\ phase \in {"idle", "answered"}
    /\ sends < MaxSends
    /\ Count
    /\ \/ /\ \/ \E m \in Methods : Object!set_method(m)
             \/ \E n \in Names, v \in Values : Object!set_params(n, v) \/ Object!set_post_params(n, v)
             \/ \E d \in Data : Object!set_data(d)
          /\ UNCHANGED own
       \/ \E h \in {Object!ContentLength, Object!OtherLength}, n \in Lengths :
             Object!add_header(h, n) /\ own' = own \cup {n}
    /\ UNCHANGED <<routes, phase, message, server, sends, bodies>>

\* http::request: the path is that of the url.
Send(path) ==
    /\ phase \in {"idle", "answered"}
    /\ sends < MaxSends
    /\ \E body \in Object!Bodies :
         /\ Object!get_http_body(path, body, message')
         /\ bodies' = bodies \cup {Len(body)}
    /\ sends' = sends + 1
    /\ phase' = "sent"
    /\ seen' = Unseen
    /\ ran' = <<>>
    /\ UNCHANGED <<routes, given, calls, own>>

-----------------------------------------------------------------------------
(* The server.                                                              *)

\* The session compares names without case, and the last line counts; lines are
\* in the order of an unordered_map.
Declared ==
    LET lines == {h \in DOMAIN message.headers : h \in {Object!ContentLength, Object!OtherLength}}
    IN  IF lines = {} THEN {0} ELSE {message.headers[h] : h \in lines}

Taken(n) == SubSeq(message.body, 1, n)

IsForm(body) == \A i \in DOMAIN body : body[i] \in Names \X Values

\* parse_post_data_params: another body has nothing that is asked for.
FormOf(body) ==
    IF IsForm(body)
      THEN [n \in {pair[1] : pair \in ToSet(body)} |->
              (CHOOSE pair \in ToSet(body) : pair[1] = n)[2]]
      ELSE <<>>

\* The header declares as much as there is, or less: the request is taken, handled
\* and answered.
Serve ==
    /\ phase = "sent"
    /\ \E n \in Declared :
         /\ n <= Len(message.body)
         /\ LET taken == Taken(n)
                done == process_request(<<message.path, message.method>>, Needed \in DOMAIN FormOf(taken))
            IN  /\ seen' = [body |-> taken, query |-> message.query, form |-> FormOf(taken)]
                /\ ran' = done.ran
                /\ given' = done.response
    /\ phase' = "answered"
    /\ UNCHANGED <<routes, object, message, calls, history>>

\* It declares more: the session reads on and the client waits for its answer.
Hang ==
    /\ phase = "sent"
    /\ \E n \in Declared : n > Len(message.body)
    /\ phase' = "hung"
    /\ UNCHANGED <<routes, object, message, server, calls, history>>

Done == (phase = "hung" \/ sends = MaxSends) /\ UNCHANGED vars

Next ==
    \/ Register \/ RunServer \/ Build \/ Serve \/ Hang \/ Done
    \/ \E path \in Paths : Send(path)

Spec == Init /\ [][Next]_vars

-----------------------------------------------------------------------------
(* Properties.                                                              *)

FieldTables(S) == UNION {[D -> S] : D \in SUBSET Names}
Codes == {200, 400, 403, 404, 500}

\* The types of the object, of the tables and of what the server does.  A code is
\* one the application may answer: 0, which only lets a request through, is not.
TypeOK ==
    /\ DOMAIN endpoints \subseteq Keys
    /\ \A k \in DOMAIN endpoints : endpoints[k] \in Registration
    /\ DOMAIN fallbacks \subseteq Methods
    /\ \A m \in DOMAIN fallbacks : fallbacks[m] \in Fallback
    /\ registered \in Seq(Registration \cup Fallback)
    /\ method \in Methods
    /\ query \in FieldTables(Values)
    /\ form \in FieldTables(Values)
    /\ data \in Data \cup {<<>>}
    /\ phase \in {"setup", "idle", "sent", "answered", "hung"}
    /\ ran \in {<<>>, <<"guard">>, <<"handler">>, <<"guard", "handler">>}
    /\ given.code \in Codes
    /\ given.by \in {"default", "guard", "handler", "exception"}
    /\ given.headers \subseteq {"guard", "handler"}
    /\ calls \in 0..MaxCalls
    /\ sends \in 0..MaxSends
    /\ bodies \subseteq Nat
    /\ own \subseteq Lengths

EndpointCalls(k) == {i \in DOMAIN registered : registered[i].kind = "endpoint" /\ registered[i].key = k}
FallbackCalls(m) == {i \in DOMAIN registered : registered[i].kind = "fallback" /\ registered[i].method = m}

\* Of several registrations the first endpoint of a path and method counts, with
\* its guard, and the last handler of a method: a guard that is added by
\* registering an endpoint once more protects nothing.
FirstEndpointLastHandler ==
    /\ \A k \in Keys :
         /\ k \in DOMAIN endpoints <=> EndpointCalls(k) # {}
         /\ \A i \in EndpointCalls(k) :
              (\A j \in EndpointCalls(k) : i <= j) => endpoints[k] = registered[i]
    /\ \A m \in Methods :
         /\ m \in DOMAIN fallbacks <=> FallbackCalls(m) # {}
         /\ \A i \in FallbackCalls(m) :
              (\A j \in FallbackCalls(m) : j <= i) => fallbacks[m] = registered[i]

Key == <<message.path, message.method>>
Served == phase = "answered"

\* The first registration for the key of the request, if there is any.
Decides(r) ==
    \E i \in EndpointCalls(Key) : r = registered[i] /\ \A j \in EndpointCalls(Key) : i <= j

\* The last handler of the method, which the request comes to without an endpoint.
StepsIn(r) ==
    /\ EndpointCalls(Key) = {}
    /\ \E i \in FallbackCalls(message.method) :
         r = registered[i] /\ \A j \in FallbackCalls(message.method) : j <= i

\* What the guard of an endpoint refuses does not run, on whichever level the guard
\* was given, and no handler of the method steps in for it.
EndpointsAreGuarded ==
    Served => \A r \in ToSet(registered) :
      Decides(r) /\ (r.guard \in {"forbids", "throws"} \/ (r.guard = "notfound" /\ r.level = "app"))
        => ran = <<"guard">> /\ given.by # "handler"

\* A guard set in a handler that ServerApp::add_handler registered is never asked:
\* the handler runs for every request that comes to it, also for one its guard would
\* refuse, and nothing of the guard is in the answer.
HandlersAreNotGuarded ==
    Served => \A r \in ToSet(registered) :
      StepsIn(r) => ran = <<"handler">> /\ given.by # "guard" /\ "guard" \notin given.headers

\* Where a guard protects what it is set for, and where it does not: what it refuses
\* does not run if it is the guard of an endpoint, and does if it is that of the
\* handler of a method.
OnlyEndpointsAreGuarded == EndpointsAreGuarded /\ HandlersAreNotGuarded

\* A guard's 404 reaches the client from ServerApp's endpoints only; one given to
\* Server::add_endpoint says 404 and lets the request through.
OnlyRefusalsAreAnswered ==
    Served /\ given.by = "guard" =>
      given.code = 403 \/ \A r \in ToSet(registered) : Decides(r) => r.level = "app"

\* The answer to an exception of an endpoint has the headers of the guard that let
\* the request through, but only of a guard given to Server::add_endpoint.
ErrorsKeepTheGuardsHeaders ==
    Served /\ given.by = "exception" /\ ran = <<"guard", "handler">> =>
      \A r \in ToSet(registered) : Decides(r) => (given.headers = {"guard"} <=> r.level = "server")

\* What the client is told of a guard: its refusals, and in errors its headers.
GuardsAreHeard == TypeOK /\ OnlyRefusalsAreAnswered /\ ErrorsKeepTheGuardsHeaders

\* A request that is built and sent for the first time without a length of its
\* own arrives whole: the handlers see the parameters and the body it has.
FirstSendArrives ==
    [][phase = "sent" /\ phase' # "sent" /\ sends = 1 /\ own = {} =>
         /\ phase' = "answered"
         /\ seen'.query = query
         /\ IF DOMAIN form = {} THEN seen'.body = data ELSE seen'.form = form]_vars

\* Whenever the length that is declared is not that of the body, it is one the
\* program has set or that of a body the object was sent with before: sending an
\* object again after a change is what cuts a request short or hangs it.
WrongLengthHasACause ==
    phase \in {"sent", "hung"} => Declared \subseteq own \cup bodies

=============================================================================
