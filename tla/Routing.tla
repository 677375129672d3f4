------------------------------- MODULE Routing -------------------------------
(***************************************************************************)
(* Which handlers answer a request: Server::add_endpoint and add_handler     *)
(* (src/http/Server.cpp), ServerApp's wrappers of them (ServerApp.h), and    *)
(* the look-up and the calls in SslSession::process_request                  *)
(* (ssl_session.cpp).                                                        *)
(*                                                                          *)
(* A guard is a secure handler: given to Server::add_endpoint, or set in the *)
(* RequestHandler that ServerApp::add_endpoint or ServerApp::add_handler      *)
(* wraps.  What the application's functions do is chosen when they are        *)
(* registered, which happens before the server runs: the tables have no lock. *)
(***************************************************************************)
EXTENDS Integers, Sequences

CONSTANTS Paths, Methods

Keys == Paths \X Methods
Levels == {"server", "app"}
Guards == {"absent", "passes", "notfound", "forbids", "throws"}
Deeds == {"answers", "needs", "throws"}

\* One call of add_endpoint or add_handler; id tells calls apart.
Registration ==
    [id : Nat, kind : {"endpoint"}, key : Keys, level : Levels, guard : Guards, does : Deeds]
Fallback ==
    [id : Nat, kind : {"fallback"}, method : Methods, guard : Guards, does : Deeds]

VARIABLES endpoints,  \* Server::_endpoints
          fallbacks,  \* Server::_handlers
          registered  \* history: the calls, in their order

routes == <<endpoints, fallbacks, registered>>

RoutingInit ==
    /\ endpoints = <<>>
    /\ fallbacks = <<>>
    /\ registered = <<>>

\* The table f with the entry k, if there is none yet.  Mutant: also if there is.
Emplaced_Assigns(f, k, r) == [x \in DOMAIN f \cup {k} |-> IF x = k THEN r ELSE f[x]]
Emplaced(f, k, r) ==
    [x \in DOMAIN f \cup {k} |-> IF x \in DOMAIN f THEN f[x] ELSE r]

\* Mutant: what is there stays.
Assigned_Emplaces(f, k, r) ==
    [x \in DOMAIN f \cup {k} |-> IF x \in DOMAIN f THEN f[x] ELSE r]

\* The table f with r for k, whatever was there.
Assigned(f, k, r) == [x \in DOMAIN f \cup {k} |-> IF x = k THEN r ELSE f[x]]

\* emplace leaves an endpoint that is there already.
add_endpoint(key, level, guard, does) ==
    LET r == [id |-> Len(registered) + 1, kind |-> "endpoint", key |-> key,
              level |-> level, guard |-> guard, does |-> does]
    IN  /\ endpoints' = Emplaced(endpoints, key, r)
        /\ registered' = Append(registered, r)
        /\ UNCHANGED fallbacks

\* operator[] replaces the handler of the method.  Server::add_handler takes no guard;
\* the RequestHandler given to ServerApp::add_handler may have one (set_sequire).
add_handler(method, guard, does) ==
    LET r == [id |-> Len(registered) + 1, kind |-> "fallback", method |-> method,
              guard |-> guard, does |-> does]
    IN  /\ fallbacks' = Assigned(fallbacks, method, r)
        /\ registered' = Append(registered, r)
        /\ UNCHANGED endpoints

-----------------------------------------------------------------------------
(* process_request.  A response has a code, a body, named by who made it, and *)
(* the functions whose headers it has.                                       *)

Answer(code, by, headers) == [code |-> code, by |-> by, headers |-> headers]
Response404 == Answer(404, "default", {})

\* A catch clause sets code and body; the headers stay.  Mutant: a new response.
Caught_Fresh(response, code) == Answer(code, "exception", {})
Caught(response, code) == Answer(code, "exception", response.headers)

\* What a guard returns.
Verdict(guard) ==
    Answer(CASE guard = "passes" -> 0 [] guard = "notfound" -> 404 [] guard = "forbids" -> 403,
           "guard", {"guard"})

\* The endpoint's own function: it may ask for a parameter that must be there.
\* An outcome is a response, or the code of the exception it threw.
Run(does, complete) ==
    CASE does = "answers" -> [thrown |-> 0, response |-> Answer(200, "handler", {"handler"})]
      [] does = "needs" /\ complete -> [thrown |-> 0, response |-> Answer(200, "handler", {"handler"})]
      [] does = "needs" /\ ~complete -> [thrown |-> 400, response |-> Response404]
      [] does = "throws" -> [thrown |-> 500, response |-> Response404]

\* The outcome of a call as the session sees it.
Settled(response, outcome) ==
    IF outcome.thrown = 0 THEN outcome.response ELSE Caught(response, outcome.thrown)

\* The session asks the guard of Server::add_endpoint, and goes on after 0 and 404.
LetsThrough(code) == code \in {0, 404}

\* What runs, in its order, and what is answered.
ByServer(r, complete) ==
    IF r.guard = "throws" THEN [ran |-> <<"guard">>, response |-> Caught(Response404, 500)]
    ELSE IF ~LetsThrough(Verdict(r.guard).code)
           THEN [ran |-> <<"guard">>, response |-> Verdict(r.guard)]
           ELSE [ran |-> <<"guard", "handler">>,
                 response |-> Settled(Verdict(r.guard), Run(r.does, complete))]

\* ServerApp's wrapper asks the guard of the handler, and goes on after 0 only.
ByApp(r, complete) ==
    IF r.guard = "throws" THEN [ran |-> <<"guard">>, response |-> Caught(Response404, 500)]
    ELSE IF Verdict(r.guard).code # 0
           THEN [ran |-> <<"guard">>, response |-> Verdict(r.guard)]
           ELSE [ran |-> <<"guard", "handler">>,
                 response |-> Settled(Response404, Run(r.does, complete))]

\* An endpoint without a guard, and the handler of a method: ServerApp's wrapper of
\* it calls handle and nothing else, whether a guard is set or not.
Unguarded(r, complete) ==
    [ran |-> <<"handler">>, response |-> Settled(Response404, Run(r.does, complete))]

NobodyRan == [ran |-> <<>>, response |-> Response404]

\* The endpoint of path and method, else the handler of the method, else 404.
Route(key) ==
    IF key \in DOMAIN endpoints THEN <<endpoints[key]>>
    ELSE IF key[2] \in DOMAIN fallbacks THEN <<fallbacks[key[2]]>> ELSE <<>>

\* complete: the request has the parameter that an endpoint may need.
process_request(key, complete) ==
    LET found == Route(key)
    IN  IF found = <<>> THEN NobodyRan
        ELSE LET r == found[1]
             IN  CASE r.kind = "fallback" \/ r.guard = "absent" -> Unguarded(r, complete)
                   [] r.kind = "endpoint" /\ r.guard # "absent" /\ r.level = "server" -> ByServer(r, complete)
                   [] r.kind = "endpoint" /\ r.guard # "absent" /\ r.level = "app" -> ByApp(r, complete)

=============================================================================
