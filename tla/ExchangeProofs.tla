---------------------------- MODULE ExchangeProofs ----------------------------
(***************************************************************************)
(* Proofs about Exchange for any paths, methods, parameters and bodies and   *)
(* any number of registrations, calls and sends: which registration answers  *)
(* a request, which guards are asked, and that the first send of a request   *)
(* arrives whole.                                                           *)
(***************************************************************************)
EXTENDS Exchange, FiniteSetTheorems, SequenceTheorems, TLAPS

-----------------------------------------------------------------------------
(* The tables.                                                              *)

Tables ==
    /\ DOMAIN endpoints \subseteq Keys
    /\ \A k \in DOMAIN endpoints : endpoints[k] \in Registration
    /\ DOMAIN fallbacks \subseteq Methods
    /\ \A m \in DOMAIN fallbacks : fallbacks[m] \in Fallback
    /\ registered \in Seq(Registration \cup Fallback)

\* An endpoint goes into its table with the first registration of its key.
LEMMA EndpointStep ==
    ASSUME Tables, FirstEndpointLastHandler,
           NEW key \in Keys, NEW level \in Levels, NEW guard \in Guards, NEW does \in Deeds,
           add_endpoint(key, level, guard, does)
    PROVE  Tables' /\ FirstEndpointLastHandler'
<1> DEFINE n == Len(registered) + 1
           r == [id |-> n, kind |-> "endpoint", key |-> key,
                 level |-> level, guard |-> guard, does |-> does]
<1>1. n \in Nat /\ registered \in Seq(Registration \cup Fallback)
  BY DEF Tables
<1>2. r \in Registration /\ r.kind = "endpoint" /\ r.key = key
  BY <1>1 DEF Registration
<1>3. /\ endpoints' = Emplaced(endpoints, key, r)
      /\ registered' = Append(registered, r)
      /\ fallbacks' = fallbacks
  BY DEF add_endpoint
<1> HIDE DEF r
<1>4. /\ registered' \in Seq(Registration \cup Fallback)
      /\ DOMAIN registered' = DOMAIN registered \cup {n}
      /\ \A i \in DOMAIN registered : registered'[i] = registered[i] /\ i < n
      /\ registered'[n] = r
      /\ n \notin DOMAIN registered
      /\ \A i \in DOMAIN registered : i \in Int
  BY <1>1, <1>2, <1>3
<1> HIDE DEF n
<1>5. /\ DOMAIN endpoints' = DOMAIN endpoints \cup {key}
      /\ \A k \in DOMAIN endpoints : endpoints'[k] = endpoints[k]
      /\ key \notin DOMAIN endpoints => endpoints'[key] = r
  BY <1>3 DEF Emplaced
<1>6. Tables'
  BY <1>2, <1>3, <1>4, <1>5 DEF Tables
<1>7. ASSUME NEW k \in Keys, k # key
      PROVE  EndpointCalls(k)' = EndpointCalls(k)
  BY <1>2, <1>4, <1>7 DEF EndpointCalls
<1>8. EndpointCalls(key)' = EndpointCalls(key) \cup {n}
  BY <1>2, <1>4 DEF EndpointCalls
<1>9. ASSUME NEW m \in Methods
      PROVE  FallbackCalls(m)' = FallbackCalls(m)
  BY <1>2, <1>4 DEF FallbackCalls
<1>10. \A k \in Keys : EndpointCalls(k) \subseteq DOMAIN registered
  BY DEF EndpointCalls
<1>11. \A m \in Methods : FallbackCalls(m) \subseteq DOMAIN registered
  BY DEF FallbackCalls
<1>12. ASSUME NEW k \in Keys
       PROVE  /\ k \in DOMAIN endpoints' <=> EndpointCalls(k)' # {}
              /\ \A i \in EndpointCalls(k)' :
                   (\A j \in EndpointCalls(k)' : i <= j) => endpoints'[k] = registered'[i]
  <2>1. CASE k # key
    BY <2>1, <1>4, <1>5, <1>7, <1>10 DEF FirstEndpointLastHandler
  <2>2. CASE k = key /\ key \in DOMAIN endpoints
    <3>1. PICK j \in EndpointCalls(key) : TRUE
      BY <2>2 DEF FirstEndpointLastHandler
    <3>2. j < n /\ j \in Int /\ n \in Int
      BY <3>1, <1>1, <1>4, <1>10 DEF n
    <3> QED
      BY <2>2, <3>1, <3>2, <1>4, <1>5, <1>8, <1>10 DEF FirstEndpointLastHandler
  <2>3. CASE k = key /\ key \notin DOMAIN endpoints
    <3>1. EndpointCalls(key) = {}
      BY <2>3 DEF FirstEndpointLastHandler
    <3> QED
      BY <2>3, <3>1, <1>4, <1>5, <1>8
  <2> QED
    BY <2>1, <2>2, <2>3
<1>13. ASSUME NEW m \in Methods
       PROVE  /\ m \in DOMAIN fallbacks' <=> FallbackCalls(m)' # {}
              /\ \A i \in FallbackCalls(m)' :
                   (\A j \in FallbackCalls(m)' : j <= i) => fallbacks'[m] = registered'[i]
  BY <1>3, <1>4, <1>9, <1>11 DEF FirstEndpointLastHandler
<1> QED
  BY <1>6, <1>12, <1>13 DEF FirstEndpointLastHandler

\* A handler of a method replaces the one that was there.
LEMMA HandlerStep ==
    ASSUME Tables, FirstEndpointLastHandler,
           NEW m \in Methods, NEW guard \in Guards, NEW does \in Deeds,
           add_handler(m, guard, does)
    PROVE  Tables' /\ FirstEndpointLastHandler'
<1> DEFINE n == Len(registered) + 1
           r == [id |-> n, kind |-> "fallback", method |-> m, guard |-> guard, does |-> does]
<1>1. n \in Nat /\ registered \in Seq(Registration \cup Fallback)
  BY DEF Tables
<1>2. r \in Fallback /\ r.kind = "fallback" /\ r.method = m
  BY <1>1 DEF Fallback
<1>3. /\ fallbacks' = Assigned(fallbacks, m, r)
      /\ registered' = Append(registered, r)
      /\ endpoints' = endpoints
  BY DEF add_handler
<1> HIDE DEF r
<1>4. /\ registered' \in Seq(Registration \cup Fallback)
      /\ DOMAIN registered' = DOMAIN registered \cup {n}
      /\ \A i \in DOMAIN registered : registered'[i] = registered[i] /\ i < n
      /\ registered'[n] = r
      /\ n \notin DOMAIN registered
      /\ n \in Int
      /\ \A i \in DOMAIN registered : i \in Int
  BY <1>1, <1>2, <1>3
<1> HIDE DEF n
<1>5. /\ DOMAIN fallbacks' = DOMAIN fallbacks \cup {m}
      /\ \A x \in DOMAIN fallbacks : x # m => fallbacks'[x] = fallbacks[x]
      /\ fallbacks'[m] = r
  BY <1>3 DEF Assigned
<1>6. Tables'
  BY <1>2, <1>3, <1>4, <1>5 DEF Tables
<1>7. ASSUME NEW x \in Methods, x # m
      PROVE  FallbackCalls(x)' = FallbackCalls(x)
  BY <1>2, <1>4, <1>7 DEF FallbackCalls
<1>8. FallbackCalls(m)' = FallbackCalls(m) \cup {n}
  BY <1>2, <1>4 DEF FallbackCalls
<1>9. ASSUME NEW k \in Keys
      PROVE  EndpointCalls(k)' = EndpointCalls(k)
  BY <1>2, <1>4 DEF EndpointCalls
<1>10. \A k \in Keys : EndpointCalls(k) \subseteq DOMAIN registered
  BY DEF EndpointCalls
<1>11. \A x \in Methods : FallbackCalls(x) \subseteq DOMAIN registered
  BY DEF FallbackCalls
<1>12. ASSUME NEW x \in Methods
       PROVE  /\ x \in DOMAIN fallbacks' <=> FallbackCalls(x)' # {}
              /\ \A i \in FallbackCalls(x)' :
                   (\A j \in FallbackCalls(x)' : j <= i) => fallbacks'[x] = registered'[i]
  <2>1. CASE x # m
    BY <2>1, <1>4, <1>5, <1>7, <1>11 DEF FirstEndpointLastHandler
  <2>2. CASE x = m
    <3>1. ASSUME NEW i \in FallbackCalls(m), n <= i
          PROVE  FALSE
      BY <3>1, <1>4, <1>11
    <3> QED
      BY <2>2, <3>1, <1>4, <1>5, <1>8
  <2> QED
    BY <2>1, <2>2
<1>13. ASSUME NEW k \in Keys
       PROVE  /\ k \in DOMAIN endpoints' <=> EndpointCalls(k)' # {}
              /\ \A i \in EndpointCalls(k)' :
                   (\A j \in EndpointCalls(k)' : i <= j) => endpoints'[k] = registered'[i]
  BY <1>3, <1>4, <1>9, <1>10 DEF FirstEndpointLastHandler
<1> QED
  BY <1>6, <1>12, <1>13 DEF FirstEndpointLastHandler

-----------------------------------------------------------------------------
(* What a call answers.                                                     *)

Runs == {<<>>, <<"guard">>, <<"handler">>, <<"guard", "handler">>}

Answered(answer) ==
    /\ answer.ran \in Runs
    /\ answer.response.code \in Codes
    /\ answer.response.by \in {"default", "guard", "handler", "exception"}
    /\ answer.response.headers \subseteq {"guard", "handler"}

\* The endpoint's own function, after whatever let it run.
LEMMA RunOutcome ==
    ASSUME NEW does \in Deeds, NEW complete \in BOOLEAN,
           NEW before, before.headers \subseteq {"guard"}
    PROVE  LET s == Settled(before, Run(does, complete))
           IN  /\ s.code \in {200, 400, 500}
               /\ s.by \in {"handler", "exception"}
               /\ s.headers \subseteq {"guard", "handler"}
               /\ s.by = "exception" => s.headers = before.headers
               /\ s.by = "handler" => s.headers = {"handler"}
<1>1. CASE does = "answers" \/ (does = "needs" /\ complete)
  BY <1>1 DEF Settled, Run, Answer, Deeds
<1>2. CASE does = "needs" /\ ~complete
  BY <1>2 DEF Settled, Run, Answer, Caught, Deeds
<1>3. CASE does = "throws"
  BY <1>3 DEF Settled, Run, Answer, Caught, Deeds
<1> QED
  BY <1>1, <1>2, <1>3 DEF Deeds

\* An endpoint that was registered with a guard: what the guard refuses does not
\* run, its own 404 is answered for ServerApp's endpoints only, and an exception
\* keeps the headers of a guard given to Server::add_endpoint.
Guarded(r, answer) ==
    /\ r.guard \in {"forbids", "throws"} \/ (r.guard = "notfound" /\ r.level = "app")
         => answer.ran = <<"guard">> /\ answer.response.by # "handler"
    /\ answer.response.by = "guard" => answer.response.code = 403 \/ r.level = "app"
    /\ answer.response.by = "exception" /\ answer.ran = <<"guard", "handler">>
         => (answer.response.headers = {"guard"} <=> r.level = "server")

LEMMA ByServerOutcome ==
    ASSUME NEW r \in Registration, r.guard # "absent", r.level = "server",
           NEW complete \in BOOLEAN
    PROVE  Answered(ByServer(r, complete)) /\ Guarded(r, ByServer(r, complete))
<1> DEFINE s == Settled(Verdict(r.guard), Run(r.does, complete))
<1>0. r.does \in Deeds /\ r.guard \in {"passes", "notfound", "forbids", "throws"}
  BY DEF Registration, Guards
<1>1. CASE r.guard = "throws"
  BY <1>1 DEF ByServer, Caught, Response404, Answer, Answered, Guarded, Runs, Codes
<1>2. CASE r.guard = "forbids"
  BY <1>2 DEF ByServer, Verdict, LetsThrough, Answer, Answered, Guarded, Runs, Codes
<1>3. CASE r.guard \in {"passes", "notfound"}
  <2>1. ByServer(r, complete) = [ran |-> <<"guard", "handler">>, response |-> s]
    BY <1>3 DEF ByServer, Verdict, LetsThrough, Answer
  <2>2. Verdict(r.guard).headers = {"guard"}
    BY DEF Verdict, Answer
  <2>3. /\ s.code \in {200, 400, 500}
        /\ s.by \in {"handler", "exception"}
        /\ s.headers \subseteq {"guard", "handler"}
        /\ s.by = "exception" => s.headers = {"guard"}
    BY <1>0, <2>2, RunOutcome
  <2> HIDE DEF s
  <2> QED
    BY <1>3, <2>1, <2>3 DEF Answered, Guarded, Runs, Codes
<1> QED
  BY <1>0, <1>1, <1>2, <1>3

LEMMA ByAppOutcome ==
    ASSUME NEW r \in Registration, r.guard # "absent", r.level = "app",
           NEW complete \in BOOLEAN
    PROVE  Answered(ByApp(r, complete)) /\ Guarded(r, ByApp(r, complete))
<1> DEFINE s == Settled(Response404, Run(r.does, complete))
<1>0. r.does \in Deeds /\ r.guard \in {"passes", "notfound", "forbids", "throws"}
  BY DEF Registration, Guards
<1>1. CASE r.guard = "throws"
  BY <1>1 DEF ByApp, Caught, Response404, Answer, Answered, Guarded, Runs, Codes
<1>2. CASE r.guard \in {"forbids", "notfound"}
  BY <1>2 DEF ByApp, Verdict, Answer, Answered, Guarded, Runs, Codes
<1>3. CASE r.guard = "passes"
  <2>1. ByApp(r, complete) = [ran |-> <<"guard", "handler">>, response |-> s]
    BY <1>3 DEF ByApp, Verdict, Answer
  <2>2. Response404.headers = {}
    BY DEF Response404, Answer
  <2>3. /\ s.code \in {200, 400, 500}
        /\ s.by \in {"handler", "exception"}
        /\ s.headers \subseteq {"guard", "handler"}
        /\ s.by = "exception" => s.headers = {}
    BY <1>0, <2>2, RunOutcome
  <2> HIDE DEF s
  <2> QED
    BY <1>3, <2>1, <2>3 DEF Answered, Guarded, Runs, Codes
<1> QED
  BY <1>0, <1>1, <1>2, <1>3

\* Where no guard is asked only the handler runs.
LEMMA UnguardedOutcome ==
    ASSUME NEW r, r.does \in Deeds, NEW complete \in BOOLEAN
    PROVE  /\ Answered(Unguarded(r, complete))
           /\ Unguarded(r, complete).ran = <<"handler">>
           /\ Unguarded(r, complete).response.by # "guard"
           /\ "guard" \notin Unguarded(r, complete).response.headers
<1> DEFINE s == Settled(Response404, Run(r.does, complete))
<1>1. Response404.headers = {}
  BY DEF Response404, Answer
<1>2. /\ s.code \in {200, 400, 500}
      /\ s.by \in {"handler", "exception"}
      /\ s.headers \subseteq {"handler"}
  BY <1>1, RunOutcome
<1>3. Unguarded(r, complete) = [ran |-> <<"handler">>, response |-> s]
  BY DEF Unguarded
<1> HIDE DEF s
<1> QED
  BY <1>2, <1>3 DEF Answered, Runs, Codes

\* A request is answered by the endpoint of its key, with its guard; if there is
\* none, by the handler of its method, without one.
LEMMA RequestOutcome ==
    ASSUME Tables, NEW key \in Keys, NEW complete \in BOOLEAN
    PROVE  LET answer == process_request(key, complete)
           IN  /\ Answered(answer)
               /\ key \in DOMAIN endpoints => Guarded(endpoints[key], answer)
               /\ key \notin DOMAIN endpoints =>
                    /\ answer.response.by # "guard"
                    /\ answer.ran # <<"guard", "handler">>
               /\ key \notin DOMAIN endpoints /\ key[2] \in DOMAIN fallbacks =>
                    /\ answer.ran = <<"handler">>
                    /\ "guard" \notin answer.response.headers
<1> DEFINE answer == process_request(key, complete)
<1>1. CASE key \in DOMAIN endpoints
  <2> DEFINE r == endpoints[key]
  <2>1. r \in Registration /\ r.kind = "endpoint" /\ r.does \in Deeds /\ r.level \in Levels
    BY <1>1 DEF Tables, Registration
  <2>2. Route(key) = <<r>>
    BY <1>1 DEF Route
  <2>3. CASE r.guard = "absent"
    <3>1. answer = Unguarded(r, complete)
      BY <2>1, <2>2, <2>3 DEF process_request
    <3> QED
      BY <1>1, <2>1, <2>3, <3>1, UnguardedOutcome DEF Guarded
  <2>4. CASE r.guard # "absent" /\ r.level = "server"
    <3>1. answer = ByServer(r, complete)
      BY <2>1, <2>2, <2>4 DEF process_request
    <3> QED
      BY <1>1, <2>1, <2>4, <3>1, ByServerOutcome
  <2>5. CASE r.guard # "absent" /\ r.level = "app"
    <3>1. answer = ByApp(r, complete)
      BY <2>1, <2>2, <2>5 DEF process_request
    <3> QED
      BY <1>1, <2>1, <2>5, <3>1, ByAppOutcome
  <2> QED
    BY <2>1, <2>3, <2>4, <2>5 DEF Levels
<1>2. CASE key \notin DOMAIN endpoints /\ key[2] \in DOMAIN fallbacks
  <2> DEFINE r == fallbacks[key[2]]
  <2>1. r.kind = "fallback" /\ r.does \in Deeds
    BY <1>2 DEF Tables, Fallback
  <2>2. Route(key) = <<r>>
    BY <1>2 DEF Route
  <2>3. answer = Unguarded(r, complete)
    BY <2>1, <2>2 DEF process_request
  <2> QED
    BY <1>2, <2>1, <2>3, UnguardedOutcome
<1>3. CASE key \notin DOMAIN endpoints /\ key[2] \notin DOMAIN fallbacks
  <2>1. answer = NobodyRan
    BY <1>3 DEF process_request, Route
  <2> QED
    BY <1>3, <2>1 DEF NobodyRan, Response404, Answer, Answered, Runs, Codes
<1> QED
  BY <1>1, <1>2, <1>3

-----------------------------------------------------------------------------
(* The invariant.                                                           *)

\* The fields of the object keep their types.
Fields ==
    /\ method \in Methods
    /\ query \in FieldTables(Values)
    /\ form \in FieldTables(Values)
    /\ data \in Data \cup {<<>>}
    /\ phase \in {"setup", "idle", "sent", "answered", "hung"}
    /\ calls \in 0..MaxCalls
    /\ sends \in 0..MaxSends
    /\ bodies \subseteq Nat
    /\ own \subseteq Lengths

\* What is sent asks for a path by a method.
Asked ==
    phase \in {"sent", "answered", "hung"} => message.path \in Paths /\ message.method \in Methods

\* The server's answer is that of one call of process_request.
Given ==
    /\ Answered([ran |-> ran, response |-> given])
    /\ Served => \E complete \in BOOLEAN :
         LET answer == process_request(Key, complete)
         IN  ran = answer.ran /\ given = answer.response

LengthHeaders == {Object!ContentLength, Object!OtherLength}

\* Each length in the headers was set by the program or by a send.
HeaderLengths ==
    /\ \A h \in LengthHeaders \cap DOMAIN headers : headers[h] \in own \cup bodies
    /\ sends = 0 /\ own = {} => LengthHeaders \cap DOMAIN headers = {}

\* While it is under way the message is what the object says, and its length is
\* declared unless it is empty.
UnderWay ==
    phase \in {"sent", "hung"} =>
      /\ message.headers = headers
      /\ message.query = query
      /\ message.body \in Object!Bodies
      /\ Len(message.body) \in bodies
      /\ message.body # <<>> => Object!ContentLength \in DOMAIN headers
      /\ sends = 1 /\ own = {} => Declared = {Len(message.body)}

ExchangeInv ==
    Tables /\ FirstEndpointLastHandler /\ Fields /\ Asked /\ Given /\ HeaderLengths /\ UnderWay

\* What the invariant gives for the properties of the answer.
LEMMA DecidesOutcome ==
    ASSUME ExchangeInv, Served, NEW r \in ToSet(registered), Decides(r)
    PROVE  Guarded(r, [ran |-> ran, response |-> given])
<1>1. Key \in Keys
  BY DEF ExchangeInv, Asked, Served, Key, Keys
<1>2. PICK i \in EndpointCalls(Key) :
        r = registered[i] /\ \A j \in EndpointCalls(Key) : i <= j
  BY DEF Decides
<1>3. Key \in DOMAIN endpoints /\ endpoints[Key] = r
  BY <1>1, <1>2 DEF ExchangeInv, FirstEndpointLastHandler
<1>4. PICK complete \in BOOLEAN :
        /\ ran = process_request(Key, complete).ran
        /\ given = process_request(Key, complete).response
  BY DEF ExchangeInv, Given
<1>5. Guarded(r, process_request(Key, complete))
  BY <1>1, <1>3, RequestOutcome DEF ExchangeInv
<1> QED
  BY <1>4, <1>5 DEF Guarded

\* What it gives for a request that the handler of its method answers.
LEMMA StepsInOutcome ==
    ASSUME ExchangeInv, Served, NEW r \in ToSet(registered), StepsIn(r)
    PROVE  ran = <<"handler">> /\ given.by # "guard" /\ "guard" \notin given.headers
<1>1. Key \in Keys /\ message.method \in Methods /\ Key[2] = message.method
  BY DEF ExchangeInv, Asked, Served, Key, Keys
<1>2. EndpointCalls(Key) = {} /\ FallbackCalls(message.method) # {}
  BY DEF StepsIn
<1>3. Key \notin DOMAIN endpoints /\ Key[2] \in DOMAIN fallbacks
  BY <1>1, <1>2 DEF ExchangeInv, FirstEndpointLastHandler
<1> QED
  BY <1>1, <1>3, RequestOutcome DEF ExchangeInv, Given

\* The body of a message: the data, or all the pairs of the form.
LEMMA BodyIsSequence ==
    ASSUME ExchangeAssumption, Fields, NEW body \in Object!Bodies
    PROVE  /\ body \in Seq(Values) \cup Seq(Names \X Values)
           /\ Len(body) \in Nat
           /\ IF DOMAIN form = {} THEN body = data ELSE FormOf(body) = form
<1>1. CASE DOMAIN form = {}
  <2>1. body = data
    BY <1>1 DEF Object!Bodies
  <2>2. data \in Seq(Values)
    BY EmptySeq DEF Fields, ExchangeAssumption
  <2> QED
    BY <1>1, <2>1, <2>2
<1>2. CASE DOMAIN form # {}
  <2>1. PICK s \in Object!SetToSeqs(DOMAIN form) : body = [i \in DOMAIN s |-> <<s[i], form[s[i]]>>]
    BY <1>2 DEF Object!Bodies
  <2>2. PICK D \in SUBSET Names : form \in [D -> Values]
    BY DEF Fields, FieldTables
  <2>3. DOMAIN form = D /\ IsFiniteSet(D)
    BY <2>2, FS_Subset DEF ExchangeAssumption
  <2> DEFINE c == Cardinality(D)
  <2>4. c \in Nat
    BY <2>3, FS_CardinalityType
  <2>5. s \in [1..c -> D] /\ \A i, j \in 1..c : i # j => s[i] # s[j]
    <3>1. Object!Cardinality(D) = Cardinality(D)
      BY DEF Object!Cardinality, Cardinality
    <3> QED
      BY <2>1, <2>3, <3>1 DEF Object!SetToSeqs
  <2>6. s \in Injection(1..c, D)
    <3> DEFINE S == 1..c
    <3>1. s \in [S -> D] /\ \A i, j \in S : i # j => s[i] # s[j]
      BY <2>5
    <3> HIDE DEF S
    <3>2. IsInjective(s)
      BY <3>1 DEF IsInjective
    <3>3. s \in Injection(S, D)
      BY <3>1, <3>2 DEF Injection
    <3> QED
      BY <3>3 DEF S
  <2>7. Cardinality(1..c) = c
    BY <2>4, FS_Interval
  <2>8. s \in Surjection(1..c, D)
    BY <2>3, <2>6, <2>7, FS_Injection
  <2>9. \A n \in D : \E i \in 1..c : s[i] = n
    BY <2>8 DEF Surjection
  <2> HIDE DEF c
  <2>10. body = [i \in 1..c |-> <<s[i], form[s[i]]>>]
    BY <2>1, <2>5
  <2>11. body \in [1..c -> Names \X Values]
    BY <2>2, <2>5, <2>10
  <2>12. body \in Seq(Names \X Values) /\ Len(body) = c
    BY <2>4, <2>11, IsASeq, LenProperties
  <2>13. ToSet(body) = {<<n, form[n]>> : n \in D}
    BY <2>5, <2>9, <2>10 DEF ToSet
  <2>14. IsForm(body)
    BY <2>11 DEF IsForm
  <2>15. {pair[1] : pair \in ToSet(body)} = D
    <3>1. \A n \in D : <<n, form[n]>> \in ToSet(body)
      BY <2>13
    <3>2. \A n \in D : <<n, form[n]>>[1] = n
      OBVIOUS
    <3>3. D \subseteq {pair[1] : pair \in ToSet(body)}
      BY <3>1, <3>2
    <3>4. \A pair \in ToSet(body) : pair[1] \in D
      BY <2>13
    <3>5. {pair[1] : pair \in ToSet(body)} \subseteq D
      BY <3>4
    <3> QED
      BY <3>3, <3>5
  <2>16. ASSUME NEW n \in D
         PROVE  (CHOOSE pair \in ToSet(body) : pair[1] = n)[2] = form[n]
    <3>1. \A pair \in ToSet(body) : pair[1] = n => pair = <<n, form[n]>>
      BY <2>13
    <3>2. <<n, form[n]>> \in ToSet(body)
      BY <2>13
    <3> QED
      BY <3>1, <3>2
  <2>17. FormOf(body) = form
    BY <2>2, <2>14, <2>15, <2>16 DEF FormOf
  <2> QED
    BY <1>2, <2>4, <2>12, <2>17
<1> QED
  BY <1>1, <1>2

LEMMA InitInv ==
    ASSUME ExchangeAssumption, Init
    PROVE  ExchangeInv
<1> USE DEF Init
<1>1. Tables /\ FirstEndpointLastHandler
  BY EmptySeq DEF RoutingInit, Tables, FirstEndpointLastHandler, EndpointCalls, FallbackCalls
<1>2. <<>> \in FieldTables(Values)
  <2>1. <<>> \in [1..0 -> Values]
    BY EmptySeq, LenProperties
  <2>2. 1..0 = {}
    OBVIOUS
  <2> QED
    BY <2>1, <2>2 DEF FieldTables
<1>3. Fields
  BY <1>2 DEF Object!OutgoingInit, Fields, ExchangeAssumption
<1>4. Asked /\ UnderWay
  BY DEF Asked, UnderWay
<1>5. Given
  BY DEF Given, Served, Answered, Runs, Response404, Answer, Codes
<1>6. HeaderLengths
  BY DEF HeaderLengths, Object!OutgoingInit
<1> QED
  BY <1>1, <1>3, <1>4, <1>5, <1>6 DEF ExchangeInv

\* A step that leaves the tables alone keeps what is said of them.
LEMMA TablesKept ==
    ASSUME ExchangeInv, UNCHANGED routes
    PROVE  Tables' /\ FirstEndpointLastHandler'
BY DEF ExchangeInv, routes, Tables, FirstEndpointLastHandler, EndpointCalls, FallbackCalls

\* A step that leaves the answer and the tables alone keeps what is said of it.
LEMMA GivenKept ==
    ASSUME ExchangeInv, UNCHANGED <<routes, message, server>>, phase' = "answered" => Served
    PROVE  Given'
<1>1. \A complete : (process_request(Key, complete))' = process_request(Key, complete)
  BY DEF routes, Key, process_request, Route
<1>2. Given
  BY DEF ExchangeInv
<1> QED
  BY <1>1, <1>2 DEF routes, server, Given, Served, Answered

LEMMA RegisterStep ==
    ASSUME ExchangeAssumption, ExchangeInv, Register
    PROVE  ExchangeInv'
<1> USE DEF Register
<1>1. Tables' /\ FirstEndpointLastHandler'
  BY EndpointStep, HandlerStep DEF ExchangeInv
<1>2. Fields'
  BY DEF ExchangeInv, Fields, FieldTables, object, history, Count, ExchangeAssumption
<1>3. Asked' /\ UnderWay'
  BY DEF Asked, UnderWay
<1>4. Given'
  BY DEF ExchangeInv, Given, Served, server
<1>5. HeaderLengths'
  BY DEF ExchangeInv, HeaderLengths, LengthHeaders, object, history
<1> QED
  BY <1>1, <1>2, <1>3, <1>4, <1>5 DEF ExchangeInv

LEMMA RunServerStep ==
    ASSUME ExchangeInv, RunServer
    PROVE  ExchangeInv'
<1> USE DEF RunServer
<1>1. Tables' /\ FirstEndpointLastHandler' /\ Given'
  BY TablesKept, GivenKept
<1>2. Fields'
  BY DEF ExchangeInv, Fields, FieldTables, object, history
<1>3. Asked' /\ UnderWay'
  BY DEF Asked, UnderWay
<1>4. HeaderLengths'
  BY DEF ExchangeInv, HeaderLengths, LengthHeaders, object, history
<1> QED
  BY <1>1, <1>2, <1>3, <1>4 DEF ExchangeInv

\* A table of fields with one more entry.
LEMMA FieldAdded ==
    ASSUME NEW f \in FieldTables(Values), NEW n \in Names, NEW v \in Values
    PROVE  Object!Inserted(f, n, v) \in FieldTables(Values) /\ Object!Assigned(f, n, v) \in FieldTables(Values)
<1>1. PICK D \in SUBSET Names : f \in [D -> Values]
  BY DEF FieldTables
<1>2. /\ Object!Inserted(f, n, v) \in [D \cup {n} -> Values]
      /\ Object!Assigned(f, n, v) \in [D \cup {n} -> Values]
  BY <1>1 DEF Object!Inserted, Object!Assigned
<1> QED
  BY <1>1, <1>2 DEF FieldTables

LEMMA BuildStep ==
    ASSUME ExchangeAssumption, ExchangeInv, Build
    PROVE  ExchangeInv'
<1>1. /\ UNCHANGED <<routes, phase, message, server, sends, bodies>>
      /\ Count
      /\ phase \in {"idle", "answered"}
  BY DEF Build
<1>2. Tables' /\ FirstEndpointLastHandler' /\ Given'
  BY <1>1, TablesKept, GivenKept DEF Served
<1>3. Asked' /\ UnderWay'
  BY <1>1 DEF ExchangeInv, Asked, UnderWay
<1>4. calls' \in 0..MaxCalls
  BY <1>1 DEF Count, ExchangeInv, Fields, ExchangeAssumption
<1>5. ASSUME NEW m \in Methods, Object!set_method(m), UNCHANGED own
      PROVE  Fields' /\ HeaderLengths'
  BY <1>1, <1>4, <1>5 DEF Object!set_method, ExchangeInv, Fields, FieldTables, HeaderLengths, LengthHeaders
<1>6. ASSUME NEW d \in Data, Object!set_data(d), UNCHANGED own
      PROVE  Fields' /\ HeaderLengths'
  BY <1>1, <1>4, <1>6 DEF Object!set_data, ExchangeInv, Fields, FieldTables, HeaderLengths, LengthHeaders
<1>7. ASSUME NEW n \in Names, NEW v \in Values, Object!set_params(n, v), UNCHANGED own
      PROVE  Fields' /\ HeaderLengths'
  <2>1. query' \in FieldTables(Values)
    BY <1>7, FieldAdded DEF Object!set_params, ExchangeInv, Fields
  <2> QED
    BY <1>1, <1>4, <1>7, <2>1 DEF Object!set_params, ExchangeInv, Fields, FieldTables, HeaderLengths, LengthHeaders
<1>8. ASSUME NEW n \in Names, NEW v \in Values, Object!set_post_params(n, v), UNCHANGED own
      PROVE  Fields' /\ HeaderLengths'
  <2>1. form' \in FieldTables(Values)
    BY <1>8, FieldAdded DEF Object!set_post_params, ExchangeInv, Fields
  <2> QED
    BY <1>1, <1>4, <1>8, <2>1 DEF Object!set_post_params, ExchangeInv, Fields, FieldTables, HeaderLengths, LengthHeaders
<1>9. ASSUME NEW h \in LengthHeaders, NEW n \in Lengths, Object!add_header(h, n), own' = own \cup {n}
      PROVE  Fields' /\ HeaderLengths'
  <2>1. Fields'
    BY <1>1, <1>4, <1>9 DEF Object!add_header, ExchangeInv, Fields, FieldTables
  <2>2. HeaderLengths'
    BY <1>1, <1>9 DEF Object!add_header, Object!Inserted, ExchangeInv, HeaderLengths, LengthHeaders
  <2> QED
    BY <2>1, <2>2
<1>10. Fields' /\ HeaderLengths'
  BY <1>5, <1>6, <1>7, <1>8, <1>9 DEF Build, LengthHeaders
<1> QED
  BY <1>2, <1>3, <1>10 DEF ExchangeInv

LEMMA SendStep ==
    ASSUME ExchangeAssumption, ExchangeInv, NEW path \in Paths, Send(path)
    PROVE  ExchangeInv'
<1>1. PICK body \in Object!Bodies :
        /\ Object!get_http_body(path, body, message')
        /\ bodies' = bodies \cup {Len(body)}
  BY DEF Send
<1>2. /\ phase' = "sent" /\ sends' = sends + 1 /\ sends < MaxSends
      /\ UNCHANGED <<routes, given, calls, own>>
      /\ ran' = <<>>
  BY DEF Send
<1>3. /\ headers' = Object!WithDefaults(body)
      /\ message' = [method |-> method, path |-> path, query |-> query,
                     headers |-> headers', body |-> body]
      /\ UNCHANGED <<method, query, form, data>>
  BY <1>1 DEF Object!get_http_body
<1>4. Len(body) \in Nat
  BY BodyIsSequence DEF ExchangeInv
<1>5. Tables' /\ FirstEndpointLastHandler'
  BY <1>2, TablesKept
<1>6. Fields'
  <2>1. sends' \in 0..MaxSends
    BY <1>2 DEF ExchangeInv, Fields, ExchangeAssumption
  <2>2. bodies' \subseteq Nat
    BY <1>1, <1>4 DEF ExchangeInv, Fields
  <2> QED
    BY <1>2, <1>3, <2>1, <2>2 DEF ExchangeInv, Fields, FieldTables
<1>7. Asked'
  BY <1>2, <1>3 DEF Asked, ExchangeInv, Fields
<1>8. Given'
  BY <1>2 DEF ExchangeInv, Given, Served, Answered, Runs
<1> DEFINE CL == Object!ContentLength
           OL == Object!OtherLength
           CT == Object!ContentType
<1>9. CL # OL /\ CT # CL /\ CT # OL
  BY DEF Object!ContentLength, Object!OtherLength, Object!ContentType
<1>10. /\ body = <<>> => headers' = headers
       /\ body # <<>> => /\ DOMAIN headers' = DOMAIN headers \cup {CT, CL}
                         /\ \A h \in DOMAIN headers : headers'[h] = headers[h]
                         /\ CL \notin DOMAIN headers => headers'[CL] = Len(body)
  BY <1>3, <1>9 DEF Object!WithDefaults, Object!Inserted
<1> HIDE DEF CL, OL, CT
<1>11. LengthHeaders = {CL, OL}
  BY DEF LengthHeaders, CL, OL
<1>12. sends' # 0
  BY <1>2 DEF ExchangeInv, Fields
<1>13. HeaderLengths'
  <2>1. \A h \in LengthHeaders \cap DOMAIN headers : headers[h] \in own \cup bodies
    BY DEF ExchangeInv, HeaderLengths
  <2>2. \A h \in LengthHeaders \cap DOMAIN headers' : headers'[h] \in own \cup bodies'
    BY <1>1, <1>9, <1>10, <1>11, <2>1
  <2> QED
    BY <1>2, <1>12, <2>2 DEF HeaderLengths, LengthHeaders, Object!ContentLength, Object!OtherLength
<1>14. Object!Bodies' = Object!Bodies
  BY <1>3 DEF Object!Bodies
<1>15. /\ message'.headers = headers'
       /\ message'.query = query'
       /\ message'.body = body
       /\ Len(message'.body) \in bodies'
  BY <1>1, <1>3
<1>16. body # <<>> => CL \in DOMAIN headers'
  BY <1>10
<1>17. ASSUME sends' = 1, own' = {}
       PROVE  Declared' = {Len(body)}
  <2>1. CL \notin DOMAIN headers /\ OL \notin DOMAIN headers
    BY <1>2, <1>11, <1>17 DEF ExchangeInv, HeaderLengths, Fields
  <2> DEFINE lines == {h \in DOMAIN headers' : h \in {CL, OL}}
  <2>2. Declared' = IF lines = {} THEN {0} ELSE {headers'[h] : h \in lines}
    BY <1>15 DEF Declared, CL, OL, Object!ContentLength, Object!OtherLength
  <2>3. CASE body = <<>>
    BY <1>10, <2>1, <2>2, <2>3
  <2>4. CASE body # <<>>
    <3>1. lines = {CL}
      BY <1>9, <1>10, <2>1, <2>4
    <3> QED
      BY <1>10, <2>1, <2>2, <2>4, <3>1
  <2> QED
    BY <2>3, <2>4
<1>18. UnderWay'
  BY <1>14, <1>15, <1>16, <1>17 DEF UnderWay, CL, Object!ContentLength
<1> QED
  BY <1>5, <1>6, <1>7, <1>8, <1>13, <1>18 DEF ExchangeInv

LEMMA ServeStep ==
    ASSUME ExchangeInv, Serve
    PROVE  ExchangeInv'
<1>1. /\ phase = "sent" /\ phase' = "answered"
      /\ UNCHANGED <<routes, object, message, calls, history>>
  BY DEF Serve
<1>2. PICK complete \in BOOLEAN :
        /\ ran' = process_request(Key, complete).ran
        /\ given' = process_request(Key, complete).response
  <2>1. PICK n \in Declared :
          LET done == process_request(Key, Needed \in DOMAIN FormOf(Taken(n)))
          IN  ran' = done.ran /\ given' = done.response
    BY DEF Serve, Key
  <2>2. (Needed \in DOMAIN FormOf(Taken(n))) \in BOOLEAN
    OBVIOUS
  <2> QED
    BY <2>1, <2>2
<1>3. Tables' /\ FirstEndpointLastHandler'
  BY <1>1, TablesKept
<1>4. Fields' /\ HeaderLengths' /\ Asked' /\ UnderWay'
  BY <1>1 DEF ExchangeInv, Fields, FieldTables, HeaderLengths, LengthHeaders, Asked, UnderWay, object, history
<1>5. Key \in Keys
  BY <1>1 DEF ExchangeInv, Asked, Key, Keys
<1>6. Answered(process_request(Key, complete))
  BY <1>5, RequestOutcome DEF ExchangeInv
<1>7. process_request(Key, complete)' = process_request(Key, complete)
  BY <1>1 DEF routes, Key, process_request, Route
<1>8. Given'
  BY <1>2, <1>6, <1>7 DEF Given, Answered
<1> QED
  BY <1>3, <1>4, <1>8 DEF ExchangeInv

LEMMA HangStep ==
    ASSUME ExchangeInv, Hang
    PROVE  ExchangeInv'
<1>1. /\ phase = "sent" /\ phase' = "hung"
      /\ UNCHANGED <<routes, object, message, server, calls, history>>
  BY DEF Hang
<1>2. Tables' /\ FirstEndpointLastHandler' /\ Given'
  BY <1>1, TablesKept, GivenKept
<1>3. Fields' /\ HeaderLengths' /\ Asked'
  BY <1>1 DEF ExchangeInv, Fields, FieldTables, HeaderLengths, LengthHeaders, Asked, object, history
<1>4. UnderWay'
  BY <1>1 DEF ExchangeInv, UnderWay, Declared, Object!Bodies, object, history
<1> QED
  BY <1>2, <1>3, <1>4 DEF ExchangeInv

LEMMA StutterStep ==
    ASSUME ExchangeInv, UNCHANGED vars
    PROVE  ExchangeInv'
<1>1. /\ phase' = phase
      /\ UNCHANGED <<routes, object, message, server, calls, history>>
  BY DEF vars
<1>2. Tables' /\ FirstEndpointLastHandler' /\ Given'
  BY <1>1, TablesKept, GivenKept DEF Served
<1>3. Fields' /\ HeaderLengths' /\ Asked'
  BY <1>1 DEF ExchangeInv, Fields, FieldTables, HeaderLengths, LengthHeaders, Asked, object, history
<1>4. UnderWay'
  BY <1>1 DEF ExchangeInv, UnderWay, Declared, Object!Bodies, object, history
<1> QED
  BY <1>2, <1>3, <1>4 DEF ExchangeInv

\* Which registration answers, what has run for the request that is under way,
\* and where its declared length came from: all of it holds in every state.
THEOREM ExchangeInvariant == Spec => []ExchangeInv
<1>1. Init => ExchangeInv
  BY InitInv, ExchangeAssumption
<1>2. ExchangeInv /\ [Next]_vars => ExchangeInv'
  BY ExchangeAssumption, RegisterStep, RunServerStep, BuildStep, ServeStep, HangStep, SendStep, StutterStep
     DEF Next, Done
<1> QED
  BY <1>1, <1>2, PTL DEF Spec

-----------------------------------------------------------------------------
(* The properties of the runs.                                              *)

\* The object, the tables and the answers keep their types, and no request is
\* answered with the 0 that only lets it through.
THEOREM ExchangeTyped == Spec => []TypeOK
<1>1. ExchangeInv => TypeOK
  BY DEF ExchangeInv, TypeOK, Tables, Fields, Given, Answered, Runs
<1> QED
  BY <1>1, ExchangeInvariant, PTL

\* Server::_endpoints and _handlers: the first endpoint of a key counts, and the
\* last handler of a method.
THEOREM RegistrationOrder == Spec => []FirstEndpointLastHandler
<1>1. ExchangeInv => FirstEndpointLastHandler
  BY DEF ExchangeInv
<1> QED
  BY <1>1, ExchangeInvariant, PTL

\* process_request asks the guards of endpoints, and never runs one past a refusal,
\* however many registrations there are; ServerApp::add_handler's wrapper asks none,
\* and runs its handler whatever guard is set in it.
THEOREM GuardsOfEndpointsOnly == Spec => []OnlyEndpointsAreGuarded
<1>1. ExchangeInv => EndpointsAreGuarded
  BY DecidesOutcome DEF EndpointsAreGuarded, Guarded
<1>2. ExchangeInv => HandlersAreNotGuarded
  BY StepsInOutcome DEF HandlersAreNotGuarded
<1> QED
  BY <1>1, <1>2, ExchangeInvariant, PTL DEF OnlyEndpointsAreGuarded

\* The 404 of a guard given to Server::add_endpoint is never what the client gets.
THEOREM RefusalsAnswered == Spec => []OnlyRefusalsAreAnswered
<1>1. ASSUME ExchangeInv, Served, given.by = "guard"
      PROVE  given.code = 403 \/ \A r \in ToSet(registered) : Decides(r) => r.level = "app"
  BY <1>1, DecidesOutcome DEF Guarded
<1>2. ExchangeInv => OnlyRefusalsAreAnswered
  BY <1>1 DEF OnlyRefusalsAreAnswered
<1> QED
  BY <1>2, ExchangeInvariant, PTL

\* The answer to an exception has the guard's headers exactly for endpoints whose
\* guard was given to Server::add_endpoint.
THEOREM ErrorHeaders == Spec => []ErrorsKeepTheGuardsHeaders
<1>1. ExchangeInv => ErrorsKeepTheGuardsHeaders
  BY DecidesOutcome DEF ErrorsKeepTheGuardsHeaders, Guarded
<1> QED
  BY <1>1, ExchangeInvariant, PTL

\* A declared length that is not that of the body was set by the program or left
\* by an earlier send.
THEOREM LengthsHaveACause == Spec => []WrongLengthHasACause
<1>1. ASSUME ExchangeInv, phase \in {"sent", "hung"}
      PROVE  Declared \subseteq own \cup bodies
  <2> DEFINE lines == {h \in DOMAIN message.headers : h \in LengthHeaders}
  <2>1. Declared = IF lines = {} THEN {0} ELSE {message.headers[h] : h \in lines}
    BY DEF Declared, LengthHeaders
  <2>2. /\ message.headers = headers
        /\ Len(message.body) \in bodies
        /\ message.body # <<>> => Object!ContentLength \in DOMAIN headers
    BY <1>1 DEF ExchangeInv, UnderWay
  <2>3. CASE lines = {}
    <3>1. message.body = <<>>
      BY <2>2, <2>3 DEF LengthHeaders
    <3>2. Len(message.body) = 0
      BY <3>1
    <3> QED
      BY <2>1, <2>2, <2>3, <3>2
  <2>4. CASE lines # {}
    BY <1>1, <2>1, <2>2, <2>4 DEF ExchangeInv, HeaderLengths
  <2> QED
    BY <2>3, <2>4
<1>2. ExchangeInv => WrongLengthHasACause
  BY <1>1 DEF WrongLengthHasACause
<1> QED
  BY <1>2, ExchangeInvariant, PTL

\* The first send of a request without a length of its own arrives whole, for
\* every form and every body.
THEOREM FirstSendTheorem == Spec => FirstSendArrives
<1> DEFINE Arrives ==
      phase = "sent" /\ phase' # "sent" /\ sends = 1 /\ own = {} =>
         /\ phase' = "answered"
         /\ seen'.query = query
         /\ IF DOMAIN form = {} THEN seen'.body = data ELSE seen'.form = form
<1>1. ASSUME ExchangeInv, [Next]_vars,
             phase = "sent", phase' # "sent", sends = 1, own = {}
      PROVE  /\ phase' = "answered"
             /\ seen'.query = query
             /\ IF DOMAIN form = {} THEN seen'.body = data ELSE seen'.form = form
  <2>1. /\ message.query = query
        /\ message.body \in Object!Bodies
        /\ Declared = {Len(message.body)}
    BY <1>1 DEF ExchangeInv, UnderWay
  <2>2. /\ message.body \in Seq(Values) \cup Seq(Names \X Values)
        /\ Len(message.body) \in Nat
        /\ IF DOMAIN form = {} THEN message.body = data ELSE FormOf(message.body) = form
    BY <1>1, <2>1, BodyIsSequence, ExchangeAssumption DEF ExchangeInv
  <2>3. ~Hang
    BY <2>1, <2>2 DEF Hang
  <2>4. Serve
    BY <1>1, <2>3 DEF Next, Register, RunServer, Build, Send, Done, vars
  <2>5. Taken(Len(message.body)) = message.body
    BY <2>2, SubSeqFull DEF Taken
  <2>6. seen' = [body |-> message.body, query |-> message.query, form |-> FormOf(message.body)]
    BY <2>1, <2>4, <2>5 DEF Serve
  <2> QED
    BY <2>1, <2>2, <2>4, <2>6 DEF Serve
<1>2. ExchangeInv /\ [Next]_vars => [Arrives]_vars
  BY <1>1
<1>3. Spec => [][Arrives]_vars
  BY <1>2, ExchangeInvariant, PTL DEF Spec
<1> QED
  BY <1>3 DEF FirstSendArrives

\* Which refusals and headers of guards process_request lets through to the client.
THEOREM GuardsReachTheClient == Spec => []GuardsAreHeard
BY ExchangeTyped, RefusalsAnswered, ErrorHeaders, PTL DEF GuardsAreHeard

=============================================================================
