------------------------------ MODULE Outgoing -------------------------------
(***************************************************************************)
(* A request the program sends: RequestOutgoing                              *)
(* (src/http/RequestOutgoming.{h,cpp}, Request.h) and the text that           *)
(* get_http_body makes of it.                                                *)
(*                                                                          *)
(* Each header and parameter is kept two times, in a map that owns the        *)
(* strings and in a Params of views on it; both always agree, and one         *)
(* variable stands for both.  A body is a sequence of units: bytes of data,   *)
(* or the encoded parameters of a form.                                      *)
(***************************************************************************)
EXTENDS Integers, SequencesExt

CONSTANTS Methods,
          Names, Values,  \* parameters
          Data            \* bodies the program sets: sequences

ContentType == "Content-Type"
ContentLength == "Content-Length"
OtherLength == "content-length"   \* the same header written in another way

VARIABLES method,   \* _method
          headers,  \* _headers
          query,    \* _params
          form,     \* _post_params
          data      \* _post_data

object == <<method, headers, query, form, data>>

\* _method has no initializer: it is whatever was in memory until it is set.
OutgoingInit ==
    /\ method \in Methods
    /\ headers = <<>>
    /\ query = <<>>
    /\ form = <<>>
    /\ data = <<>>

\* unordered_map::insert: the first value stays.
Inserted(f, name, value) ==
    [n \in DOMAIN f \cup {name} |-> IF n \in DOMAIN f THEN f[n] ELSE value]

\* insert_or_assign: the last value stays.
Assigned(f, name, value) ==
    [n \in DOMAIN f \cup {name} |-> IF n = name THEN value ELSE f[n]]

set_method(m) ==
    /\ method' = m
    /\ UNCHANGED <<headers, query, form, data>>

add_header(name, value) ==
    /\ headers' = Inserted(headers, name, value)
    /\ UNCHANGED <<method, query, form, data>>

set_params(name, value) ==
    /\ query' = Inserted(query, name, value)
    /\ UNCHANGED <<method, headers, form, data>>

set_post_params(name, value) ==
    /\ form' = Assigned(form, name, value)
    /\ UNCHANGED <<method, headers, query, data>>

set_data(value) ==
    /\ data' = value
    /\ UNCHANGED <<method, headers, query, form>>

\* The form in any order of its parameters, or else the data.
Bodies ==
    IF DOMAIN form = {} THEN {data}
    ELSE {[i \in DOMAIN s |-> <<s[i], form[s[i]]>>] : s \in SetToSeqs(DOMAIN form)}

\* Mutant: the length is that of the data, also of a form.
WithDefaults_OfData(body) ==
    IF body = <<>> THEN headers
    ELSE Inserted(Inserted(headers, ContentType, ""), ContentLength, Len(data))

\* Content-Type and Content-Length are added where they are not there.
WithDefaults(body) ==
    IF body = <<>> THEN headers
    ELSE Inserted(Inserted(headers, ContentType, IF DOMAIN form = {} THEN "" ELSE "form"),
                  ContentLength, Len(body))

\* get_http_body: it adds headers to the request, for good, and makes the text.
\* Connection: close comes last.
get_http_body(path, body, message) ==
    /\ body \in Bodies
    /\ headers' = WithDefaults(body)
    /\ message = [method |-> method, path |-> path, query |-> query,
                  headers |-> headers', body |-> body]
    /\ UNCHANGED <<method, query, form, data>>

=============================================================================
