------------------------------- MODULE Server -------------------------------
(***************************************************************************)
(* A godocs process that serves: the middleware chain run() wraps around   *)
(* the router, the gates inside the routes, and one request on its way in  *)
(* and out, by return or by panic.  It runs on the start-up of Startup:    *)
(* the process that answers has come up there, with that configuration,    *)
(* and may end there at any time, which empties its buckets and drops its  *)
(* request.                                                                *)
(*                                                                         *)
(* One process is watched, and one request at a time: what requests share  *)
(* here are the two token buckets, and RateLimit has their races.          *)
(***************************************************************************)
EXTENDS Startup, Sequences

CONSTANTS
    Web,        \* the process watched
    StrictBurst \* burst of the limiter of /api/auth/

ASSUME ServerAssumption == Web \in Procs /\ StrictBurst \in Nat \ {0}

\* Chain(mux, ...) in main.go, and what each route adds.
Outer == <<"CORS", "RequestID", "Logging", "Recover", "RateLimit", "Timeout">>

\* "open" stands for /healthz and the static files.
Routes == {"auth", "me", "documents", "open"}

\* Mutant of Inner: the handlers of the documents are mounted bare.
InnerUngated(route) ==
    CASE route = "auth" -> <<"AuthLimit">>
      [] route = "me" -> <<"AuthLimit", "RequireAuth">>
      [] OTHER -> <<>>

Inner(route) ==
    CASE route = "auth" -> <<"AuthLimit">>
      [] route = "me" -> <<"AuthLimit", "RequireAuth">>
      [] route = "documents" -> <<"RequireAuth">>
      [] OTHER -> <<>>

\* Mutant of Layers: Recover is put outside of Logging.
RecoverOutside(route) ==
    <<"CORS", "RequestID", "Recover", "Logging", "RateLimit", "Timeout">>
    \o Inner(route)

Layers(route) == Outer \o Inner(route)
Position(layer, route) ==
    CHOOSE i \in DOMAIN Layers(route) : Layers(route)[i] = layer

VARIABLES
    req,        \* the request: what it asks for, where it is
    tokens      \* the two buckets of its client

vars == <<bootVars, req, tokens>>

Limits == {"RateLimit", "AuthLimit"}
Burst(l) == IF l = "RateLimit" THEN Load(env)["burst"] ELSE StrictBurst
FullBuckets == [l \in Limits |-> Burst(l)]

\* at: the layer the request is at; way: whether it goes in, is in the
\* handler, or comes out.  sent: the status the client gets; noted: the one
\* statusRecorder keeps; log: the access log.  0 stands for no status.
Request(route, preflight) ==
    [route |-> route, preflight |-> preflight,
     at |-> 1, way |-> "in", charged |-> {}, user |-> FALSE, ran |-> FALSE,
     panicked |-> "no", sent |-> 0, noted |-> 0, log |-> <<>>]

NoRequest == [Request("open", FALSE) EXCEPT !.way = "over", !.at = 0]

Init == BootInit /\ req = NoRequest /\ tokens = FullBuckets

-----------------------------------------------------------------------------
(* net/http.                                                                 *)

\* A request can be there only while the process listens.
Serving == pc[Web] = "serve"

Arrive ==
    /\ Serving /\ req.way = "over"
    /\ \E route \in Routes, preflight \in BOOLEAN :
          req' = Request(route, preflight)
    /\ UNCHANGED <<bootVars, tokens>>

Here(layer) ==
    /\ Serving /\ req.way # "over"
    /\ req.at \in DOMAIN Layers(req.route) /\ Layers(req.route)[req.at] = layer

\* The first status goes out; statusRecorder keeps the last one it is told,
\* and is not told by what is outside of it.
Recorded(i) == i > Position("Logging", req.route)
Wrote(r, code, i) ==
    [r EXCEPT !.sent = IF @ = 0 THEN code ELSE @,
              !.noted = IF Recorded(i) THEN code ELSE @]

\* A layer passes the request on, answers it, or lets it out.
Deeper(r) ==
    IF r.at = Len(Layers(r.route)) THEN [r EXCEPT !.way = "handler"]
    ELSE [r EXCEPT !.at = @ + 1]
Further(r) ==
    IF r.at = 1 THEN [r EXCEPT !.at = 0, !.way = "over"]
    ELSE [r EXCEPT !.at = @ - 1]
Answered(r, code) == Further([Wrote(r, code, r.at) EXCEPT !.way = "out"])

-----------------------------------------------------------------------------
(* On the way in.                                                            *)

\* A preflight is answered here, without a log line or a token.
CORS ==
    /\ Here("CORS") /\ req.way = "in"
    /\ req' = IF req.preflight THEN Answered(req, 204) ELSE Deeper(req)
    /\ UNCHANGED <<bootVars, tokens>>

\* Layers that only wrap.
PassIn ==
    /\ req.way = "in"
    /\ \E l \in {"RequestID", "Logging", "Recover", "Timeout"} : Here(l)
    /\ req' = Deeper(req)
    /\ UNCHANGED <<bootVars, tokens>>

\* NaN tokens are not less than one.
HasToken(l) ==
    tokens[l] >= 1 \/ (l = "RateLimit" /\ Load(env)["rps"] = NaN)

Admit(l) ==
    /\ Here(l) /\ req.way = "in" /\ HasToken(l)
    /\ tokens' = [tokens EXCEPT ![l] = IF @ >= 1 THEN @ - 1 ELSE @]
    /\ req' = Deeper([req EXCEPT !.charged = @ \cup {l}])
    /\ UNCHANGED bootVars

TooMany(l) ==
    /\ Here(l) /\ req.way = "in" /\ ~HasToken(l)
    /\ req' = Answered(req, 429)
    /\ UNCHANGED <<bootVars, tokens>>

Refill(l) ==
    /\ Serving /\ tokens[l] < Burst(l)
    /\ tokens' = [tokens EXCEPT ![l] = @ + 1]
    /\ UNCHANGED <<bootVars, req>>

\* The gate; Sessions has which of the three it is.
RequireAuth ==
    /\ Here("RequireAuth") /\ req.way = "in"
    /\ \/ req' = Deeper([req EXCEPT !.user = TRUE])
       \/ \E code \in {401, 500} : req' = Answered(req, code)
    /\ UNCHANGED <<bootVars, tokens>>

-----------------------------------------------------------------------------
(* The handlers, and the router's own answers.                               *)

Handling == Serving /\ req.way = "handler"

\* The handler begins, and answers; 200 stands for whatever it answers.
HandlerWrites ==
    /\ Handling /\ req.sent = 0
    /\ req' = [Wrote(req, 200, req.at + 1) EXCEPT !.ran = TRUE]
    /\ UNCHANGED <<bootVars, tokens>>

HandlerReturns ==
    /\ Handling /\ req.sent # 0
    /\ req' = [req EXCEPT !.way = "out"]
    /\ UNCHANGED <<bootVars, tokens>>

\* Before or after it has begun to answer; ErrAbortHandler says that the
\* connection is to be cut.
HandlerPanics ==
    /\ Handling
    /\ \E how \in {"panic", "abort"} :
          req' = [req EXCEPT !.way = how, !.ran = TRUE,
                             !.panicked = IF how = "abort" THEN "cut"
                                          ELSE IF req.sent = 0 THEN "early"
                                          ELSE "late"]
    /\ UNCHANGED <<bootVars, tokens>>

-----------------------------------------------------------------------------
(* On the way out.                                                           *)

\* One line per request, unless a panic passes by.
Log ==
    /\ Here("Logging") /\ req.way = "out"
    /\ req' = Further([req EXCEPT !.log = Append(@, req.noted)])
    /\ UNCHANGED <<bootVars, tokens>>

\* The deferred function of Recover; ErrAbortHandler is thrown again.
Recover ==
    /\ Here("Recover") /\ req.way = "panic"
    /\ req' = Answered(req, 500)
    /\ UNCHANGED <<bootVars, tokens>>

\* A layer that has nothing to do on the way out, or is passed by a panic.
PassOut ==
    /\ Serving /\ req.at > 0
    /\ LET layer == Layers(req.route)[req.at] IN
       \/ req.way = "out" /\ layer # "Logging"
       \/ req.way = "panic" /\ layer # "Recover"
       \/ req.way = "abort"
    /\ req' = Further(req)
    /\ UNCHANGED <<bootVars, tokens>>

Serve ==
    \/ Arrive \/ CORS \/ PassIn \/ RequireAuth
    \/ \E l \in Limits : Admit(l) \/ TooMany(l) \/ Refill(l)
    \/ HandlerWrites \/ HandlerReturns \/ HandlerPanics
    \/ Log \/ Recover \/ PassOut

\* The watched process takes its request and its buckets with it when it ends.
EndsServing(p) ==
    /\ Ends(p)
    /\ IF p = Web THEN req' = NoRequest /\ tokens' = FullBuckets
                  ELSE UNCHANGED <<req, tokens>>

\* What a process does on its way up touches no request.
Rises(p) == Proceed(p) /\ UNCHANGED <<req, tokens>>

Next ==
    \/ \E p \in Procs : Rises(p) \/ EndsServing(p)
    \/ Others /\ UNCHANGED <<req, tokens>>
    \/ Serve

Spec == Init /\ [][Next]_vars

\* A supervisor restarts what has ended (docker-compose.yml), and a process
\* that comes up goes on.
FairSpec == Spec /\ \A p \in Procs : WF_vars(Rises(p))

-----------------------------------------------------------------------------
(* Properties.                                                               *)

\* Every variable stays in its set, a request only where there is a server.
TypeOK ==
    /\ BootTypeOK
    /\ req.route \in Routes
    /\ req.at \in 0 .. Len(Layers(req.route))
    /\ req.way \in {"in", "handler", "out", "panic", "abort", "over"}
    /\ req.way = "over" <=> req.at = 0
    /\ req.way # "over" => Serving
    /\ req.charged \subseteq Limits
    /\ {req.sent, req.noted} \subseteq {0, 200, 204, 401, 429, 500}
    /\ tokens \in [Limits -> Int]
    /\ IF Serving THEN \A l \in Limits : tokens[l] \in 0 .. Burst(l)
                  ELSE tokens = FullBuckets

\* A handler runs only for a request that every gate of its route has let in:
\* the document handlers, which take the empty owner for everybody, only with
\* a user, /api/auth/ only with a token of either limiter, and none for a
\* preflight (main.go run, handler.go ownerID).
RunsOnlyAdmitted ==
    req.ran =>
        /\ ~req.preflight /\ "RateLimit" \in req.charged
        /\ req.route \in {"auth", "me"} => "AuthLimit" \in req.charged
        /\ req.route \in {"me", "documents"} => req.user

\* Every request that comes back has an answer, a panic before the first byte
\* included, unless the connection was cut on purpose.  The access log has one
\* line for each but preflights and cut connections, with the status the client
\* got, unless the handler panicked after its first byte: the line then says
\* 500 (httpx.go WithLogging, WithRecover).
Over == Serving /\ req.way = "over" /\ req # NoRequest
LogTellsAnswer ==
    Over =>
        /\ req.sent # 0 \/ req.panicked = "cut"
        /\ req.panicked = "early" => req.sent = 500
        /\ req.log = IF req.preflight \/ req.panicked = "cut" THEN <<>>
                     ELSE <<IF req.panicked = "late" THEN 500 ELSE req.sent>>

\* With a configuration that is accepted, every process comes up in the end
\* and stays, however starts fail and processes compete for the lock.
AllServe ==
    Accepted(Load(env)) => \A p \in Procs : <>[](pc[p] = "serve")

=============================================================================
