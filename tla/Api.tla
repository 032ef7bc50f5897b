-------------------------------- MODULE Api --------------------------------
(***************************************************************************)
(* The HTTP path of a call: the Go client (client/client.go), the router   *)
(* with the endpoints of a service (services/*/api.go), the Observer and   *)
(* Auth middleware, and the Handle adapter that turns what a handler       *)
(* returns into a status.  What handlers do is the subject of Purchase and *)
(* Notifier; here a handler ends in one of the ways its code can end.  The *)
(* health probe runs its checks one by one while the dependencies fail and *)
(* recover.                                                                *)
(***************************************************************************)
EXTENDS Naturals, Sequences, Functions

CONSTANTS Calls,        \* calls, each made once
          Passwords,    \* credentials a client may set
          PasswordOf,   \* the one each service is configured with
          NoPassword,   \* the empty string: a header that is not set, and the
                        \* password of a service that is given none
          Methods,      \* the requests that are made
          Reachable,    \* the dependencies that are up when the first call is made
          MaxChanges    \* bound on the changes of a dependency

ASSUME ApiAssumption == MaxChanges \in Nat

VARIABLES credential,   \* the client's authorization header
          cpc,          \* the client: "idle", "sent", "done"
          request,      \* what it has sent
          outcome,      \* how the handler ended, "none" before or without it
          status,       \* the response, 0 without one
          body,         \* what the response carries
          metered,      \* the calls RequestCount has counted
          result,       \* what the client's method returned
          up,           \* the dependencies that answer a ping
          changes,      \* how often that has changed
          probes,       \* what the checks of a health request found so far
          wasUp,        \* history: what was up at some time of the request
          wasDown       \* history: what was down at some time of it

dependencyVars == <<up, changes, wasUp, wasDown>>
healthVars == <<dependencyVars, probes>>
vars == <<credential, cpc, request, outcome, status, body, metered, result, healthVars>>

-----------------------------------------------------------------------------
Endpoint(m, p, a, h) == [method |-> m, path |-> p, auth |-> a, handler |-> h]

Probes == {Endpoint("GET", "/status", FALSE, "Status"), Endpoint("GET", "/health", FALSE, "Health")}

OrdersEndpoints ==
    Probes \cup {Endpoint("GET", "/items", FALSE, "ListItems"),
                 Endpoint("GET", "/item/price/:key", FALSE, "ItemPrice"),
                 Endpoint("POST", "/item/price", FALSE, "ItemsPrice"),
                 Endpoint("POST", "/items/purchase", TRUE, "PurchaseItems"),
                 Endpoint("GET", "/orders", TRUE, "Orders"),
                 Endpoint("POST", "/items", TRUE, "AddItems")}

NotifierEndpoints == Probes \cup {Endpoint("GET", "/notifications", TRUE, "Notifications")}

\* The checks either service declares, in order; the notifier calls the
\* broker "consumer".
Checks == <<"database", "broker">>

Endpoints(service) == IF service = "orders" THEN OrdersEndpoints ELSE NotifierEndpoints

\* How the handlers end: the shape of a payload, the category of an error, a
\* failed health report, or a panic (AddItems on a null in its list,
\* PurchaseItems on a SKU without a row).
Outcomes(handler) ==
    CASE handler = "Status" -> {"object"}
      [] handler = "Health" -> {"object", "unhealthy"}
      [] handler \in {"ListItems", "Orders", "Notifications"} -> {"list", "internal"}
      [] handler = "AddItems" -> {"list", "invalid", "internal", "panic"}
      [] handler = "ItemPrice" -> {"object", "notfound", "internal"}
      [] handler = "ItemsPrice" -> {"object", "invalid", "notfound", "internal"}
      [] handler = "PurchaseItems" -> {"object", "invalid", "notfound", "internal", "panic"}

Payloads == {"object", "list"}

\* The methods of the client: the request, and what the answer is decoded into.
Method(m, p, out) == [method |-> m, path |-> p, out |-> out]

ClientMethods ==
    {Method("GET", "/status", "object"), Method("GET", "/health", "object"),
     Method("POST", "/items", "nothing"), Method("GET", "/items", "list"),
     Method("GET", "/item/price/:key", "object"), Method("POST", "/item/price", "object"),
     Method("POST", "/items/purchase", "object"), Method("GET", "/orders", "list")}

ListNotifications == Method("GET", "/notifications", "object")

\* Requests are those of the client's methods, to either service.
ASSUME RequestsAssumption ==
    Methods \subseteq ClientMethods \cup {ListNotifications} /\ Reachable \subseteq Range(Checks)

-----------------------------------------------------------------------------
Init ==
    /\ credential = NoPassword
    /\ cpc = [c \in Calls |-> "idle"]
    /\ request = [c \in Calls |-> [service |-> "none", method |-> "none", path |-> "none", out |-> "none",
                               credential |-> NoPassword]]
    /\ outcome = [c \in Calls |-> "none"]
    /\ status = [c \in Calls |-> 0]
    /\ body = [c \in Calls |-> "none"]
    /\ metered = {}
    /\ result = [c \in Calls |-> "none"]
    /\ up = Reachable
    /\ changes = 0
    /\ probes = [c \in Calls |-> <<>>]
    /\ wasUp = [c \in Calls |-> {}]
    /\ wasDown = [c \in Calls |-> {}]

AddAuthorizationHeader(p) ==
    /\ credential' = p
    /\ UNCHANGED <<cpc, request, outcome, status, body, metered, result, healthVars>>

\* executeJSONRequest, up to Do, against the service the client was made
\* for: the headers are those set at that moment.
Send(c, service, m) ==
    /\ cpc[c] = "idle"
    /\ cpc' = [cpc EXCEPT ![c] = "sent"]
    /\ request' = [request EXCEPT ![c] = [service |-> service, method |-> m.method, path |-> m.path,
                                          out |-> m.out, credential |-> credential]]
    /\ wasUp' = [wasUp EXCEPT ![c] = IF m.path = "/health" THEN up ELSE {}]
    /\ wasDown' = [wasDown EXCEPT ![c] = IF m.path = "/health" THEN Range(Checks) \ up ELSE {}]
    /\ UNCHANGED <<credential, outcome, status, body, metered, result, up, changes, probes>>

Waiting(c) == request[c].path # "none" /\ status[c] = 0 /\ outcome[c] = "none"

\* Mutant: the response of the authentication is not counted.
RespondUncounted(c, code, what) ==
    /\ status' = [status EXCEPT ![c] = code]
    /\ body' = [body EXCEPT ![c] = what]
    /\ metered' = IF code = 401 THEN metered ELSE metered \cup {c}
    /\ UNCHANGED <<credential, cpc, request, result, healthVars>>

\* A response is written and the Observer counts it.
Respond(c, code, what) ==
    /\ status' = [status EXCEPT ![c] = code]
    /\ body' = [body EXCEPT ![c] = what]
    /\ metered' = metered \cup {c}
    /\ UNCHANGED <<credential, cpc, request, result, healthVars>>

\* The router finds no endpoint for the path, or none for the method.
Unrouted(c) ==
    /\ Waiting(c)
    /\ \A e \in Endpoints(request[c].service) : e.path = request[c].path => e.method # request[c].method
    /\ Respond(c, IF \E e \in Endpoints(request[c].service) : e.path = request[c].path
                  THEN 405 ELSE 404, "text")
    /\ UNCHANGED outcome

Routed(c, e) == Waiting(c) /\ e.path = request[c].path /\ e.method = request[c].method

\* The credential resolves to a user if it is the password of the service,
\* which by default is the empty one.
Authenticated(c, e) == e.auth => request[c].credential = PasswordOf[request[c].service]

Unauthorized(c, e) ==
    /\ Routed(c, e)
    /\ ~Authenticated(c, e)
    /\ Respond(c, 401, "error")
    /\ UNCHANGED outcome

\* Mutant: an error without a category is not an error.
statusForSome(o) == CASE o = "invalid" -> 400 [] o = "notfound" -> 404 [] OTHER -> 200

statusFor(o) == CASE o = "invalid" -> 400 [] o = "notfound" -> 404 [] o = "internal" -> 500

\* Handle: what the handler returns decides the response.
Handled(c, e, o) ==
    /\ Routed(c, e)
    /\ Authenticated(c, e)
    /\ o \in Outcomes(e.handler) \ {"panic"}
    /\ e.handler # "Health"
    /\ outcome' = [outcome EXCEPT ![c] = o]
    /\ IF o \in Payloads THEN Respond(c, 200, o) ELSE Respond(c, statusFor(o), "error")

\* A dependency fails or recovers.  Only a health request looks, so it does
\* while there is one.
DependencyChanges(d) ==
    LET probing == {c \in Calls : Waiting(c) /\ request[c].path = "/health"}
    IN  /\ probing # {} /\ changes < MaxChanges
        /\ changes' = changes + 1
        /\ up' = IF d \in up THEN up \ {d} ELSE up \cup {d}
        /\ wasUp' = [c \in Calls |-> IF c \in probing THEN wasUp[c] \cup up' ELSE wasUp[c]]
        /\ wasDown' = [c \in Calls |-> IF c \in probing THEN wasDown[c] \cup (Range(Checks) \ up') ELSE wasDown[c]]
        /\ UNCHANGED <<credential, cpc, request, outcome, status, body, metered, result, probes>>

\* One check of HealthHandler's loop.  A ping fails too once the client has
\* gone away, because the context of its request is cancelled.
Probe(c, e) ==
    /\ Routed(c, e) /\ e.handler = "Health"
    /\ Len(probes[c]) < Len(Checks)
    /\ \E ok \in BOOLEAN :
          /\ ok => Checks[Len(probes[c]) + 1] \in up
          /\ ~ok => Checks[Len(probes[c]) + 1] \notin up \/ cpc[c] = "done"
          /\ probes' = [probes EXCEPT ![c] = Append(@, ok)]
    /\ UNCHANGED <<credential, cpc, request, outcome, status, body, metered, result, dependencyVars>>

\* The checks that have failed.
Failures(c) == {i \in DOMAIN probes[c] : ~probes[c][i]}

\* Mutant: the last check alone decides.
HealthyLast(c) == probes[c][Len(Checks)]

Healthy(c) == Failures(c) = {}

\* HealthHandler after its loop: any failure makes it a 503 with the report.
Report(c, e) ==
    /\ Routed(c, e) /\ e.handler = "Health"
    /\ Len(probes[c]) = Len(Checks)
    /\ IF Healthy(c)
       THEN outcome' = [outcome EXCEPT ![c] = "object"] /\ Respond(c, 200, "object")
       ELSE outcome' = [outcome EXCEPT ![c] = "unhealthy"] /\ Respond(c, 503, "object")

\* A panic leaves through the Observer; net/http closes the connection.
Panicked(c, e) ==
    /\ Routed(c, e)
    /\ Authenticated(c, e)
    /\ "panic" \in Outcomes(e.handler)
    /\ outcome' = [outcome EXCEPT ![c] = "panic"]
    /\ UNCHANGED <<credential, cpc, request, status, body, metered, result, healthVars>>

\* The rest of executeJSONRequest: an error status, or a body to decode.
Receive(c) ==
    /\ cpc[c] = "sent" /\ status[c] # 0
    /\ cpc' = [cpc EXCEPT ![c] = "done"]
    /\ result' = [result EXCEPT ![c] =
          CASE status[c] = 405 -> "ErrMethodNotAllowed"
            [] status[c] >= 400 /\ status[c] # 405 -> "HTTPError"
            [] status[c] < 400 /\ request[c].out \in {"nothing", body[c]} -> "ok"
            [] OTHER -> "decode"]
    /\ UNCHANGED <<credential, request, outcome, status, body, metered, healthVars>>

\* The client's timeout, a lost connection: whatever the server makes of the
\* request, before or after, the method returns the transport's error.
GiveUp(c) ==
    /\ cpc[c] = "sent"
    /\ cpc' = [cpc EXCEPT ![c] = "done"]
    /\ result' = [result EXCEPT ![c] = "transport"]
    /\ UNCHANGED <<credential, request, outcome, status, body, metered, healthVars>>

\* `checkout health` exits with 0: the probe was answered with 200 and the
\* report has no failure.
HealthCmd(c) == request[c].path = "/health" /\ result[c] = "ok" /\ Failures(c) = {}

Serve(c) ==
    \/ Unrouted(c)
    \/ \E e \in Endpoints(request[c].service) :
          \/ Unauthorized(c, e) \/ Panicked(c, e) \/ Probe(c, e) \/ Report(c, e)
          \/ \E o \in Outcomes(e.handler) : Handled(c, e, o)

Next ==
    \/ \E p \in Passwords : AddAuthorizationHeader(p)
    \/ \E d \in Range(Checks) : DependencyChanges(d)
    \/ \E c \in Calls :
          (\E s \in {"orders", "notifier"}, m \in Methods : Send(c, s, m)) \/ Serve(c) \/ Receive(c) \/ GiveUp(c)

Spec == Init /\ [][Next]_vars

-----------------------------------------------------------------------------
Requests ==
    [service : {"none", "orders", "notifier"}, method : {"none", "GET", "POST"},
     path : {"none"} \cup {e.path : e \in OrdersEndpoints \cup NotifierEndpoints},
     out : {"none", "nothing", "object", "list"}, credential : Passwords \cup {NoPassword}]

ApiTypeOK ==
    /\ credential \in Passwords \cup {NoPassword}
    /\ cpc \in [Calls -> {"idle", "sent", "done"}]
    /\ request \in [Calls -> Requests]
    /\ outcome \in [Calls -> {"none", "object", "list", "invalid", "notfound", "internal",
                              "unhealthy", "panic"}]
    /\ status \in [Calls -> {0, 200, 400, 401, 404, 405, 500, 503}]
    /\ body \in [Calls -> {"none", "text", "error", "object", "list"}]
    /\ metered \subseteq Calls
    /\ result \in [Calls -> {"none", "ok", "HTTPError", "ErrMethodNotAllowed", "decode", "transport"}]
    /\ up \subseteq Range(Checks) /\ changes \in Nat
    /\ probes \in [Calls -> Seq(BOOLEAN)]
    /\ wasUp \in [Calls -> SUBSET Range(Checks)] /\ wasDown \in [Calls -> SUBSET Range(Checks)]

\* A call that was not made has done nothing; one that was is a request of a
\* method of the client.
SentIsRequest(c) ==
    IF cpc[c] = "idle"
    THEN request[c].path = "none" /\ outcome[c] = "none" /\ status[c] = 0 /\ probes[c] = <<>>
    ELSE \E m \in ClientMethods \cup {ListNotifications} :
            m.method = request[c].method /\ m.path = request[c].path /\ m.out = request[c].out

\* A handler that has ended is the one of the request's endpoint, has passed
\* its authentication, and ended in one of its ways.
OutcomeIsHandlers(c) ==
    outcome[c] # "none" =>
        \E e \in Endpoints(request[c].service) :
            /\ e.path = request[c].path /\ e.method = request[c].method
            /\ Authenticated(c, e) /\ outcome[c] \in Outcomes(e.handler)

\* The status and the body say how the handler ended, and whoever was answered
\* was counted.
StatusIsOutcome(c) ==
    /\ status[c] # 0 <=> c \in metered
    /\ outcome[c] \in Payloads <=> status[c] = 200
    /\ outcome[c] \in Payloads => body[c] = outcome[c]
    /\ outcome[c] = "panic" => status[c] = 0
    /\ status[c] = 0 => outcome[c] \in {"none", "panic"}

\* The client has returned what the response made of it, or has given up.
ResultIsStatus(c) ==
    /\ result[c] = "none" <=> cpc[c] # "done"
    /\ result[c] \notin {"none", "transport"} => status[c] # 0
    /\ result[c] = "ok" => status[c] = 200
    /\ result[c] = "decode" => status[c] = 200 /\ request[c].out \notin {"nothing", body[c]}
    /\ result[c] \in {"HTTPError", "ErrMethodNotAllowed"} => status[c] # 200

\* While a health request waits, the history follows the dependencies; each of
\* its checks has found what was the case at some moment, or the client has
\* gone; and its answer is the sum of its checks.
ProbedIsHistory(c) ==
    /\ \A i \in DOMAIN probes[c] :
          /\ i \in DOMAIN Checks
          /\ IF probes[c][i] THEN Checks[i] \in wasUp[c]
             ELSE Checks[i] \in wasDown[c] \/ result[c] = "transport"
    /\ request[c].path = "/health" =>
          /\ Waiting(c) => up \subseteq wasUp[c] /\ Range(Checks) \ up \subseteq wasDown[c]
          /\ status[c] # 0 => /\ Len(probes[c]) = Len(Checks)
                              /\ outcome[c] = IF Failures(c) = {} THEN "object" ELSE "unhealthy"

\* Types, and the five relations above, for every call: the response is decided
\* by the endpoint, its authentication and its handler, and the client's result
\* by the response (client.go, middleware.go, server.go, probing.go).
ApiInv ==
    /\ ApiTypeOK
    /\ \A c \in Calls :
          /\ SentIsRequest(c) /\ OutcomeIsHandlers(c) /\ StatusIsOutcome(c) /\ ResultIsStatus(c)
          /\ ProbedIsHistory(c)

\* What a client method returns is what became of the call: nil only if the
\* handler ended with a payload, an error with a status only if it did not.
\* A payload that does not decode is the list of notifications, which
\* ListNotifications takes for one (client.go executeJSONRequest,
\* ListNotifications, middleware.go Auth, server.go Handle).
ResultIsOutcome ==
    \A c \in Calls :
        /\ result[c] = "ok" => outcome[c] \in Payloads
        /\ result[c] \in {"HTTPError", "ErrMethodNotAllowed"} => outcome[c] \notin Payloads
        /\ result[c] = "decode" => request[c].path = "/notifications" /\ outcome[c] = "list"

\* The only requests that end without being logged and counted are those
\* whose handler panicked: refused and failed ones are (middleware.go
\* Observer wraps the router, authentication included).
UnmeteredIsPanic ==
    \A c \in Calls : c \notin metered =>
        /\ outcome[c] \in {"none", "panic"}
        /\ result[c] \in {"none", "transport"}

\* A health probe tells the truth about the time it took, whatever fails or
\* recovers between its checks: it succeeds only if every dependency was up at
\* some moment of the request, and reports the service unhealthy only if one
\* was down at some moment.  (Not at the same moment: the checks run one after
\* the other.)  A client that went away makes the pings fail, and is the only
\* one not to see it.  A 200 never carries failures, so the command's look at
\* the report changes nothing (probing.go HealthHandler, cmd/health.go).
HealthIsTrue ==
    \A c \in Calls : request[c].path = "/health" =>
        /\ HealthCmd(c) => wasUp[c] = Range(Checks)
        /\ result[c] = "ok" => HealthCmd(c)
        /\ result[c] = "HTTPError" => wasDown[c] # {}

=============================================================================
