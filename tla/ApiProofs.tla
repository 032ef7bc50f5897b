----------------------------- MODULE ApiProofs -----------------------------
(***************************************************************************)
(* ApiInv is inductive, and the three properties of a call follow from it,  *)
(* for any number of concurrent calls, credentials and changes of the      *)
(* dependencies.                                                           *)
(***************************************************************************)
EXTENDS Api, TLAPS

HandlerOutcomes == {"object", "list", "invalid", "notfound", "internal", "unhealthy", "panic"}

\* The two checks of a health request (orders/api.go, notifier/api.go).
LEMMA CheckFacts ==
    /\ Len(Checks) = 2 /\ DOMAIN Checks = {1, 2}
    /\ Range(Checks) = {"database", "broker"}
    /\ \A i \in {1, 2} : Checks[i] \in Range(Checks)
<1>1. Len(Checks) = 2 /\ DOMAIN Checks = {1, 2} /\ Checks[1] = "database" /\ Checks[2] = "broker"
    BY DEF Checks
<1>2. Range(Checks) = {"database", "broker"}
    BY <1>1 DEF Range
<1> QED
    BY <1>1, <1>2

\* How the handlers end, one by one.
LEMMA OutcomeFacts ==
    /\ Outcomes("Status") = {"object"}
    /\ Outcomes("Health") = {"object", "unhealthy"}
    /\ \A h \in {"ListItems", "Orders", "Notifications"} : Outcomes(h) = {"list", "internal"}
    /\ Outcomes("AddItems") = {"list", "invalid", "internal", "panic"}
    /\ Outcomes("ItemPrice") = {"object", "notfound", "internal"}
    /\ Outcomes("ItemsPrice") = {"object", "invalid", "notfound", "internal"}
    /\ Outcomes("PurchaseItems") = {"object", "invalid", "notfound", "internal", "panic"}
<1>1. Outcomes("Status") = {"object"}
    BY DEF Outcomes
<1>2. Outcomes("Health") = {"object", "unhealthy"}
    BY DEF Outcomes
<1>3. \A h \in {"ListItems", "Orders", "Notifications"} : Outcomes(h) = {"list", "internal"}
    BY DEF Outcomes
<1>4. Outcomes("AddItems") = {"list", "invalid", "internal", "panic"}
    BY DEF Outcomes
<1>5. Outcomes("ItemPrice") = {"object", "notfound", "internal"}
    BY DEF Outcomes
<1>6. Outcomes("ItemsPrice") = {"object", "invalid", "notfound", "internal"}
    BY DEF Outcomes
<1>7. Outcomes("PurchaseItems") = {"object", "invalid", "notfound", "internal", "panic"}
    BY DEF Outcomes
<1> QED
    BY <1>1, <1>2, <1>3, <1>4, <1>5, <1>6, <1>7

AllEndpoints == OrdersEndpoints \cup NotifierEndpoints

\* The health endpoint is an open GET, and every handler ends in a known way (services/*/api.go).
LEMMA EndpointFacts ==
    /\ \A s : Endpoints(s) \subseteq AllEndpoints /\ Endpoint("GET", "/health", FALSE, "Health") \in Endpoints(s)
    /\ \A e \in AllEndpoints :
          /\ e.path = "/health" <=> e.handler = "Health"
          /\ e.path = "/health" => ~e.auth
          /\ Outcomes(e.handler) \subseteq HandlerOutcomes
<1> USE DEF AllEndpoints, OrdersEndpoints, NotifierEndpoints, Probes, Endpoint
<1>1. \A s : Endpoints(s) \subseteq AllEndpoints /\ Endpoint("GET", "/health", FALSE, "Health") \in Endpoints(s)
    BY DEF Endpoints
<1>3. \A e \in AllEndpoints : e.path = "/health" <=> e.handler = "Health"
    OBVIOUS
<1>4. \A e \in AllEndpoints : e.path = "/health" => ~e.auth
    OBVIOUS
<1>5. \A e \in AllEndpoints : Outcomes(e.handler) \subseteq HandlerOutcomes
    BY OutcomeFacts DEF HandlerOutcomes
<1> QED
    BY <1>1, <1>3, <1>4, <1>5

\* A payload has the shape that the client's method decodes, except the list
\* that ListNotifications takes for an object (client.go).
LEMMA MethodFacts ==
    /\ \A m \in ClientMethods \cup {ListNotifications} :
          /\ m.method \in {"GET", "POST"} /\ m.out \in {"nothing", "object", "list"}
          /\ \E e \in AllEndpoints : m.path = e.path
          /\ m.path # "none" /\ (m.path = "/health" => m.method = "GET")
    /\ \A m \in ClientMethods \cup {ListNotifications}, e \in AllEndpoints :
          m.path = e.path /\ m.method = e.method =>
             \A o \in Outcomes(e.handler) \cap Payloads :
                o = m.out \/ m.out = "nothing" \/ (m.path = "/notifications" /\ o = "list")
<1> USE DEF ClientMethods, ListNotifications, Method
<1>1. \A m \in ClientMethods \cup {ListNotifications} : m.path # "none" /\ (m.path = "/health" => m.method = "GET")
    OBVIOUS
<1>3. \A m \in ClientMethods \cup {ListNotifications} :
          m.method \in {"GET", "POST"} /\ m.out \in {"nothing", "object", "list"}
    OBVIOUS
<1>4. \A m \in ClientMethods \cup {ListNotifications} : \E e \in AllEndpoints : m.path = e.path
    BY DEF AllEndpoints, OrdersEndpoints, NotifierEndpoints, Probes, Endpoint
<1>2. ASSUME NEW m \in ClientMethods \cup {ListNotifications}, NEW e \in AllEndpoints,
             m.path = e.path, m.method = e.method, NEW o \in Outcomes(e.handler) \cap Payloads
      PROVE  o = m.out \/ m.out = "nothing" \/ (m.path = "/notifications" /\ o = "list")
    BY <1>2, OutcomeFacts DEF AllEndpoints, OrdersEndpoints, NotifierEndpoints, Probes, Endpoint, Payloads
<1> QED
    BY <1>1, <1>2, <1>3, <1>4

-----------------------------------------------------------------------------
(* The clauses of ApiInv, call by call. *)

CallInv(c) ==
    /\ SentIsRequest(c) /\ OutcomeIsHandlers(c) /\ StatusIsOutcome(c) /\ ResultIsStatus(c)
    /\ ProbedIsHistory(c)

LEMMA ApiInvByCall == ApiInv <=> ApiTypeOK /\ \A c \in Calls : CallInv(c)
BY DEF ApiInv, CallInv

\* What a step does to calls other than its own: nothing.
Untouched(c) ==
    /\ cpc'[c] = cpc[c] /\ request'[c] = request[c] /\ outcome'[c] = outcome[c]
    /\ status'[c] = status[c] /\ body'[c] = body[c] /\ result'[c] = result[c]
    /\ c \in metered' <=> c \in metered
    /\ probes'[c] = probes[c] /\ wasUp'[c] = wasUp[c] /\ wasDown'[c] = wasDown[c]

LEMMA UntouchedKeeps ==
    ASSUME NEW c \in Calls, CallInv(c), Untouched(c), UNCHANGED up
    PROVE  CallInv(c)'
<1>1. SentIsRequest(c)'
    BY Zenon DEF CallInv, Untouched, SentIsRequest
<1>2. OutcomeIsHandlers(c)'
    BY DEF CallInv, Untouched, OutcomeIsHandlers, Authenticated
<1>3. StatusIsOutcome(c)'
    BY DEF CallInv, Untouched, StatusIsOutcome
<1>4. ResultIsStatus(c)'
    BY DEF CallInv, Untouched, ResultIsStatus
<1>5. ProbedIsHistory(c)'
    <2>1. Failures(c)' = Failures(c) /\ Waiting(c)' = Waiting(c)
        BY DEF Untouched, Failures, Waiting
    <2> QED
        BY <2>1 DEF CallInv, Untouched, ProbedIsHistory
<1> QED
    BY <1>1, <1>2, <1>3, <1>4, <1>5, Zenon DEF CallInv

\* Sending a request.
LEMMA SendStep ==
    ASSUME ApiInv, NEW c \in Calls, NEW s \in {"orders", "notifier"}, NEW m \in Methods, Send(c, s, m)
    PROVE  ApiInv'
<1>1. ApiTypeOK /\ CallInv(c) /\ m \in ClientMethods \cup {ListNotifications}
    BY ApiInvByCall, RequestsAssumption, Zenon
<1>2. ApiTypeOK'
    <2>1. [service |-> s, method |-> m.method, path |-> m.path, out |-> m.out,
           credential |-> credential] \in Requests
        BY <1>1, MethodFacts, SMTT(30) DEF ApiTypeOK, Requests, AllEndpoints
    <2>2. request' \in [Calls -> Requests]
        BY <1>1, <2>1 DEF ApiTypeOK, Send
    <2>3. /\ wasUp' \in [Calls -> SUBSET Range(Checks)]
          /\ wasDown' \in [Calls -> SUBSET Range(Checks)]
        BY <1>1 DEF ApiTypeOK, Send
    <2> QED
        BY <1>1, <2>2, <2>3 DEF ApiTypeOK, Send
<1>3. ASSUME NEW d \in Calls, d # c
      PROVE  CallInv(d)'
    BY <1>1, <1>3, UntouchedKeeps, ApiInvByCall DEF Untouched, Send, ApiTypeOK
<1>4. /\ cpc[c] = "idle" /\ cpc'[c] = "sent" /\ outcome[c] = "none" /\ status[c] = 0 /\ probes[c] = <<>>
      /\ UNCHANGED <<outcome, status, body, metered, result, up, probes>>
      /\ request'[c].method = m.method /\ request'[c].path = m.path /\ request'[c].out = m.out
    BY <1>1 DEF Send, CallInv, SentIsRequest, ApiTypeOK
<1>5. SentIsRequest(c)' /\ OutcomeIsHandlers(c)'
    BY <1>1, <1>4, Zenon DEF SentIsRequest, OutcomeIsHandlers
<1>6. StatusIsOutcome(c)' /\ ResultIsStatus(c)'
    BY <1>1, <1>4, Zenon DEF CallInv, StatusIsOutcome, ResultIsStatus
<1>7. ProbedIsHistory(c)'
    <2>1. m.path = "/health" => wasUp'[c] = up /\ wasDown'[c] = Range(Checks) \ up
        BY <1>1, SMTT(30) DEF Send, ApiTypeOK
    <2> QED
        BY <1>1, <1>4, <2>1 DEF CallInv, ProbedIsHistory
<1> QED
    BY <1>2, <1>3, <1>5, <1>6, <1>7 DEF ApiInv, CallInv

\* The answer to a request: the handler of its endpoint, or nobody, has ended
\* in o, and the response fits.
Answers(c, code, what, o) ==
    /\ Waiting(c) /\ Respond(c, code, what) /\ outcome' = [outcome EXCEPT ![c] = o]
    /\ code \in {200, 400, 401, 404, 405, 500, 503} /\ what \in {"text", "error", "object", "list"}
    /\ o \in (HandlerOutcomes \cup {"none"}) \ {"panic"}
    /\ o \in Payloads <=> code = 200
    /\ o \in Payloads => what = o
    /\ OutcomeIsHandlers(c)'
    /\ request[c].path = "/health" =>
          Len(probes[c]) = Len(Checks) /\ o = IF Failures(c) = {} THEN "object" ELSE "unhealthy"

LEMMA RespondStep ==
    ASSUME ApiInv, NEW c \in Calls, NEW code, NEW what, NEW o, Answers(c, code, what, o)
    PROVE  ApiInv'
<1>1. ApiTypeOK /\ CallInv(c)
    BY ApiInvByCall, Zenon
<1>2. /\ status' = [status EXCEPT ![c] = code] /\ body' = [body EXCEPT ![c] = what]
      /\ metered' = metered \cup {c}
      /\ UNCHANGED <<credential, cpc, request, result, up, changes, wasUp, wasDown, probes>>
    BY DEF Answers, Respond, healthVars, dependencyVars
<1>3. ApiTypeOK'
    BY <1>1, <1>2 DEF Answers, ApiTypeOK, HandlerOutcomes
<1>4. ASSUME NEW d \in Calls, d # c
      PROVE  CallInv(d)'
    <2>1. Untouched(d)
        BY <1>1, <1>2, <1>4 DEF Answers, Untouched, ApiTypeOK
    <2> QED
        BY <1>2, <2>1, UntouchedKeeps, ApiInvByCall, Zenon
<1>5. outcome'[c] = o /\ status'[c] = code /\ body'[c] = what /\ c \in metered'
    BY <1>1, <1>2 DEF Answers, ApiTypeOK
<1>6. status[c] = 0 /\ request[c].path # "none" /\ cpc[c] # "idle"
    BY <1>1 DEF Answers, Waiting, CallInv, SentIsRequest
<1>7. SentIsRequest(c)'
    BY <1>1, <1>2, <1>6, Zenon DEF CallInv, SentIsRequest
<1>8. StatusIsOutcome(c)'
    BY <1>5, SMTT(30) DEF Answers, StatusIsOutcome, HandlerOutcomes, Payloads
<1>9. ResultIsStatus(c)'
    BY <1>1, <1>2, <1>5, <1>6 DEF Answers, CallInv, ResultIsStatus
<1>10. ProbedIsHistory(c)'
    <2>1. Failures(c)' = Failures(c) /\ ~Waiting(c)'
        BY <1>2, <1>5 DEF Answers, Failures, Waiting
    <2> QED
        BY <1>1, <1>2, <1>5, <2>1 DEF Answers, CallInv, ProbedIsHistory
<1> QED
    BY <1>3, <1>4, <1>7, <1>8, <1>9, <1>10 DEF Answers, ApiInv, CallInv

\* A health request is routed to HealthHandler, without authentication.
LEMMA HealthIsRouted ==
    ASSUME ApiInv, NEW c \in Calls, Waiting(c), request[c].path = "/health"
    PROVE  /\ Endpoint("GET", "/health", FALSE, "Health") \in Endpoints(request[c].service)
           /\ request[c].method = "GET"
<1>1. SentIsRequest(c) /\ cpc[c] # "idle"
    BY DEF ApiInv, SentIsRequest
<1>2. PICK m \in ClientMethods \cup {ListNotifications} :
          m.method = request[c].method /\ m.path = request[c].path
    BY <1>1 DEF SentIsRequest
<1>3. request[c].method = "GET"
    BY <1>2, MethodFacts
<1> QED
    BY <1>3, EndpointFacts, Zenon

\* The router's own answers, and the refusal of the authentication.
LEMMA RefuseStep ==
    ASSUME ApiInv, NEW c \in Calls,
           Unrouted(c) \/ \E e \in Endpoints(request[c].service) : Unauthorized(c, e)
    PROVE  ApiInv'
<1>1. Waiting(c) /\ UNCHANGED outcome /\ ApiTypeOK
    BY DEF Unrouted, Unauthorized, Routed, ApiInv
<1>2. outcome' = [outcome EXCEPT ![c] = "none"]
    BY <1>1 DEF Waiting, ApiTypeOK
<1>3. request[c].path # "/health"
    <2>1. SUFFICES ASSUME request[c].path = "/health"
                   PROVE  FALSE
        OBVIOUS
    <2>2. /\ Endpoint("GET", "/health", FALSE, "Health") \in Endpoints(request[c].service)
          /\ request[c].method = "GET"
        BY <1>1, <2>1, HealthIsRouted, Zenon
    <2>3. ~Unrouted(c)
        BY <2>1, <2>2 DEF Unrouted, Endpoint
    <2>4. \A e \in Endpoints(request[c].service) : ~Unauthorized(c, e)
        BY <2>1, EndpointFacts, Zenon DEF Unauthorized, Routed, Authenticated
    <2> QED
        BY <2>3, <2>4
<1>4. PICK code \in {401, 404, 405}, what \in {"text", "error"} : Respond(c, code, what)
    BY DEF Unrouted, Unauthorized
<1>5. OutcomeIsHandlers(c)'
    BY <1>1 DEF OutcomeIsHandlers, Waiting
<1>6. "none" \notin Payloads /\ code # 200
    BY <1>4 DEF Payloads
<1>7. /\ code \in {200, 400, 401, 404, 405, 500, 503} /\ what \in {"text", "error", "object", "list"}
      /\ "none" \in (HandlerOutcomes \cup {"none"}) \ {"panic"}
      /\ "none" \in Payloads <=> code = 200
    BY <1>4, <1>6
<1>8. Answers(c, code, what, "none")
    BY <1>1, <1>2, <1>3, <1>4, <1>5, <1>6, <1>7, ZenonT(30) DEF Answers
<1> QED
    BY <1>8, RespondStep

\* A handler that returns, through Handle.
LEMMA HandledStep ==
    ASSUME ApiInv, NEW c \in Calls, NEW e \in Endpoints(request[c].service),
           NEW o \in Outcomes(e.handler), Handled(c, e, o)
    PROVE  ApiInv'
<1>1. /\ Waiting(c) /\ e.path = request[c].path /\ e.method = request[c].method /\ Authenticated(c, e)
      /\ o # "panic" /\ e.handler # "Health" /\ outcome' = [outcome EXCEPT ![c] = o]
      /\ ApiTypeOK
    BY DEF Handled, Routed, ApiInv
<1>2. e \in AllEndpoints /\ o \in HandlerOutcomes /\ request[c].path # "/health"
    BY <1>1, EndpointFacts, Zenon
<1>3. o # "unhealthy"
    BY <1>1, <1>2, OutcomeFacts
        DEF AllEndpoints, OrdersEndpoints, NotifierEndpoints, Probes, Endpoint
<1>4. UNCHANGED request
    BY DEF Handled, Respond
<1>5. OutcomeIsHandlers(c)'
    <2>1. Authenticated(c, e)' /\ outcome'[c] = o
        BY <1>1, <1>4 DEF Authenticated, ApiTypeOK
    <2> QED
        BY <1>1, <1>4, <2>1 DEF OutcomeIsHandlers
<1>6. CASE o \in Payloads
    <2>1. Respond(c, 200, o) /\ o \in {"object", "list"}
        BY <1>6 DEF Handled, Payloads
    <2>2. Answers(c, 200, o, o)
        BY <1>1, <1>2, <1>5, <1>6, <2>1 DEF Answers
    <2> QED
        BY <2>2, RespondStep
<1>7. CASE o \notin Payloads
    <2>1. o \in {"invalid", "notfound", "internal"}
        BY <1>1, <1>2, <1>3, <1>7, Zenon DEF HandlerOutcomes, Payloads
    <2>2. Respond(c, statusFor(o), "error")
        BY <1>7 DEF Handled
    <2>3. statusFor(o) \in {400, 404, 500}
        BY <2>1 DEF statusFor
    <2>4. Answers(c, statusFor(o), "error", o)
        BY <1>1, <1>2, <1>5, <1>7, <2>2, <2>3 DEF Answers
    <2> QED
        BY <2>4, RespondStep, Zenon
<1> QED
    BY <1>6, <1>7

\* HealthHandler's response after its loop.
LEMMA ReportStep ==
    ASSUME ApiInv, NEW c \in Calls, NEW e \in Endpoints(request[c].service), Report(c, e)
    PROVE  ApiInv'
<1> DEFINE o == IF Failures(c) = {} THEN "object" ELSE "unhealthy"
<1>1. /\ Waiting(c) /\ e.path = request[c].path /\ e.method = request[c].method
      /\ e.handler = "Health" /\ Len(probes[c]) = Len(Checks)
      /\ outcome' = [outcome EXCEPT ![c] = o] /\ UNCHANGED request
      /\ ApiTypeOK
    BY DEF Report, Routed, Healthy, Respond, ApiInv
<1>2. e \in AllEndpoints /\ e.path = "/health" /\ ~e.auth /\ o \in Outcomes(e.handler)
    BY <1>1, EndpointFacts, OutcomeFacts, Zenon
<1>3. OutcomeIsHandlers(c)'
    <2>1. outcome'[c] = o
        BY <1>1 DEF ApiTypeOK
    <2> QED
        BY <1>1, <1>2, <2>1, SMTT(30) DEF OutcomeIsHandlers, Authenticated
<1>4. CASE Failures(c) = {}
    <2>1. Respond(c, 200, "object")
        BY <1>4 DEF Report, Healthy
    <2>2. Answers(c, 200, "object", "object")
        BY <1>1, <1>3, <1>4, <2>1 DEF Answers, Payloads, HandlerOutcomes
    <2> QED
        BY <2>2, RespondStep
<1>5. CASE Failures(c) # {}
    <2>1. Respond(c, 503, "object") /\ outcome' = [outcome EXCEPT ![c] = "unhealthy"]
        BY <1>5 DEF Report, Healthy
    <2>2. /\ "unhealthy" \notin Payloads
          /\ "unhealthy" \in (HandlerOutcomes \cup {"none"}) \ {"panic"}
        BY DEF Payloads, HandlerOutcomes
    <2>3. /\ "unhealthy" \in Payloads <=> 503 = 200
          /\ 503 \in {200, 400, 401, 404, 405, 500, 503} /\ "object" \in {"text", "error", "object", "list"}
        BY <2>2
    <2>4. Answers(c, 503, "object", "unhealthy")
        BY <1>1, <1>3, <1>5, <2>1, <2>2, <2>3, ZenonT(30) DEF Answers
    <2> QED
        BY <2>4, RespondStep
<1> QED
    BY <1>4, <1>5, Zenon

\* A handler that panics answers nobody.
LEMMA PanickedStep ==
    ASSUME ApiInv, NEW c \in Calls, NEW e \in Endpoints(request[c].service), Panicked(c, e)
    PROVE  ApiInv'
<1>1. /\ Waiting(c) /\ e.path = request[c].path /\ e.method = request[c].method /\ Authenticated(c, e)
      /\ "panic" \in Outcomes(e.handler) /\ outcome' = [outcome EXCEPT ![c] = "panic"]
      /\ UNCHANGED <<credential, cpc, request, status, body, metered, result, up, changes, wasUp, wasDown, probes>>
      /\ ApiTypeOK /\ CallInv(c)
    BY ApiInvByCall DEF Panicked, Routed, healthVars, dependencyVars
<1>2. ApiTypeOK'
    BY <1>1 DEF ApiTypeOK
<1>3. ASSUME NEW d \in Calls, d # c
      PROVE  CallInv(d)'
    <2>1. Untouched(d)
        BY <1>1, <1>3 DEF Untouched, ApiTypeOK
    <2> QED
        BY <1>1, <2>1, UntouchedKeeps, ApiInvByCall
<1>4. outcome'[c] = "panic" /\ status[c] = 0 /\ outcome[c] = "none" /\ cpc[c] # "idle"
    BY <1>1 DEF ApiTypeOK, Waiting, CallInv, SentIsRequest
<1>5. SentIsRequest(c)' /\ ResultIsStatus(c)'
    BY <1>1, <1>4 DEF CallInv, SentIsRequest, ResultIsStatus
<1>6. OutcomeIsHandlers(c)'
    BY <1>1, <1>4, Zenon DEF OutcomeIsHandlers, Authenticated
<1>7. StatusIsOutcome(c)'
    BY <1>1, <1>4, Zenon DEF CallInv, StatusIsOutcome, Payloads
<1>8. ProbedIsHistory(c)'
    <2>1. ~Waiting(c)'
        BY <1>4, Zenon DEF Waiting
    <2> QED
        BY <1>1, <1>4, <2>1, Zenon DEF CallInv, ProbedIsHistory
<1> QED
    BY <1>2, <1>3, <1>5, <1>6, <1>7, <1>8 DEF ApiInv, CallInv

\* One check of a health request: what it finds is in the history of the
\* request, or its client has given up.
LEMMA ProbeStep ==
    ASSUME ApiInv, NEW c \in Calls, NEW e \in Endpoints(request[c].service), Probe(c, e)
    PROVE  ApiInv'
<1> DEFINE i == Len(probes[c]) + 1
<1>1. PICK ok \in BOOLEAN :
          /\ ok => Checks[i] \in up
          /\ ~ok => Checks[i] \notin up \/ cpc[c] = "done"
          /\ probes' = [probes EXCEPT ![c] = Append(@, ok)]
    BY ZenonT(30) DEF Probe
<1>2. /\ Waiting(c) /\ e.path = request[c].path /\ e.handler = "Health" /\ Len(probes[c]) < Len(Checks)
      /\ UNCHANGED <<credential, cpc, request, outcome, status, body, metered, result, up, changes, wasUp, wasDown>>
      /\ ApiTypeOK /\ CallInv(c)
    BY ApiInvByCall, SMTT(30) DEF Probe, Routed, dependencyVars
<1>3. /\ probes[c] \in Seq(BOOLEAN) /\ Len(probes[c]) \in Nat /\ DOMAIN probes[c] = 1 .. Len(probes[c])
      /\ probes'[c] = Append(probes[c], ok) /\ probes' \in [Calls -> Seq(BOOLEAN)]
    BY <1>1, <1>2, SMTT(30) DEF ApiTypeOK
<1>4. ApiTypeOK'
    BY <1>2, <1>3, SMTT(30) DEF ApiTypeOK
<1>5. ASSUME NEW d \in Calls, d # c
      PROVE  CallInv(d)'
    <2>1. Untouched(d)
        BY <1>1, <1>2, <1>5 DEF Untouched, ApiTypeOK
    <2> QED
        BY <1>2, <2>1, UntouchedKeeps, ApiInvByCall, Zenon
<1>6. status[c] = 0 /\ outcome[c] = "none" /\ request[c].path = "/health" /\ cpc[c] # "idle"
    BY <1>2, EndpointFacts, Zenon DEF Waiting, CallInv, SentIsRequest
<1>7. SentIsRequest(c)' /\ OutcomeIsHandlers(c)'
    BY <1>2, <1>6, SMTT(30) DEF CallInv, SentIsRequest, OutcomeIsHandlers
<1>8. StatusIsOutcome(c)' /\ ResultIsStatus(c)'
    BY <1>2, SMTT(30) DEF CallInv, StatusIsOutcome, ResultIsStatus
<1>9. i \in DOMAIN Checks /\ Checks[i] \in Range(Checks)
    BY <1>2, <1>3, CheckFacts
<1>10. up \subseteq wasUp[c] /\ Range(Checks) \ up \subseteq wasDown[c]
    BY <1>2, <1>6, Zenon DEF CallInv, ProbedIsHistory
<1>11. cpc[c] = "done" => result[c] = "transport"
    BY <1>2, <1>6, Zenon DEF CallInv, ResultIsStatus
<1>12. IF ok THEN Checks[i] \in wasUp[c] ELSE Checks[i] \in wasDown[c] \/ result[c] = "transport"
    BY <1>1, <1>9, <1>10, <1>11, Zenon
<1>13. ASSUME NEW j \in DOMAIN probes'[c]
       PROVE  /\ j \in DOMAIN Checks
              /\ IF probes'[c][j] THEN Checks[j] \in wasUp[c]
                 ELSE Checks[j] \in wasDown[c] \/ result[c] = "transport"
    <2>1. (j \in DOMAIN probes[c] /\ probes'[c][j] = probes[c][j]) \/ (j = i /\ probes'[c][j] = ok)
        BY <1>3
    <2>2. CASE j \in DOMAIN probes[c] /\ probes'[c][j] = probes[c][j]
        BY <1>2, <2>2, Zenon DEF CallInv, ProbedIsHistory
    <2>3. CASE j = i /\ probes'[c][j] = ok
        BY <1>9, <1>12, <2>3, Zenon
    <2> QED
        BY <2>1, <2>2, <2>3, Zenon
<1>14. ProbedIsHistory(c)'
    BY <1>2, <1>6, <1>10, <1>13, Zenon DEF ProbedIsHistory
<1> QED
    BY <1>4, <1>5, <1>7, <1>8, <1>14, Zenon DEF ApiInv, CallInv

\* What the client makes of the response, or of its absence.
LEMMA ReturnStep ==
    ASSUME ApiInv, NEW c \in Calls, Receive(c) \/ GiveUp(c)
    PROVE  ApiInv'
<1>1. /\ cpc[c] = "sent" /\ cpc' = [cpc EXCEPT ![c] = "done"]
      /\ UNCHANGED <<credential, request, outcome, status, body, metered, up, changes, wasUp, wasDown, probes>>
      /\ ApiTypeOK /\ CallInv(c)
    BY ApiInvByCall, Zenon DEF Receive, GiveUp, healthVars, dependencyVars
<1>2. PICK r \in {"ok", "HTTPError", "ErrMethodNotAllowed", "decode", "transport"} :
          /\ result' = [result EXCEPT ![c] = r]
          /\ r # "transport" => status[c] # 0
          /\ r = "ok" => status[c] = 200
          /\ r = "decode" => status[c] = 200 /\ request[c].out \notin {"nothing", body[c]}
          /\ r \in {"HTTPError", "ErrMethodNotAllowed"} => status[c] # 200
    <2>1. CASE GiveUp(c)
        BY <2>1, Zenon DEF GiveUp
    <2>2. CASE Receive(c)
        <3>1. status[c] \in {200, 400, 401, 404, 405, 500, 503}
            BY <1>1, <2>2 DEF ApiTypeOK, Receive
        <3>2. CASE status[c] = 405
            <4>1. result' = [result EXCEPT ![c] = "ErrMethodNotAllowed"]
                BY <2>2, <3>2 DEF Receive
            <4> QED
                BY <3>2, <4>1
        <3>3. CASE status[c] # 405 /\ status[c] # 200
            <4>1. status[c] >= 400 /\ ~(status[c] < 400) /\ status[c] # 405
                BY <3>1, <3>3
            <4>2. result' = [result EXCEPT ![c] = "HTTPError"]
                BY <2>2, <4>1, Zenon DEF Receive
            <4> QED
                BY <3>1, <3>3, <4>2
        <3>4. CASE status[c] = 200 /\ request[c].out \in {"nothing", body[c]}
            <4>1. result' = [result EXCEPT ![c] = "ok"]
                BY <2>2, <3>4 DEF Receive
            <4> QED
                BY <3>4, <4>1
        <3>5. CASE status[c] = 200 /\ request[c].out \notin {"nothing", body[c]}
            <4>1. result' = [result EXCEPT ![c] = "decode"]
                BY <2>2, <3>5 DEF Receive
            <4> QED
                BY <3>5, <4>1
        <3> QED
            BY <3>2, <3>3, <3>4, <3>5, Zenon
    <2> QED
        BY <2>1, <2>2, Zenon
<1>3. cpc'[c] = "done" /\ result'[c] = r /\ result[c] = "none"
    BY <1>1, <1>2 DEF ApiTypeOK, CallInv, ResultIsStatus
<1>4. ApiTypeOK'
    BY <1>1, <1>2 DEF ApiTypeOK
<1>5. ASSUME NEW d \in Calls, d # c
      PROVE  CallInv(d)'
    <2>1. Untouched(d)
        BY <1>1, <1>2, <1>5 DEF Untouched, ApiTypeOK
    <2> QED
        BY <1>1, <2>1, UntouchedKeeps, ApiInvByCall
<1>6. SentIsRequest(c)'
    BY <1>1, <1>3, Zenon DEF CallInv, SentIsRequest
<1>7. OutcomeIsHandlers(c)' /\ StatusIsOutcome(c)'
    BY <1>1, Zenon DEF CallInv, OutcomeIsHandlers, StatusIsOutcome, Authenticated
<1>8. ResultIsStatus(c)'
    BY <1>1, <1>2, <1>3, Zenon DEF ResultIsStatus
<1>9. ProbedIsHistory(c)'
    <2>1. Failures(c)' = Failures(c) /\ Waiting(c)' = Waiting(c)
        BY <1>1, Zenon DEF Failures, Waiting
    <2> QED
        BY <1>1, <1>3, <2>1, Zenon DEF CallInv, ProbedIsHistory
<1> QED
    BY <1>4, <1>5, <1>6, <1>7, <1>8, <1>9, Zenon DEF ApiInv, CallInv

\* A dependency fails or recovers: the histories of the waiting health
\* requests follow, and only grow.
LEMMA DependencyStep ==
    ASSUME ApiInv, NEW d \in Range(Checks), DependencyChanges(d)
    PROVE  ApiInv'
<1> DEFINE Probing(c) == Waiting(c) /\ request[c].path = "/health"
<1>1. /\ changes' = changes + 1 /\ up' = (IF d \in up THEN up \ {d} ELSE up \cup {d})
      /\ wasUp' = [c \in Calls |-> IF Probing(c) THEN wasUp[c] \cup up' ELSE wasUp[c]]
      /\ wasDown' = [c \in Calls |-> IF Probing(c) THEN wasDown[c] \cup (Range(Checks) \ up') ELSE wasDown[c]]
      /\ UNCHANGED <<credential, cpc, request, outcome, status, body, metered, result, probes>>
      /\ ApiTypeOK
    BY Zenon DEF DependencyChanges, ApiInv
<1>2. up' \subseteq Range(Checks) /\ changes' \in Nat
    BY <1>1 DEF ApiTypeOK
<1>3. /\ wasUp' \in [Calls -> SUBSET Range(Checks)] /\ wasDown' \in [Calls -> SUBSET Range(Checks)]
    BY <1>1, <1>2 DEF ApiTypeOK
<1>4. ApiTypeOK'
    BY <1>1, <1>2, <1>3 DEF ApiTypeOK
<1>5. ASSUME NEW c \in Calls
      PROVE  CallInv(c)'
    <2>1. CallInv(c)
        BY ApiInvByCall, Zenon
    <2>2. /\ wasUp[c] \subseteq wasUp'[c] /\ wasDown[c] \subseteq wasDown'[c]
          /\ Probing(c) => up' \subseteq wasUp'[c] /\ Range(Checks) \ up' \subseteq wasDown'[c]
        BY <1>1, <1>2, Zenon
    <2>3. SentIsRequest(c)' /\ OutcomeIsHandlers(c)'
        BY <1>1, <2>1, Zenon DEF CallInv, SentIsRequest, OutcomeIsHandlers, Authenticated
    <2>4. StatusIsOutcome(c)' /\ ResultIsStatus(c)'
        BY <1>1, <2>1, Zenon DEF CallInv, StatusIsOutcome, ResultIsStatus
    <2>5. Failures(c)' = Failures(c) /\ Waiting(c)' = Waiting(c)
        BY <1>1, Zenon DEF Failures, Waiting
    <2>6. ProbedIsHistory(c)'
        BY <1>1, <2>1, <2>2, <2>5, Zenon DEF CallInv, ProbedIsHistory
    <2> QED
        BY <2>3, <2>4, <2>6 DEF CallInv
<1> QED
    BY <1>4, <1>5, Zenon DEF ApiInv, CallInv

\* Every step keeps the invariant.
LEMMA ApiStep ==
    ASSUME ApiInv, [Next]_vars
    PROVE  ApiInv'
<1>1. ApiTypeOK
    BY Zenon DEF ApiInv
<1>2. CASE UNCHANGED vars
    <2>1. ApiTypeOK'
        BY <1>1, <1>2 DEF ApiTypeOK, vars, healthVars, dependencyVars
    <2>2. UNCHANGED up /\ \A c \in Calls : Untouched(c)
        BY <1>2, Zenon DEF vars, healthVars, dependencyVars, Untouched
    <2> QED
        BY <2>1, <2>2, UntouchedKeeps, ApiInvByCall, Zenon DEF ApiInv, CallInv
<1>3. ASSUME NEW p \in Passwords, AddAuthorizationHeader(p)
      PROVE  ApiInv'
    <2>1. ApiTypeOK'
        BY <1>1, <1>3 DEF ApiTypeOK, AddAuthorizationHeader, healthVars, dependencyVars
    <2>2. UNCHANGED up /\ \A c \in Calls : Untouched(c)
        BY <1>3, Zenon DEF AddAuthorizationHeader, healthVars, dependencyVars, Untouched
    <2> QED
        BY <2>1, <2>2, UntouchedKeeps, ApiInvByCall, Zenon DEF ApiInv, CallInv
<1>4. ASSUME NEW c \in Calls, Serve(c)
      PROVE  ApiInv'
    BY <1>4, RefuseStep, HandledStep, ReportStep, PanickedStep, ProbeStep, Zenon DEF Serve
<1> QED
    BY <1>2, <1>3, <1>4, SendStep, ReturnStep, DependencyStep DEF Next

LEMMA ApiInitially ==
    ASSUME Init
    PROVE  ApiInv
<1>1. [service |-> "none", method |-> "none", path |-> "none", out |-> "none",
       credential |-> NoPassword] \in Requests
    BY Zenon DEF Requests
<1>2. ApiTypeOK
    BY <1>1, RequestsAssumption DEF Init, ApiTypeOK
<1>3. \A c \in Calls : SentIsRequest(c) /\ OutcomeIsHandlers(c)
    BY Zenon DEF Init, SentIsRequest, OutcomeIsHandlers
<1>4. \A c \in Calls : StatusIsOutcome(c) /\ ResultIsStatus(c)
    BY SMTT(30) DEF Init, StatusIsOutcome, ResultIsStatus, Payloads
<1>5. \A c \in Calls : ProbedIsHistory(c)
    BY DEF Init, ProbedIsHistory
<1> QED
    BY <1>2, <1>3, <1>4, <1>5, Zenon DEF ApiInv

-----------------------------------------------------------------------------
\* The response is decided by the endpoint, its authentication and its
\* handler, and the client's result by the response (client.go, middleware.go,
\* server.go, probing.go).
THEOREM ApiCorrect == Spec => []ApiInv
<1>1. ApiInv /\ [Next]_vars => ApiInv'
    BY ApiStep
<1> QED
    BY <1>1, ApiInitially, PTL DEF Spec

\* nil only from a payload, an error status only without one, and a payload
\* that does not decode is the list of notifications (client.go).
THEOREM ResultsAreOutcomes == Spec => []ResultIsOutcome
<1>1. ApiInv => ResultIsOutcome
    <2>1. SUFFICES ASSUME ApiInv, NEW c \in Calls
                   PROVE  /\ result[c] = "ok" => outcome[c] \in Payloads
                          /\ result[c] \in {"HTTPError", "ErrMethodNotAllowed"} => outcome[c] \notin Payloads
                          /\ result[c] = "decode" => request[c].path = "/notifications" /\ outcome[c] = "list"
        BY DEF ResultIsOutcome
    <2>2. CallInv(c)
        BY <2>1, ApiInvByCall, Zenon
    <2>3. ASSUME result[c] = "decode"
          PROVE  request[c].path = "/notifications" /\ outcome[c] = "list"
        <3>1. /\ outcome[c] \in Payloads /\ body[c] = outcome[c] /\ cpc[c] = "done"
              /\ request[c].out # "nothing" /\ request[c].out # outcome[c]
            BY <2>2, <2>3, <2>1 DEF CallInv, StatusIsOutcome, ResultIsStatus, ApiInv, ApiTypeOK
        <3>2. PICK m \in ClientMethods \cup {ListNotifications} :
                  m.method = request[c].method /\ m.path = request[c].path /\ m.out = request[c].out
            BY <2>2, <3>1, Zenon DEF CallInv, SentIsRequest
        <3>3. PICK e \in Endpoints(request[c].service) :
                  e.path = request[c].path /\ e.method = request[c].method /\ outcome[c] \in Outcomes(e.handler)
            BY <2>2, <3>1, Zenon DEF CallInv, OutcomeIsHandlers, Payloads
        <3>4. e \in AllEndpoints
            BY EndpointFacts, Zenon
        <3> QED
            BY <3>1, <3>2, <3>3, <3>4, MethodFacts, SMTT(30)
    <2> QED
        BY <2>2, <2>3, Zenon DEF CallInv, StatusIsOutcome, ResultIsStatus
<1> QED
    BY <1>1, ApiCorrect, PTL

\* Whoever is not counted has met a panic, or has no answer (middleware.go
\* Observer).
THEOREM UnmeteredArePanics == Spec => []UnmeteredIsPanic
<1>1. ApiInv => UnmeteredIsPanic
    BY DEF ApiInv, UnmeteredIsPanic, StatusIsOutcome, ResultIsStatus
<1> QED
    BY <1>1, ApiCorrect, PTL

\* A health probe tells the truth about the time it took (probing.go
\* HealthHandler, cmd/health.go).
THEOREM HealthTellsTheTruth == Spec => []HealthIsTrue
<1>1. ApiInv => HealthIsTrue
    <2>1. SUFFICES ASSUME ApiInv, NEW c \in Calls, request[c].path = "/health"
                   PROVE  /\ HealthCmd(c) => wasUp[c] = Range(Checks)
                          /\ result[c] = "ok" => HealthCmd(c)
                          /\ result[c] = "HTTPError" => wasDown[c] # {}
        BY DEF HealthIsTrue
    <2>2. CallInv(c) /\ ApiTypeOK
        BY <2>1, ApiInvByCall, SMTT(30)
    <2>3. ASSUME result[c] \in {"ok", "HTTPError"}
          PROVE  /\ status[c] # 0 /\ Len(probes[c]) = Len(Checks)
                 /\ outcome[c] = IF Failures(c) = {} THEN "object" ELSE "unhealthy"
        BY <2>1, <2>2, <2>3 DEF CallInv, ResultIsStatus, ProbedIsHistory
    <2>4. ASSUME result[c] = "ok"
          PROVE  HealthCmd(c)
        <3>1. outcome[c] \in Payloads
            BY <2>2, <2>4, Zenon DEF CallInv, ResultIsStatus, StatusIsOutcome
        <3> QED
            BY <2>1, <2>3, <2>4, <3>1, Zenon DEF HealthCmd, Payloads
    <2>5. ASSUME HealthCmd(c)
          PROVE  wasUp[c] = Range(Checks)
        <3>1. Failures(c) = {} /\ DOMAIN probes[c] = {1, 2}
            BY <2>2, <2>3, <2>5, CheckFacts DEF HealthCmd, ApiTypeOK
        <3>2. probes[c][1] /\ probes[c][2]
            BY <3>1, Zenon DEF Failures
        <3>3. Checks[1] \in wasUp[c] /\ Checks[2] \in wasUp[c]
            BY <2>2, <3>1, <3>2, Zenon DEF CallInv, ProbedIsHistory
        <3> QED
            BY <2>2, <3>3, CheckFacts DEF Range, ApiTypeOK
    <2>6. ASSUME result[c] = "HTTPError"
          PROVE  wasDown[c] # {}
        <3>1. outcome[c] \notin Payloads
            BY <2>2, <2>6, Zenon DEF CallInv, ResultIsStatus, StatusIsOutcome
        <3>2. PICK i \in DOMAIN probes[c] : ~probes[c][i]
            BY <2>3, <2>6, <3>1 DEF Failures, Payloads
        <3> QED
            BY <2>2, <2>6, <3>2, Zenon DEF CallInv, ProbedIsHistory
    <2> QED
        BY <2>4, <2>5, <2>6
<1> QED
    BY <1>1, ApiCorrect, PTL

=============================================================================
