---------------------------- MODULE RequestPipeline ----------------------------
(***************************************************************************)
(* What a request passes before a shipment handler sees it, and how it is  *)
(* answered if none does: CORS, the rate limiter, the body parser, the     *)
(* routes with their validators, the 404 handler and the error handler.    *)
(* What the handlers do is ShipmentService and ShipmentListing; here they  *)
(* settle with any answer they can give.                                   *)
(***************************************************************************)
EXTENDS Naturals

CONSTANTS
    Requests,      \* requests under way at a time
    Clients,       \* machines that send requests
    Addresses,     \* peers of the server's sockets
    AddressOf,     \* the peer a client's requests come from: itself or a proxy
    Inputs,        \* what clients send: [client, route, faults]
    rateLimitMaxRequests,
    MaxHits,       \* bound: requests of one address in one window
    null

Shipments == {"list", "getById", "create", "update", "delete"}
Routes    == Shipments \cup {"preflight", "health", "root", "unknown"}

\* What may be wrong with a request.  "regex" is a search text that Joi accepts and
\* MongoDB does not, such as a lone parenthesis; "uri" an :id that cannot be decoded;
\* "unreadable" a body that the parser refuses before it looks for JSON: too large, cut
\* off, or in a charset or an encoding it does not know.
Faults == {"params", "query", "body", "json", "unreadable", "uri", "regex"}

ASSUME PipelineAssumption ==
    /\ AddressOf \in [Clients -> Addresses]
    /\ Inputs \subseteq [client : Clients, route : Routes, faults : SUBSET Faults]
    /\ rateLimitMaxRequests \in Nat /\ MaxHits \in Nat

VARIABLES
    hits,      \* the limiter's counter for each address
    pc,        \* a request: "idle", "reading", "handling" or "answered"
    req,       \* what it asks for and from whom, or null
    answer,    \* its answer, or null
    admitted,  \* history: requests of each address let through in its window
    sent,      \* history: requests of each client in its address's window
    handled    \* history: requests whose shipment handler ran

limiter == <<hits, admitted, sent>>
vars    == <<limiter, pc, req, answer, handled>>

Init ==
    /\ hits = [a \in Addresses |-> 0] /\ admitted = hits
    /\ sent = [c \in Clients |-> 0]
    /\ pc = [r \in Requests |-> "idle"]
    /\ req = [r \in Requests |-> null] /\ answer = req
    /\ handled = {}

-----------------------------------------------------------------------------
(* Answers.                                                                 *)

ok(status)              == [status |-> status, code |-> "none"]
badRequest              == [status |-> 400, code |-> "VALIDATION_ERROR"]
invalidStatusTransition == [status |-> 400, code |-> "INVALID_STATUS_TRANSITION"]
notFound                == [status |-> 404, code |-> "RESOURCE_NOT_FOUND"]
conflict                == [status |-> 409, code |-> "DUPLICATE_ENTRY"]
tooManyRequests         == [status |-> 429, code |-> "RATE_LIMIT_EXCEEDED"]
internal                == [status |-> 500, code |-> "INTERNAL_ERROR"]

Answers ==
    {ok(200), ok(201), ok(503), badRequest, invalidStatusTransition, notFound, conflict,
     tooManyRequests, internal}

ASSUME NullAssumption == null \notin Inputs \cup Answers

\* Mutant: the parser's own status and type are passed on.
normalizeErrorRaw(fault) ==
    IF fault = "json" THEN badRequest ELSE [status |-> 413, code |-> "entity.too.large"]

\* How an error of the body parser is answered: a SyntaxError is known to normalizeError,
\* no other is.
normalizeError(fault) == IF fault = "json" THEN badRequest ELSE internal

-----------------------------------------------------------------------------
(* The routes.                                                              *)

\* What each handler of the controller reads of its request.
Reads ==
    [list |-> {"query"}, getById |-> {"params"}, create |-> {"body"},
     update |-> {"params", "body"}, delete |-> {"params"}]

\* Mutant: PUT without its validateBody.
ValidatorsUpdateBodyMissing ==
    [list |-> {"query"}, getById |-> {"params"}, create |-> {"body"},
     update |-> {"params"}, delete |-> {"params"}]

\* What the validators registered for each route check.
Validators ==
    [list |-> {"query"}, getById |-> {"params"}, create |-> {"body"},
     update |-> {"params", "body"}, delete |-> {"params"}]

\* What a handler may answer.
Outcomes(input) ==
    IF "regex" \in input.faults /\ input.route = "list" THEN {internal}
    ELSE {internal} \cup
         CASE input.route = "list"    -> {ok(200)}
           [] input.route = "getById" -> {ok(200), notFound}
           [] input.route = "create"  -> {ok(201), conflict}
           [] input.route = "update"  -> {ok(200), notFound, invalidStatusTransition}
           [] input.route = "delete"  -> {ok(200), notFound}

-----------------------------------------------------------------------------
(* A request.                                                               *)

settle(r, a) ==
    /\ pc' = [pc EXCEPT ![r] = "answered"]
    /\ answer' = [answer EXCEPT ![r] = a]

overQuota(n) == n > rateLimitMaxRequests

\* The limiter lets a request through.
admit(r, input) ==
    /\ admitted' = [admitted EXCEPT ![AddressOf[input.client]] = @ + 1]
    /\ pc' = [pc EXCEPT ![r] = "reading"]
    /\ UNCHANGED answer

\* The limiter counts a request, whatever it asks for, and refuses it over the quota.
count(r, input) ==
    LET a == AddressOf[input.client] IN
    /\ hits[a] < MaxHits
    /\ hits' = [hits EXCEPT ![a] = @ + 1]
    /\ \/ /\ overQuota(hits[a] + 1)
          /\ settle(r, tooManyRequests)
          /\ UNCHANGED admitted
       \/ /\ ~overQuota(hits[a] + 1)
          /\ admit(r, input)

\* Mutant: the health routes are mounted before the limiter.
rateLimitBehindHealth(r, input) ==
    /\ input.route # "preflight"
    /\ \/ input.route = "health" /\ admit(r, input) /\ UNCHANGED hits
       \/ input.route # "health" /\ count(r, input)

\* Every request but a preflight meets the limiter before anything else.
rateLimit(r, input) == input.route # "preflight" /\ count(r, input)

\* A request arrives; cors ends a preflight.
arrive(r, input) ==
    /\ pc[r] = "idle"
    /\ req' = [req EXCEPT ![r] = input]
    /\ UNCHANGED handled
    /\ \/ /\ input.route = "preflight"
          /\ settle(r, ok(200))
          /\ UNCHANGED limiter
       \/ /\ rateLimit(r, input)
          /\ sent' = [sent EXCEPT ![input.client] = @ + 1]

\* Mutant: the return after next(error) forgotten, so the handler runs as well.
validateRequestFallsThrough(r, invalid) ==
    IF invalid
    THEN /\ answer' = [answer EXCEPT ![r] = badRequest]
         /\ pc' = [pc EXCEPT ![r] = "handling"]
         /\ handled' = handled \cup {r}
    ELSE /\ pc' = [pc EXCEPT ![r] = "handling"]
         /\ handled' = handled \cup {r}
         /\ UNCHANGED answer

\* An invalid request goes to the error handler, a valid one to the controller.
validateRequest(r, invalid) ==
    IF invalid
    THEN settle(r, badRequest) /\ UNCHANGED handled
    ELSE /\ pc' = [pc EXCEPT ![r] = "handling"]
         /\ handled' = handled \cup {r}
         /\ UNCHANGED answer

\* Mutant: no 404 handler behind the routes and none of Express's own.
dispatchUnmatched(r) ==
    IF req[r].route \in Shipments
    THEN validateRequest(r, req[r].faults \cap Validators[req[r].route] # {})
    ELSE UNCHANGED <<pc, answer, handled>>

\* The routes, in the turn in which the body is parsed.  Express decodes an :id before
\* any validator sees it.
dispatch(r) ==
    \/ /\ "uri" \in req[r].faults
       /\ settle(r, internal)
       /\ UNCHANGED handled
    \/ /\ "uri" \notin req[r].faults /\ req[r].route \in Shipments
       /\ validateRequest(r, req[r].faults \cap Validators[req[r].route] # {})
    \/ /\ req[r].route = "health"
       /\ \E status \in {200, 503} : settle(r, ok(status))
       /\ UNCHANGED handled
    \/ /\ req[r].route = "root"
       /\ settle(r, ok(200))
       /\ UNCHANGED handled
    \/ /\ "uri" \notin req[r].faults /\ req[r].route = "unknown"
       /\ settle(r, notFound)
       /\ UNCHANGED handled

\* The body is there (at once, if there is none), and the parser takes or refuses it.
read(r) ==
    /\ pc[r] = "reading"
    /\ \/ \E fault \in req[r].faults \cap {"unreadable", "json"} :
              settle(r, normalizeError(fault)) /\ UNCHANGED handled
       \/ req[r].faults \cap {"unreadable", "json"} = {} /\ dispatch(r)
    /\ UNCHANGED <<limiter, req>>

\* The handler's promise settles.
handle(r) ==
    /\ pc[r] = "handling"
    /\ \E a \in Outcomes(req[r]) : settle(r, a)
    /\ UNCHANGED <<limiter, req, handled>>

\* The client has its answer.
leave(r) ==
    /\ pc[r] = "answered"
    /\ pc' = [pc EXCEPT ![r] = "idle"]
    /\ req' = [req EXCEPT ![r] = null] /\ answer' = [answer EXCEPT ![r] = null]
    /\ handled' = handled \ {r}
    /\ UNCHANGED limiter

\* The window of an address ends; its next request begins another.
windowEnds(a) ==
    /\ hits[a] > 0
    /\ hits' = [hits EXCEPT ![a] = 0]
    /\ admitted' = [admitted EXCEPT ![a] = 0]
    /\ sent' = [c \in Clients |-> IF AddressOf[c] = a THEN 0 ELSE sent[c]]
    /\ UNCHANGED <<pc, req, answer, handled>>

Next ==
    \/ \E r \in Requests, input \in Inputs : arrive(r, input)
    \/ \E r \in Requests : read(r) \/ handle(r) \/ leave(r)
    \/ \E a \in Addresses : windowEnds(a)

Spec == Init /\ [][Next]_vars

\* Bodies arrive or their connection times out (requestTimeout of Node); handlers settle
\* (Answered of ShipmentService).
FairSpec == Spec /\ \A r \in Requests : WF_vars(read(r) \/ handle(r))

-----------------------------------------------------------------------------
(* Properties.                                                              *)

\* Every answer is one the API documents, among others.
TypeOK ==
    /\ hits \in [Addresses -> 0 .. MaxHits]
    /\ admitted \in [Addresses -> Nat] /\ sent \in [Clients -> Nat]
    /\ pc \in [Requests -> {"idle", "reading", "handling", "answered"}]
    /\ req \in [Requests -> Inputs \cup {null}]
    /\ answer \in [Requests -> Answers \cup {null}]
    /\ handled \subseteq Requests

\* What a controller method reads of its request (shipmentController.ts) has passed a
\* validator of its route (shipmentRoutes.ts): the services and the database see no other
\* input.
HandlersSeeCheckedInput ==
    \A r \in Requests :
        pc[r] = "handling" => req[r].faults \cap Reads[req[r].route] = {}

\* A request answered before its handler runs is never handled, and none is answered
\* twice: a client told 400 by a validator may be sure that nothing was written.
RejectedIsNotHandled ==
    \A r \in Requests :
        /\ answer[r] \in {badRequest, tooManyRequests} => r \notin handled
        /\ answer[r] # null => pc[r] = "answered"

\* However requests, slow bodies and ends of windows interleave, an address gets its whole
\* quota in each window and no more.
WindowQuota ==
    \A a \in Addresses :
        admitted[a] = IF hits[a] < rateLimitMaxRequests THEN hits[a] ELSE rateLimitMaxRequests

\* Every request let through is answered, whatever is wrong with it.
EveryRequestAnswered ==
    \A r \in Requests : pc[r] \in {"reading", "handling"} ~> pc[r] = "answered"

\* docs/API_DOCUMENTATION.md:26 "100 requests per window per IP": a client that has quota
\* left is not refused.
QuotaIsPerClient ==
    \A c \in Clients :
        sent[c] < rateLimitMaxRequests => hits[AddressOf[c]] < rateLimitMaxRequests
=============================================================================
