------------------------- MODULE RequestPipelineProofs -------------------------
(* Theorems about RequestPipeline, for any clients, addresses, inputs and quota. *)
EXTENDS RequestPipeline, TLAPS

-----------------------------------------------------------------------------
(* The inductive invariant.                                                 *)

\* How far a request is tells whether it has an answer and whether its handler ran.
StageInv ==
    \A r \in Requests :
        /\ pc[r] \in {"idle", "reading"} => r \notin handled
        /\ pc[r] \in {"idle", "reading", "handling"} => answer[r] = null
        /\ pc[r] \in {"reading", "handling"} => req[r] \in Inputs
        /\ pc[r] = "handling" => req[r].route \in Shipments
        /\ answer[r] \in {badRequest, tooManyRequests} => r \notin handled

Inv ==
    /\ TypeOK
    /\ HandlersSeeCheckedInput
    /\ WindowQuota
    /\ StageInv

\* The answers that the stages before the handlers give.
LEMMA EarlyAnswers ==
    /\ ok(200) \in Answers /\ ok(503) \in Answers /\ badRequest \in Answers
    /\ notFound \in Answers /\ tooManyRequests \in Answers /\ internal \in Answers
    /\ {ok(200), ok(503), notFound, internal} \cap {badRequest, tooManyRequests} = {}
BY DEF Answers, ok, badRequest, notFound, tooManyRequests, internal

\* No handler answers what a validator or the limiter answers.
LEMMA OutcomesAreAnswers ==
    ASSUME NEW input, input.route \in Shipments
    PROVE  Outcomes(input) \subseteq Answers \ {badRequest, tooManyRequests}
BY DEF Outcomes, Shipments, Answers, ok, badRequest, invalidStatusTransition, notFound,
       conflict, tooManyRequests, internal

\* The server starts in a state of the invariant.
LEMMA InitInv == Init => Inv
BY PipelineAssumption, NullAssumption, EarlyAnswers
   DEF Init, Inv, TypeOK, HandlersSeeCheckedInput, WindowQuota, StageInv

\* A request that arrives is counted once and let through or refused.
LEMMA ArriveInv ==
    ASSUME Inv, NEW r \in Requests, NEW input \in Inputs, arrive(r, input)
    PROVE  Inv'
<1> DEFINE a == AddressOf[input.client]
<1>1. a \in Addresses /\ input.client \in Clients
    BY PipelineAssumption
<1>2. CASE input.route = "preflight" /\ settle(r, ok(200)) /\ UNCHANGED limiter
  <2>1. TypeOK'
      BY <1>2, EarlyAnswers DEF arrive, settle, limiter, Inv, TypeOK
  <2>2. HandlersSeeCheckedInput' /\ WindowQuota'
      BY <1>2 DEF arrive, settle, limiter, Inv, TypeOK, HandlersSeeCheckedInput, WindowQuota
  <2>3. StageInv'
      BY <1>2, EarlyAnswers, NullAssumption DEF arrive, settle, Inv, TypeOK, StageInv
  <2> QED BY <2>1, <2>2, <2>3 DEF Inv
<1>3. CASE /\ hits[a] < MaxHits /\ overQuota(hits[a] + 1)
           /\ hits' = [hits EXCEPT ![a] = @ + 1]
           /\ sent' = [sent EXCEPT ![input.client] = @ + 1]
           /\ settle(r, tooManyRequests) /\ UNCHANGED admitted
  <2>1. TypeOK'
      BY <1>1, <1>3, EarlyAnswers, PipelineAssumption DEF arrive, settle, Inv, TypeOK
  <2>2. HandlersSeeCheckedInput'
      BY <1>3 DEF arrive, settle, Inv, TypeOK, HandlersSeeCheckedInput
  <2>3. WindowQuota'
      BY <1>1, <1>3, PipelineAssumption DEF overQuota, Inv, TypeOK, WindowQuota
  <2>4. StageInv'
      BY <1>3, EarlyAnswers, NullAssumption DEF arrive, settle, Inv, TypeOK, StageInv
  <2> QED BY <2>1, <2>2, <2>3, <2>4 DEF Inv
<1>4. CASE /\ hits[a] < MaxHits /\ ~overQuota(hits[a] + 1)
           /\ hits' = [hits EXCEPT ![a] = @ + 1]
           /\ sent' = [sent EXCEPT ![input.client] = @ + 1]
           /\ admitted' = [admitted EXCEPT ![a] = @ + 1]
           /\ pc' = [pc EXCEPT ![r] = "reading"] /\ UNCHANGED answer
  <2>1. TypeOK'
      BY <1>1, <1>4, PipelineAssumption DEF arrive, Inv, TypeOK
  <2>2. HandlersSeeCheckedInput'
      BY <1>4 DEF arrive, Inv, TypeOK, HandlersSeeCheckedInput
  <2>3. WindowQuota'
    <3>1. hits[a] < rateLimitMaxRequests /\ admitted[a] = hits[a] /\ hits[a] \in Nat
        BY <1>1, <1>4, PipelineAssumption DEF overQuota, Inv, TypeOK, WindowQuota
    <3>2. admitted'[a] = hits'[a] /\ hits'[a] \in Nat /\ hits'[a] <= rateLimitMaxRequests
        BY <1>1, <1>4, <3>1, PipelineAssumption DEF Inv, TypeOK
    <3>3. \A b \in Addresses \ {a} : admitted'[b] = admitted[b] /\ hits'[b] = hits[b]
        BY <1>1, <1>4 DEF Inv, TypeOK
    <3> QED BY <3>2, <3>3, PipelineAssumption DEF Inv, WindowQuota
  <2>4. StageInv'
      BY <1>4 DEF arrive, Inv, TypeOK, StageInv
  <2> QED BY <2>1, <2>2, <2>3, <2>4 DEF Inv
<1> QED BY <1>2, <1>3, <1>4 DEF arrive, rateLimit, count, admit

\* Parsing the body and dispatching: answered without a handler, or handed to one with
\* input its validators accept.
LEMMA ReadInv ==
    ASSUME Inv, NEW r \in Requests, read(r)
    PROVE  Inv'
<1>1. req[r] \in Inputs /\ pc[r] = "reading" /\ r \notin handled /\ UNCHANGED <<limiter, req>>
    BY DEF read, Inv, StageInv
<1>2. CASE /\ \E a \in {ok(200), ok(503), notFound, internal, badRequest} : settle(r, a)
           /\ UNCHANGED handled
  <2>1. PICK a \in {ok(200), ok(503), notFound, internal, badRequest} : settle(r, a)
      BY <1>2
  <2>2. TypeOK'
      BY <1>1, <1>2, <2>1, EarlyAnswers DEF settle, limiter, Inv, TypeOK
  <2>3. HandlersSeeCheckedInput' /\ WindowQuota'
      BY <1>1, <2>1
      DEF settle, limiter, Inv, TypeOK, HandlersSeeCheckedInput, WindowQuota
  <2>4. StageInv'
      BY <1>1, <1>2, <2>1 DEF settle, Inv, TypeOK, StageInv
  <2> QED BY <2>2, <2>3, <2>4 DEF Inv
<1>3. CASE /\ req[r].route \in Shipments
           /\ req[r].faults \cap Validators[req[r].route] = {}
           /\ pc' = [pc EXCEPT ![r] = "handling"]
           /\ handled' = handled \cup {r}
           /\ UNCHANGED answer
  <2>1. TypeOK' /\ WindowQuota'
      BY <1>1, <1>3 DEF limiter, Inv, TypeOK, WindowQuota
  <2>2. HandlersSeeCheckedInput'
      BY <1>1, <1>3 DEF Inv, TypeOK, HandlersSeeCheckedInput, Reads, Validators
  <2>3. StageInv'
      BY <1>1, <1>3, NullAssumption, EarlyAnswers DEF Inv, TypeOK, StageInv
  <2> QED BY <2>1, <2>2, <2>3 DEF Inv
<1> QED BY <1>2, <1>3 DEF read, dispatch, validateRequest, normalizeError

\* A handler gives one of its answers.
LEMMA HandleInv ==
    ASSUME Inv, NEW r \in Requests, handle(r)
    PROVE  Inv'
<1>1. req[r].route \in Shipments
    BY DEF handle, Inv, StageInv
<1>2. PICK a \in Answers \ {badRequest, tooManyRequests} : settle(r, a)
    BY <1>1, OutcomesAreAnswers DEF handle
<1>3. TypeOK'
    BY <1>2 DEF handle, settle, limiter, Inv, TypeOK
<1>4. HandlersSeeCheckedInput' /\ WindowQuota'
    BY <1>2 DEF handle, settle, limiter, Inv, TypeOK, HandlersSeeCheckedInput, WindowQuota
<1>5. StageInv'
    BY <1>2 DEF handle, settle, Inv, TypeOK, StageInv
<1> QED BY <1>3, <1>4, <1>5 DEF Inv

\* A client that has its answer makes room for another request.
LEMMA LeaveInv ==
    ASSUME Inv, NEW r \in Requests, leave(r)
    PROVE  Inv'
<1>1. TypeOK' /\ WindowQuota'
    BY DEF leave, limiter, Inv, TypeOK, WindowQuota
<1>2. HandlersSeeCheckedInput'
    BY DEF leave, Inv, TypeOK, HandlersSeeCheckedInput
<1>3. StageInv'
    BY EarlyAnswers, NullAssumption DEF leave, Inv, TypeOK, StageInv
<1> QED BY <1>1, <1>2, <1>3 DEF Inv

\* The end of a window resets the counts of its address and no other.
LEMMA WindowEndsInv ==
    ASSUME Inv, NEW a \in Addresses, windowEnds(a)
    PROVE  Inv'
<1>1. TypeOK'
    BY PipelineAssumption DEF windowEnds, Inv, TypeOK
<1>2. WindowQuota'
    BY PipelineAssumption DEF windowEnds, Inv, TypeOK, WindowQuota
<1>3. HandlersSeeCheckedInput' /\ StageInv'
    BY DEF windowEnds, Inv, HandlersSeeCheckedInput, StageInv
<1> QED BY <1>1, <1>2, <1>3 DEF Inv

\* The inductive invariant: how far a request is tells whether it was answered and
\* whether its handler ran, and the limiter's counters tell how many were let through.
THEOREM SpecInv == Spec => []Inv
<1>1. Inv /\ UNCHANGED vars => Inv'
    BY DEF vars, limiter, Inv, TypeOK, HandlersSeeCheckedInput, WindowQuota, StageInv
<1>2. Inv /\ [Next]_vars => Inv'
    BY <1>1, ArriveInv, ReadInv, HandleInv, LeaveInv, WindowEndsInv DEF Next
<1> QED BY InitInv, <1>2, PTL DEF Spec

\* Every answer is one the API documents.
THEOREM SpecTypeOK == Spec => []TypeOK
BY SpecInv, PTL DEF Inv

\* Whatever a controller method reads of its request has passed a validator.
THEOREM SpecHandlersSeeCheckedInput == Spec => []HandlersSeeCheckedInput
BY SpecInv, PTL DEF Inv

\* A request the validators or the limiter refused is never handled, and none is
\* answered twice.
THEOREM SpecRejectedIsNotHandled == Spec => []RejectedIsNotHandled
<1>1. Inv => RejectedIsNotHandled
    BY DEF Inv, TypeOK, StageInv, RejectedIsNotHandled
<1> QED BY SpecInv, <1>1, PTL

\* In each window an address gets its whole quota and no more.
THEOREM SpecWindowQuota == Spec => []WindowQuota
BY SpecInv, PTL DEF Inv

-----------------------------------------------------------------------------
(* Answers and inputs.                                                      *)

\* What is looked at before a shipment handler runs: the body as text, the path, then the
\* fields of both.
Checked(route) == Validators[route] \cup {"unreadable", "json", "uri"}

\* Only requests with a fault that is looked for are told so, and those that get any
\* answer of a handler but 500 have none.
AnswersFitInput ==
    \A r \in Requests :
        answer[r] # null /\ req[r].route \in Shipments =>
            LET wrong == req[r].faults \cap Checked(req[r].route) IN
            /\ answer[r] = badRequest => wrong # {}
            /\ answer[r] \notin {badRequest, tooManyRequests, internal} => wrong = {}

\* It is inductive with what is known of requests whose handler runs.
FitInv ==
    /\ AnswersFitInput
    /\ \A r \in Requests :
          pc[r] = "handling" => req[r].faults \cap Checked(req[r].route) = {}

\* The parser and the validators answer 400 to what they find wrong, and hand on the rest.
LEMMA ReadFits ==
    ASSUME Inv, FitInv, NEW r \in Requests, read(r)
    PROVE  FitInv'
<1> DEFINE wrong == req[r].faults \cap Checked(req[r].route)
<1>1. /\ req' = req /\ pc[r] = "reading"
      /\ \A s \in Requests \ {r} : pc'[s] = pc[s] /\ answer'[s] = answer[s]
    BY DEF read, dispatch, validateRequest, settle, Inv, TypeOK
<1>2. \/ \E a \in {badRequest, internal} :
            settle(r, a) /\ (req[r].route \in Shipments => wrong # {})
      \/ (\E a \in Answers : settle(r, a)) /\ req[r].route \notin Shipments
      \/ wrong = {} /\ pc' = [pc EXCEPT ![r] = "handling"] /\ UNCHANGED answer
  <2>1. CASE \E fault \in req[r].faults \cap {"unreadable", "json"} : settle(r, normalizeError(fault))
      BY <2>1 DEF normalizeError, Checked
  <2>2. CASE /\ req[r].faults \cap {"unreadable", "json"} = {} /\ "uri" \notin req[r].faults
             /\ req[r].route \in Shipments
             /\ validateRequest(r, req[r].faults \cap Validators[req[r].route] # {})
      BY <2>2 DEF validateRequest, Checked
  <2>3. CASE \E a \in {ok(200), ok(503), notFound} :
               settle(r, a) /\ req[r].route \in {"health", "root", "unknown"}
      BY <2>3, EarlyAnswers DEF Shipments
  <2>4. CASE "uri" \in req[r].faults /\ settle(r, internal)
      BY <2>4 DEF Checked
  <2> QED BY <2>1, <2>2, <2>3, <2>4 DEF read, dispatch
<1>3. CASE \E a \in {badRequest, internal} :
             settle(r, a) /\ (req[r].route \in Shipments => wrong # {})
    BY <1>1, <1>3, EarlyAnswers DEF settle, Inv, TypeOK, FitInv, AnswersFitInput
<1>4. CASE (\E a \in Answers : settle(r, a)) /\ req[r].route \notin Shipments
    BY <1>1, <1>4 DEF settle, Inv, TypeOK, FitInv, AnswersFitInput
<1>5. CASE wrong = {} /\ pc' = [pc EXCEPT ![r] = "handling"] /\ UNCHANGED answer
    BY <1>1, <1>5 DEF Inv, TypeOK, FitInv, AnswersFitInput
<1> QED BY <1>2, <1>3, <1>4, <1>5

\* A client told that its request is invalid sent something invalid, and whoever gets
\* another answer than 400, 429 and 500 about a shipment sent nothing invalid.
THEOREM SpecAnswersFitInput == Spec => []AnswersFitInput
<1>1. Init => FitInv
    BY DEF Init, FitInv, AnswersFitInput
<1>2. Inv /\ FitInv /\ [Next]_vars => FitInv'
  <2> SUFFICES ASSUME Inv, FitInv, [Next]_vars PROVE FitInv'
      OBVIOUS
  <2>1. ASSUME NEW r \in Requests, NEW input \in Inputs, arrive(r, input) PROVE FitInv'
    <3>1. \/ input.route \notin Shipments /\ (\E a \in Answers : settle(r, a))
          \/ settle(r, tooManyRequests)
          \/ pc' = [pc EXCEPT ![r] = "reading"] /\ UNCHANGED answer
        BY <2>1, EarlyAnswers DEF arrive, rateLimit, count, admit, Shipments
    <3>2. tooManyRequests # badRequest
        BY DEF tooManyRequests, badRequest
    <3>3. answer[r] = null
        BY <2>1 DEF arrive, Inv, StageInv
    <3> QED BY <2>1, <3>1, <3>2, <3>3 DEF arrive, settle, Inv, TypeOK, FitInv, AnswersFitInput
  <2>2. ASSUME NEW r \in Requests, handle(r) PROVE FitInv'
    <3>1. req[r].route \in Shipments /\ req[r].faults \cap Checked(req[r].route) = {}
        BY <2>2 DEF handle, Inv, StageInv, FitInv
    <3>2. PICK a \in Answers \ {badRequest, tooManyRequests} : settle(r, a)
        BY <2>2, <3>1, OutcomesAreAnswers DEF handle
    <3> QED BY <2>2, <3>1, <3>2 DEF handle, settle, Inv, TypeOK, FitInv, AnswersFitInput
  <2>3. ASSUME NEW r \in Requests, leave(r) PROVE FitInv'
      BY <2>3 DEF leave, Inv, TypeOK, FitInv, AnswersFitInput
  <2>4. CASE \/ \E a \in Addresses : windowEnds(a)
             \/ UNCHANGED vars
      BY <2>4 DEF windowEnds, vars, FitInv, AnswersFitInput
  <2> QED BY <2>1, <2>2, <2>3, <2>4, ReadFits DEF Next
<1>3. FitInv => AnswersFitInput
    BY DEF FitInv
<1> QED BY <1>1, <1>2, <1>3, SpecInv, PTL DEF Spec

-----------------------------------------------------------------------------
(* Quotas and clients.                                                      *)

\* What the limiter counts for an address is what its client sent.
CountedForItsClient == \A c \in Clients : hits[AddressOf[c]] = sent[c]

\* Where every client comes from an address of its own, no client is refused on account
\* of another: sharing a peer, as behind a proxy, is all that breaks the documented quota.
THEOREM SpecQuotaIsPerClient ==
    ASSUME \A c, d \in Clients : AddressOf[c] = AddressOf[d] => c = d
    PROVE  Spec => []QuotaIsPerClient
<1>1. Init => CountedForItsClient
    BY PipelineAssumption DEF Init, CountedForItsClient
<1>2. Inv /\ CountedForItsClient /\ [Next]_vars => CountedForItsClient'
  <2> SUFFICES ASSUME Inv, CountedForItsClient, [Next]_vars PROVE CountedForItsClient'
      OBVIOUS
  <2>1. ASSUME NEW r \in Requests, NEW input \in Inputs, arrive(r, input)
        PROVE  CountedForItsClient'
    <3> DEFINE a == AddressOf[input.client]
    <3>1. CASE /\ hits' = [hits EXCEPT ![a] = @ + 1]
               /\ sent' = [sent EXCEPT ![input.client] = @ + 1]
      <4>1. input.client \in Clients
          BY PipelineAssumption
      <4>2. ASSUME NEW c \in Clients PROVE hits'[AddressOf[c]] = sent'[c]
        <5>1. CASE c = input.client
            BY <3>1, <4>1, <5>1, PipelineAssumption DEF CountedForItsClient, Inv, TypeOK
        <5>2. CASE c # input.client
            BY <3>1, <4>1, <5>2, PipelineAssumption DEF CountedForItsClient, Inv, TypeOK
        <5> QED BY <5>1, <5>2
      <4> QED BY <4>2 DEF CountedForItsClient
    <3>2. CASE UNCHANGED limiter
        BY <3>2 DEF limiter, CountedForItsClient
    <3> QED BY <2>1, <3>1, <3>2 DEF arrive, rateLimit, count
  <2>2. ASSUME NEW a \in Addresses, windowEnds(a) PROVE CountedForItsClient'
      BY <2>2, PipelineAssumption DEF windowEnds, CountedForItsClient, Inv, TypeOK
  <2>3. CASE \/ \E r \in Requests : read(r) \/ handle(r) \/ leave(r)
             \/ UNCHANGED vars
      BY <2>3 DEF read, handle, leave, vars, limiter, CountedForItsClient
  <2> QED BY <2>1, <2>2, <2>3 DEF Next
<1>3. CountedForItsClient => QuotaIsPerClient
    BY DEF CountedForItsClient, QuotaIsPerClient
<1> QED BY <1>1, <1>2, <1>3, SpecInv, PTL DEF Spec

=============================================================================
