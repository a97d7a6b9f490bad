--------------------------- MODULE MCRequestPipeline ---------------------------
(* RequestPipeline for TLC. *)
EXTENDS RequestPipeline, TLC

CONSTANTS c1, c2, proxy

\* Every part of a request that the pipeline looks at, right and wrong, alone and for an
\* update together; c2 sends correct requests only.
Sound == [route : Routes, faults : {{}}]

Faulty ==
    [route : {"getById", "delete"}, faults : {{"params"}, {"uri"}}]
    \cup [route : {"unknown"}, faults : {{"uri"}}]
    \cup [route : {"list"}, faults : {{"query"}, {"regex"}}]
    \cup [route : {"create"}, faults : {{"body"}, {"json"}, {"unreadable"}}]
    \cup [route : {"update"}, faults : {{"params"}, {"body"}, {"params", "body"}, {"body", "uri"}}]

From(c, inputs) == {[client |-> c, route |-> i.route, faults |-> i.faults] : i \in inputs}

MCInputs == From(c1, Sound \cup Faulty) \cup From(c2, {[route |-> "delete", faults |-> {}]})

\* c1 is connected directly, c2 through a proxy; or both through it.
MCDirect  == (c1 :> c1) @@ (c2 :> proxy)
MCProxied == (c1 :> proxy) @@ (c2 :> proxy)

=============================================================================
