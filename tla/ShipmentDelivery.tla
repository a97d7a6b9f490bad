--------------------------- MODULE ShipmentDelivery ---------------------------
(***************************************************************************)
(* ShipmentService under the failures around it: the process ends and is   *)
(* started again, commands time out and are executed later, and the unique *)
(* index is built while requests are served.                               *)
(*                                                                         *)
(* A command the driver gave up on, or that was under way when the process *)
(* ended, may still be executed by MongoDB at any later moment, or never.  *)
(* Its client was answered 500 or saw its connection cut; it may send the  *)
(* request again or go on to another one.                                  *)
(***************************************************************************)
EXTENDS ShipmentService

CONSTANT MaxLost  \* bound: how often commands become late

ASSUME MaxLostAssumption == MaxLost \in Nat

VARIABLES
    process,  \* "up" or "down"
    index,    \* the unique index: "none", "built" or "failed" (until the next start)
    late,     \* commands no handler waits for any more
    lost,     \* how often commands became late
    sure,     \* history: clients whose request is for a shipment acknowledged before
    acked,    \* history: ids whose creation was answered 201
    refused,  \* history: ids whose creation was answered 4xx
    gone      \* history: ids of shipments a client was told are no longer there

told     == <<acked, refused, gone>>
failures == <<process, index, late, lost>>
allVars  == <<vars, failures, sure, told>>

LateCommands ==
    [command   : Commands \ {"findOne"},
     client    : Clients,
     nr        : 1 .. MaxLost,
     id        : Ids,
     body      : CreateBodies \cup UpdateBodies \cup {null},
     held      : Document \cup {null},
     stamp     : Instants,
     overtaken : BOOLEAN]

DeliveryTypeOK ==
    /\ TypeOK
    /\ process \in {"up", "down"}
    /\ index \in {"none", "built", "failed"}
    /\ late \subseteq LateCommands
    /\ lost \in 0 .. MaxLost
    /\ sure \subseteq Clients
    /\ acked \subseteq Ids /\ refused \subseteq Ids /\ gone \subseteq Ids
    /\ process = "down" => \A c \in Clients : pc[c] = "idle"

\* The process has just connected, to a new database or to one that has its index.
DeliveryInit ==
    /\ Init
    /\ process = "up" /\ index \in {"none", "built"}
    /\ late = {} /\ lost = 0
    /\ sure = {} /\ acked = {} /\ refused = {} /\ gone = {}

-----------------------------------------------------------------------------
(* Late commands.                                                           *)

\* The write commands of these clients' requests that are under way.
InFlight(clients) ==
    {[command |-> pc[c], client |-> c, nr |-> lost + 1, id |-> call[c].id,
      body |-> call[c].body, held |-> held[c], stamp |-> stamp[c],
      overtaken |-> overtaken[c]] :
        c \in {d \in clients : pc[d] \in Commands \ {"findOne"}}}

\* They are lost track of, but not undone.
LoseTrack(clients) ==
    /\ late' = late \cup InFlight(clients)
    /\ IF InFlight(clients) = {}
       THEN UNCHANGED lost
       ELSE lost < MaxLost /\ lost' = lost + 1

\* History: a step that changes a document overtakes the late commands for it.
Overtake(commands) ==
    late' = {[l EXCEPT !.overtaken = l.overtaken \/ docs'[l.id] # docs[l.id]] : l \in commands}

-----------------------------------------------------------------------------
(* Requests.                                                                *)

\* A client sends a request, a new one or one it was not told the outcome of.
request(c) ==
    /\ process = "up"
    /\ clientStep(c)
    /\ sure' = IF call'[c].id \in acked THEN sure \cup {c} ELSE sure
    /\ UNCHANGED <<failures, told>>

\* A handler goes on, or MongoDB executes its command.
serve(c) ==
    /\ process = "up"
    /\ \/ index = "built" /\ insertOne(c)
       \/ index # "built" /\ insertOneUnindexed(c)
       \/ findOne(c) \/ findOneAndUpdate(c) \/ findOneAndDelete(c)
       \/ commandFails(c)
       \/ resumeGet(c) \/ resumeUpdate(c)
    /\ Overtake(late)
    /\ UNCHANGED <<process, index, lost, sure, told>>

\* The client is answered, and knows what 201, 200 and 4xx tell.
answer(c) ==
    LET id     == call[c].id
        status == outcome[c].statusCode
    IN
    /\ process = "up"
    /\ respond(c)
    /\ acked'   = IF call[c].op = "create" /\ status = 201 THEN acked \cup {id} ELSE acked
    /\ refused' = IF call[c].op = "create" /\ status \in {400, 404, 409}
                  THEN refused \cup {id} ELSE refused
    /\ gone'    = IF \/ call[c].op = "delete" /\ status = 200
                     \/ c \in sure /\ status = 404
                  THEN gone \cup {id} ELSE gone
    /\ sure'    = sure \ {c}
    /\ UNCHANGED failures

\* The driver gives up on a command it has sent (socketTimeoutMS).
commandTimesOut(c) ==
    /\ process = "up"
    /\ pc[c] \in Commands \ {"findOne"}
    /\ Reject(c, "MongoNetworkTimeoutError")
    /\ LoseTrack({c})
    /\ UNCHANGED <<docs, allotted, now, call, held, stamp, history, process, index, sure, told>>

-----------------------------------------------------------------------------
(* MongoDB executes a late command.                                         *)

\* Another request's handler holds what this write changes.
Overtakes(id) ==
    overtaken' = [r \in Clients |->
        overtaken[r] \/ (pc[r] \in {"resume", "findOneAndUpdate"} /\ call[r].id = id)]

ExecuteInsert(l) ==
    /\ l.command = "insertOne"
    /\ index = "built" => TrackingNumberFree(l.held.trackingNumber)
    /\ docs' = [docs EXCEPT ![l.id] = l.held]
    /\ UNCHANGED retired

\* Mutant: updates are sent with `upsert: true`.
ExecuteUpdateUpsert(l) ==
    /\ l.command = "findOneAndUpdate"
    /\ docs' = [docs EXCEPT ![l.id] =
                  applySet(IF docs[l.id] = null THEN l.held ELSE docs[l.id], l.body, l.stamp)]
    /\ UNCHANGED retired

ExecuteUpdate(l) ==
    /\ l.command = "findOneAndUpdate" /\ docs[l.id] # null
    /\ docs' = [docs EXCEPT ![l.id] = applySet(docs[l.id], l.body, l.stamp)]
    /\ UNCHANGED retired

ExecuteDelete(l) ==
    /\ l.command = "findOneAndDelete" /\ docs[l.id] # null
    /\ docs' = [docs EXCEPT ![l.id] = null]
    /\ retired' = retired \cup {l.id}

executeLate(l) ==
    /\ ExecuteInsert(l) \/ ExecuteUpdate(l) \/ ExecuteDelete(l)
    /\ Overtake(late \ {l})
    /\ Overtakes(l.id)
    /\ UNCHANGED <<allotted, now, pc, call, held, stamp, outcome, applied,
                   process, index, lost, sure, told>>

-----------------------------------------------------------------------------
(* The process and the index.                                               *)

\* process.exit, from a signal or an unhandled error, or a crash: handlers and what
\* they hold are gone, connections are cut.
exit ==
    /\ process = "up"
    /\ process' = "down"
    /\ LoseTrack(Clients)
    /\ pc' = [c \in Clients |-> "idle"]
    /\ call' = [c \in Clients |-> null]
    /\ held' = [c \in Clients |-> null]
    /\ stamp' = [c \in Clients |-> 0]
    /\ outcome' = [c \in Clients |-> null]
    /\ overtaken' = [c \in Clients |-> FALSE]
    /\ applied' = [c \in Clients |-> FALSE]
    /\ sure' = {}
    /\ UNCHANGED <<docs, allotted, now, retired, index, told>>

\* The platform starts it again; Mongoose asks for the index once per start.
start ==
    /\ process = "down"
    /\ process' = "up"
    /\ index' = IF index = "failed" THEN "none" ELSE index
    /\ UNCHANGED <<vars, late, lost, sure, told>>

\* Mongoose's createIndex, sent after the connection is there and awaited by nobody;
\* its failure is not reported to anyone.
buildIndex ==
    /\ process = "up" /\ index = "none"
    /\ index' = IF UniqueTrackingNumbers THEN "built" ELSE "failed"
    /\ UNCHANGED <<vars, process, late, lost, sure, told>>

tick == Tick /\ UNCHANGED <<failures, sure, told>>

DeliveryNext ==
    \/ \E c \in Clients : request(c) \/ serve(c) \/ answer(c) \/ commandTimesOut(c)
    \/ \E l \in late : executeLate(l)
    \/ exit \/ start \/ buildIndex \/ tick

DeliverySpec == DeliveryInit /\ [][DeliveryNext]_allVars

-----------------------------------------------------------------------------
(* Properties.                                                              *)

\* With its abstract index in place when this one is.
ReliableRegistry ==
    INSTANCE ShipmentRegistry
        WITH docs <- docs, retired <- retired, indexed <- (index = "built")

\* Through exits, restarts, timeouts and late commands the collection still behaves
\* as the registry: no command is executed twice, none brings a removed shipment
\* back, and tracking numbers are never shared once the index is built.
DeliveryImplementsRegistry == ReliableRegistry!Spec

\* What a client was told of a creation holds for good, whatever failed: a shipment
\* acknowledged with 201 is stored until a request removes it.
AcknowledgedIsStored == \A id \in acked : docs[id] # null \/ id \in retired

\* A creation answered 4xx never leaves a shipment, not even a late one: only after a
\* 500 or a cut connection may sending it again make a second one.
RefusedIsNeverStored == \A id \in refused : docs[id] = null /\ id \notin retired

\* A shipment a client was told is gone (200 to its DELETE, or 404 to a request sent
\* after the shipment was acknowledged) never comes back: a DELETE that is repeated
\* until it is answered 200 or 404 has removed its shipment.
GoneStaysGone == \A id \in gone : docs[id] = null

\* Once the index is there no two shipments share a tracking number, those stored
\* before it and by late commands included.
IndexedIsUnique == index = "built" => UniqueTrackingNumbers

\* The step executes the late update l of the document under id.
UpdatesLate(l, id) ==
    l.command = "findOneAndUpdate" /\ l.id = id /\ Overtake(late \ {l})

\* The status rule breaks only by an update, awaited or late, whose document was
\* written by others after its status check: it is that very update that is applied.
DeliveryStatusStep ==
    \A id \in Ids :
        \/ docs[id] = null \/ docs'[id] = null
        \/ isValidStatusTransition(docs[id].status, docs'[id].status)
        \/ \E c \in Clients : Updates(c, id) /\ overtaken[c]
        \/ \E l \in late : UpdatesLate(l, id) /\ l.overtaken

StatusBrokenOnlyByOvertaken == [][DeliveryStatusStep]_allVars
=============================================================================
