---------------------------- MODULE ServerLifecycle ----------------------------
(***************************************************************************)
(* The process: start-up, the database connection and its events, the     *)
(* connections of HTTP clients, signals, shutdown and exit.  Two modules   *)
(* listen for signals, database.ts and server.ts, and neither knows of the *)
(* other.                                                                  *)
(*                                                                         *)
(* An action is one turn of Node's event loop: what runs from an event to  *)
(* the next wait for the outside, promise continuations included.          *)
(***************************************************************************)
EXTENDS Naturals

CONSTANTS
    MaxConnections,  \* bound: HTTP connections open at a time
    MaxSignals,      \* bound: signals the process receives
    null             \* no exit code yet

ASSUME LifecycleAssumption ==
    /\ MaxConnections \in Nat
    /\ MaxSignals \in Nat
    /\ null \notin Nat

VARIABLES
    readyState,       \* of mongoose.connection
    connectionState,  \* the flag database.ts keeps beside it: 0 or 1
    closing,          \* a handler of a signal awaits mongoose.connection.close()
    server,           \* "none", "open", "closing" or "closed"
    busy,             \* HTTP connections with a request in flight
    idle,             \* HTTP connections kept alive between requests
    exitCode,         \* what the process ended with, or null
    signals,          \* history: signals received
    lastEvent,        \* history: the last event of the connection
    failure           \* history: what failed: "none", "start", "shutdown" or "code"

database == <<readyState, connectionState, closing, lastEvent>>
http     == <<server, busy, idle>>
vars     == <<database, http, exitCode, signals, failure>>

disconnected  == 0
connected     == 1
connecting    == 2
disconnecting == 3

isConnected == connectionState = 1 /\ readyState = connected

\* The status GET /health/ready answers.
ready == IF isConnected THEN 200 ELSE 503

Init ==
    /\ readyState = connecting /\ connectionState = 0 /\ closing = FALSE
    /\ server = "none" /\ busy = 0 /\ idle = 0
    /\ exitCode = null
    /\ signals = 0 /\ lastEvent = "none" /\ failure = "none"

up == exitCode = null

exit(code) == exitCode' = code

\* Something went wrong and its handler ends the process.
fail(what) == exit(1) /\ failure' = what

-----------------------------------------------------------------------------
(* Start-up.                                                                *)

\* await database.connect() resolves and app.listen gets the port.
connectSucceeds ==
    /\ up
    /\ readyState = connecting
    /\ readyState' = connected /\ connectionState' = 1 /\ lastEvent' = "connected"
    /\ server' = "open"
    /\ UNCHANGED <<closing, busy, idle, exitCode, signals, failure>>

\* It resolves and app.listen emits 'error': the port is taken.
listenFails ==
    /\ up
    /\ readyState = connecting
    /\ readyState' = connected /\ connectionState' = 1 /\ lastEvent' = "connected"
    /\ fail("start")
    /\ UNCHANGED <<closing, http, signals>>

connectFails ==
    /\ up
    /\ readyState = connecting
    /\ readyState' = disconnected /\ connectionState' = 0 /\ lastEvent' = "error"
    /\ fail("start")
    /\ UNCHANGED <<closing, http, signals>>

-----------------------------------------------------------------------------
(* Events of the connection.                                                *)

\* The driver loses the database, maybe while close() is under way.
onDisconnected ==
    /\ up
    /\ readyState \in {connected, disconnecting}
    /\ readyState' = disconnected /\ connectionState' = 0 /\ lastEvent' = "disconnected"
    /\ UNCHANGED <<closing, http, exitCode, signals, failure>>

\* Mutant: the flag is set by connect() alone.
onConnectedUnheard ==
    /\ up
    /\ readyState = disconnected /\ server # "none"
    /\ readyState' = connected /\ lastEvent' = "connected"
    /\ UNCHANGED <<connectionState, closing, http, exitCode, signals, failure>>

\* The driver finds it again.
onConnected ==
    /\ up
    /\ readyState = disconnected /\ server # "none"
    /\ readyState' = connected /\ connectionState' = 1 /\ lastEvent' = "connected"
    /\ UNCHANGED <<closing, http, exitCode, signals, failure>>

\* An error that leaves the connection up.
onError ==
    /\ up
    /\ readyState \in {connected, disconnecting}
    /\ connectionState' = 0 /\ lastEvent' = "error"
    /\ UNCHANGED <<readyState, closing, http, exitCode, signals, failure>>

-----------------------------------------------------------------------------
(* HTTP connections.                                                        *)

connections == busy + idle

\* A connection that goes away lets a closing server finish.  'close' then runs the
\* callbacks of all calls of server.close; every call but the first found the server
\* not running, and its callback exits.
closeIfDrained ==
    IF server = "closing" /\ busy' + idle' = 0
    THEN /\ server' = "closed"
         /\ IF signals > 1 THEN exit(1) ELSE UNCHANGED exitCode
    ELSE UNCHANGED <<server, exitCode>>

\* A client connects and sends its first request.
accept ==
    /\ up
    /\ server = "open" /\ connections < MaxConnections
    /\ busy' = busy + 1
    /\ UNCHANGED <<database, server, idle, exitCode, signals, failure>>

\* Mutant: a handler answers again what was answered.
answerAgain ==
    /\ up
    /\ busy' = busy - 1
    /\ UNCHANGED idle
    /\ closeIfDrained
    /\ UNCHANGED <<database, signals, failure>>

\* A request is answered; the connection is kept or closed.
answer ==
    /\ up
    /\ busy > 0
    /\ busy' = busy - 1
    /\ idle' \in {idle, idle + 1}
    /\ closeIfDrained
    /\ UNCHANGED <<database, signals, failure>>

\* Another request on a connection kept alive.
nextRequest ==
    /\ up
    /\ idle > 0
    /\ idle' = idle - 1 /\ busy' = busy + 1
    /\ UNCHANGED <<database, server, exitCode, signals, failure>>

\* A connection kept alive times out or its client leaves.
hangUp ==
    /\ up
    /\ idle > 0
    /\ idle' = idle - 1 /\ UNCHANGED busy
    /\ closeIfDrained
    /\ UNCHANGED <<database, signals, failure>>

-----------------------------------------------------------------------------
(* Shutdown.                                                                *)

\* server.close: no new connections; Node 19 and later drop the idle ones as well.
serverClose ==
    /\ idle' \in {0, idle}
    /\ UNCHANGED busy
    /\ server' = IF busy + idle' = 0 THEN "closed" ELSE "closing"

\* A second call of server.close finds the server not running, which is an error: its
\* callback exits on 'close', at once if no connection is left that delays it.
closedAgain == signals > 0 /\ server' = "closed"

\* A signal while database.ts believes there is no connection: its disconnect()
\* returns at once and process.exit(0) follows in the same turn, after the callbacks of
\* server.close that are due.
signalDisconnected ==
    /\ up
    /\ signals < MaxSignals /\ signals' = signals + 1
    /\ connectionState = 0
    /\ IF server = "none" THEN UNCHANGED http ELSE serverClose
    /\ exit(IF closedAgain THEN 1 ELSE 0)
    /\ UNCHANGED <<database, failure>>

\* Mutant: server.ts forgets server.close.
signalConnectedUnclosed ==
    /\ up
    /\ signals < MaxSignals /\ signals' = signals + 1
    /\ connectionState = 1
    /\ readyState' = disconnecting /\ closing' = TRUE
    /\ UNCHANGED <<connectionState, lastEvent, http, exitCode, failure>>

\* A signal otherwise.  database.ts calls mongoose.connection.close(), server.ts
\* server.close() and disconnect(), and both await.
signalConnected ==
    /\ up
    /\ signals < MaxSignals /\ signals' = signals + 1
    /\ connectionState = 1
    /\ readyState' = disconnecting /\ closing' = TRUE
    /\ serverClose
    /\ IF closedAgain THEN exit(1) ELSE UNCHANGED exitCode
    /\ UNCHANGED <<connectionState, lastEvent, failure>>

\* close() resolves; mongoose says 'disconnected' unless the connection was lost already.
connectionCloses ==
    /\ closing /\ closing' = FALSE
    /\ readyState' = disconnected /\ connectionState' = 0 /\ lastEvent' = "disconnected"

\* Mutant: the handlers disconnect and forget process.exit.
mongooseClosesOnly ==
    /\ up
    /\ connectionCloses
    /\ UNCHANGED <<http, exitCode, signals, failure>>

\* The awaits of the handlers resolve and both exit.
mongooseCloses ==
    /\ up
    /\ connectionCloses
    /\ exit(0)
    /\ UNCHANGED <<http, signals, failure>>

\* Mutant: disconnect() swallows the error.
mongooseCloseFailsQuietly ==
    /\ up
    /\ closing
    /\ failure' = "shutdown" /\ exit(0)
    /\ UNCHANGED <<database, http, signals>>

\* close() rejects; the handler of database.ts has no catch, so the rejection reaches
\* the unhandledRejection listener, which exits as server.ts's catch would.
mongooseCloseFails ==
    /\ up
    /\ closing
    /\ fail("shutdown")
    /\ UNCHANGED <<database, http, signals>>

\* An exception or a rejection that nobody handles.  setupErrorListeners registered
\* its listeners first, so the graceful one of server.ts never runs.
unhandled ==
    /\ up
    /\ fail("code")
    /\ UNCHANGED <<database, http, signals>>

-----------------------------------------------------------------------------
(* The process.                                                             *)

StartUp    == connectSucceeds \/ listenFails \/ connectFails
Connection == onDisconnected \/ onConnected \/ onError
Clients    == accept \/ answer \/ nextRequest \/ hangUp
Signal     == signalDisconnected \/ signalConnected
Shutdown   == mongooseCloses \/ mongooseCloseFails

Next == StartUp \/ Connection \/ Clients \/ Signal \/ Shutdown \/ unhandled

Spec == Init /\ [][Next]_vars

\* connection.close() settles.  Nothing is assumed of clients, signals or the network.
FairSpec == Spec /\ WF_vars(Shutdown)

-----------------------------------------------------------------------------
(* Properties.                                                              *)

TypeOK ==
    /\ readyState \in {disconnected, connected, connecting, disconnecting}
    /\ connectionState \in {0, 1} /\ closing \in BOOLEAN
    /\ server \in {"none", "open", "closing", "closed"}
    /\ busy \in Nat /\ idle \in Nat /\ connections <= MaxConnections
    /\ exitCode \in {null, 0, 1}
    /\ signals \in 0 .. MaxSignals
    /\ lastEvent \in {"none", "connected", "disconnected", "error"}
    /\ failure \in {"none", "start", "shutdown", "code"}

\* The readiness probe (healthRoutes.ts) answers 200 exactly while there is a
\* connection, through any losses and recoveries, whose last event was no 'error'.
ReadinessIsRight == ready = 200 <=> readyState = connected /\ lastEvent # "error"

\* disconnect() trusts its own flag: an exit that reports success leaves a connection
\* to the database behind, or one that is still closing, exactly if an 'error' event
\* had cleared the flag.
CleanExitDisconnects ==
    exitCode = 0 => (readyState \in {connected, disconnecting} <=> lastEvent = "error")

\* Process managers read the exit code: 0 only after a signal and without a failure;
\* 1 only after a failure or a repeated signal, whose server.close is an error.
ExitCodeTellsFailure ==
    /\ exitCode = 0 => signals > 0 /\ failure = "none"
    /\ exitCode = 1 => failure # "none" \/ signals > 1

\* After the first signal no step takes in another connection: the number of
\* connections only falls.
NoConnectionAfterSignal == [][signals > 0 => connections' <= connections]_vars

\* However busy the server is and however long clients keep their connections, a
\* signal ends the process.
SignalEndsProcess == signals > 0 ~> exitCode # null

\* server.ts:12 "Closes server and database connections properly".  A process that
\* reports success after a signal has finished closing its server.
ServerClosedOnExit == exitCode = 0 /\ server # "none" => server = "closed"
=============================================================================
