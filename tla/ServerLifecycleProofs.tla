------------------------- MODULE ServerLifecycleProofs -------------------------
(* Theorems about ServerLifecycle, for any number of connections and signals.  *)
EXTENDS ServerLifecycle, TLAPS

-----------------------------------------------------------------------------
(* The inductive invariant.                                                 *)

\* The flag is set exactly while the last event is 'connected' and mongoose has a
\* connection, which may be closing; a connection that has just been opened or lost
\* stands so in mongoose as well.
FlagInv ==
    /\ connectionState = 1 => readyState \in {connected, disconnecting} /\ lastEvent = "connected"
    /\ readyState \in {connected, disconnecting} /\ lastEvent = "connected" => connectionState = 1
    /\ readyState \in {connected, disconnecting} => lastEvent \in {"connected", "error"}
    /\ up /\ lastEvent = "error" => readyState \in {connected, disconnecting}

\* Before the first connection there is no server; after the first signal a process
\* that is still up is closing its server and its connection; none is up after a
\* failure.
PhaseInv ==
    /\ up /\ signals = 0 => server \in {"none", "open"} /\ ~ closing
    /\ up /\ signals > 0 => server \in {"closing", "closed"} /\ closing
    /\ readyState = disconnecting => signals > 0
    /\ up /\ server = "none" => readyState = connecting
    /\ readyState = connecting => server = "none" /\ lastEvent = "none"
    /\ up => failure = "none"

\* A server that is closing still has connections, one that is closed has none, and a
\* process that reports success has at least begun to close its server.
DrainInv ==
    /\ server = "closing" => connections > 0
    /\ server \in {"none", "closed"} => connections = 0
    /\ exitCode = 0 => server # "open"

Inv ==
    /\ TypeOK
    /\ FlagInv
    /\ PhaseInv
    /\ DrainInv
    /\ CleanExitDisconnects
    /\ ExitCodeTellsFailure

USE DEF disconnected, connected, connecting, disconnecting

\* The process starts in a state of the invariant.
LEMMA InitInv == Init => Inv
<1> SUFFICES ASSUME Init PROVE Inv
    OBVIOUS
<1> USE LifecycleAssumption DEF Init, connections, up
<1>1. closing \in BOOLEAN /\ ~ closing
    BY DEF Init
<1>2. TypeOK
    BY <1>1 DEF TypeOK
<1>3. FlagInv /\ PhaseInv
    BY <1>1 DEF FlagInv, PhaseInv
<1>4. DrainInv /\ CleanExitDisconnects /\ ExitCodeTellsFailure
    BY DEF DrainInv, CleanExitDisconnects, ExitCodeTellsFailure
<1> QED BY <1>2, <1>3, <1>4 DEF Inv

\* Start-up keeps the invariant.
LEMMA StartUpInv == Inv /\ StartUp => Inv'
<1> SUFFICES ASSUME Inv, StartUp PROVE Inv'
    OBVIOUS
<1> USE LifecycleAssumption
    DEF fail, exit, http, Inv, TypeOK, FlagInv, PhaseInv, DrainInv,
        CleanExitDisconnects, ExitCodeTellsFailure, connections, up
<1>1. CASE connectSucceeds
    BY <1>1 DEF connectSucceeds
<1>2. CASE listenFails
    BY <1>2 DEF listenFails
<1>3. CASE connectFails
    BY <1>3 DEF connectFails
<1> QED BY <1>1, <1>2, <1>3 DEF StartUp

\* The events of the database connection keep the invariant.
LEMMA ConnectionInv == Inv /\ Connection => Inv'
<1> SUFFICES ASSUME Inv, Connection PROVE Inv'
    OBVIOUS
<1> USE LifecycleAssumption
    DEF http, Inv, TypeOK, FlagInv, PhaseInv, DrainInv,
        CleanExitDisconnects, ExitCodeTellsFailure, connections, up
<1>1. CASE onDisconnected
    BY <1>1 DEF onDisconnected
<1>2. CASE onConnected
    BY <1>2 DEF onConnected
<1>3. CASE onError
    BY <1>3 DEF onError
<1> QED BY <1>1, <1>2, <1>3 DEF Connection

\* What HTTP clients do keeps the invariant: the exit that a drained server may cause
\* comes after a repeated signal.
LEMMA ClientsInv == Inv /\ Clients => Inv'
<1> SUFFICES ASSUME Inv, Clients PROVE Inv'
    OBVIOUS
<1>1. /\ up /\ UNCHANGED <<readyState, connectionState, closing, lastEvent, signals, failure>>
      /\ \/ UNCHANGED <<server, exitCode>>
         \/ /\ server = "closing" /\ server' = "closed"
            /\ exitCode' = exitCode \/ (exitCode' = 1 /\ signals > 1)
    BY DEF Clients, accept, answer, nextRequest, hangUp, closeIfDrained, exit, database
<1>2. busy' \in Nat /\ idle' \in Nat /\ busy' + idle' <= MaxConnections
  <2>1. busy \in Nat /\ idle \in Nat /\ busy + idle <= MaxConnections
      BY DEF Inv, TypeOK, connections
  <2>2. CASE accept
      BY <2>1, <2>2, LifecycleAssumption DEF accept, connections
  <2>3. CASE answer
    <3>1. busy > 0 /\ busy' = busy - 1 /\ (idle' = idle \/ idle' = idle + 1)
        BY <2>3 DEF answer
    <3> QED BY <2>1, <3>1, LifecycleAssumption
  <2>4. CASE nextRequest
      BY <2>1, <2>4, LifecycleAssumption DEF nextRequest
  <2>5. CASE hangUp
      BY <2>1, <2>5, LifecycleAssumption DEF hangUp
  <2> QED BY <2>2, <2>3, <2>4, <2>5 DEF Clients
<1>3. TypeOK'
    BY <1>1, <1>2 DEF Inv, TypeOK, connections
<1>4. FlagInv' /\ PhaseInv'
    BY <1>1 DEF Inv, FlagInv, PhaseInv, up
<1>5. CleanExitDisconnects' /\ ExitCodeTellsFailure'
    BY <1>1, LifecycleAssumption DEF Inv, CleanExitDisconnects, ExitCodeTellsFailure, up
<1>6. DrainInv'
  <2>1. busy \in Nat /\ idle \in Nat
      BY DEF Inv, TypeOK
  <2>2. exitCode' # 0
      BY <1>1, LifecycleAssumption DEF up
  <2>3. CASE accept
      BY <2>1, <2>2, <2>3 DEF accept, DrainInv, connections
  <2>4. CASE answer
    <3>1. busy > 0 /\ busy' = busy - 1 /\ (idle' = idle \/ idle' = idle + 1) /\ closeIfDrained
        BY <2>4 DEF answer
    <3>2. server \notin {"none", "closed"}
        BY <2>1, <3>1 DEF Inv, DrainInv, connections
    <3>3. CASE server = "closing" /\ busy' + idle' = 0
        BY <2>2, <3>1, <3>3 DEF closeIfDrained, DrainInv, connections
    <3>4. CASE ~ (server = "closing" /\ busy' + idle' = 0)
      <4>1. server' = server /\ busy' + idle' \in Nat
          BY <1>2, <3>1, <3>4 DEF closeIfDrained
      <4>2. server = "closing" => busy' + idle' > 0
          BY <3>4, <4>1
      <4> QED BY <2>2, <3>2, <4>1, <4>2 DEF DrainInv, connections
    <3> QED BY <3>3, <3>4
  <2>5. CASE nextRequest
      BY <2>1, <2>2, <2>5 DEF nextRequest, Inv, DrainInv, connections
  <2>6. CASE hangUp
    <3>1. idle > 0 /\ idle' = idle - 1 /\ busy' = busy /\ closeIfDrained
        BY <2>6 DEF hangUp
    <3>2. server \notin {"none", "closed"}
        BY <2>1, <3>1 DEF Inv, DrainInv, connections
    <3>3. CASE server = "closing" /\ busy' + idle' = 0
        BY <2>2, <3>1, <3>3 DEF closeIfDrained, DrainInv, connections
    <3>4. CASE ~ (server = "closing" /\ busy' + idle' = 0)
      <4>1. server' = server /\ busy' + idle' \in Nat
          BY <1>2, <3>1, <3>4 DEF closeIfDrained
      <4>2. server = "closing" => busy' + idle' > 0
          BY <3>4, <4>1
      <4> QED BY <2>2, <3>2, <4>1, <4>2 DEF DrainInv, connections
    <3> QED BY <3>3, <3>4
  <2> QED BY <2>3, <2>4, <2>5, <2>6 DEF Clients
<1> QED BY <1>3, <1>4, <1>5, <1>6 DEF Inv

\* A signal keeps the invariant: it ends the process or starts closing everything.
LEMMA SignalInv == Inv /\ Signal => Inv'
<1> SUFFICES ASSUME Inv, Signal PROVE Inv'
    OBVIOUS
<1>1. signals \in Nat /\ signals' \in 1 .. MaxSignals /\ signals' = signals + 1
    BY LifecycleAssumption DEF Signal, signalDisconnected, signalConnected, Inv, TypeOK
<1>2. busy' \in Nat /\ idle' \in Nat /\ busy' + idle' <= MaxConnections
  <2>1. busy \in Nat /\ idle \in Nat /\ busy + idle <= MaxConnections
      BY DEF Inv, TypeOK, connections
  <2>2. busy' = busy /\ (idle' = 0 \/ idle' = idle)
      BY DEF Signal, signalDisconnected, signalConnected, serverClose, http
  <2> QED BY <2>1, <2>2, LifecycleAssumption
<1>3. up /\ UNCHANGED <<connectionState, lastEvent, failure>>
    BY DEF Signal, signalDisconnected, signalConnected, database
<1>4. DrainInv'
  <2>1. busy \in Nat /\ idle \in Nat
      BY DEF Inv, TypeOK
  <2>2. CASE http' = http /\ server = "none"
      BY <2>2 DEF Inv, DrainInv, connections, http
  <2>3. CASE serverClose
    <3>1. /\ busy' = busy /\ (idle' = 0 \/ idle' = idle)
          /\ server' = IF busy + idle' = 0 THEN "closed" ELSE "closing"
        BY <2>3 DEF serverClose
    <3>2. busy' + idle' = 0 \/ busy' + idle' > 0
        BY <2>1, <3>1
    <3>3. CASE busy' + idle' = 0
        BY <3>1, <3>3 DEF DrainInv, connections
    <3>4. CASE busy' + idle' > 0
        BY <3>1, <3>4 DEF DrainInv, connections
    <3> QED BY <3>2, <3>3, <3>4
  <2> QED BY <2>2, <2>3 DEF Signal, signalDisconnected, signalConnected
<1>5. CASE signalDisconnected
  <2>1. /\ connectionState = 0 /\ UNCHANGED <<readyState, closing>>
        /\ exitCode' = 0 \/ (exitCode' = 1 /\ signals > 0)
      BY <1>5 DEF signalDisconnected, closedAgain, exit, database
  <2>2. server' \in {server, "closing", "closed"} /\ (server = "none" => server' = server)
      BY <1>5 DEF signalDisconnected, serverClose, http
  <2>3. TypeOK'
      BY <1>1, <1>2, <1>3, <2>1, <2>2 DEF Inv, TypeOK, connections
  <2>4. FlagInv' /\ PhaseInv'
      BY <1>1, <1>3, <2>1, <2>2, LifecycleAssumption DEF Inv, FlagInv, PhaseInv, up
  <2>5. CleanExitDisconnects' /\ ExitCodeTellsFailure'
      BY <1>1, <1>3, <2>1, LifecycleAssumption
      DEF Inv, FlagInv, PhaseInv, CleanExitDisconnects, ExitCodeTellsFailure, up
  <2> QED BY <1>4, <2>3, <2>4, <2>5 DEF Inv
<1>6. CASE signalConnected
  <2>1. /\ server' \in {"closing", "closed"} /\ readyState' = disconnecting
        /\ closing' = TRUE /\ connectionState = 1
      BY <1>6 DEF signalConnected, serverClose
  <2>2. exitCode' = null \/ (exitCode' = 1 /\ signals > 0)
      BY <1>3, <1>6 DEF signalConnected, closedAgain, exit, up
  <2>3. TypeOK'
      BY <1>1, <1>2, <1>3, <2>1, <2>2 DEF Inv, TypeOK, connections
  <2>4. FlagInv' /\ PhaseInv'
      BY <1>1, <1>3, <2>1 DEF Inv, FlagInv, PhaseInv, up
  <2>5. CleanExitDisconnects' /\ ExitCodeTellsFailure'
      BY <1>1, <2>1, <2>2, LifecycleAssumption
      DEF CleanExitDisconnects, ExitCodeTellsFailure
  <2> QED BY <1>4, <2>3, <2>4, <2>5 DEF Inv
<1> QED BY <1>5, <1>6 DEF Signal

\* The end of a shutdown keeps the invariant.
LEMMA ShutdownInv == Inv /\ (Shutdown \/ unhandled) => Inv'
<1> SUFFICES ASSUME Inv, Shutdown \/ unhandled PROVE Inv'
    OBVIOUS
<1> USE LifecycleAssumption
    DEF database, http, fail, exit, Inv, TypeOK, FlagInv, PhaseInv, DrainInv,
        CleanExitDisconnects, ExitCodeTellsFailure, connections, up
<1>1. CASE mongooseCloses
  <2>1. closing /\ closing' = FALSE /\ signals # 0
      BY <1>1, Zenon DEF mongooseCloses, connectionCloses
  <2>2. signals > 0
      BY ONLY <2>1, Inv DEF Inv, TypeOK
  <2>3. closing' \in BOOLEAN /\ ~ closing'
      BY ONLY <2>1, Zenon
  <2> QED BY <1>1, <2>2, <2>3 DEF mongooseCloses, connectionCloses
<1>2. CASE mongooseCloseFails
    BY <1>2 DEF mongooseCloseFails
<1>3. CASE unhandled
    BY <1>3 DEF unhandled
<1> QED BY <1>1, <1>2, <1>3 DEF Shutdown

\* A step that changes nothing keeps the invariant.
LEMMA StutterInv == Inv /\ UNCHANGED vars => Inv'
BY DEF vars, database, http, Inv, TypeOK, FlagInv, PhaseInv, DrainInv, CleanExitDisconnects,
       ExitCodeTellsFailure, connections, up

\* The inductive invariant: the connection flag agrees with mongoose and the last event
\* of the connection, and a process that outlives its first signal is closing both its server and
\* its database connection.
THEOREM SpecInv == Spec => []Inv
<1>1. Inv /\ [Next]_vars => Inv'
    BY StartUpInv, ConnectionInv, ClientsInv, SignalInv, ShutdownInv, StutterInv DEF Next
<1> QED BY InitInv, <1>1, PTL DEF Spec

\* Type correctness: among others, the connections in use never exceed the bound and
\* no request is answered twice.
THEOREM SpecTypeOK == Spec => []TypeOK
BY SpecInv, PTL DEF Inv

\* The readiness probe (healthRoutes.ts) answers 200 exactly while there is a connection
\* whose last event was no 'error', through every loss and recovery.
THEOREM SpecReadinessIsRight == Spec => []ReadinessIsRight
<1>1. Inv => ReadinessIsRight
    BY DEF Inv, FlagInv, ReadinessIsRight, isConnected, ready
<1> QED BY SpecInv, <1>1, PTL

\* disconnect() of database.ts trusts its flag: a process that exits with 0 has left its
\* connection open, or still closing, exactly if an 'error' event had cleared the flag.
THEOREM SpecCleanExitDisconnects == Spec => []CleanExitDisconnects
BY SpecInv, PTL DEF Inv

\* The exit code is 0 only after a signal and without a failure, and 1 only after a
\* failure or a repeated signal.
THEOREM SpecExitCodeTellsFailure == Spec => []ExitCodeTellsFailure
BY SpecInv, PTL DEF Inv

\* After the first signal the number of HTTP connections only falls.
THEOREM SpecNoConnectionAfterSignal == Spec => NoConnectionAfterSignal
<1>1. Inv /\ [Next]_vars => [signals > 0 => connections' <= connections]_vars
  <2> SUFFICES ASSUME Inv, Next, signals > 0
               PROVE  connections' <= connections
      BY DEF vars
  <2> USE DEF Inv, TypeOK, PhaseInv, connections, up
  <2>1. CASE StartUp
      BY <2>1 DEF StartUp, connectSucceeds, listenFails, connectFails, http
  <2>2. CASE Connection
      BY <2>2 DEF Connection, onDisconnected, onConnected, onError, http
  <2>3. CASE Clients
      BY <2>3 DEF Clients, accept, answer, nextRequest, hangUp
  <2>4. CASE Signal
      BY <2>4 DEF Signal, signalDisconnected, signalConnected, serverClose, http
  <2>5. CASE Shutdown \/ unhandled
      BY <2>5 DEF Shutdown, mongooseCloses, mongooseCloseFails, unhandled, http
  <2> QED BY <2>1, <2>2, <2>3, <2>4, <2>5 DEF Next
<1> QED BY SpecInv, <1>1, PTL DEF Spec, NoConnectionAfterSignal

\* Requests cut off are all that is wrong with a clean exit: the server of a process that
\* reports success is closed unless connections were still open.
THEOREM SpecClosedUnlessCutOff == Spec => [](connections = 0 => ServerClosedOnExit)
<1>1. Inv => (connections = 0 => ServerClosedOnExit)
    BY DEF Inv, TypeOK, DrainInv, ServerClosedOnExit
<1> QED BY SpecInv, <1>1, PTL

=============================================================================
