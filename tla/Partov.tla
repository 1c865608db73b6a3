------------------------------- MODULE Partov -------------------------------
(***************************************************************************)
(* The client framework of the network assignments (computer-networks,     *)
(* base/cf.cpp, the same in PA1, PA2 and PA3): the main thread negotiates  *)
(* with the Partov server, waits until the simulator thread has run        *)
(* initialize (), handles the frames it receives and reconnects when the   *)
(* connection breaks; both threads send frames over the one connection.    *)
(*                                                                         *)
(* A message is one piece; a frame is sent as two, its header and its      *)
(* data.  sendOrReceive repeats send or recv until a piece is complete.    *)
(***************************************************************************)
EXTENDS Integers, Sequences

CONSTANTS
    MaxWire,     \* pieces sent over one connection
    MaxConnects  \* connections made

ASSUME PartovAssumption == {MaxWire, MaxConnects} \subseteq Nat

PtThread == {"main", "sim"}
Negotiation == {"signin", "map", "node", "iface", "custom", "start"}
First == <<"signin", "map", "node", "iface", "custom", "start">>   \* doInitialNegotiations
Recovery == <<"signin", "map", "node", "start">>                   \* doInitialRecoveryNegotiations

VARIABLES
    pt_main,         \* where the main thread is
    pt_steps,        \* negotiations still to do on this connection
    pt_sim,          \* the simulator thread
    pt_sending,      \* for each thread, how far its sendFrame is
    pt_mutex,        \* who holds the mutex
    pt_initialized,
    pt_up,           \* the connection is up
    pt_wire,         \* what has been sent over this connection
    pt_connects,     \* connections made so far
    pt_needNewMap    \* -1, 0 or 1

partovVars == <<pt_main, pt_steps, pt_sim, pt_sending, pt_mutex, pt_initialized, pt_up, pt_wire,
                pt_connects, pt_needNewMap>>
line == <<pt_up, pt_wire, pt_connects>>
threads == <<pt_sim, pt_sending, pt_mutex, pt_initialized>>

Alive == pt_main # "exit"
Put(t, what) == pt_wire' = Append(pt_wire, [by |-> t, what |-> what])
-----------------------------------------------------------------------------
(***************************************************************************)
(* The main thread.                                                        *)
(***************************************************************************)

\* parseArguments: the mandatory options once, --id, --new and --free exclude
\* each other; usage () otherwise.
parseArguments(mark, new) ==
    /\ pt_main = "args"
    /\ IF \A i \in 0..7 : (i < 6 /\ mark[i] = 1) \/ (i > 5 /\ mark[i] < 2)
       THEN pt_main' = "connect" /\ pt_needNewMap' = new
       ELSE pt_main' = "exit" /\ UNCHANGED pt_needNewMap
    /\ UNCHANGED <<pt_steps, threads, line>>

\* connectToServer; the first time for the whole negotiation.
connectToServer(ok) ==
    /\ pt_main \in {"connect", "reconnect"} /\ pt_connects < MaxConnects
    /\ pt_up' = ok /\ pt_wire' = <<>> /\ pt_connects' = pt_connects + 1
    /\ pt_steps' = IF pt_main = "connect" THEN First ELSE Recovery
    /\ pt_main' = IF ok THEN IF pt_main = "connect" THEN "talk" ELSE "retalk"
                  ELSE IF pt_main = "connect" THEN "exit" ELSE "failed"
    /\ UNCHANGED <<threads, pt_needNewMap>>

\* What a negotiation can come to before (Unsent) or after its request is sent:
\* "done" lets the next one begin, the rest ends it.
Unsent == {"too long", "no node"}
doSigningInNegotiations == {"done", "too long", "incorrect"}
doMapSelectingNegotiations ==
    {"done", "too long", "not exist", "ipu violated", "released", "out of resource", "invalid"}
doNodeSelectingNegotiations == {"done", "too long", "no node", "not exist", "invalid"}
doInterfacesInformationSynchronizationNegotiations == {"done", "invalid"}
readInterfaceInformation == {"too large", "unknown type"}
doCustomInformationSynchronizationNegotiations == {"done", "invalid"}
startSimulation == {"done", "not verified", "no handler"}
announceSimulationResume == {"done", "not verified"}
Replies(step) ==
    CASE step = "signin" -> doSigningInNegotiations
      [] step = "map" -> doMapSelectingNegotiations
      [] step = "node" -> doNodeSelectingNegotiations
      [] step = "iface" ->
            doInterfacesInformationSynchronizationNegotiations \cup readInterfaceInformation
      [] step = "custom" -> doCustomInformationSynchronizationNegotiations
      [] step = "start" -> IF pt_main = "talk" THEN startSimulation ELSE announceSimulationResume

\* sendOrReceive: everything is transferred, or the transfer fails, or it finds
\* the connection closed, which ends the program.
sendOrReceive == {"failed", "closed"}

\* One negotiation after the other; without the name of a node the program ends.
negotiate(reply) ==
    /\ pt_main \in {"talk", "retalk"} /\ pt_steps # <<>>
    /\ IF reply \in Unsent \cup sendOrReceive
       THEN (reply = "closed" => ~ pt_up) /\ UNCHANGED pt_wire
       ELSE pt_up /\ Put("main", Head(pt_steps))
    /\ pt_main' = CASE reply \in {"closed", "no node"} -> "exit"
                    [] reply = "done" /\ Len(pt_steps) > 1 -> pt_main
                    [] reply = "done" /\ Len(pt_steps) <= 1 ->
                          IF pt_main = "talk" THEN "started" ELSE "resumed"
                    [] OTHER -> IF pt_main = "talk" THEN "exit" ELSE "failed"
    /\ pt_steps' = Tail(pt_steps)
    /\ UNCHANGED <<threads, pt_up, pt_connects, pt_needNewMap>>

\* simulateMachine: the simulator thread is created, or not.
simulateMachine(ok) ==
    /\ pt_main = "started"
    /\ IF ok THEN pt_main' = "wait" /\ pt_sim' = "initialize" ELSE pt_main' = "exit" /\ UNCHANGED pt_sim
    /\ UNCHANGED <<pt_steps, pt_sending, pt_mutex, pt_initialized, line, pt_needNewMap>>

\* Faulty: the main thread sleeps without looking at initialized first.
await_unseen ==
    /\ pt_main = "wait" /\ pt_mutex = "none"
    /\ pt_main' = "asleep"
    /\ UNCHANGED <<pt_steps, threads, line, pt_needNewMap>>
\* The wait of simulateMachine for initialized; pthread_cond_wait gives up the
\* mutex as it goes to sleep.
await ==
    /\ pt_main = "wait" /\ pt_mutex = "none"
    /\ pt_main' = IF pt_initialized THEN "loop" ELSE "asleep"
    /\ UNCHANGED <<pt_steps, threads, line, pt_needNewMap>>

\* simulationEventLoop: a frame, a warning, or something that ends the loop.
receive(what) ==
    /\ pt_main = "loop" /\ pt_sending["main"] = "idle"
    /\ what \in {"frame", "warning"} => pt_up
    /\ what = "closed" => ~ pt_up
    /\ pt_main' = CASE what = "frame" -> "frame" [] what = "warning" -> "loop"
                    [] what = "closed" -> "exit" [] OTHER -> "broken"
    /\ UNCHANGED <<pt_steps, threads, line, pt_needNewMap>>

\* processFrame, which sends any number of frames, returns.
processed ==
    /\ pt_main = "frame" /\ pt_sending["main"] = "idle"
    /\ pt_main' = "loop"
    /\ UNCHANGED <<pt_steps, threads, line, pt_needNewMap>>

\* recoverSimulation: the mutex is held from the close to the end of the new
\* negotiation.
recoverSimulation ==
    /\ pt_main = "broken" /\ pt_mutex = "none"
    /\ pt_mutex' = "main" /\ pt_main' = "reconnect" /\ pt_needNewMap' = 0 /\ pt_up' = FALSE
    /\ UNCHANGED <<pt_steps, pt_sim, pt_sending, pt_initialized, pt_wire, pt_connects>>
recovered ==
    /\ pt_main \in {"resumed", "failed"}
    /\ pt_mutex' = "none" /\ pt_main' = IF pt_main = "resumed" THEN "loop" ELSE "givenup"
    /\ UNCHANGED <<pt_steps, pt_sim, pt_sending, pt_initialized, line, pt_needNewMap>>

\* systemInterrupt, after the simulation has ended or on SIGINT.
systemInterrupt ==
    /\ pt_main \in {"givenup", "wait", "asleep", "loop", "frame"}
    /\ pt_main' = "exit"
    /\ UNCHANGED <<pt_steps, threads, line, pt_needNewMap>>
-----------------------------------------------------------------------------
(***************************************************************************)
(* The simulator thread, and sending.                                      *)
(***************************************************************************)

\* st_run: initialize () returns, initialized is set under the mutex, and the
\* condition is signalled after it.
st_run_initialized ==
    /\ Alive /\ pt_sim = "initialize" /\ pt_sending["sim"] = "idle" /\ pt_mutex = "none"
    /\ pt_initialized' = TRUE /\ pt_sim' = "signal"
    /\ UNCHANGED <<pt_main, pt_steps, pt_sending, pt_mutex, line, pt_needNewMap>>
st_run_signal ==
    /\ Alive /\ pt_sim = "signal"
    /\ pt_sim' = "run"
    /\ pt_main' = IF pt_main = "asleep" THEN "wait" ELSE pt_main
    /\ UNCHANGED <<pt_steps, pt_sending, pt_mutex, pt_initialized, line, pt_needNewMap>>

MaySend(t) == IF t = "main" THEN pt_main = "frame" ELSE Alive /\ pt_sim \in {"initialize", "run"}

\* Faulty: the mutex is not taken.
locks_never(t) == UNCHANGED pt_mutex
\* pthread_mutex_lock at the start of sendFrame, walk and notifyChangeOf...
locks(t) == pt_mutex = "none" /\ pt_mutex' = t
unlocks(t) == pt_mutex' = IF pt_mutex = t THEN "none" ELSE pt_mutex

begin_send(t) ==
    /\ MaySend(t) /\ pt_sending[t] = "idle" /\ Len(pt_wire) + 2 <= MaxWire /\ locks(t)
    /\ pt_sending' = [pt_sending EXCEPT ![t] = "locked"]
    /\ UNCHANGED <<pt_main, pt_steps, pt_sim, pt_initialized, line, pt_needNewMap>>

ends_send(t) == pt_sending' = [pt_sending EXCEPT ![t] = "idle"] /\ unlocks(t)

\* realSendFrame: the header, then the data; a failure of either ends it.
realSendFrame(t, ok) ==
    /\ MaySend(t) /\ pt_sending[t] \in {"locked", "half"}
    /\ IF ok
       THEN /\ pt_up
            /\ IF pt_sending[t] = "locked"
               THEN Put(t, "head") /\ pt_sending' = [pt_sending EXCEPT ![t] = "half"] /\ UNCHANGED pt_mutex
               ELSE Put(t, "body") /\ ends_send(t)
       ELSE ~ pt_up /\ UNCHANGED pt_wire /\ ends_send(t)
    /\ UNCHANGED <<pt_main, pt_steps, pt_sim, pt_initialized, pt_up, pt_connects, pt_needNewMap>>

\* realWalk, realNotifyChangeOfIPAddress, realNotifyChangeOfNetmask.
real_command(t) ==
    /\ MaySend(t) /\ pt_sending[t] = "locked" /\ pt_up /\ Put(t, "command") /\ ends_send(t)
    /\ UNCHANGED <<pt_main, pt_steps, pt_sim, pt_initialized, pt_up, pt_connects, pt_needNewMap>>

\* The connection is lost.
Breaks ==
    /\ Alive /\ pt_up /\ pt_up' = FALSE
    /\ UNCHANGED <<pt_main, pt_steps, threads, pt_wire, pt_connects, pt_needNewMap>>

PartovInit ==
    /\ pt_main = "args" /\ pt_steps = <<>> /\ pt_sim = "none"
    /\ pt_sending = [t \in PtThread |-> "idle"]
    /\ pt_mutex = "none" /\ pt_initialized = FALSE
    /\ pt_up = FALSE /\ pt_wire = <<>> /\ pt_connects = 0 /\ pt_needNewMap = 0

Marks == {[i \in 0..7 |-> IF i = j THEN n ELSE 1] : j \in 0..7, n \in 0..2}
MainStep ==
    \/ \E mark \in Marks, new \in -1..1 : parseArguments(mark, new)
    \/ \E ok \in BOOLEAN : connectToServer(ok) \/ simulateMachine(ok)
    \/ pt_steps # <<>> /\ \E reply \in Replies(Head(pt_steps)) \cup sendOrReceive : negotiate(reply)
    \/ await \/ processed \/ recoverSimulation \/ recovered \/ systemInterrupt
    \/ \E what \in {"frame", "warning", "closed", "error"} : receive(what)
SimStep == st_run_initialized \/ st_run_signal
SendStep(t) == begin_send(t) \/ real_command(t) \/ \E ok \in BOOLEAN : realSendFrame(t, ok)

PartovNext == MainStep \/ SimStep \/ Breaks \/ \E t \in PtThread : SendStep(t)

\* Threads that can run do, initialize () returns, and a thread that waits for
\* the mutex gets it in the end.
PartovFairness ==
    SF_partovVars(await) /\ SF_partovVars(st_run_initialized) /\ WF_partovVars(st_run_signal)
        /\ \A t \in PtThread : WF_partovVars(pt_sending[t] # "idle" /\ SendStep(t))
PartovSpec == PartovInit /\ [][PartovNext]_partovVars /\ PartovFairness
-----------------------------------------------------------------------------
PartovTypeOK ==
    /\ pt_main \in {"args", "connect", "talk", "started", "wait", "asleep", "loop", "frame",
                    "broken", "reconnect", "retalk", "resumed", "failed", "givenup", "exit"}
    /\ pt_sim \in {"none", "initialize", "signal", "run"}
    /\ pt_sending \in [PtThread -> {"idle", "locked", "half"}]
    /\ pt_mutex \in PtThread \cup {"none"} /\ pt_initialized \in BOOLEAN /\ pt_up \in BOOLEAN
    /\ \A i \in DOMAIN pt_wire :
          pt_wire[i] \in [by : PtThread, what : Negotiation \cup {"head", "body", "command"}]
    /\ pt_connects \in 0..MaxConnects /\ pt_needNewMap \in -1..1

\* What the server reads on a connection: the negotiation and then whole frames.
\* A header is followed by the data of the same frame, and no frame is sent
\* before the simulation is started or resumed on this connection, whichever
\* thread sends and whenever the connection breaks.  (After a recovery that
\* failed, and until the program exits, that is not so.)
WireFramed ==
    /\ PartovTypeOK
    /\ pt_main \notin {"givenup", "exit"} =>
        \A i \in DOMAIN pt_wire :
            LET p == pt_wire[i]
            IN  /\ p.what = "body" => i > 1 /\ pt_wire[i - 1] = [p EXCEPT !.what = "head"]
                /\ p.what = "head" /\ i < Len(pt_wire) => pt_wire[i + 1] = [p EXCEPT !.what = "body"]
                /\ p.what \in {"head", "command"} =>
                      \E j \in 1..i - 1 : pt_wire[j].what = "start"

\* The main thread does not miss the end of initialize (): it gets to the event
\* loop although the condition is signalled outside the mutex.
LoopReached == pt_main = "wait" ~> pt_main \in {"loop", "exit"}
=============================================================================
