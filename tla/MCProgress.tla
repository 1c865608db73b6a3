----------------------------- MODULE MCProgress -----------------------------
(***************************************************************************)
(* Instances of the parts that wait for an interrupt, a frame or another   *)
(* thread.  They share no state, so one run checks them side by side: a    *)
(* behaviour is a behaviour of the part that `part' names, chosen at the   *)
(* start, and the others do not move.                                      *)
(***************************************************************************)
EXTENDS Disk, Console, Partov, Nat, Bgp, Http, TLC

VARIABLE part
progressVars == <<part, diskVars, consoleVars, partovVars, natVars, bgpVars, httpVars>>

\* Disk: a kernel partition, an extended one that is the table again, a Linux
\* partition, and one that runs over the end.
Partitions == <<[type |-> 33, offset |-> 1, size |-> 1], [type |-> 5, offset |-> 3, size |-> 2],
                [type |-> 131, offset |-> 2, size |-> 1], [type |-> 32, offset |-> 4, size |-> 9]>>

\* Nat: all clients behind one NAT, which blocks the first ports they try.
OneBox == [c \in NatClient |-> "n1"]
Ranges == {<<1000, 1050>>}

\* Bgp: two routers whose clocks run.
Pair == [neighbour |-> <<<<2>>, <<1>>>>, relation |-> <<1, 2>> :> "PEER" @@ <<2, 1>> :> "PEER",
         asset |-> <<<<>>, <<>>>>, clock |-> TRUE, lines |-> 0]
Topologies == {Pair}

\* Http: the main thread alone or a pool, for files or as a proxy.
Alone == [threads |-> {}, handler |-> "files"]
Servers == {Alone, [threads |-> {}, handler |-> "proxy"],
            [threads |-> {1}, handler |-> "proxy"], [threads |-> {1, 2}, handler |-> "files"]}

ProgressInit ==
    /\ part \in {"disk", "console", "partov", "nat", "bgp", "http"}
    /\ DiskInit /\ ConsoleInit /\ PartovInit /\ NatInit /\ BgpInit /\ HttpInit
    /\ part # "http" => ht_conf = Alone

\* A step A of one part.
OfDisk(A) == part = "disk" /\ A
             /\ UNCHANGED <<part, consoleVars, partovVars, natVars, bgpVars, httpVars>>
OfConsole(A) == part = "console" /\ A
                /\ UNCHANGED <<part, diskVars, partovVars, natVars, bgpVars, httpVars>>
OfPartov(A) == part = "partov" /\ A
               /\ UNCHANGED <<part, diskVars, consoleVars, natVars, bgpVars, httpVars>>
OfNat(A) == part = "nat" /\ A
            /\ UNCHANGED <<part, diskVars, consoleVars, partovVars, bgpVars, httpVars>>
OfBgp(A) == part = "bgp" /\ A
            /\ UNCHANGED <<part, diskVars, consoleVars, partovVars, natVars, httpVars>>
OfHttp(A) == part = "http" /\ A
             /\ UNCHANGED <<part, diskVars, consoleVars, partovVars, natVars, bgpVars>>

ProgressNext ==
    \/ OfDisk(DiskNext) \/ OfConsole(ConsoleNext) \/ OfPartov(PartovNext)
    \/ OfNat(NatNext) \/ OfBgp(BgpNext) \/ OfHttp(HttpNext)

\* The fairness of every part.  Only one part moves in a behaviour, so that
\* fairness to a step of one part or of another is fairness to both.
ThreadSteps(t) ==
    \/ OfDisk(t \in DiskThread /\ DiskThreadStep(t))
    \/ OfConsole(t \in Printer /\ PrinterStep(t))
Awaited == ThreadSteps("t1") \/ OfPartov(await)
Started == ThreadSteps("t2") \/ OfPartov(st_run_initialized)
Sends(t) == OfPartov(pt_sending[t] # "idle" /\ SendStep(t))
Served == OfDisk(ide_interrupt) \/ OfConsole(serial_interrupt) \/ OfPartov(st_run_signal)
          \/ OfNat(NatDelivery) \/ OfBgp(BgpProgress) \/ OfHttp(HttpServerStep)
Worked == OfDisk(hw_step) \/ OfConsole(port_sent) \/ Sends("main")
ProgressFairness ==
    /\ SF_progressVars(Awaited) /\ SF_progressVars(Started)
    /\ WF_progressVars(Served) /\ WF_progressVars(Worked)
    /\ WF_progressVars(OfConsole(serial_init_queue) \/ Sends("sim"))
    /\ WF_progressVars(OfConsole(input_getc \/ intq_woken(Reader)))

ProgressSpec == ProgressInit /\ [][ProgressNext]_progressVars /\ ProgressFairness
-----------------------------------------------------------------------------
\* Interrupts are not lost: what threads ask the disk for and print on the console
\* is done in the end, and what the port receives is taken (ide.c, serial.c, intq.c).
DevicesAnswer == DiskAnswers /\ ConsoleDrains
=============================================================================
