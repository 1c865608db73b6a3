------------------------------- MODULE Console -------------------------------
(***************************************************************************)
(* Console and serial port of the kernel (lib/kernel/console.c,            *)
(* devices/serial.c, devices/intq.c, devices/input.c): threads print       *)
(* through the console lock into the transmit queue, the port takes bytes  *)
(* out of it and puts bytes into the input buffer by interrupts, a thread  *)
(* reads them.  With one processor, what runs with interrupts off is one   *)
(* step up to the point where its thread blocks.                           *)
(***************************************************************************)
EXTENDS Integers, Sequences, FiniteSets, Lists

CONSTANTS
    Printer,       \* threads that print
    Reader,        \* a thread that reads keys
    MsgLen,        \* characters of a message
    INTQ_BUFSIZE,
    MaxPrints,     \* messages printed
    MaxKeys,       \* bytes that come over the line
    MaxUrgent,     \* characters printed with interrupts off
    Nil

ASSUME ConsoleAssumption ==
    /\ {MsgLen, MaxPrints, MaxKeys, MaxUrgent} \subseteq Nat /\ INTQ_BUFSIZE \in Nat \ {0, 1}
    /\ Nil \notin Printer \cup {Reader} /\ Reader \notin Printer

VARIABLES
    cn_lock,     \* [holder, depth]: console_lock, console_lock_depth
    cn_txq, cn_in,   \* the transmit queue and the input buffer
    cn_mode,     \* "UNINIT", "POLL" or "QUEUE"
    cn_ier,      \* interrupts enabled at the port
    cn_port,     \* the port: [thre, rbr]: ready to send; byte received or NoByte
    cn_thread,   \* [at, n] of each thread: n characters of its message are out
    cn_out,      \* history: what was sent
    cn_count,    \* [prints, keys, urgent] so far
    cn_failed    \* an ASSERT of intq.c failed

consoleVars == <<cn_lock, cn_txq, cn_in, cn_mode, cn_ier, cn_port, cn_thread, cn_out, cn_count, cn_failed>>
-----------------------------------------------------------------------------
(***************************************************************************)
(* Interrupt queues.  wait and signal are within the steps that use them.  *)
(***************************************************************************)

next(pos) == (pos + 1) % INTQ_BUFSIZE
NoByte == <<Nil, -1>>
intq_init == [buf |-> [i \in 0..INTQ_BUFSIZE - 1 |-> NoByte], head |-> 0, tail |-> 0,
              lock |-> Nil, waiter |-> Nil]
intq_empty(q) == q.head = q.tail
intq_full(q) == next(q.head) = q.tail
\* The byte itself, and the removal of it.
intq_first(q) == q.buf[q.tail]
intq_getc(q) == [q EXCEPT !.buf[q.tail] = NoByte, !.tail = next(@), !.waiter = Nil]
intq_putc(q, c) == [q EXCEPT !.buf[q.head] = c, !.head = next(@), !.waiter = Nil]
Contents(q) == [i \in 1..(q.head - q.tail) % INTQ_BUFSIZE |-> q.buf[(q.tail + i - 1) % INTQ_BUFSIZE]]

\* The threads after the waiter of queue q was woken.
Woken(q, threads) == [t \in DOMAIN threads |->
    IF t = q.waiter THEN [threads[t] EXCEPT !.at = "woken"] ELSE threads[t]]
-----------------------------------------------------------------------------
(***************************************************************************)
(* The serial port.                                                        *)
(***************************************************************************)

\* Faulty: only the receive interrupt is looked after.
write_ier_recv(txq, in) == [xmit |-> FALSE, recv |-> ~intq_full(in)]
write_ier(txq, in) == [xmit |-> ~intq_empty(txq), recv |-> ~intq_full(in)]

serial_init_queue ==
    /\ cn_mode # "QUEUE"
    /\ cn_mode' = "QUEUE"
    /\ cn_ier' = write_ier(cn_txq, cn_in)
    /\ UNCHANGED <<cn_lock, cn_txq, cn_in, cn_port, cn_thread, cn_out, cn_count, cn_failed>>

\* Receive while there is room, transmit while the port takes a byte.
serial_interrupt ==
    /\ cn_mode = "QUEUE"
    /\ (cn_ier.xmit /\ cn_port.thre) \/ (cn_ier.recv /\ cn_port.rbr # NoByte)
    /\ LET takes == ~intq_full(cn_in) /\ cn_port.rbr # NoByte
           sends == ~intq_empty(cn_txq) /\ cn_port.thre
           in == IF takes THEN intq_putc(cn_in, cn_port.rbr) ELSE cn_in
           txq == IF sends THEN intq_getc(cn_txq) ELSE cn_txq
           woken == IF sends THEN Woken(cn_txq, cn_thread) ELSE cn_thread
       IN  /\ cn_in' = in /\ cn_txq' = txq
           /\ cn_out' = IF sends THEN Append(cn_out, intq_first(cn_txq)) ELSE cn_out
           /\ cn_port' = [thre |-> cn_port.thre /\ ~sends, rbr |-> IF takes THEN NoByte ELSE cn_port.rbr]
           /\ cn_thread' = IF takes THEN Woken(cn_in, woken) ELSE woken
           /\ cn_ier' = write_ier(txq, in)
    /\ UNCHANGED <<cn_lock, cn_mode, cn_count, cn_failed>>
\* The hardware: a byte leaves, a byte arrives.
port_sent ==
    /\ ~cn_port.thre /\ cn_port' = [cn_port EXCEPT !.thre = TRUE]
    /\ UNCHANGED <<cn_lock, cn_txq, cn_in, cn_mode, cn_ier, cn_thread, cn_out, cn_count, cn_failed>>
port_received ==
    /\ cn_port.rbr = NoByte /\ cn_count.keys < MaxKeys
    /\ cn_port' = [cn_port EXCEPT !.rbr = <<"key", cn_count.keys + 1>>]
    /\ cn_count' = [cn_count EXCEPT !.keys = @ + 1]
    /\ UNCHANGED <<cn_lock, cn_txq, cn_in, cn_mode, cn_ier, cn_thread, cn_out, cn_failed>>
-----------------------------------------------------------------------------
(***************************************************************************)
(* Printing.                                                               *)
(***************************************************************************)

print(t) ==
    /\ cn_thread[t].at = "idle" /\ cn_count.prints < MaxPrints
    /\ cn_thread' = [cn_thread EXCEPT ![t].at = "acquire"]
    /\ cn_count' = [cn_count EXCEPT !.prints = @ + 1]
    /\ UNCHANGED <<cn_lock, cn_txq, cn_in, cn_mode, cn_ier, cn_port, cn_out, cn_failed>>

\* Faulty: the lock is not waited for.
console_free_always(t) == TRUE
console_free(t) == cn_lock.holder = Nil
acquire_console(t) ==
    /\ cn_thread[t].at = "acquire" /\ console_free(t)
    /\ cn_lock' = [cn_lock EXCEPT !.holder = t]
    /\ cn_thread' = [cn_thread EXCEPT ![t] = [at |-> "putc", n |-> 0]]
    /\ UNCHANGED <<cn_txq, cn_in, cn_mode, cn_ier, cn_port, cn_out, cn_count, cn_failed>>
\* A call from within a call only counts; here it prints the second character.
acquire_again(t) ==
    /\ cn_thread[t].at = "putc" /\ cn_lock = [holder |-> t, depth |-> 0] /\ cn_thread[t].n = 1
    /\ cn_lock' = [cn_lock EXCEPT !.depth = @ + 1]
    /\ UNCHANGED <<cn_txq, cn_in, cn_mode, cn_ier, cn_port, cn_thread, cn_out, cn_count, cn_failed>>
release_console(t) ==
    /\ cn_thread[t].at = "putc"
    /\ IF cn_lock.depth > 0
       THEN cn_thread[t].n > 1 /\ cn_lock' = [cn_lock EXCEPT !.depth = @ - 1] /\ UNCHANGED cn_thread
       ELSE /\ cn_thread[t].n = MsgLen
            /\ cn_lock' = [cn_lock EXCEPT !.holder = Nil]
            /\ cn_thread' = [cn_thread EXCEPT ![t] = [at |-> "idle", n |-> 0]]
    /\ UNCHANGED <<cn_txq, cn_in, cn_mode, cn_ier, cn_port, cn_out, cn_count, cn_failed>>

\* serial_putc: polling until the queue is in use; then into the queue, or to
\* sleep on it, or to sleep on its lock.
serial_putc(t) ==
    LET c == <<t, cn_thread[t].n + 1>>
    IN  /\ cn_thread[t].at = "putc" /\ cn_thread[t].n < MsgLen
        /\ IF cn_mode # "QUEUE"
           THEN /\ cn_port.thre
                /\ cn_port' = [cn_port EXCEPT !.thre = FALSE]
                /\ cn_out' = Append(cn_out, c)
                /\ cn_mode' = "POLL"
                /\ cn_thread' = [cn_thread EXCEPT ![t].n = @ + 1]
                /\ UNCHANGED <<cn_txq, cn_ier>>
           ELSE /\ IF ~intq_full(cn_txq)
                   THEN /\ cn_txq' = intq_putc(cn_txq, c)
                        /\ cn_thread' = [cn_thread EXCEPT ![t].n = @ + 1]
                        /\ cn_ier' = write_ier(cn_txq', cn_in)
                   ELSE IF cn_txq.lock = Nil
                   THEN /\ cn_txq' = [cn_txq EXCEPT !.lock = t, !.waiter = t]
                        /\ cn_thread' = [cn_thread EXCEPT ![t].at = "blocked"]
                        /\ UNCHANGED cn_ier
                   ELSE /\ cn_thread' = [cn_thread EXCEPT ![t].at = "qlock"]
                        /\ UNCHANGED <<cn_txq, cn_ier>>
                /\ UNCHANGED <<cn_port, cn_out, cn_mode>>
        /\ UNCHANGED <<cn_lock, cn_in, cn_count, cn_failed>>
\* lock_acquire returns after a while; wait asserts that the queue is still full.
intq_wait(t) ==
    /\ cn_thread[t].at = "qlock" /\ cn_txq.lock = Nil
    /\ cn_failed' = (cn_failed \/ ~intq_full(cn_txq))
    /\ cn_txq' = [cn_txq EXCEPT !.lock = t, !.waiter = t]
    /\ cn_thread' = [cn_thread EXCEPT ![t].at = "blocked"]
    /\ UNCHANGED <<cn_lock, cn_in, cn_mode, cn_ier, cn_port, cn_out, cn_count>>
\* lock_release, and the condition is tested again.
intq_woken(t) ==
    /\ cn_thread[t].at = "woken"
    /\ cn_txq' = IF t = Reader THEN cn_txq ELSE [cn_txq EXCEPT !.lock = Nil]
    /\ cn_in' = IF t = Reader THEN [cn_in EXCEPT !.lock = Nil] ELSE cn_in
    /\ cn_thread' = [cn_thread EXCEPT ![t].at = IF t = Reader THEN "getc" ELSE "putc"]
    /\ UNCHANGED <<cn_lock, cn_mode, cn_ier, cn_port, cn_out, cn_count, cn_failed>>

\* serial_putc with interrupts off, from a handler, without the console lock: a
\* full queue gives its first byte to the port by polling.
urgent_putc ==
    /\ cn_mode = "QUEUE" /\ cn_count.urgent < MaxUrgent
    /\ cn_count' = [cn_count EXCEPT !.urgent = @ + 1]
    /\ LET full == intq_full(cn_txq)
           q == IF full THEN intq_getc(cn_txq) ELSE cn_txq
       IN  /\ full => cn_port.thre
           /\ cn_port' = [cn_port EXCEPT !.thre = @ /\ ~full]
           /\ cn_out' = IF full THEN Append(cn_out, intq_first(cn_txq)) ELSE cn_out
           /\ cn_thread' = IF full THEN Woken(cn_txq, cn_thread) ELSE cn_thread
           /\ cn_txq' = intq_putc(q, <<Nil, 0>>)
           /\ cn_ier' = write_ier(cn_txq', cn_in)
    /\ UNCHANGED <<cn_lock, cn_in, cn_mode, cn_failed>>
-----------------------------------------------------------------------------
serial_notify(txq, in) == IF cn_mode = "QUEUE" THEN write_ier(txq, in) ELSE cn_ier

input_getc ==
    LET r == cn_thread[Reader]
    IN  /\ r.at \in {"idle", "getc"}
        /\ IF intq_empty(cn_in)
           THEN /\ cn_in' = [cn_in EXCEPT !.lock = Reader, !.waiter = Reader]
                /\ cn_thread' = [cn_thread EXCEPT ![Reader].at = "blocked"]
                /\ UNCHANGED cn_ier
           ELSE /\ cn_in' = intq_getc(cn_in)
                /\ cn_thread' = [cn_thread EXCEPT ![Reader] = [at |-> "idle", n |-> intq_first(cn_in)[2]]]
                /\ cn_ier' = serial_notify(cn_txq, cn_in')
        /\ UNCHANGED <<cn_lock, cn_txq, cn_mode, cn_port, cn_out, cn_count, cn_failed>>
-----------------------------------------------------------------------------
ConsoleInit ==
    /\ cn_lock = [holder |-> Nil, depth |-> 0]
    /\ cn_txq = intq_init /\ cn_in = intq_init /\ cn_mode = "UNINIT"
    /\ cn_ier = [xmit |-> FALSE, recv |-> FALSE] /\ cn_port = [thre |-> TRUE, rbr |-> NoByte]
    /\ cn_thread = [t \in Printer \cup {Reader} |-> [at |-> "idle", n |-> 0]]
    /\ cn_out = <<>> /\ cn_count = [prints |-> 0, keys |-> 0, urgent |-> 0] /\ cn_failed = FALSE

PrinterStep(t) ==
    \/ acquire_console(t) \/ release_console(t) \/ serial_putc(t) \/ intq_wait(t) \/ intq_woken(t)
ConsoleProgress ==
    \/ serial_interrupt \/ port_sent \/ serial_init_queue
    \/ \E t \in Printer : PrinterStep(t)
    \/ input_getc \/ intq_woken(Reader)
ConsoleNext ==
    \/ ConsoleProgress \/ port_received \/ urgent_putc
    \/ \E t \in Printer : print(t) \/ acquire_again(t)
ConsoleFairness ==
    /\ WF_consoleVars(serial_interrupt) /\ WF_consoleVars(port_sent) /\ WF_consoleVars(serial_init_queue)
    /\ WF_consoleVars(input_getc \/ intq_woken(Reader))
    /\ \A t \in Printer : SF_consoleVars(PrinterStep(t))
ConsoleSpec == ConsoleInit /\ [][ConsoleNext]_consoleVars /\ ConsoleFairness
-----------------------------------------------------------------------------
(***************************************************************************)
(* Properties.                                                             *)
(***************************************************************************)

ConsoleTypeOK ==
    /\ cn_lock.holder \in Printer \cup {Nil} /\ cn_lock.depth \in 0..1
    /\ cn_mode \in {"UNINIT", "POLL", "QUEUE"} /\ cn_ier \in [xmit : BOOLEAN, recv : BOOLEAN]
    /\ cn_txq.head \in 0..INTQ_BUFSIZE - 1 /\ cn_in.tail \in 0..INTQ_BUFSIZE - 1
    /\ \A t \in DOMAIN cn_thread :
          cn_thread[t].at \in {"idle", "acquire", "putc", "qlock", "blocked", "woken", "getc"}

\* What was sent and what is queued are whole messages one after the other, with
\* nothing lost or mixed (characters printed with interrupts off aside), and the
\* ASSERT of wait in intq.c holds: no thread comes back from the lock of a queue to
\* find that there is room, because the console lock lets one thread print.
ConsoleSound ==
    LET stream == cn_out \o Contents(cn_txq)
        sent == Chosen(stream, {i \in DOMAIN stream : stream[i][1] # Nil})
    IN  /\ ConsoleTypeOK
        /\ \A i \in 1..Len(sent) - 1 :
              IF sent[i][2] = MsgLen THEN sent[i + 1][2] = 1 ELSE sent[i + 1] = <<sent[i][1], sent[i][2] + 1>>
        /\ ~cn_failed

\* Every message gets out, and every byte received gets to the input buffer: the
\* interrupts of the port are on whenever there is something for them to do.
ConsoleDrains ==
    /\ \A t \in Printer : (cn_thread[t].at = "acquire") ~> (cn_thread[t].at = "idle" /\ intq_empty(cn_txq))
    /\ (cn_port.rbr # NoByte) ~> (cn_port.rbr = NoByte)
=============================================================================
