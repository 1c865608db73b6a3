--------------------------------- MODULE Http --------------------------------
(***************************************************************************)
(* The web server of operating-system/hw2: the thread that accepts         *)
(* connections, the work queue, the pool of threads that serve files or    *)
(* relay to another server, and the two helpers of each relay.             *)
(*                                                                         *)
(* A critical section of the queue is one step: pthread_cond_wait gives    *)
(* the mutex back in the same step in which it goes to sleep.  A sleeper   *)
(* that is woken takes the mutex again and tests its condition again.      *)
(* File contents and the wording of the answers are left out.              *)
(***************************************************************************)
EXTENDS Integers, Sequences, FiniteSets, FiniteSetsExt

CONSTANTS
    HttpConn,      \* connections that clients may make
    HttpThread,    \* the threads of the pool
    HttpConfig,    \* records [threads, handler]: --num-threads and --files or --proxy
    RequestKind,   \* what a client asks for
    MaxFds,        \* descriptors the process may have open
    NoConn

Main == 0
HttpKinds == {"bad", "missing", "file", "index", "directory", "device"}
ASSUME HttpAssumption ==
    /\ RequestKind \subseteq HttpKinds /\ MaxFds \in Nat /\ NoConn \notin HttpConn
    /\ IsFiniteSet(HttpConn) /\ IsFiniteSet(HttpThread) /\ Main \notin HttpThread
    /\ \A conf \in HttpConfig : conf.threads \subseteq HttpThread /\ conf.handler \in {"files", "proxy"}

VARIABLES
    ht_conf,     \* the configuration of this behaviour
    ht_up,       \* the process has not called exit
    ht_conn,     \* [state, answer] of each connection
    ht_queue,    \* work_queue, whose max_queue_size is num_threads
    ht_pc,       \* what each thread is about to do; Main is the accepting one
    ht_has,      \* the connection each thread holds
    ht_leaked,   \* descriptors that are open and known to nobody
    ht_lights,   \* lights
    ht_helper    \* the do_proxy threads: [id, conn, pc], pc "read" or "eof"

httpVars == <<ht_conf, ht_up, ht_conn, ht_queue, ht_pc, ht_has, ht_leaked, ht_lights, ht_helper>>

Threads == ht_conf.threads \cup {Main}
Used == ht_leaked + Cardinality({c \in HttpConn : ht_conn[c].state \in {"accepted", "queued", "served"}})
        + Cardinality({t \in HttpThread \cup {Main} : ht_pc[t] = "relay"})
Go(t, pc) == ht_pc' = [ht_pc EXCEPT ![t] = pc]
\* pthread_cond_signal: one sleeper, if there is one, will try again.
Signal(pcs, from, to) ==
    IF \E t \in DOMAIN pcs : pcs[t] = from
    THEN {[pcs EXCEPT ![t] = to] : t \in {u \in DOMAIN pcs : pcs[u] = from}} ELSE {pcs}
-----------------------------------------------------------------------------
(***************************************************************************)
(* serve_forever and the work queue.                                       *)
(***************************************************************************)

http_connect(c) ==
    /\ ht_conn[c].state = "none"
    /\ ht_conn' = [ht_conn EXCEPT ![c].state = "backlog"]
    /\ UNCHANGED <<ht_conf, ht_up, ht_queue, ht_pc, ht_has, ht_leaked, ht_lights, ht_helper>>

\* Without descriptors accept fails and is tried again.
serve_forever(c) ==
    /\ ht_pc[Main] = "accept" /\ ht_conn[c].state = "backlog" /\ Used < MaxFds
    /\ ht_conn' = [ht_conn EXCEPT ![c].state = "accepted"]
    /\ ht_has' = [ht_has EXCEPT ![Main] = c]
    /\ Go(Main, IF ht_conf.threads = {} THEN "handle" ELSE "push")
    /\ UNCHANGED <<ht_conf, ht_up, ht_queue, ht_leaked, ht_lights, ht_helper>>

\* Faulty: nobody is told.
tell_nobody(pcs) == {pcs}
tell_not_empty(pcs) == Signal(pcs, "is_not_empty", "pop")
tell_not_full(pcs) == Signal(pcs, "is_not_full", "push")

wq_push ==
    /\ ht_pc[Main] = "push"
    /\ IF Len(ht_queue) = Cardinality(ht_conf.threads)
       THEN Go(Main, "is_not_full") /\ UNCHANGED <<ht_queue, ht_conn, ht_has>>
       ELSE /\ ht_queue' = Append(ht_queue, ht_has[Main])
            /\ ht_conn' = [ht_conn EXCEPT ![ht_has[Main]].state = "queued"]
            /\ ht_has' = [ht_has EXCEPT ![Main] = NoConn]
            /\ ht_pc' \in tell_not_empty([ht_pc EXCEPT ![Main] = "accept"])
    /\ UNCHANGED <<ht_conf, ht_up, ht_leaked, ht_lights, ht_helper>>

wq_pop(t) ==
    /\ ht_pc[t] = "pop"
    /\ IF ht_queue = <<>>
       THEN Go(t, "is_not_empty") /\ UNCHANGED <<ht_queue, ht_conn, ht_has>>
       ELSE /\ ht_queue' = Tail(ht_queue)
            /\ ht_conn' = [ht_conn EXCEPT ![Head(ht_queue)].state = "served"]
            /\ ht_has' = [ht_has EXCEPT ![t] = Head(ht_queue)]
            /\ ht_pc' \in tell_not_full([ht_pc EXCEPT ![t] = "handle"])
    /\ UNCHANGED <<ht_conf, ht_up, ht_leaked, ht_lights, ht_helper>>
-----------------------------------------------------------------------------
(***************************************************************************)
(* handle_files_request.  The file sent, and the index file before it, are *)
(* opened and never closed.                                                *)
(***************************************************************************)

\* The answer and the descriptors left open, when `free' may still be opened.
http_send_file(free) == IF free > 0 THEN [answer |-> "file", leak |-> 1] ELSE [answer |-> "404", leak |-> 0]
http_send_dir == [answer |-> "list", leak |-> 0]
files_answer(kind, free) ==
    CASE kind \in {"bad", "missing", "device"} -> [answer |-> "404", leak |-> 0]
      [] kind = "file" -> http_send_file(free)
      [] kind = "directory" -> http_send_dir
      [] kind = "index" -> IF free = 0 THEN http_send_dir
                           ELSE [http_send_file(free - 1) EXCEPT !.leak = @ + 1]

\* http_request_parse reads what the client asks for.
handle_files_request(t, kind) ==
    /\ ht_pc[t] = "handle" /\ ht_conf.handler = "files"
    /\ LET a == files_answer(kind, MaxFds - Used)
       IN  /\ ht_conn' = [ht_conn EXCEPT ![ht_has[t]].answer = a.answer]
           /\ ht_leaked' = ht_leaked + a.leak
    /\ Go(t, "close")
    /\ UNCHANGED <<ht_conf, ht_up, ht_queue, ht_has, ht_lights, ht_helper>>

\* close(fd), after the handler; the thread goes on to the next connection.
garcon_forever(t) ==
    /\ ht_pc[t] = "close"
    /\ ht_conn' = [ht_conn EXCEPT ![ht_has[t]].state = "closed"]
    /\ ht_has' = [ht_has EXCEPT ![t] = NoConn]
    /\ Go(t, IF t = Main THEN "accept" ELSE "pop")
    /\ UNCHANGED <<ht_conf, ht_up, ht_queue, ht_leaked, ht_lights, ht_helper>>
-----------------------------------------------------------------------------
(***************************************************************************)
(* handle_proxy_request and do_proxy.                                      *)
(***************************************************************************)

\* Without a descriptor for the socket, or when gethostbyname2 does not know the
\* host, the process exits; when the other server does not answer the socket
\* stays open.
proxy_connect(t) ==
    /\ ht_pc[t] = "handle" /\ ht_conf.handler = "proxy"
    /\ \/ /\ ht_up' = FALSE
          /\ UNCHANGED <<ht_conn, ht_pc, ht_leaked, ht_lights, ht_helper>>
       \/ /\ Used < MaxFds
          /\ ht_conn' = [ht_conn EXCEPT ![ht_has[t]].answer = "502"]
          /\ ht_leaked' = ht_leaked + 1
          /\ Go(t, "close")
          /\ UNCHANGED <<ht_up, ht_lights, ht_helper>>
       \/ /\ Used < MaxFds
          /\ ht_lights' = [ht_lights EXCEPT ![t] = 0]
          /\ ht_helper' = ht_helper \cup {[id |-> t, conn |-> ht_has[t], way |-> w, pc |-> "read"] : w \in {"Tx", "Rx"}}
          /\ Go(t, "relay")
          /\ UNCHANGED <<ht_up, ht_conn, ht_leaked>>
    /\ UNCHANGED <<ht_conf, ht_queue, ht_has>>

\* A read of a helper: data is sent on, the end of it ends the loop, and so does
\* the light of the helper's thread.
do_proxy_read(h) ==
    /\ h \in ht_helper /\ h.pc = "read"
    /\ ht_helper' = (ht_helper \ {h}) \cup {[h EXCEPT !.pc = "eof"]}
    /\ ht_conn' = [ht_conn EXCEPT ![h.conn].answer = "relayed"]
    /\ UNCHANGED <<ht_conf, ht_up, ht_queue, ht_pc, ht_has, ht_leaked, ht_lights>>
\* No cancellation point between the end of the loop and the increment.
do_proxy_light(h) ==
    /\ h \in ht_helper /\ h.pc = "eof"
    /\ ht_lights' = [ht_lights EXCEPT ![h.id] = @ + 1]
    /\ ht_helper' = ht_helper \ {h}
    /\ UNCHANGED <<ht_conf, ht_up, ht_conn, ht_queue, ht_pc, ht_has, ht_leaked>>

\* The loop over lights[id], the cancellation of both helpers (which does not
\* wait for them) and the close of the socket.
proxy_end(t) ==
    /\ ht_pc[t] = "relay" /\ ht_lights[t] # 0
    /\ ht_helper' = {h \in ht_helper : h.id # t \/ h.pc = "eof"}
    /\ Go(t, "close")
    /\ UNCHANGED <<ht_conf, ht_up, ht_conn, ht_queue, ht_has, ht_leaked, ht_lights>>
-----------------------------------------------------------------------------
\* wq_init and init_thread_pool.
http_init(conf) ==
    /\ ht_conf = conf /\ ht_up = TRUE
    /\ ht_conn = [c \in HttpConn |-> [state |-> "none", answer |-> "none"]]
    /\ ht_queue = <<>>
    /\ ht_pc = [t \in HttpThread \cup {Main} |->
                   IF t = Main THEN "accept" ELSE IF t \in conf.threads THEN "pop" ELSE "none"]
    /\ ht_has = [t \in HttpThread \cup {Main} |-> NoConn]
    /\ ht_leaked = 0 /\ ht_helper = {}
    /\ ht_lights = [t \in HttpThread \cup {Main} |-> 0]

HttpInit == \E conf \in HttpConfig : http_init(conf)
HttpThreadStep(t) ==
    \/ wq_pop(t) \/ garcon_forever(t) \/ proxy_connect(t) \/ proxy_end(t)
    \/ \E kind \in RequestKind : handle_files_request(t, kind)
HttpServerStep ==
    /\ ht_up
    /\ \/ wq_push
       \/ \E t \in Threads : HttpThreadStep(t)
       \/ \E h \in ht_helper : do_proxy_read(h) \/ do_proxy_light(h)
HttpNext ==
    \/ ht_up /\ \E c \in HttpConn : serve_forever(c) \/ http_connect(c)
    \/ HttpServerStep

\* The threads run, clients send their request and end their connection.
HttpFairness == WF_httpVars(HttpServerStep)
HttpSpec == HttpInit /\ [][HttpNext]_httpVars /\ HttpFairness
-----------------------------------------------------------------------------
(***************************************************************************)
(* Properties.                                                             *)
(***************************************************************************)

HttpTypeOK ==
    /\ ht_conf \in HttpConfig
    /\ \A c \in HttpConn : ht_conn[c].state \in {"none", "backlog", "accepted", "queued", "served", "closed"}
    /\ ht_queue \in Seq(HttpConn) /\ Len(ht_queue) <= Cardinality(ht_conf.threads)
    /\ \A t \in DOMAIN ht_has : ht_has[t] \in HttpConn \cup {NoConn}
    /\ ht_leaked \in 0..MaxFds

\* An accepted connection is in exactly one place: the queue, once, or the hands
\* of one thread; nobody holds one that is closed.  No thread of the pool sleeps
\* on an empty queue while more connections wait than threads were woken for.
ConnectionsOwned ==
    /\ HttpTypeOK
    /\ \A c \in HttpConn :
          Cardinality({i \in DOMAIN ht_queue : ht_queue[i] = c})
            + Cardinality({t \in DOMAIN ht_has : ht_has[t] = c})
            = IF ht_conn[c].state \in {"accepted", "queued", "served"} THEN 1 ELSE 0
    /\ LET asleep == {t \in ht_conf.threads : ht_pc[t] = "is_not_empty"}
           awake == {t \in ht_conf.threads : ht_pc[t] = "pop"}
       IN  asleep # {} => Len(ht_queue) <= Cardinality(awake)

\* Every accepted connection is closed in the end, unless the process ends: the
\* queue loses no wake-up and no thread waits for a light that is never lit.
AcceptedIsClosed ==
    \A c \in HttpConn : (ht_conn[c].state = "accepted") ~> (ht_conn[c].state = "closed" \/ ~ht_up)
=============================================================================
