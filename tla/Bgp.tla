--------------------------------- MODULE Bgp ---------------------------------
(***************************************************************************)
(* The third network assignment (computer-networks/PA3): routers that open *)
(* BGP sessions on their interfaces, exchange routes and withdraw them.    *)
(*                                                                         *)
(* A topology gives each router the sequence of its neighbours: the place  *)
(* of a neighbour is the index of the interface towards it.  A link        *)
(* carries the frames of one direction in order.  The clock of a topology  *)
(* says whether seconds pass; the routers' seconds have the same length.   *)
(***************************************************************************)
EXTENDS Integers, Sequences, FiniteSets, SequencesExt, Lists

CONSTANTS
    Topology,       \* records [neighbour, relation, asset, clock, lines]
    MAX_RTO, MAX_CRT, MAX_HT,
    BgpPriority     \* priorities typed at the consoles

\* Links go both ways, and every router has one; a router knows what each
\* neighbour is to it.
TopologyOK(top) ==
    LET R == DOMAIN top.neighbour IN
    /\ top.neighbour \in [R -> Seq(R) \ {<<>>}]
    /\ \A r \in R : \A n \in ToSet(top.neighbour[r]) :
          /\ r \in ToSet(top.neighbour[n])
          /\ top.relation[<<r, n>>] \in {"CUSTOMER", "PEER", "PROVIDER"}
    /\ \A r \in R : top.asset[r] \in Seq(ToSet(top.asset[r]))
    /\ top.lines \in Nat

\* The timers of sm.h keep this order; two ticks are the least for which a timer
\* that was just set does not expire in the same pass.
ASSUME BgpAssumption ==
    /\ \A top \in Topology : TopologyOK(top)
    /\ {MAX_RTO, MAX_CRT, MAX_HT} \subseteq Nat /\ 2 <= MAX_RTO /\ MAX_RTO < MAX_CRT /\ MAX_CRT < MAX_HT

VARIABLES
    bgp_top,      \* the topology of this behaviour
    bgp_if,       \* ifsm_array of every router, by neighbour
    bgp_paths,    \* paths of every router, in order
    bgp_link,     \* frames on their way, by direction
    bgp_ticked,   \* routers whose manage_time ran in this second
    bgp_typed,    \* lines typed so far, start commands aside
    bgp_liars     \* history: prefixes some router claimed with hijack

bgpVars == <<bgp_top, bgp_if, bgp_paths, bgp_link, bgp_ticked, bgp_typed, bgp_liars>>

Router == DOMAIN bgp_top.neighbour
Neighbours(r) == ToSet(bgp_top.neighbour[r])
Relation(r, n) == bgp_top.relation[<<r, n>>]
Direction(top) == {d \in (DOMAIN top.neighbour) \X (DOMAIN top.neighbour) :
                      d[2] \in ToSet(top.neighbour[d[1]])}
Bgp(type) == [type |-> type, withdrawn |-> <<>>, routes |-> <<>>]
Update(withdrawn, routes) == [type |-> "UPDATE", withdrawn |-> withdrawn, routes |-> routes]

\* What is sent on the links, given the frames of each direction.
emit(out) == bgp_link' = [d \in DOMAIN bgp_link |-> bgp_link[d] \o out[d]]
-----------------------------------------------------------------------------
(***************************************************************************)
(* The routes.                                                             *)
(***************************************************************************)

\* Faulty: a path through this router is taken.
detect_loop_never(r, ases) == FALSE
detect_loop(r, ases) == r \in ToSet(ases)

\* Another origin than that of a path already known for the same prefix.
detect_thief(known, ases, dest) ==
    \E p \in ToSet(known) : p.dest = dest /\ Last(p.ases) # Last(ases)
is_in_archive(known, ases, dest) == \E p \in ToSet(known) : p.dest = dest /\ p.ases = ases
get_if_priority(advertiser) ==
    CASE advertiser = "CUSTOMER" -> 100 [] advertiser = "PEER" -> 90 [] advertiser = "PROVIDER" -> 80

\* The prefix's mask is only tested for being non-zero.
empty_trash_path(known, prefix) ==
    Chosen(known, {i \in DOMAIN known : ~(known[i].dest[1] = prefix[1] /\ known[i].dest[2] # 0)})

\* The routes learned over the interface go back over it too.  The interface of
\* the router's own assets is 0.
get_admissible_routes(r, n) ==
    Chosen(bgp_paths[r], {i \in DOMAIN bgp_paths[r] :
        \/ bgp_paths[r][i].via = n
        \/ Relation(r, n) = "CUSTOMER"
        \/ bgp_paths[r][i].advertiser # Relation(r, n)})

\* One advertised route, given the paths known so far: a loop, a thief and a path
\* already known are passed over.
take_route(r, n, known, route) ==
    LET ases == <<r>> \o route.ases
    IN  IF \/ detect_loop(r, route.ases)
           \/ detect_thief(known, route.ases, route.dest)
           \/ is_in_archive(known, ases, route.dest)
        THEN known
        ELSE Append(known, [ases |-> ases, dest |-> route.dest, via |-> n,
                            advertiser |-> Relation(r, n),
                            priority |-> get_if_priority(Relation(r, n))])
handle_advertisement(r, n, known, routes) ==
    LET taken[i \in 0..Len(routes)] ==
            IF i = 0 THEN known ELSE take_route(r, n, taken[i - 1], routes[i])
    IN  taken[Len(routes)]

\* A withdrawal goes on to every other interface, in whatever state it is.
handle_bgp_update(r, n, f) ==
    LET kept == IF f.withdrawn = <<>> THEN bgp_paths[r] ELSE empty_trash_path(bgp_paths[r], f.withdrawn)
    IN  [paths |-> handle_advertisement(r, n, kept, f.routes),
         out |-> [d \in DOMAIN bgp_link |->
                     IF f.withdrawn # <<>> /\ d[1] = r /\ d[2] # n THEN <<f>> ELSE <<>>]]
-----------------------------------------------------------------------------
(***************************************************************************)
(* The console: the thread of run.                                         *)
(***************************************************************************)

established(r) == {n \in Neighbours(r) : bgp_if[<<r, n>>].current_state = "ESTABLISHED"}
to_established(r, frame) ==
    emit([d \in DOMAIN bgp_link |-> IF d[1] = r /\ d[2] \in established(r) THEN <<frame[d[2]]>> ELSE <<>>])

start_connection(r, n) ==
    /\ bgp_if[<<r, n>>].current_state = "IDLE"
    /\ bgp_if' = [bgp_if EXCEPT ![<<r, n>>].current_state = "CONNECT", ![<<r, n>>].RTO = MAX_RTO,
                                ![<<r, n>>].CRT = MAX_CRT, ![<<r, n>>].syn_sent = TRUE]
    /\ bgp_link' = [bgp_link EXCEPT ![<<r, n>>] = Append(@, Bgp("SYN"))]
    /\ UNCHANGED <<bgp_top, bgp_paths, bgp_ticked, bgp_typed, bgp_liars>>

advertise(r) ==
    /\ to_established(r, [n \in Neighbours(r) |->
          Update(<<>>, [i \in DOMAIN get_admissible_routes(r, n) |->
                           [ases |-> get_admissible_routes(r, n)[i].ases,
                            dest |-> get_admissible_routes(r, n)[i].dest]])])
    /\ UNCHANGED <<bgp_paths, bgp_liars>>

withdraw(r, prefix) ==
    /\ bgp_paths' = [bgp_paths EXCEPT ![r] = empty_trash_path(@, prefix)]
    /\ to_established(r, [n \in Neighbours(r) |-> Update(prefix, <<>>)])
    /\ UNCHANGED bgp_liars

highjack(r, prefix) ==
    /\ to_established(r, [n \in Neighbours(r) |-> Update(<<>>, <<[ases |-> <<r>>, dest |-> prefix]>>)])
    /\ bgp_liars' = bgp_liars \cup {<<r, prefix>>}
    /\ UNCHANGED bgp_paths

\* Also the priority of the own assets, whose interface is 0.
setting_priority(r, n, priority) ==
    /\ bgp_paths' = [bgp_paths EXCEPT ![r] =
          [i \in DOMAIN @ |-> IF @[i].via = n THEN [@[i] EXCEPT !.priority = priority] ELSE @[i]]]
    /\ UNCHANGED <<bgp_link, bgp_liars>>

Prefix == UNION {ToSet(bgp_top.asset[r]) : r \in Router}
bgp_run(r) ==
    /\ bgp_typed < bgp_top.lines
    /\ \/ advertise(r)
       \/ \E prefix \in Prefix : withdraw(r, prefix) \/ highjack(r, prefix)
       \/ \E n \in Neighbours(r), priority \in BgpPriority : setting_priority(r, n, priority)
    /\ bgp_typed' = bgp_typed + 1
    /\ UNCHANGED <<bgp_top, bgp_if, bgp_ticked>>
-----------------------------------------------------------------------------
(***************************************************************************)
(* processFrame.                                                           *)
(***************************************************************************)

set_timers(i) == [i EXCEPT !.RTO = MAX_RTO, !.CRT = MAX_CRT, !.HT = MAX_HT]
opened(i) == [set_timers(i) EXCEPT !.current_state = "O_SENT", !.syn_sent = FALSE, !.synAck_sent = FALSE]

\* The interface and the frames it sends back after a frame of the handshake.
handshake(i, type) ==
    LET opening == i.current_state \in {"CONNECT", "ACTIVE_STATE"}
    IN  CASE type = "SYN" /\ opening ->
                [face |-> [i EXCEPT !.synAck_sent = TRUE, !.RTO = MAX_RTO], out |-> <<Bgp("SYNACK")>>]
          [] type = "ACK" /\ opening /\ i.synAck_sent -> [face |-> opened(i), out |-> <<Bgp("OPEN")>>]
          [] type = "SYNACK" /\ opening /\ i.syn_sent ->
                [face |-> opened(i), out |-> <<Bgp("ACK"), Bgp("OPEN")>>]
          [] type = "OPEN" /\ i.current_state = "O_SENT" ->
                [face |-> [i EXCEPT !.current_state = "O_CONFIRM", !.HT = MAX_HT],
                 out |-> <<Bgp("KEEPALIVE")>>]
          [] type = "KEEPALIVE" /\ i.current_state \in {"O_CONFIRM", "ESTABLISHED"} ->
                [face |-> [i EXCEPT !.current_state = "ESTABLISHED", !.HT = MAX_HT], out |-> <<>>]
          [] OTHER -> [face |-> i, out |-> <<>>]

\* Router r takes the next frame from its neighbour n.
bgp_processFrame(r, n) ==
    /\ bgp_link[<<n, r>>] # <<>>
    /\ LET f == Head(bgp_link[<<n, r>>])
           i == bgp_if[<<r, n>>]
           h == handshake(i, f.type)
           u == handle_bgp_update(r, n, f)
           rest == [bgp_link EXCEPT ![<<n, r>>] = Tail(@)]
       IN  IF f.type = "UPDATE"
           THEN IF i.current_state = "ESTABLISHED"
                THEN /\ bgp_paths' = [bgp_paths EXCEPT ![r] = u.paths]
                     /\ bgp_if' = [bgp_if EXCEPT ![<<r, n>>].HT = MAX_HT]
                     /\ bgp_link' = [d \in DOMAIN rest |-> rest[d] \o u.out[d]]
                ELSE bgp_link' = rest /\ UNCHANGED <<bgp_if, bgp_paths>>
           ELSE /\ bgp_if' = [bgp_if EXCEPT ![<<r, n>>] = h.face]
                /\ bgp_link' = [rest EXCEPT ![<<r, n>>] = @ \o h.out]
                /\ UNCHANGED bgp_paths
    /\ UNCHANGED <<bgp_top, bgp_ticked, bgp_typed, bgp_liars>>
-----------------------------------------------------------------------------
(***************************************************************************)
(* manage_time, once a second: hold timer, retransmission and connect      *)
(* retry.  Each part takes the interface as the part before it left it.    *)
(***************************************************************************)

Down(n) == IF n > 0 THEN n - 1 ELSE 0

\* Faulty: the SYN is sent but not remembered.
connecting_forgotten(i) == [set_timers(i) EXCEPT !.current_state = "CONNECT"]
connecting(i) == [set_timers(i) EXCEPT !.current_state = "CONNECT", !.syn_sent = TRUE]

hold_time(i) ==
    IF i.current_state \notin {"ESTABLISHED", "O_CONFIRM", "O_SENT"} THEN i
    ELSE IF Down(i.HT) = 0 THEN connecting(i) ELSE [i EXCEPT !.HT = Down(@)]
connect_retry(i) ==
    IF i.current_state # "ACTIVE_STATE" THEN i
    ELSE IF Down(i.CRT) = 0 THEN [connecting(i) EXCEPT !.HT = i.HT] ELSE [i EXCEPT !.CRT = Down(@)]
retransmission(i) ==
    IF i.current_state # "CONNECT" THEN connect_retry(i)
    ELSE IF Down(i.RTO) = 0 THEN [i EXCEPT !.RTO = 0, !.CRT = MAX_CRT, !.current_state = "ACTIVE_STATE"]
    ELSE IF Down(i.CRT) = 0 THEN [connecting(i) EXCEPT !.HT = i.HT]
    ELSE [i EXCEPT !.RTO = Down(@), !.CRT = Down(@)]
\* A part that (re)connects sends a SYN.
syn_due(i) ==
    LET h == hold_time(i)
    IN  \/ h # i /\ h.current_state = "CONNECT"
        \/ i.current_state = "CONNECT" /\ Down(i.RTO) # 0 /\ Down(i.CRT) = 0
        \/ i.current_state = "ACTIVE_STATE" /\ retransmission(i).current_state = "CONNECT"

\* A second is longer than frames are on their way.
manage_time(r) ==
    /\ bgp_top.clock /\ r \notin bgp_ticked
    /\ \A d \in DOMAIN bgp_link : bgp_link[d] = <<>>
    /\ bgp_if' = [d \in DOMAIN bgp_if |->
                     IF d[1] = r THEN retransmission(hold_time(bgp_if[d])) ELSE bgp_if[d]]
    /\ emit([d \in DOMAIN bgp_link |->
                IF d[1] = r /\ syn_due(bgp_if[d]) THEN <<Bgp("SYN")>> ELSE <<>>])
    /\ bgp_ticked' = IF bgp_ticked \cup {r} = Router THEN {} ELSE bgp_ticked \cup {r}
    /\ UNCHANGED <<bgp_top, bgp_paths, bgp_typed, bgp_liars>>
-----------------------------------------------------------------------------
bgp_initialize(top) ==
    /\ bgp_top = top
    /\ bgp_if = [d \in Direction(top) |->
          [current_state |-> "IDLE", RTO |-> 0, CRT |-> 0, HT |-> 0,
           syn_sent |-> FALSE, synAck_sent |-> FALSE]]
    /\ bgp_paths = [r \in DOMAIN top.neighbour |->
          [i \in DOMAIN top.asset[r] |->
             [ases |-> <<r>>, dest |-> top.asset[r][i], via |-> top.neighbour[r][1],
              advertiser |-> "MYASSET", priority |-> 0]]]
    /\ bgp_link = [d \in Direction(top) |-> <<>>]
    /\ bgp_ticked = {} /\ bgp_typed = 0 /\ bgp_liars = {}

BgpInit == \E top \in Topology : bgp_initialize(top)
BgpNext ==
    \E r \in Router :
        \/ \E n \in Neighbours(r) : start_connection(r, n) \/ bgp_processFrame(r, n)
        \/ bgp_run(r)
        \/ manage_time(r)

\* Frames arrive, and time goes on.
BgpProgress ==
    \E r \in Router : manage_time(r) \/ \E n \in Neighbours(r) : bgp_processFrame(r, n)
BgpSpec == BgpInit /\ [][BgpNext]_bgpVars /\ WF_bgpVars(BgpProgress)
-----------------------------------------------------------------------------
(***************************************************************************)
(* Properties.                                                             *)
(***************************************************************************)

BgpState == {"IDLE", "CONNECT", "O_SENT", "O_CONFIRM", "ESTABLISHED", "ACTIVE_STATE"}
BgpTypeOK ==
    /\ bgp_top \in Topology
    /\ \A d \in DOMAIN bgp_if : /\ bgp_if[d].current_state \in BgpState
                                /\ bgp_if[d].RTO \in 0..MAX_RTO /\ bgp_if[d].CRT \in 0..MAX_CRT
                                /\ bgp_if[d].HT \in 0..MAX_HT
    /\ \A r \in Router : \A p \in ToSet(bgp_paths[r]) : p.via \in Neighbours(r) /\ p.dest \in Prefix
    /\ bgp_typed \in 0..bgp_top.lines

\* A path a router keeps is a path of the topology from the router itself, without
\* a loop; it ends at a router that has the prefix or claimed it; all paths to one
\* prefix end at the same router; and no router on it carries traffic between two
\* of its providers or two of its peers (detect_loop, detect_thief,
\* get_admissible_routes, along any chain of advertisements and withdrawals).
RoutesSound ==
    BgpTypeOK /\ \A r \in Router :
      /\ \A p \in ToSet(bgp_paths[r]) :
            /\ Head(p.ases) = r /\ IsInjective(p.ases)
            /\ \A i \in 1..Len(p.ases) - 1 : p.ases[i + 1] \in Neighbours(p.ases[i])
            /\ \/ p.dest \in ToSet(bgp_top.asset[Last(p.ases)])
               \/ <<Last(p.ases), p.dest>> \in bgp_liars
            /\ \A i \in 2..Len(p.ases) - 1 :
                  LET y == p.ases[i]
                  IN  \/ Relation(y, p.ases[i - 1]) # Relation(y, p.ases[i + 1])
                      \/ Relation(y, p.ases[i - 1]) = "CUSTOMER"
      /\ \A p, q \in ToSet(bgp_paths[r]) : p.dest = q.dest => Last(p.ases) = Last(q.ases)

\* Once a connection was started at both ends of a link, the session is up again
\* and again: whatever the timers cut down is opened anew.
AtBothEnds(r, n, State) ==
    <<r, n>> \in DOMAIN bgp_if /\ {bgp_if[<<r, n>>].current_state, bgp_if[<<n, r>>].current_state} \subseteq State
SessionRecovers ==
    \A d \in {d \in UNION {Direction(top) : top \in Topology} : d[1] < d[2]} :
      AtBothEnds(d[1], d[2], BgpState \ {"IDLE"}) ~> AtBothEnds(d[1], d[2], {"ESTABLISHED"})
=============================================================================
