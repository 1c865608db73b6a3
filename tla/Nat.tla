--------------------------------- MODULE Nat ---------------------------------
(***************************************************************************)
(* The second network assignment (computer-networks/PA2): clients that     *)
(* register with a rendezvous server and open sessions to each other, some *)
(* of them behind NAT machines.                                            *)
(*                                                                         *)
(* A frame has a place: the machine that handles it next, and the side     *)
(* ("in" or "out") it comes from.  Its `code' is what get_data_type writes *)
(* into it: request, answer and drop share code 0 and the receiver tells   *)
(* them apart by the id, ping and pong share code 2.  Frames are datagrams *)
(* and are taken in any order.  TTL and checksums are right in every frame *)
(* the machines make.                                                      *)
(***************************************************************************)
EXTENDS Integers, Sequences, FiniteSets

CONSTANTS
    NatClient, NatBox,
    Behind,          \* the NAT a client is behind, or the server it is attached to
    Rendezvous,      \* the server, which is also the router between its neighbours
    ClientPort,      \* ports typed at the clients' consoles
    BlockedRange,    \* ranges <<min, max>> typed at the NATs' consoles
    PortBase,        \* base ports typed after a reset
    LastId,          \* 31
    MaxPort,         \* ports tried at most
    MaxNatCommands,  \* lines typed at all consoles together
    Nobody

PortWidth == 65536   \* uint16_t

ASSUME NatAssumption ==
    /\ Behind \in [NatClient -> NatBox \cup {Rendezvous}]
    /\ {LastId, MaxPort, MaxNatCommands} \subseteq Nat
    /\ ClientPort \subseteq 0..MaxPort /\ PortBase \subseteq 0..PortWidth - 1
    /\ NatClient \cap NatBox = {} /\ {Rendezvous, Nobody} \cap (NatClient \cup NatBox) = {}
    /\ Rendezvous # Nobody

VARIABLES
    nat_box,      \* table, sessions, blocked_range, base_port, counter of each NAT
    nat_info,     \* information of the server: client_info in the order of their ids
    nat_client,   \* my_ID, my_port, peer_ID, peer_info, connected, peer_session_kind
    nat_net,      \* frames on their way
    nat_typed,    \* lines typed so far
    nat_reset     \* history: some NAT was reset

natVars == <<nat_box, nat_info, nat_client, nat_net, nat_typed, nat_reset>>

Addr(ip, port) == [ip |-> ip, port |-> port]
OwnIp(c) == <<c, 0>>
ServerAddr == Addr(<<Rendezvous, 0>>, 1234)
NoPeer == [local |-> Addr(<<Nobody, 0>>, 0), public |-> Addr(<<Nobody, 0>>, 0)]

\* The machine behind an address, as find_gateway of the server finds it; what
\* it does not know goes out over its first interface.
Gateway(ip) == IF ip[1] \in {c \in NatClient : Behind[c] = Rendezvous} THEN ip[1]
               ELSE IF ip[1] \in NatBox THEN ip[1]
               ELSE CHOOSE n \in NatBox : TRUE

\* fill_header and sendFrame.
Packet(at, side, src, dst, code, id, body) ==
    [at |-> at, side |-> side, src |-> src, dst |-> dst, code |-> code, id |-> id, body |-> body]
NoBody == NoPeer
Ping == [NoBody EXCEPT !.local.port = -1]
Pong == [NoBody EXCEPT !.local.port = -2]
-----------------------------------------------------------------------------
(***************************************************************************)
(* NatMachine.                                                             *)
(***************************************************************************)

find_in_outer_table(n, a) == {i \in DOMAIN n.table : n.table[i].public = a}
find_in_local_table(n, a) == {i \in DOMAIN n.table : n.table[i].local = a}
valid_in_range(n, port) == \A r \in n.blocked_range : port < r[1] \/ port > r[2]

\* Faulty: the counter of the addresses given out is not advanced.
advance_never(counter) == counter
\* counter++ of calculate_new_address.
advance(counter) == counter + 1

\* Three ports for each address after that of interface 0.
calculate_new_address(b, n) ==
    Addr(<<b, n.counter \div 3 + 1>>, (n.base_port + (n.counter % 3) * 100) % PortWidth)

\* A frame from outside goes to the client of its address if that client has
\* sent something to its sender, else the sender is told.
from_outside(b, f) ==
    LET n == nat_box[b]
        hits == find_in_outer_table(n, f.dst)
        i == CHOOSE k \in hits : TRUE
    IN  /\ nat_net' = (nat_net \ {f}) \cup
              (IF hits = {} THEN {}
               ELSE IF [local |-> f.dst, outer |-> f.src] \in n.sessions
               THEN {[f EXCEPT !.at = n.table[i].local.ip[1], !.dst = n.table[i].local]}
               ELSE {Packet(Rendezvous, "in", Addr(<<b, 0>>, 4321), f.src, 0, 0, NoBody)})
        /\ UNCHANGED nat_box

\* A frame from inside gets the public address of its sender, a new one the first
\* time, also when it is for another client inside.
from_inside(b, f) ==
    LET n == nat_box[b]
        new == find_in_local_table(n, f.src) = {}
        a == calculate_new_address(b, n)
        public == IF new THEN a ELSE n.table[CHOOSE k \in find_in_local_table(n, f.src) : TRUE].public
        m == [n EXCEPT !.table = IF new THEN Append(@, [local |-> f.src, public |-> a]) ELSE @,
                       !.counter = IF new THEN advance(@) ELSE @,
                       !.sessions = @ \cup {[local |-> public, outer |-> f.dst]}]
        next == IF \E c \in NatClient : OwnIp(c) = f.dst.ip /\ Behind[c] = b THEN f.dst.ip[1] ELSE Rendezvous
        drop == Packet(f.src.ip[1], "in", Addr(<<b, 0>>, 1234), f.src, 0, 0, NoBody)
    IN  IF valid_in_range(n, f.src.port)
        THEN /\ nat_box' = [nat_box EXCEPT ![b] = m]
             /\ nat_net' = (nat_net \ {f}) \cup {[f EXCEPT !.at = next, !.src = public]}
        ELSE nat_net' = (nat_net \ {f}) \cup {drop} /\ UNCHANGED nat_box

nat_processFrame(f) ==
    /\ f.at \in NatBox
    /\ IF f.side = "out" THEN from_outside(f.at, f) ELSE from_inside(f.at, f)
    /\ UNCHANGED <<nat_info, nat_client, nat_typed, nat_reset>>

block_range(b, r) ==
    /\ nat_box' = [nat_box EXCEPT ![b].blocked_range = @ \cup {r}]
    /\ UNCHANGED <<nat_info, nat_client, nat_net, nat_reset>>
\* The counter goes on counting.
reset_setting(b, port) ==
    /\ nat_box' = [nat_box EXCEPT ![b].table = <<>>, ![b].sessions = {}, ![b].blocked_range = {},
                                  ![b].base_port = port]
    /\ nat_reset' = TRUE
    /\ UNCHANGED <<nat_info, nat_client, nat_net>>
-----------------------------------------------------------------------------
(***************************************************************************)
(* ServerMachine.                                                          *)
(***************************************************************************)

\* rec_request_id: the search for the client's local address compares it with
\* half an address (ntohs) and finds nothing, so every request gets a new id.
rec_request_id(f) ==
    IF Len(nat_info) + 1 <= LastId
    THEN /\ nat_info' = Append(nat_info, [f.body EXCEPT !.public = f.src])
         /\ nat_net' = (nat_net \ {f}) \cup
               {Packet(Gateway(f.src.ip), "out", ServerAddr, f.src, 0, Len(nat_info) + 1, NoBody)}
    ELSE UNCHANGED nat_info /\ nat_net' = nat_net \ {f}

rec_ip_request(f) ==
    /\ nat_net' = (nat_net \ {f}) \cup
          IF (\E i \in DOMAIN nat_info : nat_info[i].public = f.src) /\ f.id \in DOMAIN nat_info
          THEN {Packet(Gateway(f.src.ip), "out", ServerAddr, f.src, 1, f.id, nat_info[f.id])} ELSE {}
    /\ UNCHANGED nat_info

rec_update_request(f) ==
    /\ nat_info' = IF f.id \in DOMAIN nat_info
                   THEN [nat_info EXCEPT ![f.id].local = f.body.local] ELSE nat_info
    /\ nat_net' = nat_net \ {f}

\* receive_status answers to the local address, on the interface of the request.
receive_status(f) ==
    /\ nat_net' = (nat_net \ {f}) \cup
          {Packet(Gateway(f.src.ip), "out", ServerAddr, f.body.local, 7,
                  IF f.body.local = f.src THEN 1 ELSE 0, NoBody)}
    /\ UNCHANGED nat_info

forward(f) ==
    nat_net' = (nat_net \ {f}) \cup {[f EXCEPT !.at = Gateway(f.dst.ip), !.side = "out"]}
        /\ UNCHANGED nat_info

server_machine_processFrame(f) ==
    /\ f.at = Rendezvous
    /\ IF f.dst.ip # ServerAddr.ip THEN forward(f)
       ELSE CASE f.code = 0 -> rec_request_id(f)
              [] f.code = 1 -> rec_ip_request(f)
              [] f.code = 5 -> rec_update_request(f)
              [] f.code = 6 -> receive_status(f)
              [] OTHER -> nat_net' = nat_net \ {f} /\ UNCHANGED nat_info
    /\ UNCHANGED <<nat_box, nat_client, nat_typed, nat_reset>>
-----------------------------------------------------------------------------
(***************************************************************************)
(* ClientMachine.  Handlers return the client and what it sends.           *)
(***************************************************************************)

Send(c, dst, code, id, body, port) ==
    {Packet(Behind[c], "in", Addr(OwnIp(c), port), dst, code, id, body)}
Info(c, port) == [NoBody EXCEPT !.local = Addr(OwnIp(c), port)]

\* make_connection; it does nothing for a client with an id.
make_connection(c, s, port) ==
    IF s.my_ID > 0 THEN [s |-> s, out |-> {}]
    ELSE [s |-> [s EXCEPT !.my_port = port],
          out |-> Send(c, ServerAddr, 0, 0, Info(c, port), port)]

\* Faulty: the retry uses the same port.
next_port_same(port) == port
\* my_port += 100 of receive_drop_packet.
next_port(port) == port + 100

\* receive_drop_packet: the NAT has blocked the port (1234), or a peer's NAT has
\* dropped a frame (4321), which is only reported.
receive_drop_packet(c, s, f) ==
    IF f.src.port = 1234 /\ next_port(s.my_port) <= MaxPort
    THEN make_connection(c, [s EXCEPT !.my_port = next_port(@)], next_port(s.my_port))
    ELSE [s |-> s, out |-> {}]

response_ip(s, f) ==
    [s EXCEPT !.peer_info = f.body, !.peer_ID = f.id, !.connected = FALSE]

check_connection(s, id) == s.peer_ID = id /\ s.connected /\ s.peer_info # NoPeer

\* request_session: the peer's address is where the ping came from.  A ping of a
\* public session is taken for a local one.
request_session(c, s, f) ==
    IF check_connection(s, f.id) THEN [s |-> s, out |-> {}]
    ELSE [s |-> [s EXCEPT !.peer_ID = f.id, !.connected = TRUE, !.peer_session_kind = "local",
                          !.peer_info = [local |-> f.src, public |-> f.src]],
          out |-> Send(c, f.src, 2, s.my_ID, Pong, f.dst.port)]

response_id(s, f) == [s EXCEPT !.my_ID = f.id]

\* receive_NAT_updated_packet: the server is told the local address again.
receive_NAT_updated_packet(c, s) == Send(c, ServerAddr, 5, s.my_ID, Info(c, s.my_port), s.my_port)

response_session(s, f) == IF f.id = s.peer_ID THEN [s EXCEPT !.connected = TRUE] ELSE s

\* processFrame with detect_data_type.  Messages and status are only printed.
client_machine_processFrame(f) ==
    /\ f.at \in NatClient /\ f.dst.ip = OwnIp(f.at)
    /\ LET c == f.at
           s == nat_client[c]
           Only(t) == [s |-> t, out |-> {}]
           r == CASE f.code = 0 /\ f.id = 0 -> receive_drop_packet(c, s, f)
                  [] f.code = 0 /\ f.id # 0 -> Only(response_id(s, f))
                  [] f.code = 1 -> Only(response_ip(s, f))
                  [] f.code = 2 /\ f.body = Ping -> request_session(c, s, f)
                  [] f.code = 2 /\ f.body = Pong -> Only(response_session(s, f))
                  [] f.code = 4 -> [s |-> s, out |-> receive_NAT_updated_packet(c, s)]
                  [] OTHER -> Only(s)
       IN  /\ nat_client' = [nat_client EXCEPT ![c] = r.s]
           /\ nat_net' = (nat_net \ {f}) \cup r.out
    /\ UNCHANGED <<nat_box, nat_info, nat_typed, nat_reset>>

\* make_session and send_message use the address of the kind of session.
PeerAddr(s, kind) == IF kind = "local" THEN s.peer_info.local ELSE s.peer_info.public
make_session(c, kind) ==
    LET s == nat_client[c]
    IN  /\ s.peer_info # NoPeer
        /\ nat_client' = [nat_client EXCEPT ![c].peer_session_kind = kind]
        /\ nat_net' = nat_net \cup Send(c, PeerAddr(s, kind), 2, s.my_ID, Ping, s.my_port)

\* The commands that only send.
get_id_info(c, s) == UNION {Send(c, ServerAddr, 1, id, NoBody, s.my_port) : id \in 1..Len(nat_info)}
ask_status(c, s) == Send(c, ServerAddr, 6, 0, Info(c, s.my_port), s.my_port)
send_message(c, s) ==
    IF check_connection(s, s.peer_ID)
    THEN Send(c, PeerAddr(s, s.peer_session_kind), 3, s.my_ID, NoBody, s.my_port) ELSE {}
commands(c, s) == get_id_info(c, s) \cup ask_status(c, s) \cup send_message(c, s)

connect_command(c, port) ==
    LET r == make_connection(c, nat_client[c], port)
    IN  nat_client[c].my_ID = 0 /\ nat_client' = [nat_client EXCEPT ![c] = r.s]
        /\ nat_net' = nat_net \cup r.out

\* run () of a client; the notice that a NAT has changed comes from outside.
client_machine_run(c) ==
    /\ \/ \E port \in ClientPort : connect_command(c, port)
       \/ \E kind \in {"local", "public"} : make_session(c, kind)
       \/ nat_client[c].my_port > 0 /\ UNCHANGED nat_client
             /\ \E f \in commands(c, nat_client[c]) \cup {Packet(c, "in", ServerAddr, Addr(OwnIp(c), 0), 4, 0, NoBody)} :
                   nat_net' = nat_net \cup {f}
    /\ UNCHANGED <<nat_box, nat_info, nat_reset>>
nat_run(b) == (\E r \in BlockedRange : block_range(b, r)) \/ (\E p \in PortBase : reset_setting(b, p))

NatCommand ==
    /\ nat_typed < MaxNatCommands /\ nat_typed' = nat_typed + 1
    /\ (\E c \in NatClient : client_machine_run(c)) \/ (\E b \in NatBox : nat_run(b))

NatInit ==
    /\ nat_box = [b \in NatBox |-> [table |-> <<>>, sessions |-> {}, blocked_range |-> {},
                                    base_port |-> 2000, counter |-> 0]]
    /\ nat_info = <<>> /\ nat_net = {} /\ nat_typed = 0 /\ nat_reset = FALSE
    /\ nat_client = [c \in NatClient |-> [my_ID |-> 0, my_port |-> 0, peer_ID |-> 0,
                        peer_info |-> NoPeer, connected |-> FALSE, peer_session_kind |-> "none"]]

NatDelivery ==
    \E f \in nat_net : nat_processFrame(f) \/ server_machine_processFrame(f) \/ client_machine_processFrame(f)
NatNext == NatCommand \/ NatDelivery
\* Frames are handled as long as there are any.
NatSpec == NatInit /\ [][NatNext]_natVars /\ WF_natVars(NatDelivery)
-----------------------------------------------------------------------------
NatTypeOK ==
    /\ \A c \in NatClient : nat_client[c].my_ID \in 0..LastId /\ nat_client[c].my_port \in 0..MaxPort
    /\ nat_typed \in 0..MaxNatCommands

\* No reset moves the ports to where the counter, which goes on, gives an address
\* out again: the ports of one address are 100 apart.
PortsApart == \A p, q \in PortBase \cup {2000} : (p - q) % PortWidth \notin {100, 200}

\* A NAT never has one public address for two clients, nor two for one client: the
\* answer of the server, or a peer's frame, goes to one client.  The id a client uses
\* is one the server has given to that client, whatever was retried, reset or delayed
\* on the way, and every client the server knows has told it its own address, as long
\* as resets keep the ports apart.
NatSound ==
    /\ NatTypeOK
    /\ \A b \in NatBox : \A i, j \in DOMAIN nat_box[b].table :
          i # j => /\ nat_box[b].table[i].public # nat_box[b].table[j].public
                   /\ nat_box[b].table[i].local # nat_box[b].table[j].local
    /\ \A c \in NatClient : nat_client[c].my_ID <= Len(nat_info)
    /\ PortsApart =>
          /\ \A i \in DOMAIN nat_info : nat_info[i].local.ip \in {OwnIp(c) : c \in NatClient}
          /\ \A c \in NatClient :
                nat_client[c].my_ID > 0 => nat_info[nat_client[c].my_ID].local.ip = OwnIp(c)

\* A client that asked for a connection gets an id, after retrying on other ports
\* as long as its NAT blocks them (unless the NAT forgets it, or ids or ports run out).
Registered ==
    \A c \in NatClient :
        (nat_client[c].my_port > 0) ~>
            (nat_client[c].my_ID > 0 \/ nat_reset \/ Len(nat_info) = LastId
                \/ nat_client[c].my_port + 100 > MaxPort)
=============================================================================
