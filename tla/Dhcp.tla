-------------------------------- MODULE Dhcp --------------------------------
(***************************************************************************)
(* The DHCP assignment (computer-networks/PA1): servers that lease the     *)
(* addresses of a pool, clients that ask for them, and frames that travel  *)
(* over links.  A client also passes on the frames that are not for it.    *)
(*                                                                         *)
(* A machine handles a frame or a line of its console in one step.  The    *)
(* frame it handles is in the buffer of the client framework; release and  *)
(* extend put a pointer into that buffer in the pool (entry Buf), so the   *)
(* address of such an entry is that of the frame received last.            *)
(***************************************************************************)
EXTENDS Integers, Sequences, FiniteSets, Lists

CONSTANTS
    DhcpServer, DhcpClient,
    DhcpLink,        \* pairs of machines that are connected, both ways
    DhcpBlock,       \* blocks [base, shift] an administrator adds to a pool
    LeaseTime,       \* times asked for
    PassTime,        \* times an administrator lets pass
    TimeWidth,       \* bits of a lease time (32)
    MaxCommands,     \* lines typed at all consoles together
    Buf, NoIP

DhcpMachine == DhcpServer \cup DhcpClient
Iface(m) == {n \in DhcpMachine : <<m, n>> \in DhcpLink}

ASSUME DhcpAssumption ==
    /\ DhcpServer \cap DhcpClient = {} /\ DhcpLink \subseteq DhcpMachine \X DhcpMachine
    /\ \A l \in DhcpLink : <<l[2], l[1]>> \in DhcpLink
    /\ 2^TimeWidth \in Nat /\ 10 < 2^TimeWidth /\ LeaseTime \subseteq 0..2^TimeWidth - 1
    /\ PassTime \subseteq Nat /\ MaxCommands \in Nat
    /\ \A b \in DhcpBlock : b.base \in 0..255 /\ 2^b.shift \in Nat \ {0}
    /\ Buf \notin Nat /\ NoIP = 0

VARIABLES
    dhcp_server,   \* ip_pool, offered_IPs, given_IPs and the frame buffer of each server
    dhcp_client,   \* offers, current_ip and old_IPs of each client
    dhcp_net,      \* frames on their way over each link, in order
    dhcp_typed,    \* lines typed so far
    dhcp_added,    \* history: the addresses added to the pool of each server
    dhcp_spoilt    \* history: the pool got an address that was in use, or a frame's buffer

dhcpVars == <<dhcp_server, dhcp_client, dhcp_net, dhcp_typed, dhcp_added, dhcp_spoilt>>

Frame(type, mac, ip, time) == [type |-> type, MAC |-> mac, IP |-> ip, time |-> time]
Lease(mac, ip, time) == [MAC |-> mac, IP |-> ip, time |-> time]
Uint(n) == n % 2^TimeWidth
DefaultTime(t) == IF t = 0 THEN 10 ELSE t

\* The first entry of a list of leases for an address, or 0.
find_IP(list, ip) ==
    LET hits == {i \in 1..Len(list) : list[i].IP = ip}
    IN  IF hits = {} THEN 0 ELSE CHOOSE i \in hits : \A j \in hits : i <= j
find_MAC(list, mac) ==
    LET hits == {i \in 1..Len(list) : list[i].MAC = mac}
    IN  IF hits = {} THEN 0 ELSE CHOOSE i \in hits : \A j \in hits : i <= j
erase(list, i) == SubSeq(list, 1, i - 1) \o SubSeq(list, i + 1, Len(list))

\* sendFrame on the links in S, of frames that depend on nothing but the sender.
sends(net, m, S, frames) ==
    [l \in DhcpLink |-> IF l[1] = m /\ l[2] \in S THEN net[l] \o frames ELSE net[l]]
-----------------------------------------------------------------------------
(***************************************************************************)
(* The server.  A handler returns the server and what it answers.          *)
(***************************************************************************)

Address(s, e) == IF e = Buf THEN s.buf ELSE e
sort_pool(s) == Sorted(s.ip_pool, [i \in DOMAIN s.ip_pool |-> Address(s, s.ip_pool[i])])

\* Takes the lowest address of the pool for a lease in the list named by the caller.
lowest(s) == Address(s, sort_pool(s)[1])
rest(s) == Tail(sort_pool(s))

\* Faulty: the address that is offered stays in the pool.
r_dhcp_discover_kept(s, f) ==
    IF s.ip_pool = <<>> THEN [s |-> s, out |-> <<>>]
    ELSE LET o == Lease(f.MAC, lowest(s), DefaultTime(f.time))
         IN  [s |-> [s EXCEPT !.ip_pool = sort_pool(s), !.offered_IPs = Append(@, o)],
              out |-> <<Frame("OFFER", o.MAC, o.IP, o.time)>>]

r_dhcp_discover(s, f) ==
    IF s.ip_pool = <<>> THEN [s |-> s, out |-> <<>>]
    ELSE LET o == Lease(f.MAC, lowest(s), DefaultTime(f.time))
         IN  [s |-> [s EXCEPT !.ip_pool = rest(s), !.offered_IPs = Append(@, o)],
              out |-> <<Frame("OFFER", o.MAC, o.IP, o.time)>>]

\* The offer is found by its address; whose offer it was is not looked at.
r_dhcp_request(s, f) ==
    LET i == find_IP(s.offered_IPs, f.IP)
        g == Lease(f.MAC, f.IP, DefaultTime(f.time))
    IN  IF i = 0 THEN [s |-> s, out |-> <<>>]
        ELSE [s |-> [s EXCEPT !.given_IPs = Append(@, g), !.offered_IPs = erase(@, i)],
              out |-> <<Frame("ACK", g.MAC, g.IP, g.time)>>]

\* Another server's ack: the client took that server's offer.
r_dhcp_ack(s, f) ==
    LET i == find_MAC(s.offered_IPs, f.MAC)
    IN  IF i = 0 THEN [s |-> s, out |-> <<>>]
        ELSE [s |-> [s EXCEPT !.ip_pool = Append(@, s.offered_IPs[i].IP),
                              !.offered_IPs = erase(@, i)],
              out |-> <<>>]

r_dhcp_release(s, f) ==
    LET i == find_IP(s.given_IPs, f.IP)
    IN  IF i = 0 THEN [s |-> s, out |-> <<>>]
        ELSE [s |-> [s EXCEPT !.ip_pool = Append(@, Buf), !.given_IPs = erase(@, i)],
              out |-> <<>>]

\* The address goes back to the pool and the lowest one is leased instead.
r_dhcp_extend_request(s, f) ==
    LET i == find_IP(s.given_IPs, f.IP)
        back == [s EXCEPT !.ip_pool = Append(@, Buf), !.given_IPs = erase(@, i)]
        g == Lease(f.MAC, lowest(back), Uint(s.given_IPs[i].time + DefaultTime(f.time)))
    IN  IF i = 0 THEN [s |-> s, out |-> <<>>]
        ELSE [s |-> [back EXCEPT !.ip_pool = rest(back), !.given_IPs = Append(@, g)],
              out |-> <<Frame("RESPONSE_EXTEND", g.MAC, g.IP, g.time)>>]

\* ServerMachine::processFrame.
server_processFrame(s, f) ==
    CASE f.type = "DISCOVER" -> r_dhcp_discover(s, f)
      [] f.type = "REQUEST" -> r_dhcp_request(s, f)
      [] f.type = "ACK" -> r_dhcp_ack(s, f)
      [] f.type = "RELEASE" -> r_dhcp_release(s, f)
      [] f.type = "REQUEST_EXTEND" -> r_dhcp_extend_request(s, f)
      [] OTHER -> [s |-> s, out |-> <<>>]

ServerReceives(m, n) ==
    /\ m \in DhcpServer /\ dhcp_net[<<n, m>>] # <<>>
    /\ LET f == Head(dhcp_net[<<n, m>>])
           r == server_processFrame([dhcp_server[m] EXCEPT !.buf = f.IP], f)
       IN  /\ dhcp_server' = [dhcp_server EXCEPT ![m] = r.s]
           /\ dhcp_net' = sends([dhcp_net EXCEPT ![<<n, m>>] = Tail(@)], m, {n}, r.out)
           /\ dhcp_spoilt' = (dhcp_spoilt \/ \E i \in DOMAIN r.s.ip_pool : r.s.ip_pool[i] = Buf)
    /\ UNCHANGED <<dhcp_client, dhcp_typed, dhcp_added>>

\* add_pool: the addresses of the block that find_ip_pool does not find, neither
\* before nor among those just added.
block_addresses(b) == [i \in 1..2^b.shift |-> ((b.base \div 2^b.shift) * 2^b.shift + i - 1) % 256]
find_ip_pool(s, ip) == \E i \in 1..Len(s.ip_pool) : Address(s, s.ip_pool[i]) = ip
InUse(s) == {l.IP : l \in {s.offered_IPs[i] : i \in 1..Len(s.offered_IPs)}
                          \cup {s.given_IPs[i] : i \in 1..Len(s.given_IPs)}}
add_pool(m, b) ==
    LET s == dhcp_server[m]
        block == block_addresses(b)
        new == Chosen(block, {i \in DOMAIN block : /\ ~ find_ip_pool(s, block[i])
                                                   /\ \A j \in 1..i - 1 : block[j] # block[i]})
    IN  /\ dhcp_server' = [dhcp_server EXCEPT ![m].ip_pool = @ \o new]
        /\ dhcp_added' = [dhcp_added EXCEPT ![m] = @ \cup {block[i] : i \in DOMAIN block}]
        /\ dhcp_spoilt' = (dhcp_spoilt \/ \E i \in 1..Len(new) : new[i] \in InUse(s))
        /\ UNCHANGED <<dhcp_client, dhcp_net>>

\* t_dhcp_timeout: what all neighbours are told when leases have expired.
t_dhcp_timeout(over) == [i \in DOMAIN over |-> Frame("TIMEOUT", over[i].MAC, over[i].IP, 0)]

\* The first of the sorted leases that has time left, or the place after the last.
first_valid(aged) ==
    CHOOSE n \in 1..Len(aged) + 1 : /\ \A i \in 1..n - 1 : aged[i].time <= 0
                                    /\ n <= Len(aged) => aged[n].time > 0

\* add_time: the times are unsigned, so only a lease whose time is used up
\* exactly has expired.
add_time(m, t) ==
    LET s == dhcp_server[m]
        timed == [i \in DOMAIN s.given_IPs |-> [s.given_IPs[i] EXCEPT !.time = Uint(@ - t)]]
        aged == Sorted(timed, [i \in DOMAIN timed |-> timed[i].time])
        n == first_valid(aged) - 1
        over == SubSeq(aged, 1, n)
    IN  /\ dhcp_server' = [dhcp_server EXCEPT
              ![m].given_IPs = SubSeq(aged, n + 1, Len(aged)),
              ![m].ip_pool = @ \o [i \in DOMAIN over |-> over[i].IP]]
        /\ dhcp_net' = sends(dhcp_net, m, Iface(m), t_dhcp_timeout(over))
        /\ UNCHANGED <<dhcp_client, dhcp_added, dhcp_spoilt>>

\* print_pool leaves the pool sorted.
print_pool(m) ==
    /\ dhcp_server' = [dhcp_server EXCEPT ![m].ip_pool = sort_pool(dhcp_server[m])]
    /\ UNCHANGED <<dhcp_client, dhcp_net, dhcp_added, dhcp_spoilt>>
-----------------------------------------------------------------------------
(***************************************************************************)
(* The client.                                                             *)
(***************************************************************************)

\* r_dhcp_offer: an offer for an address already offered replaces its time.
r_dhcp_offer(c, f) ==
    LET i == find_IP(c.offers, f.IP)
    IN  [c EXCEPT !.offers = IF i = 0 THEN Append(@, Lease(f.MAC, f.IP, f.time))
                             ELSE [@ EXCEPT ![i].time = f.time]]

client_r_dhcp_ack(c, f) == [c EXCEPT !.current_ip = f.IP, !.old_IPs = @ \cup {f.IP}]

r_dhcp_extend_response(c, f) == client_r_dhcp_ack(c, f)

r_dhcp_timeout(c, f) == IF c.current_ip = f.IP THEN [c EXCEPT !.current_ip = NoIP] ELSE c

\* ClientMachine::processFrame; distribute sends the frame on over the other
\* links, also an ack that was for this client.
client_processFrame(c, f) ==
    CASE f.type = "OFFER" -> r_dhcp_offer(c, f)
      [] f.type = "ACK" -> client_r_dhcp_ack(c, f)
      [] f.type = "RESPONSE_EXTEND" -> r_dhcp_extend_response(c, f)
      [] f.type = "TIMEOUT" -> r_dhcp_timeout(c, f)
      [] OTHER -> c

distribute(net, m, from, f) == sends(net, m, Iface(m) \ {from}, <<f>>)

ClientReceives(m, n) ==
    /\ m \in DhcpClient /\ dhcp_net[<<n, m>>] # <<>>
    /\ LET f == Head(dhcp_net[<<n, m>>])
           net == [dhcp_net EXCEPT ![<<n, m>>] = Tail(@)]
       IN  /\ dhcp_client' = [dhcp_client EXCEPT ![m] =
                                 IF f.MAC = m THEN client_processFrame(@, f) ELSE @]
           /\ dhcp_net' = IF f.MAC # m \/ f.type = "ACK" THEN distribute(net, m, n, f) ELSE net
    /\ UNCHANGED <<dhcp_server, dhcp_typed, dhcp_added, dhcp_spoilt>>

\* What the t_dhcp_... functions do: a frame of this type to all neighbours.
tell(m, type, ip, t) ==
    /\ dhcp_net' = sends(dhcp_net, m, Iface(m), <<Frame(type, m, ip, t)>>)
    /\ UNCHANGED <<dhcp_server, dhcp_added, dhcp_spoilt>>

t_dhcp_request(m, ip, t) == tell(m, "REQUEST", ip, t)
t_dhcp_release(m) == tell(m, "RELEASE", dhcp_client[m].current_ip, 0)
t_dhcp_extend_request(m, t) == tell(m, "REQUEST_EXTEND", dhcp_client[m].current_ip, t)

t_dhcp_discover(m, t) == tell(m, "DISCOVER", NoIP, t) /\ UNCHANGED dhcp_client

\* Offers are never forgotten, so an old one can be accepted.
accept_dhcp_offer(m, ip, t) ==
    LET i == find_IP(dhcp_client[m].offers, ip)
    IN  /\ i # 0 /\ dhcp_client[m].offers[i].time >= t
        /\ t_dhcp_request(m, ip, t)
        /\ UNCHANGED dhcp_client

release_ip(m) ==
    /\ dhcp_client[m].current_ip # NoIP
    /\ dhcp_client' = [dhcp_client EXCEPT ![m].current_ip = NoIP]
    /\ t_dhcp_release(m)

extend_lease(m, t) ==
    /\ dhcp_client[m].current_ip # NoIP
    /\ dhcp_client' = [dhcp_client EXCEPT ![m].current_ip = NoIP]
    /\ t_dhcp_extend_request(m, t)
-----------------------------------------------------------------------------
\* run (): a line typed at the console of a server or of a client.
server_run(m) ==
    \/ \E b \in DhcpBlock : add_pool(m, b)
    \/ \E t \in PassTime : add_time(m, t)
    \/ print_pool(m)
client_run(m) ==
    \/ \E t \in LeaseTime : t_dhcp_discover(m, t) \/ extend_lease(m, t)
    \/ \E t \in LeaseTime, i \in 1..Len(dhcp_client[m].offers) :
          accept_dhcp_offer(m, dhcp_client[m].offers[i].IP, t)
    \/ release_ip(m)

Typed(m) ==
    /\ dhcp_typed < MaxCommands /\ dhcp_typed' = dhcp_typed + 1
    /\ IF m \in DhcpServer THEN server_run(m) ELSE client_run(m)

DhcpInit ==
    /\ dhcp_server = [s \in DhcpServer |-> [ip_pool |-> <<>>, offered_IPs |-> <<>>,
                                            given_IPs |-> <<>>, buf |-> NoIP]]
    /\ dhcp_client = [c \in DhcpClient |-> [offers |-> <<>>, current_ip |-> NoIP, old_IPs |-> {}]]
    /\ dhcp_net = [l \in DhcpLink |-> <<>>]
    /\ dhcp_typed = 0 /\ dhcp_added = [s \in DhcpServer |-> {}] /\ dhcp_spoilt = FALSE

DhcpNext ==
    \/ \E l \in DhcpLink : ServerReceives(l[2], l[1]) \/ ClientReceives(l[2], l[1])
    \/ \E m \in DhcpMachine : Typed(m)

DhcpSpec == DhcpInit /\ [][DhcpNext]_dhcpVars
-----------------------------------------------------------------------------
LeaseType == [MAC : DhcpClient, IP : 0..255, time : 0..2^TimeWidth - 1]
DhcpTypeOK ==
    /\ \A s \in DhcpServer :
          /\ \A e \in {dhcp_server[s].ip_pool[i] : i \in DOMAIN dhcp_server[s].ip_pool} : e \in 0..255 \/ e = Buf
          /\ \A list \in {dhcp_server[s].offered_IPs, dhcp_server[s].given_IPs} :
                \A i \in DOMAIN list : list[i] \in LeaseType
    /\ \A c \in DhcpClient : dhcp_client[c].current_ip \in 0..255
    /\ dhcp_typed \in 0..MaxCommands

\* How often an address is in the pool of s, on offer or leased.
Places(s, ip) ==
    Cardinality({i \in DOMAIN s.ip_pool : Address(s, s.ip_pool[i]) = ip})
    + Cardinality({i \in DOMAIN s.offered_IPs : s.offered_IPs[i].IP = ip})
    + Cardinality({i \in DOMAIN s.given_IPs : s.given_IPs[i].IP = ip})

\* Through discover, request, ack, extend and time-out, with stale offers accepted
\* and frames on their way, a server never loses an address and never has it in
\* two places: its lists have the addresses that were added to its pool, each of
\* them once.  (Pointers into the frame buffer, and blocks added while they are in
\* use, break this.)
OnHand(s) == InUse(s) \cup {Address(s, s.ip_pool[i]) : i \in DOMAIN s.ip_pool}
AddressesConserved ==
    /\ DhcpTypeOK
    /\ ~ dhcp_spoilt => \A m \in DhcpServer :
          /\ OnHand(dhcp_server[m]) = dhcp_added[m]
          /\ \A ip \in dhcp_added[m] : Places(dhcp_server[m], ip) = 1
=============================================================================
