------------------------------ MODULE Netstack ------------------------------
(***************************************************************************)
(* The protocols that share the one network interface of RO-DOS: the       *)
(* interface table (network_interface.c), ARP, IP and DNS                  *)
(* (tcp_ip_stack.c) and DHCP (dhcp_client.c), with the two commands that   *)
(* drive them, NETSTART and WGET (commands.c).                             *)
(*                                                                         *)
(* Frames are only looked at while a command polls, and a command polls in *)
(* all its waits: an answer meant for one protocol, late or repeated, is   *)
(* processed in whatever wait the machine is in by then.  The network is   *)
(* external; a wait may end in a time-out at any moment.                   *)
(*                                                                         *)
(* An IP address is a triple, first byte, middle bytes and last byte; a    *)
(* netmask is the set of the positions it keeps.  Frames that change no    *)
(* state of these protocols are left out: ARP requests, which are answered *)
(* when they ask for our address, ICMP, TCP (see Tcp) and malformed ones.  *)
(***************************************************************************)
EXTENDS Integers, Sequences, FiniteSets

CONSTANTS
    Hosts,           \* host names WGET is given
    Overlong,        \* hosts of 64 characters or more
    Spill,           \* overlong host -> address that copying it leaves in last_dns_ip
    Continues,       \* overlong host -> addresses that read on as the rest of its name
    static_dns,      \* host -> address, for the hosts of the built-in table
    Address,         \* host -> address, what a DNS server answers
    Literals,        \* addresses WGET is given in place of a name
    Offers,          \* DHCP answers: xid, ip, subnet, router, dns
    dhcp_xid,        \* transaction of every DISCOVER
    Neighbours,      \* addresses ARP replies announce
    Macs,            \* link addresses ARP replies announce
    ARP_CACHE_SIZE,  \* 16
    MAX_INTERFACES,  \* 4
    Attempts,        \* 3: DISCOVERs of a NETSTART
    Retries          \* 5: queries of a dns_resolve

NoIp == <<0, 0, 0>>
NoHost == "no host"
Broadcast == "ff:ff:ff:ff:ff:ff"
QemuRouter == "52:55:0a:00:02:02"

ASSUME NetstackAssumption ==
    /\ Overlong \subseteq Hosts /\ NoHost \notin Hosts
    /\ DOMAIN static_dns \subseteq Hosts \ Overlong
    /\ \A h \in Hosts : Address[h] # NoIp
    /\ \A h \in DOMAIN static_dns : static_dns[h] # NoIp
    /\ NoIp \notin Literals
    /\ \A o \in Offers : o.ip # NoIp
    /\ {Broadcast, QemuRouter} \cap Macs = {}
    /\ ARP_CACHE_SIZE \in Nat \ {0} /\ MAX_INTERFACES \in Nat \ {0}
    /\ Attempts \in Nat \ {0} /\ Retries \in Nat \ {0}

VARIABLES
    num_interfaces,
    iface,          \* configuration of the default interface, the first registered
    arp_cache,      \* the valid entries, <<ip, mac>>; none is ever invalidated
    last_dns_host, last_dns_ip,
    pc,             \* "idle", "discover", "dhcp", "query", "dns" or "tcp": where a command is
    tries,          \* DISCOVERs or queries it has made
    host, ip,       \* cmd_wget: name, if any, and address it connects to
    discovered,     \* history: a DISCOVER was sent
    asked,          \* history: hosts asked for in queries
    announced,      \* history: entries of the ARP replies processed
    stray           \* history: an answer for another host was taken for last_dns_host

network == <<num_interfaces, iface>>
dns == <<last_dns_host, last_dns_ip, stray>>
wget == <<host, ip>>
vars == <<network, arp_cache, dns, pc, tries, wget, discovered, asked, announced>>

Unconfigured == [ip |-> NoIp, netmask |-> {}, gateway |-> NoIp, dns_server |-> NoIp]

-----------------------------------------------------------------------------
(* ARP and IP.                                                             *)

(* Mutation: in a full cache only the address of the entry is replaced.    *)
arp_add_entry_keeps_mac(a, mac) ==
    IF Len(arp_cache) < ARP_CACHE_SIZE THEN Append(arp_cache, <<a, mac>>)
    ELSE [arp_cache EXCEPT ![1][1] = a]

(* The first free entry, or the first entry; an address may have several.  *)
arp_add_entry(a, mac) ==
    IF Len(arp_cache) < ARP_CACHE_SIZE THEN Append(arp_cache, <<a, mac>>)
    ELSE [arp_cache EXCEPT ![1] = <<a, mac>>]

(* The entries for an address; arp_resolve takes the first.                *)
Cached(a) == {i \in 1..Len(arp_cache) : arp_cache[i][1] = a}
arp_resolve(a) == arp_cache[CHOOSE i \in Cached(a) : \A j \in Cached(a) : i <= j][2]

same_network(dst) == \A i \in iface.netmask : dst[i] = iface.ip[i]

NextHop(dst) == IF same_network(dst) THEN dst ELSE iface.gateway

(* ip_send: the link address a packet for dst goes to.                     *)
dest_mac(dst) ==
    IF Cached(NextHop(dst)) # {} THEN arp_resolve(NextHop(dst))
    ELSE IF same_network(dst) THEN Broadcast ELSE QemuRouter

-----------------------------------------------------------------------------
(* netif_poll with a frame waiting.                                        *)

(* dns_resolve looks at the result after each frame, and for the first     *)
(* time after one poll, whether it brought a frame or not.                 *)
Polling == pc \in {"dhcp", "query", "tcp"} \/ (pc = "dns" /\ last_dns_ip = NoIp)

Polled == pc' = IF pc = "query" THEN "dns" ELSE pc

arp_process(a, mac) ==
    /\ Polling /\ Polled
    /\ arp_cache' = arp_add_entry(a, mac)
    /\ announced' = announced \cup {<<a, mac>>}
    /\ UNCHANGED <<network, dns, tries, wget, discovered, asked>>

Or(option, default) == IF option = NoIp THEN default ELSE option

(* The settings of an OFFER.  Without a subnet mask the one taken is       *)
(* 0x00FFFFFF.                                                             *)
Settings(o) ==
    [ip |-> o.ip,
     netmask |-> IF o.subnet = {} THEN {2, 3} ELSE o.subnet,
     gateway |-> o.router,
     dns_server |-> Or(o.dns, <<8, 8, 8>>)]

(* Mutation: the transaction is not compared.                              *)
dhcp_process_any(o) ==
    /\ Polling /\ Polled /\ (o.xid = dhcp_xid => discovered)
    /\ iface' = Settings(o)
    /\ UNCHANGED <<num_interfaces, arp_cache, dns, tries, wget, discovered, asked, announced>>

(* An OFFER is taken at once, whatever the command waits for; the REQUEST  *)
(* is never sent and every other message is ignored.                       *)
dhcp_process(o) ==
    /\ Polling /\ Polled /\ o.xid = dhcp_xid /\ discovered
    /\ iface' = Settings(o)
    /\ UNCHANGED <<num_interfaces, arp_cache, dns, tries, wget, discovered, asked, announced>>

(* Whatever it answers, an answer from port 53 is the result.              *)
udp_process(h) ==
    /\ Polling /\ Polled /\ h \in asked
    /\ last_dns_ip' = Address[h]
    /\ stray' = (stray \/ h # last_dns_host)
    /\ UNCHANGED <<network, arp_cache, last_dns_host, tries, wget, discovered, asked, announced>>

netif_poll ==
    \/ \E a \in Neighbours, mac \in Macs : arp_process(a, mac)
    \/ \E o \in Offers : dhcp_process(o)
    \/ \E h \in Hosts : udp_process(h)

-----------------------------------------------------------------------------
(* NETSTART and WIFITEST.                                                  *)

(* wifi_driver_init registers the interface each time it is run.  The      *)
(* first one stays the default and keeps its settings; a full table is     *)
(* not noticed.                                                            *)
netif_register ==
    /\ num_interfaces' = IF num_interfaces < MAX_INTERFACES THEN num_interfaces + 1
                         ELSE num_interfaces
    /\ iface' = IF num_interfaces = 0 THEN Unconfigured ELSE iface

(* Without a device both commands end here and change nothing.             *)
cmd_netstart ==
    /\ pc = "idle"
    /\ netif_register
    /\ pc' = "discover" /\ tries' = 0
    /\ UNCHANGED <<arp_cache, dns, wget, discovered, asked, announced>>

cmd_wifitest ==
    /\ pc = "idle" /\ num_interfaces = 0
    /\ netif_register
    /\ UNCHANGED <<arp_cache, dns, pc, tries, wget, discovered, asked, announced>>

dhcp_discover ==
    /\ pc = "discover"
    /\ discovered' = TRUE
    /\ pc' = "dhcp"
    /\ UNCHANGED <<network, arp_cache, dns, tries, wget, asked, announced>>

(* Mutation: a failed attempt is not counted.                              *)
NextAttempt_uncounted ==
    /\ pc' = "discover"
    /\ UNCHANGED <<tries, network, arp_cache, dns, wget, discovered, asked, announced>>

NextAttempt ==
    /\ tries' = tries + 1
    /\ pc' = IF tries + 1 = Attempts THEN "idle" ELSE "discover"
    /\ UNCHANGED <<network, arp_cache, dns, wget, discovered, asked, announced>>

(* The driver refuses the frame.                                           *)
dhcp_discover_fails == pc = "discover" /\ NextAttempt

(* After some polls, or at the end of the wait.  Any address will do, also *)
(* one of an earlier NETSTART.                                             *)
netstart_ready ==
    /\ pc = "dhcp" /\ iface.ip # NoIp
    /\ pc' = "idle"
    /\ UNCHANGED <<network, arp_cache, dns, tries, wget, discovered, asked, announced>>

netstart_timeout == pc = "dhcp" /\ iface.ip = NoIp /\ NextAttempt

-----------------------------------------------------------------------------
(* WGET up to the connection.                                              *)

Online == pc = "idle" /\ num_interfaces > 0 /\ iface.ip # NoIp

Connect(h, a) == pc' = "tcp" /\ host' = h /\ ip' = a

wget_literal(a) ==
    /\ Online
    /\ Connect(NoHost, a)
    /\ UNCHANGED <<network, arp_cache, dns, tries, discovered, asked, announced>>

(* last_dns_host is an array of 64 bytes with last_dns_ip right behind it: *)
(* the copy of an overlong name runs on into last_dns_ip, and so does the  *)
(* comparison.  (A name of more than 96 characters runs on into tcb, which *)
(* tcp_connect resets: it is never found again.)                           *)
CacheHit(h) ==
    /\ last_dns_host = h /\ last_dns_ip # NoIp
    /\ h \in Overlong => last_dns_ip \in Continues[h]

dns_cached(h) ==
    /\ Online /\ CacheHit(h)
    /\ Connect(h, last_dns_ip)
    /\ UNCHANGED <<network, arp_cache, dns, tries, discovered, asked, announced>>

(* The shell turns what is typed into capitals and the table is in small   *)
(* letters: only another caller than WGET would find its hosts.            *)
dns_static(h) ==
    /\ Online /\ ~CacheHit(h) /\ h \in DOMAIN static_dns
    /\ last_dns_host' = h /\ last_dns_ip' = static_dns[h] /\ stray' = FALSE
    /\ Connect(h, static_dns[h])
    /\ UNCHANGED <<network, arp_cache, tries, discovered, asked, announced>>

Query(h) ==
    /\ Online /\ ~CacheHit(h) /\ h \notin DOMAIN static_dns
    /\ last_dns_host' = h /\ stray' = FALSE
    /\ asked' = asked \cup {h}
    /\ pc' = "query" /\ tries' = 0 /\ host' = h /\ ip' = NoIp
    /\ UNCHANGED <<network, arp_cache, discovered, announced>>

(* Mutation: the previous answer is not cleared.                           *)
dns_query_uncleared(h) == Query(h) /\ last_dns_ip' = last_dns_ip

(* The previous answer is cleared before the name is copied.  A label of   *)
(* more than 63 characters fails before anything is changed.               *)
dns_query(h) ==
    /\ Query(h)
    /\ last_dns_ip' = IF h \in Overlong THEN Spill[h] ELSE NoIp

(* The first poll finds no frame.                                          *)
dns_first_poll ==
    /\ pc = "query" /\ Polled
    /\ UNCHANGED <<network, arp_cache, dns, tries, wget, discovered, asked, announced>>

dns_answered ==
    /\ pc = "dns" /\ last_dns_ip # NoIp
    /\ Connect(host, last_dns_ip)
    /\ UNCHANGED <<network, arp_cache, dns, tries, discovered, asked, announced>>

(* Mutation: the last time-out is not told from an answer.                 *)
dns_timeout_unchecked ==
    /\ pc = "dns" /\ last_dns_ip = NoIp
    /\ tries' = tries + 1
    /\ pc' = IF tries + 1 = Retries THEN "tcp" ELSE "dns"
    /\ UNCHANGED <<network, arp_cache, dns, wget, discovered, asked, announced>>

dns_timeout ==
    /\ pc = "dns" /\ last_dns_ip = NoIp
    /\ tries' = tries + 1
    /\ pc' = IF tries + 1 = Retries THEN "idle" ELSE "dns"
    /\ UNCHANGED <<network, arp_cache, dns, wget, discovered, asked, announced>>

(* The connection and the download (see Tcp) are over.                     *)
wget_done ==
    /\ pc = "tcp"
    /\ pc' = "idle"
    /\ UNCHANGED <<network, arp_cache, dns, tries, wget, discovered, asked, announced>>

-----------------------------------------------------------------------------
Init ==
    /\ num_interfaces = 0 /\ iface = Unconfigured
    /\ arp_cache = <<>>
    /\ last_dns_host = NoHost /\ last_dns_ip = NoIp /\ stray = FALSE
    /\ pc = "idle" /\ tries = 0 /\ host = NoHost /\ ip = NoIp
    /\ discovered = FALSE /\ asked = {} /\ announced = {}

Start ==
    \/ cmd_netstart \/ cmd_wifitest
    \/ \E a \in Literals : wget_literal(a)
    \/ \E h \in Hosts : dns_cached(h) \/ dns_static(h) \/ dns_query(h)

Continue ==
    \/ dhcp_discover \/ dhcp_discover_fails \/ netstart_ready \/ netstart_timeout
    \/ dns_first_poll \/ dns_answered \/ dns_timeout \/ wget_done

Next == Start \/ Continue \/ netif_poll

Spec == Init /\ [][Next]_vars

(* A command keeps running and the timer keeps counting: every wait ends.  *)
(* That the connection ends is shown of Tcp.  No answer is assumed to      *)
(* come.                                                                   *)
FairSpec == Spec /\ WF_vars(Continue)

-----------------------------------------------------------------------------
(* Properties.                                                             *)

Ips == Neighbours \cup Literals \cup {NoIp} \cup {Address[h] : h \in Hosts}
           \cup {static_dns[h] : h \in DOMAIN static_dns} \cup {Spill[h] : h \in Overlong}

(* The interface table and the ARP cache never exceed their arrays, and    *)
(* the resolver and the commands only hold addresses someone gave them.    *)
TypeOK ==
    /\ num_interfaces \in 0..MAX_INTERFACES
    /\ iface \in {Unconfigured} \cup {Settings(o) : o \in Offers}
    /\ arp_cache \in Seq(Neighbours \X Macs) /\ Len(arp_cache) <= ARP_CACHE_SIZE
    /\ last_dns_host \in Hosts \cup {NoHost} /\ last_dns_ip \in Ips
    /\ pc \in {"idle", "discover", "dhcp", "query", "dns", "tcp"}
    /\ tries \in 0..(IF Attempts > Retries THEN Attempts ELSE Retries)
    /\ host \in Hosts \cup {NoHost} /\ ip \in Ips
    /\ discovered \in BOOLEAN /\ stray \in BOOLEAN
    /\ asked \subseteq Hosts /\ announced \subseteq Neighbours \X Macs

(* Whatever wait an OFFER is taken in, the settings of the interface are   *)
(* those of one OFFER to this machine: never of another client's, never    *)
(* before a DISCOVER, never a mixture.                                     *)
SettingsOffered ==
    /\ TypeOK
    /\ iface # Unconfigured =>
         discovered /\ \E o \in Offers : o.xid = dhcp_xid /\ iface = Settings(o)

(* The link address ip_send puts on a packet is one that the next hop has  *)
(* announced, or the fallback for a next hop that is not in the cache,     *)
(* however the cache was filled and overwritten and the settings changed.  *)
NextHopAnnounced ==
    \A dst \in Ips :
        \/ <<NextHop(dst), dest_mac(dst)>> \in announced
        \/ Cached(NextHop(dst)) = {} /\ dest_mac(dst) \in {Broadcast, QemuRouter}

(* WGET connects to an address, from an interface that has one.            *)
ConnectsOnline == pc = "tcp" => iface.ip # NoIp /\ ip # NoIp

(* The address WGET connects to for a name, from the cache, the table or   *)
(* the network, is that of the host, with two exceptions and no other: the *)
(* answer for a host asked for earlier came after the question, as no      *)
(* answer is compared with its question; or the name is overlong and its   *)
(* own characters were taken for the address.                              *)
ResolvedToHost ==
    (pc = "tcp" /\ host # NoHost) =>
        \/ ip = IF host \in DOMAIN static_dns THEN static_dns[host] ELSE Address[host]
        \/ stray /\ \E h \in asked \ {host} : ip = Address[h]
        \/ host \in Overlong /\ ip = Spill[host]

(* NETSTART and the resolution of a name end, whatever does not answer.    *)
CommandsReturn == pc # "idle" ~> pc = "idle"
=============================================================================
