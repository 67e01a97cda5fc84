-------------------------- MODULE Netstack_proofs ---------------------------
(***************************************************************************)
(* Proofs about Netstack, for every set of hosts, offers and neighbours    *)
(* and every size of the tables.                                           *)
(***************************************************************************)
EXTENDS Netstack, SequenceTheorems, WellFoundedInduction, TLAPS

(* The address a host has.                                                 *)
AddressOf(h) == IF h \in DOMAIN static_dns THEN static_dns[h] ELSE Address[h]

(* The counters of the waits have not run out.                             *)
Counted ==
    /\ pc \in {"discover", "dhcp"} => tries < Attempts
    /\ pc \in {"query", "dns"} => tries < Retries

(* Every entry of the ARP cache was announced as it is.                    *)
CacheAnnounced == \A i \in 1..Len(arp_cache) : arp_cache[i] \in announced

(* A WGET under way has an interface with an address.                      *)
Connecting ==
    /\ pc \in {"query", "dns", "tcp"} => iface.ip # NoIp
    /\ pc = "tcp" => ip # NoIp

(* What can be taken for the address of a host: its address, the answer    *)
(* for another host that was asked for, or the end of its own name.        *)
Found(h, a) ==
    \/ a = AddressOf(h)
    \/ stray /\ \E g \in asked \ {h} : a = Address[g]
    \/ h \in Overlong /\ a = Spill[h]

(* What the resolver holds, and what WGET connects to, is one of these;    *)
(* only hosts that are not in the table are asked for.                     *)
Resolver ==
    /\ last_dns_ip # NoIp => Found(last_dns_host, last_dns_ip)
    /\ \A h \in asked : h \notin DOMAIN static_dns
    /\ pc \in {"query", "dns"} => host = last_dns_host
    /\ pc = "tcp" /\ host # NoHost => Found(host, ip)

IInv == SettingsOffered /\ Counted /\ CacheAnnounced /\ Connecting /\ Resolver

-----------------------------------------------------------------------------
(* Operators.                                                              *)

(* The constants, in the form the proofs use.                              *)
LEMMA Constants ==
    /\ \A h \in Hosts : Address[h] # NoIp /\ Address[h] \in Ips
    /\ \A h \in DOMAIN static_dns : h \in Hosts /\ static_dns[h] # NoIp /\ static_dns[h] \in Ips
    /\ \A a \in Literals : a # NoIp /\ a \in Ips
    /\ \A h \in Hosts : h # NoHost /\ AddressOf(h) # NoIp
    /\ NoIp \in Ips
    /\ \A h \in Overlong : h \in Hosts /\ Spill[h] \in Ips
    /\ \A o \in Offers : Settings(o).ip # NoIp /\ Settings(o) # Unconfigured
  BY NetstackAssumption DEF Ips, AddressOf, Settings, Unconfigured

(* The sizes of the tables and the numbers of attempts.                    *)
LEMMA Limits ==
    /\ ARP_CACHE_SIZE \in Nat /\ ARP_CACHE_SIZE > 0 /\ MAX_INTERFACES \in Nat /\ MAX_INTERFACES > 0
    /\ Attempts \in Nat /\ Attempts > 0 /\ Retries \in Nat /\ Retries > 0
    /\ 0 \in 0..(IF Attempts > Retries THEN Attempts ELSE Retries)
  BY NetstackAssumption

(* arp_add_entry puts the new entry somewhere and moves no other one.      *)
LEMMA AddEntry ==
    ASSUME TypeOK, NEW a \in Neighbours, NEW mac \in Macs
    PROVE  /\ arp_add_entry(a, mac) \in Seq(Neighbours \X Macs)
           /\ Len(arp_add_entry(a, mac)) <= ARP_CACHE_SIZE
           /\ \A i \in 1..Len(arp_add_entry(a, mac)) :
                 \/ arp_add_entry(a, mac)[i] = <<a, mac>>
                 \/ i \in 1..Len(arp_cache) /\ arp_add_entry(a, mac)[i] = arp_cache[i]
  <1>1. /\ arp_cache \in Seq(Neighbours \X Macs) /\ Len(arp_cache) <= ARP_CACHE_SIZE
        /\ Len(arp_cache) \in Nat /\ <<a, mac>> \in Neighbours \X Macs
    BY LenProperties DEF TypeOK
  <1>2. CASE Len(arp_cache) < ARP_CACHE_SIZE
    <2>1. /\ Append(arp_cache, <<a, mac>>) \in Seq(Neighbours \X Macs)
          /\ Len(Append(arp_cache, <<a, mac>>)) = Len(arp_cache) + 1
          /\ \A i \in 1..Len(arp_cache) : Append(arp_cache, <<a, mac>>)[i] = arp_cache[i]
          /\ Append(arp_cache, <<a, mac>>)[Len(arp_cache) + 1] = <<a, mac>>
      BY <1>1, AppendProperties
    <2>2. arp_add_entry(a, mac) = Append(arp_cache, <<a, mac>>)
      BY <1>2 DEF arp_add_entry
    <2>3. \A i \in 1..(Len(arp_cache) + 1) : i \in 1..Len(arp_cache) \/ i = Len(arp_cache) + 1
      BY <1>1
    <2>4. Len(arp_cache) + 1 <= ARP_CACHE_SIZE
      BY <1>1, <1>2, Limits
    <2> QED
      BY <2>1, <2>2, <2>3, <2>4
  <1>3. CASE ~(Len(arp_cache) < ARP_CACHE_SIZE)
    <2>1. 1 \in 1..Len(arp_cache)
      BY <1>1, <1>3, Limits
    <2>2. /\ [arp_cache EXCEPT ![1] = <<a, mac>>] \in Seq(Neighbours \X Macs)
          /\ Len([arp_cache EXCEPT ![1] = <<a, mac>>]) = Len(arp_cache)
          /\ \A i \in 1..Len(arp_cache) :
                [arp_cache EXCEPT ![1] = <<a, mac>>][i] = IF i = 1 THEN <<a, mac>> ELSE arp_cache[i]
      BY <1>1, <2>1, ExceptSeq
    <2>3. arp_add_entry(a, mac) = [arp_cache EXCEPT ![1] = <<a, mac>>]
      BY <1>3 DEF arp_add_entry
    <2> QED
      BY <1>1, <2>2, <2>3
  <1> QED
    BY <1>2, <1>3

(* A set of numbers that is not empty has a least one.                     *)
LEMMA LeastOf ==
    ASSUME NEW S \in SUBSET Nat, S # {}
    PROVE  \E i \in S : \A j \in S : i <= j
  <1>1. IsWellFoundedOn(OpToRel(<, Nat), Nat)
    BY NatLessThanWellFounded
  <1>2. PICK x \in S : \A y \in S : ~(<<y, x>> \in OpToRel(<, Nat))
    BY <1>1, WFMin
  <1>3. \A y \in S : ~(y < x)
    BY <1>2 DEF OpToRel
  <1> QED
    BY <1>3

(* arp_resolve returns the link address of an entry for its argument.      *)
LEMMA ResolveEntry ==
    ASSUME TypeOK, NEW a, Cached(a) # {}
    PROVE  \E i \in 1..Len(arp_cache) : arp_cache[i] = <<a, arp_resolve(a)>>
  <1> DEFINE i == CHOOSE x \in Cached(a) : \A j \in Cached(a) : x <= j
  <1>1. Cached(a) \in SUBSET Nat
    BY LenProperties DEF Cached, TypeOK
  <1>2. \E x \in Cached(a) : \A j \in Cached(a) : x <= j
    BY <1>1, LeastOf
  <1>3. i \in Cached(a)
    BY <1>2
  <1>4. arp_resolve(a) = arp_cache[i][2]
    BY DEF arp_resolve
  <1> HIDE DEF i
  <1>5. i \in 1..Len(arp_cache) /\ arp_cache[i][1] = a
    BY <1>3 DEF Cached
  <1>6. arp_cache[i] \in Neighbours \X Macs
    BY <1>5, ElementOfSeq DEF TypeOK
  <1>7. arp_cache[i] = <<arp_cache[i][1], arp_cache[i][2]>>
    BY <1>6
  <1> QED
    BY <1>4, <1>5, <1>7

-----------------------------------------------------------------------------
(* Steps.                                                                  *)

(* An ARP reply is put into the cache.                                     *)
LEMMA ArpStep ==
    ASSUME IInv, NEW a \in Neighbours, NEW mac \in Macs, arp_process(a, mac)
    PROVE  IInv'
  <1>1. /\ arp_cache' = arp_add_entry(a, mac) /\ announced' = announced \cup {<<a, mac>>}
        /\ pc' = (IF pc = "query" THEN "dns" ELSE pc)
        /\ UNCHANGED <<num_interfaces, iface, last_dns_host, last_dns_ip, stray, tries, host, ip,
                       discovered, asked>>
    BY DEF arp_process, Polled, network, dns, wget
  <1>2. TypeOK /\ CacheAnnounced
    BY DEF IInv, SettingsOffered
  <1>3. /\ arp_cache' \in Seq(Neighbours \X Macs) /\ Len(arp_cache') <= ARP_CACHE_SIZE
        /\ \A i \in 1..Len(arp_cache') :
              arp_cache'[i] = <<a, mac>> \/ (i \in 1..Len(arp_cache) /\ arp_cache'[i] = arp_cache[i])
    BY <1>1, <1>2, AddEntry
  <1>4. CacheAnnounced'
    BY <1>1, <1>2, <1>3 DEF CacheAnnounced
  <1>5. announced' \subseteq Neighbours \X Macs
    BY <1>1, <1>2 DEF TypeOK
  <1>6. SettingsOffered'
    BY <1>1, <1>3, <1>5 DEF IInv, SettingsOffered, TypeOK
  <1>7. Counted' /\ Connecting' /\ Resolver'
    BY <1>1 DEF IInv, Counted, Connecting, Resolver, Found
  <1> QED
    BY <1>4, <1>6, <1>7 DEF IInv

(* An OFFER is taken.                                                      *)
LEMMA OfferStep ==
    ASSUME IInv, NEW o \in Offers, dhcp_process(o)
    PROVE  IInv'
  <1>1. /\ o.xid = dhcp_xid /\ discovered /\ iface' = Settings(o)
        /\ pc' = (IF pc = "query" THEN "dns" ELSE pc)
        /\ UNCHANGED <<num_interfaces, arp_cache, last_dns_host, last_dns_ip, stray, tries, host, ip,
                       discovered, asked, announced>>
    BY DEF dhcp_process, Polled, dns, wget
  <1>2. iface'.ip # NoIp
    BY <1>1, Constants
  <1>3. TypeOK'
    BY <1>1 DEF IInv, SettingsOffered, TypeOK
  <1>4. SettingsOffered'
    BY <1>1, <1>3 DEF SettingsOffered
  <1>5. Counted' /\ CacheAnnounced' /\ Connecting' /\ Resolver'
    BY <1>1, <1>2 DEF IInv, Counted, CacheAnnounced, Connecting, Resolver, Found
  <1> QED
    BY <1>4, <1>5 DEF IInv

(* An answer from the DNS server is taken.                                 *)
LEMMA AnswerStep ==
    ASSUME IInv, NEW h \in Hosts, udp_process(h)
    PROVE  IInv'
  <1>1. /\ h \in asked /\ last_dns_ip' = Address[h] /\ stray' = (stray \/ h # last_dns_host)
        /\ pc' = (IF pc = "query" THEN "dns" ELSE pc)
        /\ UNCHANGED <<num_interfaces, iface, arp_cache, last_dns_host, tries, host, ip,
                       discovered, asked, announced>>
    BY DEF udp_process, Polled, network, wget
  <1>2. stray' \in BOOLEAN
    BY <1>1
  <1>3. SettingsOffered'
    BY <1>1, <1>2, Constants DEF IInv, SettingsOffered, TypeOK
  <1>4. Resolver'
    <2>1. h \notin DOMAIN static_dns
      BY <1>1 DEF IInv, Resolver
    <2>2. h = last_dns_host => last_dns_ip' = AddressOf(last_dns_host')
      BY <1>1, <2>1 DEF AddressOf
    <2>3. h # last_dns_host => stray' /\ h \in asked' \ {last_dns_host'} /\ last_dns_ip' = Address[h]
      BY <1>1
    <2>4. Found(last_dns_host, last_dns_ip)'
      BY <2>2, <2>3 DEF Found
    <2>5. (pc = "tcp" /\ host # NoHost => Found(host, ip))'
      BY <1>1 DEF IInv, Resolver, Found
    <2> QED
      BY <1>1, <2>4, <2>5 DEF IInv, Resolver
  <1>5. Counted' /\ CacheAnnounced' /\ Connecting'
    BY <1>1 DEF IInv, Counted, CacheAnnounced, Connecting
  <1> QED
    BY <1>3, <1>4, <1>5 DEF IInv

(* NETSTART and WIFITEST register the interface; only the first time are   *)
(* its settings reset.                                                     *)
LEMMA RegisterStep ==
    ASSUME IInv, cmd_netstart \/ cmd_wifitest
    PROVE  IInv'
  <1>1. /\ pc' \in {"idle", "discover"} /\ (pc' = "discover" => tries' = 0) /\ (pc' = "idle" => tries' = tries)
        /\ num_interfaces' = IF num_interfaces < MAX_INTERFACES THEN num_interfaces + 1 ELSE num_interfaces
        /\ iface' = iface \/ iface' = Unconfigured
        /\ UNCHANGED <<arp_cache, last_dns_host, last_dns_ip, stray, host, ip, discovered, asked, announced>>
    BY DEF cmd_netstart, cmd_wifitest, netif_register, dns, wget
  <1>2. num_interfaces' \in 0..MAX_INTERFACES
    BY <1>1, Limits DEF IInv, SettingsOffered, TypeOK
  <1>3. tries' \in 0..(IF Attempts > Retries THEN Attempts ELSE Retries)
    BY <1>1, Limits DEF IInv, SettingsOffered, TypeOK
  <1>4. TypeOK'
    BY <1>1, <1>2, <1>3 DEF IInv, SettingsOffered, TypeOK
  <1>5. SettingsOffered'
    BY <1>1, <1>4 DEF IInv, SettingsOffered
  <1>6. Counted' /\ CacheAnnounced' /\ Connecting' /\ Resolver'
    BY <1>1, Limits DEF IInv, Counted, CacheAnnounced, Connecting, Resolver, Found
  <1> QED
    BY <1>5, <1>6 DEF IInv

(* The attempts of NETSTART.                                               *)
LEMMA AttemptStep ==
    ASSUME IInv, dhcp_discover \/ dhcp_discover_fails \/ netstart_ready \/ netstart_timeout
    PROVE  IInv'
  <1>1. /\ pc \in {"discover", "dhcp"} /\ pc' \in {"idle", "discover", "dhcp"}
        /\ \/ tries' = tries
           \/ tries' = tries + 1 /\ (pc' = "idle" <=> tries + 1 = Attempts)
        /\ discovered' = discovered \/ discovered' = TRUE
        /\ UNCHANGED <<num_interfaces, iface, arp_cache, last_dns_host, last_dns_ip, stray, host, ip, asked,
                       announced>>
    BY DEF dhcp_discover, dhcp_discover_fails, netstart_ready, netstart_timeout, NextAttempt,
       network, dns, wget
  <1>2. tries \in Nat /\ tries < Attempts
    BY <1>1, Limits DEF IInv, SettingsOffered, TypeOK, Counted
  <1>3. tries' \in 0..(IF Attempts > Retries THEN Attempts ELSE Retries)
    BY <1>1, <1>2, Limits
  <1>4. Counted'
    BY <1>1, <1>2, Limits DEF Counted
  <1>5. discovered' \in BOOLEAN /\ (discovered => discovered')
    <2>1. discovered \in BOOLEAN
      BY DEF IInv, SettingsOffered, TypeOK
    <2>2. discovered' = discovered \/ discovered' = TRUE
      BY <1>1
    <2> QED
      BY <2>1, <2>2, Zenon
  <1>6. TypeOK'
    BY <1>1, <1>3, <1>5 DEF IInv, SettingsOffered, TypeOK
  <1>7. SettingsOffered'
    BY <1>1, <1>5, <1>6 DEF IInv, SettingsOffered
  <1>8. CacheAnnounced' /\ Connecting' /\ Resolver'
    BY <1>1 DEF IInv, CacheAnnounced, Connecting, Resolver, Found
  <1> QED
    BY <1>4, <1>7, <1>8 DEF IInv

(* WGET of an address or of a name the resolver has an address for.        *)
LEMMA KnownStep ==
    ASSUME IInv,
           \/ \E a \in Literals : wget_literal(a)
           \/ \E h \in Hosts : dns_cached(h) \/ dns_static(h)
           \/ dns_answered
    PROVE  IInv'
  <1>1. /\ pc \in {"idle", "dns"} /\ pc' = "tcp" /\ iface.ip # NoIp
        /\ UNCHANGED <<num_interfaces, iface, arp_cache, tries, discovered, asked, announced>>
    BY DEF wget_literal, dns_cached, dns_static, dns_answered, Online, Connect, network, dns, IInv, Connecting
  <1>2. CASE \E a \in Literals : wget_literal(a)
    <2>1. PICK a \in Literals : wget_literal(a)
      BY <1>2
    <2>2. host' = NoHost /\ ip' = a /\ UNCHANGED <<last_dns_host, last_dns_ip, stray>>
      BY <2>1 DEF wget_literal, Connect, dns
    <2>3. SettingsOffered'
      BY <1>1, <2>2, Constants DEF IInv, SettingsOffered, TypeOK
    <2>4. Counted' /\ CacheAnnounced' /\ Connecting' /\ Resolver'
      BY <1>1, <2>2, Constants DEF IInv, Counted, CacheAnnounced, Connecting, Resolver, Found
    <2> QED
      BY <2>3, <2>4 DEF IInv
  <1>3. CASE dns_answered \/ \E h \in Hosts : dns_cached(h)
    <2>1. /\ last_dns_ip # NoIp /\ ip' = last_dns_ip /\ host' = last_dns_host
          /\ UNCHANGED <<last_dns_host, last_dns_ip, stray>>
      BY <1>3 DEF dns_answered, dns_cached, CacheHit, Connect, dns, IInv, Resolver
    <2>2. SettingsOffered'
      BY <1>1, <2>1 DEF IInv, SettingsOffered, TypeOK
    <2>3. Counted' /\ CacheAnnounced' /\ Connecting' /\ Resolver'
      BY <1>1, <2>1 DEF IInv, Counted, CacheAnnounced, Connecting, Resolver, Found
    <2> QED
      BY <2>2, <2>3 DEF IInv
  <1>4. CASE \E h \in Hosts : dns_static(h)
    <2>1. PICK h \in Hosts : dns_static(h)
      BY <1>4
    <2>2. /\ h \in DOMAIN static_dns /\ last_dns_host' = h /\ last_dns_ip' = static_dns[h] /\ stray' = FALSE
          /\ host' = h /\ ip' = static_dns[h]
      BY <2>1 DEF dns_static, Connect
    <2>3. stray' \in BOOLEAN /\ ip' = AddressOf(h)
      BY <2>2 DEF AddressOf
    <2>4. SettingsOffered'
      BY <1>1, <2>2, <2>3, Constants DEF IInv, SettingsOffered, TypeOK
    <2>5. Counted' /\ CacheAnnounced' /\ Connecting' /\ Resolver'
      BY <1>1, <2>2, <2>3, Constants DEF IInv, Counted, CacheAnnounced, Connecting, Resolver, Found
    <2> QED
      BY <2>4, <2>5 DEF IInv
  <1> QED
    BY <1>2, <1>3, <1>4

(* WGET of a name that has to be asked for.                                *)
LEMMA QueryStep ==
    ASSUME IInv, NEW h \in Hosts, dns_query(h)
    PROVE  IInv'
  <1>1. /\ iface.ip # NoIp /\ h \notin DOMAIN static_dns
        /\ last_dns_host' = h /\ stray' = FALSE /\ asked' = asked \cup {h}
        /\ pc' = "query" /\ tries' = 0 /\ host' = h /\ ip' = NoIp
        /\ UNCHANGED <<num_interfaces, iface, arp_cache, discovered, announced>>
    BY DEF dns_query, Query, Online, network
  <1>2. stray' \in BOOLEAN
    BY <1>1, Zenon
  <1>6. last_dns_ip' = (IF h \in Overlong THEN Spill[h] ELSE NoIp)
    BY DEF dns_query
  <1>3. TypeOK'
    BY <1>1, <1>2, <1>6, Constants, Limits DEF IInv, SettingsOffered, TypeOK
  <1>4. SettingsOffered'
    BY <1>1, <1>3 DEF IInv, SettingsOffered
  <1>5. Counted' /\ CacheAnnounced' /\ Connecting' /\ Resolver'
    BY <1>1, <1>6, Limits DEF IInv, Counted, CacheAnnounced, Connecting, Resolver, Found
  <1> QED
    BY <1>4, <1>5 DEF IInv

(* The ends of the waits for an answer, and of a download.                 *)
LEMMA EndStep ==
    ASSUME IInv, dns_first_poll \/ dns_timeout \/ wget_done
    PROVE  IInv'
  <1>1. UNCHANGED <<num_interfaces, iface, arp_cache, last_dns_host, last_dns_ip, stray, host, ip, discovered,
                    asked, announced>>
    BY DEF dns_first_poll, dns_timeout, wget_done, network, dns, wget
  <1>2. \/ pc' = "idle" /\ tries' \in {tries, tries + 1} /\ (tries' = tries \/ pc = "dns")
        \/ pc' = "dns" /\ pc = "dns" /\ tries' = tries + 1 /\ tries + 1 # Retries
        \/ pc' = "dns" /\ pc = "query" /\ tries' = tries
    BY DEF dns_first_poll, Polled, dns_timeout, wget_done
  <1>3. tries \in 0..(IF Attempts > Retries THEN Attempts ELSE Retries) /\ (pc \in {"query", "dns"} => tries < Retries)
    BY DEF IInv, SettingsOffered, TypeOK, Counted
  <1>4. tries' \in 0..(IF Attempts > Retries THEN Attempts ELSE Retries)
    BY <1>2, <1>3, Limits
  <1>5. Counted'
    BY <1>2, <1>3, Limits DEF Counted
  <1>6. TypeOK'
    BY <1>1, <1>2, <1>4 DEF IInv, SettingsOffered, TypeOK
  <1>7. SettingsOffered'
    BY <1>1, <1>6 DEF IInv, SettingsOffered
  <1>8. CacheAnnounced' /\ Connecting' /\ Resolver'
    BY <1>1, <1>2 DEF IInv, CacheAnnounced, Connecting, Resolver, Found
  <1> QED
    BY <1>5, <1>7, <1>8 DEF IInv

-----------------------------------------------------------------------------
(* The properties.                                                         *)

(* The inductive invariant holds in every state of the stack.              *)
THEOREM InvCorrect == Spec => []IInv
  <1>1. ASSUME Init
        PROVE  IInv
    <2>1. arp_cache \in Seq(Neighbours \X Macs) /\ Len(arp_cache) = 0
      BY <1>1 DEF Init
    <2>6. discovered \in BOOLEAN /\ stray \in BOOLEAN
      BY <1>1, Zenon DEF Init
    <2>2. TypeOK
      BY <1>1, <2>1, <2>6, Constants, Limits DEF Init, TypeOK
    <2>3. SettingsOffered
      BY <1>1, <2>2 DEF Init, SettingsOffered
    <2>4. CacheAnnounced
      BY <2>1 DEF CacheAnnounced
    <2>5. Counted /\ Connecting /\ Resolver
      BY <1>1 DEF Init, Counted, Connecting, Resolver, Found
    <2> QED
      BY <2>3, <2>4, <2>5 DEF IInv
  <1>2. ASSUME IInv, [Next]_vars
        PROVE  IInv'
    <2>1. CASE Start
      BY <1>2, <2>1, RegisterStep, KnownStep, QueryStep DEF Start
    <2>2. CASE Continue
      BY <1>2, <2>2, AttemptStep, KnownStep, EndStep DEF Continue
    <2>3. CASE netif_poll
      BY <1>2, <2>3, ArpStep, OfferStep, AnswerStep DEF netif_poll
    <2>4. CASE UNCHANGED vars
      BY <1>2, <2>4 DEF vars, network, dns, wget, IInv, SettingsOffered, TypeOK, Counted, CacheAnnounced,
         Connecting, Resolver, Found
    <2> QED
      BY <1>2, <2>1, <2>2, <2>3, <2>4 DEF Next
  <1> QED
    BY <1>1, <1>2, PTL DEF Spec

(* Whatever wait dhcp_process (src/dhcp_client.c) takes an OFFER in, the   *)
(* interface has the settings of one OFFER to this machine or none; and no *)
(* table is overrun.                                                       *)
THEOREM SettingsCorrect == Spec => []SettingsOffered
  <1>1. IInv => SettingsOffered
    BY DEF IInv
  <1> QED
    BY <1>1, InvCorrect, PTL

(* The link address ip_send (src/tcp_ip_stack.c) uses was announced by the *)
(* next hop, or is the fallback for one that is not in the cache.          *)
THEOREM NextHopCorrect == Spec => []NextHopAnnounced
  <1>1. ASSUME IInv
        PROVE  NextHopAnnounced
    <2> SUFFICES ASSUME NEW dst \in Ips
                 PROVE  \/ <<NextHop(dst), dest_mac(dst)>> \in announced
                        \/ Cached(NextHop(dst)) = {} /\ dest_mac(dst) \in {Broadcast, QemuRouter}
      BY DEF NextHopAnnounced
    <2>1. CASE Cached(NextHop(dst)) # {}
      <3>1. PICK i \in 1..Len(arp_cache) : arp_cache[i] = <<NextHop(dst), arp_resolve(NextHop(dst))>>
        BY <1>1, <2>1, ResolveEntry DEF IInv, SettingsOffered
      <3>2. dest_mac(dst) = arp_resolve(NextHop(dst))
        BY <2>1 DEF dest_mac
      <3> QED
        BY <1>1, <3>1, <3>2 DEF IInv, CacheAnnounced
    <2>2. CASE Cached(NextHop(dst)) = {}
      BY <2>2 DEF dest_mac
    <2> QED
      BY <2>1, <2>2
  <1> QED
    BY <1>1, InvCorrect, PTL

(* cmd_wget (src/commands.c) only connects to an address, and only from an *)
(* interface that has one.                                                 *)
THEOREM OnlineCorrect == Spec => []ConnectsOnline
  <1>1. IInv => ConnectsOnline
    BY DEF IInv, Connecting, ConnectsOnline
  <1> QED
    BY <1>1, InvCorrect, PTL

(* dns_resolve (src/tcp_ip_stack.c) gives the address of the host it was   *)
(* asked for, that of another host whose answer came after the question,   *)
(* or the end of a name that does not fit in last_dns_host.                *)
THEOREM ResolvedCorrect == Spec => []ResolvedToHost
  <1>1. IInv => ResolvedToHost
    BY DEF IInv, Resolver, Found, ResolvedToHost, AddressOf
  <1> QED
    BY <1>1, InvCorrect, PTL
=============================================================================
