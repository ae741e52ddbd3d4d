---------------------------- MODULE NetServices ----------------------------
(***************************************************************************)
(* Requests and answers over the receive path, kernel/net.c: the DHCP      *)
(* exchange of net_init, the gateway's ARP entry, net_dns_resolve and      *)
(* net_ping.  Each call sends, then waits in a loop around net_poll until  *)
(* an answer is there or the clock runs out, and tries again.              *)
(*                                                                         *)
(* The network may deliver any frame at any net_poll, also twice, late or  *)
(* never; several frames may be handled before the waiting loop looks.  An *)
(* address stands for its station too, so a MAC is named by its owner.     *)
(***************************************************************************)
EXTENDS Integers

CONSTANTS
    Static,     \* the configuration compiled in: [ip, gw, dns]
    Offers,     \* leases that servers offer; 0 for an option left out
    Others,     \* further stations that answer ARP
    ArpTries,   \* 4
    UdpTries,   \* 3
    MaxCalls    \* bound: how many names are resolved and hosts pinged

ASSUME ServicesAssumption ==
    /\ Static \in [ip : Nat \ {0}, gw : Nat \ {0}, dns : Nat \ {0}]
    /\ Offers \subseteq [ip : Nat \ {0}, gw : Nat, dns : Nat]
    /\ ArpTries \in Nat \ {0} /\ UdpTries \in Nat \ {0} /\ MaxCalls \in Nat

VARIABLES
    cfg, gwMac,             \* s_ip, s_gw, s_dns; s_gw_mac, 0 when not known
    svc, tries, after,      \* the call in progress; what ARP is asked for
    udpPort, udpGot,        \* s_udp_local_port; s_udp_rx, when s_udp_got
    lease,                  \* offered, gw and dns of dhcp_configure
    queries, pings,         \* number of names resolved, s_icmp_seq
    icmpGot,                \* the reply that set s_icmp_got
    returned,               \* what the last call returned: the number of what
                            \* it was answered by, 0 for failure
    granted                 \* history: the offer whose lease was acknowledged

config == <<cfg, gwMac>>
dhcp   == <<lease, granted>>
calls  == <<queries, pings, returned>>
serviceVars == <<config, svc, tries, after, udpPort, udpGot, dhcp, calls, icmpGot>>

None == [kind |-> "none"]
NoLease == [ip |-> 0, gw |-> 0, dns |-> 0]

ServicesInit ==
    /\ cfg = Static /\ gwMac = 0
    /\ svc = "offer" /\ tries = 0 /\ after = "idle"
    /\ udpPort = 68 /\ udpGot = None
    /\ lease = NoLease /\ granted = NoLease
    /\ queries = 0 /\ pings = 0 /\ icmpGot = 0 /\ returned = None

-----------------------------------------------------------------------------
(* net_poll *)

\* Ports of our own: 68, then one for each name, derived from the clock.
PortOf(q) == 1000 + q

\* What the network may bring for the ports that were ever ours.
Datagrams ==
    [kind : {"offer"}, ours : BOOLEAN, port : {68}, lease : Offers] \union
    [kind : {"ack", "nak"}, ours : BOOLEAN, port : {68}] \union
    {[kind |-> "dns", port |-> PortOf(q), txid |-> x, found |-> f] :
        q \in 1 .. queries, x \in 0 .. queries, f \in BOOLEAN}

\* arp_handle: only the gateway's replies count.
HandleArp(from) ==
    /\ gwMac' = IF from = cfg.gw THEN from ELSE gwMac
    /\ UNCHANGED <<cfg, udpGot, icmpGot>>

\* udp_handle: the next datagram overwrites the last.
HandleUdp(d) ==
    /\ d.port = udpPort
    /\ udpGot' = d
    /\ UNCHANGED <<config, icmpGot>>

IsOurReply(seq) == seq = pings

\* icmp_handle.
HandleEcho(seq) ==
    /\ IsOurReply(seq)
    /\ icmpGot' = seq
    /\ UNCHANGED <<config, udpGot>>

\* The main thread is in one of the loops, or in the idle loop.
Deliver ==
    /\ \/ \E a \in {Static.gw} \union {o.gw : o \in Offers} \union Others : HandleArp(a)
       \/ \E d \in Datagrams : HandleUdp(d)
       \/ \E seq \in 1 .. pings : HandleEcho(seq)
    /\ UNCHANGED <<svc, tries, after, udpPort, dhcp, calls>>

-----------------------------------------------------------------------------
(* dhcp_configure, in net_init *)

\* A call is over, or ARP is asked before the next part of it.
Goes(next) == svc' = next /\ tries' = 0

\* net_init primes the ARP entry whatever came of DHCP.
Configured(c, mac) ==
    /\ cfg' = c /\ gwMac' = mac
    /\ after' = "idle" /\ Goes("arp")

StaticKept == Configured(cfg, gwMac)

\* Mutant of Again: the try is not counted.
AgainForEver == /\ tries' = tries /\ udpGot' = None
                /\ UNCHANGED <<svc, config, after>>
Again == /\ tries' = tries + 1 /\ udpGot' = None
         /\ UNCHANGED <<svc, config, after>>

\* The answer was none, or not one that is waited for.
NextTry == IF tries + 1 < UdpTries THEN Again ELSE StaticKept /\ UNCHANGED udpGot

WaitedLong == udpGot = None

Is(kind) == udpGot.kind = kind /\ udpGot.ours

\* An option that is left out does not overwrite the one before.
Taken(new, old) == IF new # 0 THEN new ELSE old

Discover ==
    /\ svc = "offer"
    /\ IF ~WaitedLong /\ Is("offer")
         THEN LET o == udpGot.lease
              IN  /\ lease' = [ip |-> o.ip, gw |-> Taken(o.gw, lease.gw),
                               dns |-> Taken(o.dns, lease.dns)]
                  /\ Goes("ack") /\ udpGot' = None
                  /\ UNCHANGED <<config, after>>
         ELSE NextTry /\ UNCHANGED lease
    /\ UNCHANGED <<udpPort, calls, icmpGot, granted>>

\* Mutant of MacAfterLease: the entry of the old gateway stays.
MacAfterLeaseKept == gwMac
MacAfterLease == 0

Request ==
    /\ svc = "ack"
    /\ IF ~WaitedLong /\ Is("ack")
         THEN /\ Configured([ip |-> lease.ip, gw |-> Taken(lease.gw, cfg.gw),
                             dns |-> Taken(lease.dns, cfg.dns)], MacAfterLease)
              /\ granted' = lease /\ UNCHANGED udpGot
         ELSE /\ IF ~WaitedLong /\ Is("nak") THEN StaticKept /\ UNCHANGED udpGot
                 ELSE NextTry
              /\ UNCHANGED granted
    /\ UNCHANGED <<udpPort, calls, icmpGot, lease>>

-----------------------------------------------------------------------------
(* arp_resolve_gateway, in front of every call *)

Returns(call, value) == returned' = [kind |-> call, value |-> value]

Resolved ==
    /\ svc = "arp" /\ gwMac # 0
    /\ Goes(after)
    /\ UNCHANGED <<config, after, udpPort, udpGot, dhcp, calls, icmpGot>>

AskAgain ==
    /\ svc = "arp" /\ gwMac = 0 /\ tries + 1 < ArpTries
    /\ tries' = tries + 1
    /\ UNCHANGED <<config, svc, after, udpPort, udpGot, dhcp, calls, icmpGot>>

\* The caller fails.
NoGateway ==
    /\ svc = "arp" /\ gwMac = 0 /\ tries + 1 = ArpTries
    /\ Goes("idle")
    /\ IF after = "idle" THEN UNCHANGED returned ELSE Returns(after, 0)
    /\ UNCHANGED <<config, after, udpPort, udpGot, dhcp, queries, pings, icmpGot>>

-----------------------------------------------------------------------------
(* net_dns_resolve and net_ping *)

Asks(call) ==
    /\ svc = "idle"
    /\ Goes("arp") /\ after' = call
    /\ UNCHANGED <<config, udpPort, udpGot, dhcp, calls, icmpGot>>

Resolve == queries < MaxCalls /\ Asks("dns0")

\* The identifier and the port of a query are new ones, until the clock's low
\* bits come round.
SendQuery ==
    /\ svc = "dns0"
    /\ queries' = queries + 1
    /\ udpPort' = PortOf(queries + 1) /\ udpGot' = None
    /\ Goes("dns")
    /\ UNCHANGED <<config, after, dhcp, pings, icmpGot, returned>>

\* Mutant of IsOurAnswer: the identifier is not compared.
IsAnyAnswer(d) == d.kind = "dns"
IsOurAnswer(d) == d.kind = "dns" /\ d.txid = queries

DnsAnswer ==
    /\ svc = "dns"
    /\ IF IsOurAnswer(udpGot)
         THEN /\ Goes("idle") /\ UNCHANGED udpGot
              /\ Returns("dns", IF udpGot.found THEN udpGot.txid ELSE 0)
         ELSE IF tries + 1 < UdpTries
         THEN Again /\ UNCHANGED returned
         ELSE Goes("idle") /\ Returns("dns", 0) /\ UNCHANGED udpGot
    /\ UNCHANGED <<config, after, udpPort, dhcp, queries, pings, icmpGot>>

Ping == pings < MaxCalls /\ Asks("ping0")

\* The number and the flag are set once the gateway is known.
SendEcho ==
    /\ svc = "ping0"
    /\ pings' = pings + 1 /\ icmpGot' = 0
    /\ Goes("ping")
    /\ UNCHANGED <<config, after, udpPort, udpGot, dhcp, queries, returned>>

Pinged ==
    /\ svc = "ping"
    /\ Goes("idle")
    /\ Returns("ping", IF icmpGot # 0 THEN icmpGot ELSE 0)
    /\ UNCHANGED <<config, after, udpPort, udpGot, dhcp, queries, pings, icmpGot>>

CallSteps == \/ Discover \/ Request \/ Resolved \/ AskAgain \/ NoGateway
             \/ SendQuery \/ DnsAnswer \/ SendEcho \/ Pinged

ServicesNext == Deliver \/ CallSteps \/ Resolve \/ Ping

ServicesSpec == ServicesInit /\ [][ServicesNext]_serviceVars

-----------------------------------------------------------------------------
(* Properties *)

\* "Falls back to the static slirp config if no server answers, so networking
\* always works" (net.c:345-346): address, gateway and name server are the
\* static ones or those of one lease that a server offered and acknowledged,
\* and the gateway's MAC is never that of an earlier gateway.
ConfigWhole ==
    /\ \/ granted = NoLease /\ cfg = Static
       \/ /\ granted \in Offers
          /\ cfg = [ip |-> granted.ip, gw |-> Taken(granted.gw, Static.gw),
                    dns |-> Taken(granted.dns, Static.dns)]
    /\ gwMac \in {0, cfg.gw}

\* What a call returns answers that call: replies to an earlier ping and
\* answers to an earlier name, however late, are not taken for it.
AnswersMatch ==
    svc = "idle" /\ returned # None =>
       returned.value \in {0, IF returned.kind = "dns" THEN queries ELSE pings}
=============================================================================
