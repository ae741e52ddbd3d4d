------------------------------- MODULE MCNet -------------------------------
(***************************************************************************)
(* The network stack: its four layers, each checked on its own against     *)
(* everything the one below may do.                                        *)
(***************************************************************************)
EXTENDS NetRx, TcpClient, NetServices, WebFetch

MCStatic == [ip |-> 1, gw |-> 2, dns |-> 3]
MCOffers == {[ip |-> 11, gw |-> 12, dns |-> 13], [ip |-> 21, gw |-> 0, dns |-> 0]}

NoLimit == {}       \* no path length constraint

A == <<"a", "x">>
B == <<"b", "x">>
Authorities == [parses : {TRUE}, notBefore : {0}, notAfter : {0}, ca : {TRUE},
                usage : {"good"}, eku : {"none"}, names : {{}}, cn : {<<>>},
                subject : {"R", "I", "J"}, issuer : {"R", "I"},
                pathLen : {{0}, NoLimit}, key : 1 .. 4, signedBy : 1 .. 4]
IsCa(c, subject, issuer, key, signedBy, pathLen) ==
    /\ c.subject = subject /\ c.issuer = issuer /\ c.key = key
    /\ c.signedBy = signedBy /\ c.pathLen = pathLen
Ca(subject, issuer, key, signedBy, pathLen) ==
    CHOOSE c \in Authorities : IsCa(c, subject, issuer, key, signedBy, pathLen)
MCRoots == {Ca("R", "R", 1, 1, NoLimit)}

Leaf == [Ca("I", "I", 2, 2, NoLimit) EXCEPT !.ca = FALSE, !.usage = "none", !.eku = "good"]
OfA == [Leaf EXCEPT !.subject = "A", !.key = 5, !.names = {A}, !.notAfter = 5]
OfAll == [Leaf EXCEPT !.subject = "W", !.issuer = "J", !.signedBy = 3, !.key = 6,
                      !.cn = <<"*", "x">>, !.eku = "none"]
Issued == [Leaf EXCEPT !.subject = "B", !.issuer = "A", !.signedBy = 5, !.key = 6,
                       !.names = {B}]
Leaves == {OfA, OfAll, Issued}
Above == {OfA, Ca("I", "R", 2, 1, {0}), Ca("I", "R", 2, 1, NoLimit), Ca("J", "I", 3, 2, NoLimit),
          Ca("I", "R", 2, 4, NoLimit)}
MCChains == {<<c>> : c \in Leaves} \union (Leaves \X Above)
            \union ({OfAll} \X Above \X Above) \union ({Issued} \X {OfA} \X Above)

MCUrls == [scheme : {"https"}, host : {A, B}] \union [scheme : {"http"}, host : {A}]
MCTargets == MCUrls \union {[scheme |-> "relative", host |-> A]}

VARIABLE layer

netVars == <<layer, rxVars, tcpVars, serviceVars, fetchVars>>

NetInit == /\ RxInit /\ TcpInit /\ ServicesInit /\ FetchInit
           /\ layer \in {"rx", "tcp", "services", "fetch"}

NetNext ==
    /\ \/ layer = "rx"       /\ RxNext
       \/ layer = "tcp"      /\ TcpNext
       \/ layer = "services" /\ ServicesNext
       \/ layer = "fetch"    /\ FetchNext
    /\ layer # "rx"       => UNCHANGED rxVars
    /\ layer # "tcp"      => UNCHANGED tcpVars
    /\ layer # "services" => UNCHANGED serviceVars
    /\ layer # "fetch"    => UNCHANGED fetchVars
    /\ UNCHANGED layer

\* Interrupts are taken and handlers end, the clock ticks, and the main thread
\* comes back to net_poll; nothing is assumed of the network.
RxFairness == /\ WF_rxVars(layer = "rx" /\ Interrupt)
              /\ WF_rxVars(layer = "rx" /\ IsrStep)
              /\ WF_rxVars(layer = "rx" /\ RxTick)
              /\ WF_rxVars(layer = "rx" /\ MainStep)

\* The main thread runs, and the peer repeats what was not acknowledged.
TcpFairness == /\ WF_tcpVars(layer = "tcp" /\ NextData)
               /\ WF_tcpVars(layer = "tcp" /\ (SendChunk \/ Requested))
               /\ WF_tcpVars(layer = "tcp" /\ (Recv \/ RecvEof))

\* The clock ticks, so every wait ends with its time-out at the latest.
ServicesFairness == WF_serviceVars(layer = "services" /\ CallSteps)
FetchFairness    == WF_fetchVars(layer = "fetch" /\ CallerSteps)

NetSpec == NetInit /\ [][NetNext]_netVars
                   /\ RxFairness /\ TcpFairness /\ ServicesFairness /\ FetchFairness

\* Every call returns, whatever the network brings or loses.
CallsReturn ==
    /\ layer = "services" /\ svc # "idle" ~> svc = "idle"
    /\ FetchEnds
=============================================================================
