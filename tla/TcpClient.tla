----------------------------- MODULE TcpClient -----------------------------
(***************************************************************************)
(* The TCP client of kernel/net.c: tcp_handle, tcp_connect, tcp_send,      *)
(* tcp_recv and tcp_close, used as http_get and tls.c use them: connect,   *)
(* send a request, read until the end or a timeout, close.                 *)
(*                                                                         *)
(* Everything runs in the main thread; segments are handled inside         *)
(* net_poll, which each waiting loop calls.  The peer sends its stream of  *)
(* bytes 1 .. Total and a FIN, cut into any segments.  The network loses,  *)
(* duplicates and reorders: any segment may be handled at any net_poll.    *)
(***************************************************************************)
EXTENDS Integers, Sequences

CONSTANTS
    Total,      \* bytes the peer sends
    RxCap,      \* TCP_RXCAP
    Mod,        \* 2^32, what sequence numbers count to
    Isn,        \* the peer's initial sequence number
    Chunks,     \* segments of the request
    MaxResend   \* bound: how often the SYN is sent again

ASSUME TcpAssumption ==
    /\ Total \in Nat /\ RxCap \in Nat \ {0} /\ Chunks \in Nat
    /\ Mod \in Nat /\ Mod > Total + 1 /\ Isn \in 0 .. (Mod - 1)
    /\ MaxResend \in Nat

Bytes == 1 .. Total
Seqs  == 0 .. (Mod - 1)
SeqOf(i) == (Isn + i) % Mod     \* of byte i; the FIN counts as byte Total + 1

\* What the peer may send.
Segments ==
    {[kind |-> "synack"], [kind |-> "rst"]} \union
    {g \in [kind : {"data"}, from : 1 .. (Total + 1), len : 0 .. Total,
            fin : BOOLEAN] :
       /\ g.from + g.len <= Total + 1
       /\ g.fin => g.from + g.len = Total + 1}

VARIABLES
    state, rcv_nxt, rxbuf, rxhead, rxread,  \* TcpSock
    tcpPc,          \* where the main thread is
    sent,           \* segments of the request sent so far
    got,            \* what tcp_recv has returned to its caller
    result,         \* how reading ended
    resends,        \* counter for the bound
    early           \* history: a FIN was accepted before the data in front

rx   == <<rxbuf, rxhead, rxread>>
caller  == <<tcpPc, sent, got, result, resends>>
tcpVars == <<state, rcv_nxt, rx, caller, early>>

TcpTypeOK ==
    /\ state \in {"closed", "syn_sent", "established", "close_wait", "dead"}
    /\ rcv_nxt \in Seqs
    /\ rxbuf \in [0 .. (RxCap - 1) -> Bytes \union {0}]
    /\ rxhead \in 0 .. RxCap /\ rxread \in 0 .. rxhead
    /\ tcpPc \in {"closed", "connecting", "polling", "sending", "reading", "closing"}
    /\ sent \in 0 .. Chunks
    /\ got \in Seq(Bytes)
    /\ result \in {"none", "eof", "timeout"}
    /\ resends \in 0 .. MaxResend /\ early \in BOOLEAN

NoBytes == [i \in 0 .. (RxCap - 1) |-> 0]

TcpInit ==
    /\ state = "closed" /\ rcv_nxt = 0 /\ rxbuf = NoBytes
    /\ rxhead = 0 /\ rxread = 0
    /\ tcpPc = "closed" /\ sent = 0 /\ got = <<>>
    /\ result = "none" /\ resends = 0 /\ early = FALSE

-----------------------------------------------------------------------------
(* tcp_handle *)

HandleRst ==
    /\ state' = "dead"
    /\ UNCHANGED <<rcv_nxt, rx, early>>

HandleSynAck ==
    /\ state = "syn_sent"
    /\ rcv_nxt' = SeqOf(1)
    /\ state' = "established"
    /\ UNCHANGED <<rx, early>>

Unread == rxhead - rxread

\* Data is stored when it is the next in order and fits as a whole, once what
\* was read is reclaimed.
Kept(g) == SeqOf(g.from) = rcv_nxt /\ g.len <= RxCap - Unread

\* The buffer after the unread bytes were moved to its start.
Compacted == [i \in 0 .. (RxCap - 1) |->
                IF i < Unread THEN rxbuf[rxread + i] ELSE rxbuf[i]]

\* Mutant of Appended: appended behind the old head.
AppendedOldHead(g) ==
    [i \in 0 .. (RxCap - 1) |->
       IF i >= rxhead /\ i < rxhead + g.len THEN g.from + i - rxhead
       ELSE Compacted[i]]
Appended(g) ==
    [i \in 0 .. (RxCap - 1) |->
       IF i >= Unread /\ i < Unread + g.len THEN g.from + i - Unread
       ELSE Compacted[i]]

\* Mutant of Advanced: rcv_nxt moves whether or not the data was stored.
AdvancedAlways(g) == IF SeqOf(g.from) = rcv_nxt THEN g.len ELSE 0
\* By how much the data of a segment moves rcv_nxt.
Advanced(g) == IF Kept(g) THEN g.len ELSE 0

\* A FIN is counted once, wherever it is in the stream.
HandleData(g) ==
    /\ state \in {"established", "close_wait"}
    /\ IF g.len > 0 /\ SeqOf(g.from) = rcv_nxt
         THEN /\ rxbuf'  = IF Kept(g) THEN Appended(g) ELSE Compacted
              /\ rxhead' = Unread + (IF Kept(g) THEN g.len ELSE 0)
              /\ rxread' = 0
         ELSE UNCHANGED rx
    /\ LET counted == g.fin /\ state = "established"
           moved   == rcv_nxt + Advanced(g)
       IN  /\ rcv_nxt' = (IF counted THEN moved + 1 ELSE moved) % Mod
           /\ state' = IF counted THEN "close_wait" ELSE state
           /\ early' = (early \/ (counted /\ moved % Mod # SeqOf(Total + 1)))

\* One segment handled by net_poll in a loop of the main thread.
Polling == tcpPc \in {"polling", "sending", "reading", "closing"}

TcpHandle(g) ==
    /\ Polling
    /\ \/ g.kind = "rst"    /\ HandleRst
       \/ g.kind = "synack" /\ HandleSynAck
       \/ g.kind = "data"   /\ HandleData(g)
    /\ UNCHANGED caller

-----------------------------------------------------------------------------
(* the main thread *)

\* tcp_connect: a fresh socket, and a SYN.
Connect ==
    /\ tcpPc = "closed"
    /\ state' = "syn_sent" /\ rcv_nxt' = 0 /\ rxbuf' = NoBytes
    /\ rxhead' = 0 /\ rxread' = 0
    /\ tcpPc' = "connecting" /\ sent' = 0 /\ got' = <<>>
    /\ result' = "none" /\ resends' = 0 /\ early' = FALSE

\* The loop of tcp_connect is entered; net_poll may end SYN_SENT.
TcpPoll ==
    /\ tcpPc = "connecting" /\ state = "syn_sent"
    /\ tcpPc' = "polling"
    /\ UNCHANGED <<state, rcv_nxt, rx, sent, got, result, resends, early>>

\* The timer says resend, whatever the state is by now.  The SYN takes the
\* number of the first one.
Resend ==
    /\ tcpPc = "polling" /\ resends < MaxResend
    /\ resends' = resends + 1
    /\ tcpPc' = "connecting"
    /\ UNCHANGED <<state, rcv_nxt, rx, sent, got, result, early>>

NoResend ==
    /\ tcpPc = "polling"
    /\ tcpPc' = "connecting"
    /\ UNCHANGED <<state, rcv_nxt, rx, sent, got, result, resends, early>>

Connected ==
    /\ tcpPc = "connecting" /\ state # "syn_sent"
    /\ IF state = "established"
         THEN tcpPc' = "sending" /\ UNCHANGED state
         ELSE tcpPc' = "closed" /\ state' = "closed"
    /\ UNCHANGED <<rcv_nxt, rx, sent, got, result, resends, early>>

\* The deadline of tcp_connect has passed.
ConnectTimeout ==
    /\ tcpPc = "connecting" /\ state = "syn_sent"
    /\ tcpPc' = "closed" /\ state' = "closed"
    /\ UNCHANGED <<rcv_nxt, rx, sent, got, result, resends, early>>

\* tcp_send looks at the state once, and its caller not at its result.
SendChunk ==
    /\ tcpPc = "sending" /\ sent < Chunks
    /\ state = "established" \/ sent > 0
    /\ sent' = sent + 1
    /\ UNCHANGED <<state, rcv_nxt, rx, tcpPc, got, result, resends, early>>

Requested ==
    /\ tcpPc = "sending"
    /\ sent = Chunks \/ (sent = 0 /\ state # "established")
    /\ tcpPc' = "reading"
    /\ UNCHANGED <<state, rcv_nxt, rx, sent, got, result, resends, early>>

\* tcp_recv returns bytes, the end, or a timeout.
Recv ==
    /\ tcpPc = "reading" /\ Unread > 0
    /\ \E n \in 1 .. Unread :
         /\ got' = got \o [i \in 1 .. n |-> rxbuf[rxread + i - 1]]
         /\ rxread' = rxread + n
    /\ UNCHANGED <<state, rcv_nxt, rxbuf, rxhead, tcpPc, sent, result, resends, early>>

AtEnd == Unread = 0 /\ state \in {"close_wait", "dead"}

\* tcp_close: a FIN.
Closing(r) ==
    /\ result' = r
    /\ tcpPc' = "closing"
    /\ UNCHANGED <<state, rcv_nxt, rx, sent, got, resends, early>>

RecvEof     == tcpPc = "reading" /\ AtEnd /\ Closing("eof")
\* The deadline is looked at before the buffer: what arrived last is dropped.
RecvTimeout == tcpPc = "reading" /\ Closing("timeout")

\* tcp_close waits a while and gives the socket back.
Closed ==
    /\ tcpPc = "closing"
    /\ tcpPc' = "closed" /\ state' = "closed"
    /\ rxbuf' = NoBytes /\ rxhead' = 0 /\ rxread' = 0
    /\ UNCHANGED <<rcv_nxt, sent, got, result, resends, early>>

TcpNext == \/ \E g \in Segments : TcpHandle(g)
        \/ Connect \/ TcpPoll \/ Resend \/ NoResend \/ Connected
        \/ ConnectTimeout \/ SendChunk \/ Requested \/ Recv \/ RecvEof
        \/ RecvTimeout \/ Closed

\* A peer that has data or a FIN which was not acknowledged sends it again, until
\* it arrives.
NextData == Polling /\ \E g \in Segments : /\ g.kind = "data" /\ (g.len = 1 \/ g.fin)
                                           /\ SeqOf(g.from) = rcv_nxt /\ TcpHandle(g)
TcpSpec == TcpInit /\ [][TcpNext]_tcpVars

-----------------------------------------------------------------------------
(* Properties *)

Buffered == [i \in 1 .. Unread |-> rxbuf[rxread + i - 1]]
Received == got \o Buffered
Prefix(n) == [i \in 1 .. n |-> i]

Open == state \in {"established", "close_wait"} /\ tcpPc # "closed"

\* The caller gets the peer's bytes in order, each once, whatever the network
\* does ("Accept in-order data only", net.c:645) -- as long as no FIN overtook
\* data.
BytesInOrder == ~early => got = Prefix(Len(got)) /\ Received = Prefix(Len(Received))

\* What is acknowledged is stored or was returned to the caller: "advance ONLY
\* for stored bytes ... Nothing is lost" (net.c:660-663).
AckedIsStored ==
    Open /\ ~early =>
      rcv_nxt = SeqOf(1 + Len(Received) + (IF state = "close_wait" THEN 1 ELSE 0))

\* The same without the excuse.
NothingIsLost ==
    Open => rcv_nxt \in {SeqOf(1 + Len(Received)), SeqOf(2 + Len(Received))}
            /\ (rcv_nxt = SeqOf(2 + Len(Received)) => Len(Received) = Total)

\* An established connection delivers the whole stream, unless it is reset, the
\* caller runs into a timeout, or a FIN overtakes data.
StreamArrives ==
    tcpPc = "sending" ~> \/ result = "eof" /\ got = Prefix(Total)
                      \/ state = "dead" \/ result = "timeout" \/ early
=============================================================================
