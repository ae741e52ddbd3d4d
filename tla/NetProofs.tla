----------------------------- MODULE NetProofs -----------------------------
(***************************************************************************)
(* Proofs about the network.  kernel/net.c: the stream of bytes of a TCP   *)
(* connection, the frames between the NIC and the stack, and what DHCP,    *)
(* ARP, DNS and ping leave behind.  Sequence numbers and queue indices     *)
(* wrap: DivMod to ModNear say what % does near its modulus, and           *)
(* everything above them is linear.                                        *)
(* kernel/certverify.c and the requests (Certificates, WebFetch): exactly  *)
(* the chains that lead from the host's certificate to a root are          *)
(* accepted, whatever the chain and the roots; and a request leaves over   *)
(* https only after a handshake that such a chain and its key have         *)
(* authenticated, whatever the server sends.                               *)
(***************************************************************************)
EXTENDS TcpClient, NetRx, NetServices, WebFetch, TLAPS, SequenceTheorems,
        WellFoundedInduction

-----------------------------------------------------------------------------
(* Remainders *)

\* Division with remainder.
LEMMA DivMod ==
    ASSUME NEW a \in Int, NEW m \in Nat \ {0}
    PROVE  /\ a = m * (a \div m) + (a % m)
           /\ a % m \in 0 .. (m - 1) /\ a \div m \in Int
    OBVIOUS
LEMMA NoMultipleBetween ==
    ASSUME NEW k \in Int, NEW m \in Nat \ {0}, -m < m * k, m * k < m
    PROVE  k = 0
    OBVIOUS
LEMMA ModNear ==
    ASSUME NEW a \in Int, NEW m \in Nat \ {0}, -m <= a, a < 2 * m
    PROVE  /\ a % m \in 0 .. (m - 1)
           /\ a % m = IF a < 0 THEN a + m ELSE IF a < m THEN a ELSE a - m
<1>1. a = m * (a \div m) + (a % m) /\ a % m \in 0 .. (m - 1) /\ a \div m \in Int
  BY DivMod
<1>2. ASSUME NEW q \in Int, NEW r \in 0 .. (m - 1), a = m * q + r
      PROVE  r = IF a < 0 THEN a + m ELSE IF a < m THEN a ELSE a - m
  <2>1. CASE a < 0
    <3>1. -m < m * (q + 1) /\ m * (q + 1) < m
      BY <1>2, <2>1, SMT
    <3>2. q + 1 = 0
      BY <3>1, NoMultipleBetween
    <3> QED BY <1>2, <2>1, <3>2
  <2>2. CASE 0 <= a /\ a < m
    <3>1. -m < m * q /\ m * q < m
      BY <1>2, <2>2, SMT
    <3>2. q = 0
      BY <3>1, NoMultipleBetween
    <3> QED BY <1>2, <2>2, <3>2
  <2>3. CASE m <= a
    <3>1. -m < m * (q - 1) /\ m * (q - 1) < m
      BY <1>2, <2>3, SMT
    <3>2. q - 1 = 0
      BY <3>1, NoMultipleBetween
    <3> QED BY <1>2, <2>3, <3>2
  <2> QED BY <2>1, <2>2, <2>3
<1> QED
  BY <1>1, <1>2, Zenon
LEMMA SeqOfNear ==
    ASSUME NEW i \in 0 .. Mod
    PROVE  /\ SeqOf(i) \in Seqs
           /\ SeqOf(i) = IF Isn + i < Mod THEN Isn + i ELSE Isn + i - Mod
<1>1. PICK a \in Int : a = Isn + i
  BY TcpAssumption
<1>2. Mod \in Nat \ {0} /\ -Mod <= a /\ a < 2 * Mod /\ 0 <= a
  BY <1>1, TcpAssumption
<1>3. /\ a % Mod \in 0 .. (Mod - 1)
      /\ a % Mod = IF a < 0 THEN a + Mod ELSE IF a < Mod THEN a ELSE a - Mod
  BY <1>2, ModNear
<1>4. PICK s \in 0 .. (Mod - 1) : s = a % Mod
  BY <1>3
<1>5. s = IF a < 0 THEN a + Mod ELSE IF a < Mod THEN a ELSE a - Mod
  BY <1>3, <1>4, Zenon
<1>6. s = IF Isn + i < Mod THEN Isn + i ELSE Isn + i - Mod
  BY <1>1, <1>2, <1>5, TcpAssumption
<1>7. SeqOf(i) = s
  BY <1>1, <1>4 DEF SeqOf
<1> QED
  BY <1>6, <1>7 DEF Seqs

\* Two bytes less than Mod apart have different sequence numbers.
LEMMA SeqOfInjective ==
    ASSUME NEW i \in 0 .. Mod, NEW j \in 0 .. Mod, SeqOf(i) = SeqOf(j), i - j < Mod, j - i < Mod
    PROVE  i = j
  BY SeqOfNear, TcpAssumption, SMT

\* Moving the number of a byte moves the byte.
LEMMA SeqOfPlus ==
    ASSUME NEW i \in 0 .. Mod, NEW k \in Nat, i + k <= Mod, k < Mod
    PROVE  (SeqOf(i) + k) % Mod = SeqOf(i + k)
<1>1. /\ SeqOf(i) \in 0 .. (Mod - 1)
      /\ SeqOf(i) = IF Isn + i < Mod THEN Isn + i ELSE Isn + i - Mod
  BY SeqOfNear DEF Seqs
<1>2. SeqOf(i + k) = IF Isn + i + k < Mod THEN Isn + i + k ELSE Isn + i + k - Mod
  BY SeqOfNear, TcpAssumption
<1>3. ASSUME NEW a \in 0 .. (Mod - 1)
      PROVE  (a + k) % Mod = IF a + k < Mod THEN a + k ELSE a + k - Mod
  <2>1. PICK b \in Int : b = a + k
    OBVIOUS
  <2>2. Mod \in Nat \ {0} /\ -Mod <= b /\ b < 2 * Mod /\ 0 <= b
    BY <2>1, TcpAssumption
  <2>3. b % Mod = IF b < 0 THEN b + Mod ELSE IF b < Mod THEN b ELSE b - Mod
    BY <2>2, ModNear
  <2> QED
    BY <2>1, <2>2, <2>3
<1> QED
  BY <1>1, <1>2, <1>3, TcpAssumption

\* What is taken modulo Mod is a sequence number.
LEMMA SeqsClosed ==
    ASSUME NEW a \in Int
    PROVE  a % Mod \in Seqs
  BY DivMod, TcpAssumption DEF Seqs

\* A function on 1 .. n is a sequence of length n.
LEMMA FunIsSeq ==
    ASSUME NEW S, NEW n \in Nat, NEW f \in [1 .. n -> S]
    PROVE  f \in Seq(S) /\ Len(f) = n
  BY SeqDef, SMT

Filled == \A i \in 0 .. (rxhead - 1) : rxbuf[i] \in Bytes
TcpTyped == TcpTypeOK /\ Filled

\* What tcp_recv takes out of the buffer.
LEMMA TakenIsSeq ==
    ASSUME TcpTyped, NEW n \in 0 .. Unread
    PROVE  LET taken == [i \in 1 .. n |-> rxbuf[rxread + i - 1]]
           IN  /\ taken \in Seq(Bytes) /\ Len(taken) = n
               /\ \A i \in 1 .. n : taken[i] = rxbuf[rxread + i - 1]
<1> DEFINE taken == [i \in 1 .. n |-> rxbuf[rxread + i - 1]]
<1>1. taken \in [1 .. n -> Bytes]
  <2> SUFFICES ASSUME NEW i \in 1 .. n
               PROVE  rxbuf[rxread + i - 1] \in Bytes
    OBVIOUS
  <2> QED
    BY TcpAssumption DEF TcpTyped, TcpTypeOK, Filled, Unread
<1>2. n \in Nat
  BY TcpAssumption DEF TcpTyped, TcpTypeOK, Unread
<1> QED
  BY <1>1, <1>2, FunIsSeq

\* A socket nobody used is well typed.
LEMMA TcpTypedInit == TcpInit => TcpTyped
<1> SUFFICES ASSUME TcpInit PROVE TcpTyped
  OBVIOUS
<1>1. rxbuf \in [0 .. (RxCap - 1) -> Bytes \union {0}] /\ got \in Seq(Bytes)
  BY EmptySeq DEF TcpInit, NoBytes
<1>2. rcv_nxt \in Seqs /\ rxhead \in 0 .. RxCap /\ rxread \in 0 .. rxhead
  BY TcpAssumption DEF TcpInit, Seqs
<1>3. sent \in 0 .. Chunks /\ resends \in 0 .. MaxResend
  BY TcpAssumption DEF TcpInit
<1>4. Filled
  BY DEF TcpInit, Filled
<1> QED
  BY <1>1, <1>2, <1>3, <1>4 DEF TcpInit, TcpTyped, TcpTypeOK

\* Moving the unread bytes to the start of the buffer keeps them (tcp_handle).
LEMMA CompactedBytes ==
    ASSUME TcpTyped
    PROVE  /\ Unread \in 0 .. RxCap
           /\ Compacted \in [0 .. (RxCap - 1) -> Bytes \union {0}]
           /\ \A i \in 0 .. (Unread - 1) : /\ Compacted[i] = rxbuf[rxread + i]
                                           /\ Compacted[i] \in Bytes
  BY TcpAssumption DEF TcpTyped, TcpTypeOK, Filled, Unread, Compacted

\* What is stored follows the unread bytes (tcp_handle).
LEMMA AppendedBytes ==
    ASSUME TcpTyped, NEW g \in Segments, g.kind = "data", Kept(g)
    PROVE  /\ Unread + g.len \in 0 .. RxCap
           /\ Appended(g) \in [0 .. (RxCap - 1) -> Bytes \union {0}]
           /\ \A i \in 0 .. (Unread + g.len - 1) :
                /\ Appended(g)[i] = IF i < Unread THEN rxbuf[rxread + i] ELSE g.from + i - Unread
                /\ Appended(g)[i] \in Bytes
<1>1. g.from \in 1 .. (Total + 1) /\ g.len \in 0 .. Total /\ g.from + g.len <= Total + 1
  BY DEF Segments
<1>2. /\ Unread \in 0 .. RxCap
      /\ Compacted \in [0 .. (RxCap - 1) -> Bytes \union {0}]
      /\ \A i \in 0 .. (Unread - 1) : /\ Compacted[i] = rxbuf[rxread + i]
                                      /\ Compacted[i] \in Bytes
  BY CompactedBytes
<1>3. Unread + g.len \in 0 .. RxCap
  BY <1>1, <1>2, TcpAssumption DEF Kept
<1> HIDE DEF Unread, Compacted
<1>4. ASSUME NEW i \in 0 .. (RxCap - 1)
      PROVE  /\ Appended(g)[i] = IF i >= Unread /\ i < Unread + g.len THEN g.from + i - Unread
                                 ELSE Compacted[i]
             /\ Appended(g)[i] \in Bytes \union {0}
  <2>1. Appended(g)[i] = IF i >= Unread /\ i < Unread + g.len THEN g.from + i - Unread
                         ELSE Compacted[i]
    BY DEF Appended
  <2>2. CASE i >= Unread /\ i < Unread + g.len
    <3>1. g.from + i - Unread \in Bytes
      BY <1>1, <1>2, <2>2, TcpAssumption DEF Bytes
    <3> QED
      BY <2>1, <2>2, <3>1
  <2>3. CASE ~(i >= Unread /\ i < Unread + g.len)
    BY <1>2, <2>1, <2>3
  <2> QED
    BY <2>2, <2>3
<1>5. Appended(g) \in [0 .. (RxCap - 1) -> Bytes \union {0}]
  BY <1>4 DEF Appended
<1>6. ASSUME NEW i \in 0 .. (Unread + g.len - 1)
      PROVE  /\ Appended(g)[i] = IF i < Unread THEN rxbuf[rxread + i] ELSE g.from + i - Unread
             /\ Appended(g)[i] \in Bytes
  <2>1. i \in 0 .. (RxCap - 1)
    BY <1>1, <1>2, <1>3, TcpAssumption
  <2>2. CASE i < Unread
    BY <1>2, <1>4, <2>1, <2>2
  <2>3. CASE i >= Unread
    <3>1. g.from + i - Unread \in Bytes
      BY <1>1, <1>2, <2>3, TcpAssumption DEF Bytes
    <3> QED
      BY <1>1, <1>2, <1>4, <2>1, <2>3, <3>1
  <2> QED
    BY <1>2, <2>2, <2>3
<1> QED
  BY <1>3, <1>5, <1>6

-----------------------------------------------------------------------------
(* Type correctness, with the bytes that were stored *)

\* A data segment keeps the types.
LEMMA HandleDataTyped ==
    ASSUME TcpTyped, NEW g \in Segments, g.kind = "data", HandleData(g), UNCHANGED caller
    PROVE  TcpTyped'
<1>1. g.from \in 1 .. (Total + 1) /\ g.len \in 0 .. Total
  BY DEF Segments
<1>2. rcv_nxt' \in Seqs
  <2>1. Advanced(g) \in Int /\ rcv_nxt \in Int
    BY <1>1, TcpAssumption DEF Advanced, TcpTyped, TcpTypeOK, Seqs
  <2>2. PICK moved \in Int : moved = rcv_nxt + Advanced(g)
    BY <2>1
  <2>3. rcv_nxt' = moved % Mod \/ rcv_nxt' = (moved + 1) % Mod
    BY <2>2 DEF HandleData
  <2> QED
    BY <2>3, SeqsClosed
<1>3. /\ rxbuf' \in [0 .. (RxCap - 1) -> Bytes \union {0}]
      /\ rxhead' \in 0 .. RxCap /\ rxread' \in 0 .. rxhead'
      /\ Filled'
  <2>1. CASE g.len > 0 /\ SeqOf(g.from) = rcv_nxt /\ Kept(g)
    <3>1. rxbuf' = Appended(g) /\ rxhead' = Unread + g.len /\ rxread' = 0
      BY <2>1 DEF HandleData
    <3>2. /\ Unread + g.len \in 0 .. RxCap
          /\ Appended(g) \in [0 .. (RxCap - 1) -> Bytes \union {0}]
          /\ \A i \in 0 .. (Unread + g.len - 1) : Appended(g)[i] \in Bytes
      BY <2>1, AppendedBytes
    <3>10. Unread \in Int
      BY DEF Unread, TcpTyped, TcpTypeOK
    <3>3. PICK h \in 0 .. RxCap : h = Unread + g.len
      BY <3>2
    <3> HIDE DEF Unread, Appended
    <3>4. rxhead' = h /\ rxread' = 0 /\ rxbuf' = Appended(g)
      BY <3>1, <3>3
    <3>5. rxbuf' \in [0 .. (RxCap - 1) -> Bytes \union {0}]
      BY <3>2, <3>4
    <3>6. rxhead' \in 0 .. RxCap /\ rxread' \in 0 .. rxhead'
      BY <3>3, <3>4
    <3>7. ASSUME NEW i \in 0 .. (Unread + g.len - 1) PROVE rxbuf'[i] \in Bytes
      <4>1. Appended(g)[i] \in Bytes
        BY <3>2
      <4> QED
        BY <3>4, <4>1
    <3>8. 0 .. (rxhead' - 1) = 0 .. (Unread + g.len - 1)
      BY <1>1, <3>1, <3>10
    <3>9. Filled'
      BY <3>7, <3>8 DEF Filled
    <3> QED
      BY <3>5, <3>6, <3>9
  <2>2. CASE g.len > 0 /\ SeqOf(g.from) = rcv_nxt /\ ~Kept(g)
    <3>1. rxbuf' = Compacted /\ rxhead' = Unread + 0 /\ rxread' = 0
      BY <2>2 DEF HandleData
    <3>2. rxhead' = Unread
      BY <3>1, CompactedBytes
    <3> HIDE DEF Unread, Compacted
    <3> QED
      BY <3>1, <3>2, CompactedBytes DEF Filled
  <2>3. CASE ~(g.len > 0 /\ SeqOf(g.from) = rcv_nxt)
    BY <2>3 DEF HandleData, rx, TcpTyped, TcpTypeOK, Filled
  <2> QED
    BY <2>1, <2>2, <2>3
<1>4. /\ state' \in {"closed", "syn_sent", "established", "close_wait", "dead"}
      /\ early' \in BOOLEAN
  BY DEF HandleData, TcpTyped, TcpTypeOK
<1>5. UNCHANGED <<tcpPc, sent, got, result, resends>>
  BY DEF caller
<1> QED
  BY <1>2, <1>3, <1>4, <1>5 DEF TcpTyped, TcpTypeOK

\* tcp_recv keeps the types.
LEMMA RecvTyped ==
    ASSUME TcpTyped, Recv
    PROVE  TcpTyped'
<1>1. PICK n \in 1 .. Unread : /\ got' = got \o [i \in 1 .. n |-> rxbuf[rxread + i - 1]]
                               /\ rxread' = rxread + n
  BY DEF Recv
<1>2. got' \in Seq(Bytes)
  <2>1. n \in 0 .. Unread
    BY <1>1 DEF TcpTyped, TcpTypeOK, Unread
  <2>2. [i \in 1 .. n |-> rxbuf[rxread + i - 1]] \in Seq(Bytes)
    BY <2>1, TakenIsSeq
  <2> QED
    BY <1>1, <2>2, ConcatProperties DEF TcpTyped, TcpTypeOK
<1>3. rxread' \in 0 .. rxhead'
  BY <1>1, TcpAssumption DEF Recv, TcpTyped, TcpTypeOK, Unread
<1> QED
  BY <1>2, <1>3 DEF Recv, TcpTyped, TcpTypeOK, Filled

\* Every step keeps the types.
LEMMA TcpTypedStep == TcpTyped /\ [TcpNext]_tcpVars => TcpTyped'
<1> SUFFICES ASSUME TcpTyped, [TcpNext]_tcpVars
             PROVE  TcpTyped'
  OBVIOUS
<1> USE DEF TcpTyped, TcpTypeOK, Filled
<1>1. ASSUME NEW g \in Segments, TcpHandle(g)
      PROVE  TcpTyped'
  <2>1. g.kind \in {"rst", "synack", "data"}
    BY DEF Segments
  <2>2. CASE g.kind = "rst"
    BY <1>1, <2>2 DEF TcpHandle, HandleRst, rx, caller
  <2>3. CASE g.kind = "synack"
    <3>1. SeqOf(1) \in Seqs
      BY SeqOfNear, TcpAssumption
    <3> QED
      BY <1>1, <2>3, <3>1 DEF TcpHandle, HandleSynAck, rx, caller
  <2>4. CASE g.kind = "data"
    <3>1. HandleData(g) /\ UNCHANGED caller
      BY <1>1, <2>4 DEF TcpHandle
    <3> QED
      BY <2>4, <3>1, HandleDataTyped
  <2> QED
    BY <2>1, <2>2, <2>3, <2>4
<1>2. CASE Connect
  <2>1. got' \in Seq(Bytes) /\ rxbuf' \in [0 .. (RxCap - 1) -> Bytes \union {0}]
    BY <1>2, EmptySeq DEF Connect, NoBytes
  <2>2. rcv_nxt' \in Seqs /\ rxhead' \in 0 .. RxCap /\ rxread' \in 0 .. rxhead'
    BY <1>2, TcpAssumption DEF Connect, Seqs
  <2>3. sent' \in 0 .. Chunks /\ resends' \in 0 .. MaxResend
    BY <1>2, TcpAssumption DEF Connect
  <2>4. Filled'
    BY <1>2 DEF Connect
  <2> QED
    BY <1>2, <2>1, <2>2, <2>3, <2>4, Zenon DEF Connect
<1>3. CASE TcpPoll \/ NoResend
  BY <1>3 DEF TcpPoll, NoResend, rx
<1>4. CASE Resend
  BY <1>4, TcpAssumption DEF Resend, rx
<1>5. CASE Connected \/ ConnectTimeout
  BY <1>5 DEF Connected, ConnectTimeout, rx
<1>6. CASE SendChunk
  BY <1>6, TcpAssumption DEF SendChunk, rx
<1>7. CASE Requested
  BY <1>7 DEF Requested, rx
<1>8. CASE Recv
  BY <1>8, RecvTyped
<1>9. CASE RecvEof \/ RecvTimeout
  BY <1>9 DEF RecvEof, RecvTimeout, Closing, rx
<1>10. CASE Closed
  <2>1. rxbuf' \in [0 .. (RxCap - 1) -> Bytes \union {0}]
    BY <1>10 DEF Closed, NoBytes
  <2>2. rxhead' \in 0 .. RxCap /\ rxread' \in 0 .. rxhead'
    BY <1>10, TcpAssumption DEF Closed
  <2> QED
    BY <1>10, <2>1, <2>2 DEF Closed
<1>11. CASE UNCHANGED tcpVars
  BY <1>11 DEF tcpVars, rx, caller
<1> QED
  BY <1>1, <1>2, <1>3, <1>4, <1>5, <1>6, <1>7, <1>8, <1>9, <1>10, <1>11 DEF TcpNext

\* Every variable of a connection has its type, and every byte the buffer counts was sent.
THEOREM TcpTypesKept == TcpSpec => []TcpTyped
<1>1. TcpInit => TcpTyped
  BY TcpTypedInit
<1>2. TcpTyped /\ [TcpNext]_tcpVars => TcpTyped'
  BY TcpTypedStep
<1> QED
  BY <1>1, <1>2, PTL DEF TcpSpec
-----------------------------------------------------------------------------
(* The inductive invariant behind BytesInOrder and AckedIsStored *)

Count == Len(got) + Unread

GotInOrder    == \A i \in 1 .. Len(got) : got[i] = i
UnreadInOrder == \A i \in 0 .. (Unread - 1) : rxbuf[rxread + i] = Len(got) + 1 + i
NextExpected  == state = "established" => rcv_nxt = SeqOf(Count + 1)
AllCounted    == state = "close_wait" => Count = Total /\ rcv_nxt = SeqOf(Total + 2)
Fresh         == state = "syn_sent" => got = <<>> /\ rxhead = 0 /\ rxread = 0

StreamInv ==
    /\ Fresh
    /\ ~early => GotInOrder /\ UnreadInOrder /\ Count <= Total /\ NextExpected /\ AllCounted

\* No more is stored than the peer sends.
LEMMA CountBounded ==
    ASSUME TcpTyped, StreamInv, ~early
    PROVE  Count \in 0 .. Total
BY TcpAssumption DEF StreamInv, Count, Unread, TcpTyped, TcpTypeOK

\* A segment that fits rcv_nxt starts with the byte that is missing.
LEMMA OnlyNextFits ==
    ASSUME TcpTyped, StreamInv, ~early, NEW g \in Segments, g.kind = "data",
           state \in {"established", "close_wait"}, SeqOf(g.from) = rcv_nxt
    PROVE  state = "established" /\ g.from = Count + 1
<1>1. g.from \in 1 .. (Total + 1)
  BY DEF Segments
<1>2. PICK c \in 0 .. Total : c = Count
  BY CountBounded
<1>3. state = "established"
  <2> SUFFICES ASSUME state = "close_wait" PROVE FALSE
    OBVIOUS
  <2>1. SeqOf(g.from) = SeqOf(Total + 2)
    BY DEF StreamInv, AllCounted
  <2>2. g.from \in 0 .. Mod /\ Total + 2 \in 0 .. Mod /\ g.from - (Total + 2) < Mod /\ (Total + 2) - g.from < Mod
    BY <1>1, TcpAssumption
  <2>3. g.from = Total + 2
    BY <2>1, <2>2, SeqOfInjective
  <2> QED
    BY <1>1, <2>3, TcpAssumption
<1>4. SeqOf(g.from) = SeqOf(c + 1)
  BY <1>2, <1>3 DEF StreamInv, NextExpected
<1>5. g.from \in 0 .. Mod /\ c + 1 \in 0 .. Mod /\ g.from - (c + 1) < Mod /\ (c + 1) - g.from < Mod
  BY <1>1, <1>2, TcpAssumption
<1>6. g.from = c + 1
  BY <1>4, <1>5, SeqOfInjective
<1> QED
  BY <1>2, <1>3, <1>6

\* What is stored continues what is there.
LEMMA StoredInOrder ==
    ASSUME TcpTyped, StreamInv, ~early, NEW g \in Segments, g.kind = "data", HandleData(g),
           UNCHANGED caller
    PROVE  /\ UnreadInOrder'
           /\ Unread' = Unread + (IF g.len > 0 THEN Advanced(g) ELSE 0)
<1>1. g.from \in 1 .. (Total + 1) /\ g.len \in 0 .. Total /\ got' = got
  BY DEF Segments, caller
<1>2. Unread \in Nat /\ rxhead \in Nat /\ rxread \in Nat /\ Len(got) \in Nat
  BY DEF TcpTyped, TcpTypeOK, Unread
<1>3. UnreadInOrder
  BY DEF StreamInv
<1>4. CASE g.len > 0 /\ SeqOf(g.from) = rcv_nxt /\ Kept(g)
  <2>1. rxbuf' = Appended(g) /\ rxhead' = Unread + g.len /\ rxread' = 0
    BY <1>4 DEF HandleData
  <2>2. g.from = Len(got) + Unread + 1
    BY <1>4, OnlyNextFits DEF HandleData, Count
  <2>3. Unread' = Unread + g.len
    <3>1. Unread' = rxhead' - rxread'
      BY DEF Unread
    <3>2. (Unread + g.len) - 0 = Unread + g.len
      BY <1>1, <1>2
    <3> QED
      BY <2>1, <3>1, <3>2
  <2>4. ASSUME NEW i \in 0 .. (Unread + g.len - 1)
        PROVE  Appended(g)[i] = Len(got) + 1 + i
    <3>1. Appended(g)[i] = IF i < Unread THEN rxbuf[rxread + i] ELSE g.from + i - Unread
      BY <1>4, AppendedBytes
    <3>2. CASE i < Unread
      <4>1. i \in 0 .. (Unread - 1)
        BY <1>1, <1>2, <3>2
      <4> QED
        BY <1>3, <3>1, <3>2, <4>1 DEF UnreadInOrder
    <3>3. CASE i >= Unread
      BY <1>1, <1>2, <2>2, <3>1, <3>3
    <3> QED
      BY <1>2, <3>2, <3>3
  <2> HIDE DEF Appended
  <2>5. \A i \in 0 .. (Unread' - 1) : rxbuf'[0 + i] = Len(got') + 1 + i
    <3>1. ASSUME NEW i \in 0 .. (Unread' - 1)
          PROVE  rxbuf'[0 + i] = Len(got') + 1 + i
      <4>1. i \in 0 .. (Unread + g.len - 1) /\ 0 + i = i
        BY <1>1, <1>2, <2>3
      <4>2. Appended(g)[i] = Len(got) + 1 + i
        BY <2>4, <4>1
      <4> QED
        BY <1>1, <2>1, <4>1, <4>2
    <3> QED
      BY <3>1
  <2>6. UnreadInOrder'
    BY <2>1, <2>5 DEF UnreadInOrder
  <2> QED
    BY <1>4, <2>3, <2>6 DEF Advanced
<1>5. CASE g.len > 0 /\ SeqOf(g.from) = rcv_nxt /\ ~Kept(g)
  <2>1. rxbuf' = Compacted /\ rxhead' = Unread + 0 /\ rxread' = 0
    BY <1>5 DEF HandleData
  <2>2. rxhead' = Unread
    BY <1>2, <2>1
  <2>3. Unread' = Unread
    BY <1>2, <2>1, <2>2 DEF Unread
  <2>4. ASSUME NEW i \in 0 .. (Unread - 1)
        PROVE  Compacted[i] = Len(got) + 1 + i
    BY <1>3, CompactedBytes DEF UnreadInOrder
  <2> HIDE DEF Compacted
  <2>5. \A i \in 0 .. (Unread' - 1) : rxbuf'[0 + i] = Len(got') + 1 + i
    BY <1>1, <2>1, <2>3, <2>4
  <2>6. UnreadInOrder'
    BY <2>1, <2>5 DEF UnreadInOrder
  <2> QED
    BY <1>2, <1>5, <2>3, <2>6 DEF Advanced
<1>6. CASE ~(g.len > 0 /\ SeqOf(g.from) = rcv_nxt)
  <2>1. UNCHANGED <<rxbuf, rxhead, rxread>>
    BY <1>6 DEF HandleData, rx
  <2>2. Unread' = Unread /\ UnreadInOrder'
    BY <1>1, <1>3, <2>1 DEF Unread, UnreadInOrder
  <2>3. g.len > 0 => Advanced(g) = 0
    BY <1>6 DEF Advanced, Kept
  <2> QED
    BY <1>2, <2>2, <2>3
<1> QED
  BY <1>4, <1>5, <1>6

\* A data segment keeps the stream in order, whichever part of the stream it repeats.
LEMMA DataKeepsStream ==
    ASSUME TcpTyped, StreamInv, NEW g \in Segments, g.kind = "data", HandleData(g),
           UNCHANGED caller
    PROVE  StreamInv'
<1>1. g.from \in 1 .. (Total + 1) /\ g.len \in 0 .. Total /\ got' = got
      /\ g.from + g.len <= Total + 1
  BY DEF Segments, caller
<1>2. Fresh'
  BY DEF Fresh, HandleData
<1>3. ASSUME ~early'
      PROVE  GotInOrder' /\ UnreadInOrder' /\ Count' <= Total /\ NextExpected' /\ AllCounted'
  <2>1. ~early
    BY <1>3 DEF HandleData
  <2>2. GotInOrder'
    BY <1>1, <2>1 DEF StreamInv, GotInOrder
  <2>3. UnreadInOrder' /\ Unread' = Unread + (IF g.len > 0 THEN Advanced(g) ELSE 0)
    BY <2>1, StoredInOrder
  <2>4. Advanced(g) \in {0, g.len}
    BY DEF Advanced
  <2>5. Unread' = Unread + Advanced(g)
    BY <1>1, <2>3, <2>4
  <2>6. PICK c \in 0 .. Total : c = Count
    BY <2>1, CountBounded
  <2>7. PICK a \in 0 .. Total : a = Advanced(g)
    BY <1>1, <2>4, TcpAssumption
  <2>8. Count' = c + a
    <3>1. Len(got) \in Nat /\ Unread \in Int
      BY DEF TcpTyped, TcpTypeOK, Unread
    <3>2. Count' = Len(got) + (Unread + a)
      BY <1>1, <2>5, <2>7 DEF Count
    <3> QED
      BY <2>6, <3>1, <3>2 DEF Count
  <2>9. c + a <= Total
    <3>1. CASE a = 0
      BY <2>6, <3>1, TcpAssumption
    <3>2. CASE a > 0
      <4>1. Kept(g) /\ a = g.len
        BY <2>7, <3>2 DEF Advanced
      <4>2. g.from = c + 1
        BY <2>1, <2>6, <4>1, OnlyNextFits DEF HandleData, Kept
      <4> QED
        BY <1>1, <2>6, <4>1, <4>2, TcpAssumption
    <3> QED
      BY <2>7, <3>1, <3>2
  <2>10. CASE state = "close_wait"
    <3>1. a = 0
      BY <2>1, <2>7, <2>10, OnlyNextFits DEF Advanced, Kept
    <3>2. PICK r \in Seqs : r = rcv_nxt
      BY DEF TcpTyped, TcpTypeOK
    <3>3. rcv_nxt' = (r + a) % Mod /\ state' = "close_wait"
      BY <2>7, <2>10, <3>2 DEF HandleData
    <3>4. (r + a) % Mod = r
      BY <3>1, <3>2, ModNear, TcpAssumption DEF Seqs
    <3>5. c = Total /\ r = SeqOf(Total + 2)
      BY <2>1, <2>6, <2>10, <3>2 DEF StreamInv, AllCounted
    <3>6. AllCounted' /\ NextExpected'
      BY <2>6, <2>8, <3>1, <3>3, <3>4, <3>5 DEF AllCounted, NextExpected
    <3> QED
      BY <2>2, <2>3, <2>8, <2>9, <3>6
  <2>11. CASE state = "established"
    <3>1. rcv_nxt = SeqOf(c + 1)
      BY <2>1, <2>6, <2>11 DEF StreamInv, NextExpected
    <3>2. (SeqOf(c + 1) + a) % Mod = SeqOf(c + a + 1)
      <4>1. c + 1 \in 0 .. Mod /\ a \in Nat /\ c + 1 + a <= Mod /\ a < Mod
        BY <2>6, <2>7, <2>9, TcpAssumption
      <4>2. (SeqOf(c + 1) + a) % Mod = SeqOf(c + 1 + a)
        BY <4>1, SeqOfPlus
      <4>3. c + 1 + a = c + a + 1
        BY <2>6, <2>7
      <4> QED
        BY <4>2, <4>3
    <3>3. CASE ~g.fin
      <4>1. state' = "established" /\ rcv_nxt' = SeqOf(c + a + 1)
        BY <2>7, <2>11, <3>1, <3>2, <3>3 DEF HandleData
      <4>2. NextExpected' /\ AllCounted'
        BY <2>8, <4>1 DEF NextExpected, AllCounted
      <4> QED
        BY <2>2, <2>3, <2>8, <2>9, <4>2
    <3>4. CASE g.fin
      <4>1. /\ state' = "close_wait"
            /\ rcv_nxt' = (SeqOf(c + 1) + a + 1) % Mod
            /\ SeqOf(c + a + 1) = SeqOf(Total + 1)
        BY <1>3, <2>7, <2>11, <3>1, <3>2, <3>4 DEF HandleData
      <4>2. c + a + 1 = Total + 1
        <5>1. PICK k \in 0 .. (Total + 1) : k = c + a + 1
          BY <2>6, <2>7, <2>9, TcpAssumption
        <5>2. k \in 0 .. Mod /\ Total + 1 \in 0 .. Mod
              /\ k - (Total + 1) < Mod /\ (Total + 1) - k < Mod
          BY <5>1, TcpAssumption
        <5>3. SeqOf(k) = SeqOf(Total + 1)
          BY <4>1, <5>1
        <5> QED
          BY <5>1, <5>2, <5>3, SeqOfInjective
      <4>3. c + a = Total
        BY <2>6, <2>7, <4>2, TcpAssumption
      <4>4. (SeqOf(c + 1) + (a + 1)) % Mod = SeqOf(c + 1 + (a + 1))
        <5>1. c + 1 \in 0 .. Mod /\ a + 1 \in Nat /\ c + 1 + (a + 1) <= Mod /\ a + 1 < Mod
          BY <2>6, <2>7, <4>3, TcpAssumption
        <5> QED
          BY <5>1, SeqOfPlus
      <4>5. c + 1 + (a + 1) = Total + 2
        BY <2>6, <2>7, <4>3, TcpAssumption
      <4>6. SeqOf(c + 1) + a + 1 = SeqOf(c + 1) + (a + 1)
        <5>1. SeqOf(c + 1) \in Int
          BY <2>6, SeqOfNear, TcpAssumption DEF Seqs
        <5>2. PICK s \in Int : s = SeqOf(c + 1)
          BY <5>1
        <5> QED
          BY <2>7, <5>2
      <4>7. AllCounted' /\ NextExpected'
        BY <2>8, <4>1, <4>3, <4>4, <4>5, <4>6 DEF AllCounted, NextExpected
      <4> QED
        BY <2>2, <2>3, <2>8, <2>9, <4>7
    <3> QED
      BY <3>3, <3>4
  <2> QED
    BY <2>10, <2>11 DEF HandleData
<1> QED
  BY <1>2, <1>3 DEF StreamInv


\* What tcp_recv takes from the buffer continues what its caller has.
LEMMA RecvKeepsStream ==
    ASSUME TcpTyped, StreamInv, Recv
    PROVE  StreamInv'
<1>1. PICK n \in 1 .. Unread : /\ got' = got \o [i \in 1 .. n |-> rxbuf[rxread + i - 1]]
                               /\ rxread' = rxread + n
  BY DEF Recv
<1> DEFINE taken == [i \in 1 .. n |-> rxbuf[rxread + i - 1]]
<1>2. /\ Unread \in Nat /\ rxhead \in Nat /\ rxread \in Nat /\ n \in 1 .. Unread
      /\ got \in Seq(Bytes) /\ Len(got) \in Nat
  BY <1>1 DEF TcpTyped, TcpTypeOK, Unread
<1>3. /\ taken \in Seq(Bytes) /\ Len(taken) = n
      /\ \A i \in 1 .. n : taken[i] = rxbuf[rxread + i - 1]
  <2>1. n \in 0 .. Unread
    BY <1>2
  <2> QED
    BY <2>1, TakenIsSeq
<1>4. got' = got \o taken
  BY <1>1
<1> HIDE DEF taken
<1>5. Len(got') = Len(got) + n
  BY <1>2, <1>3, <1>4, ConcatProperties
<1>6. UNCHANGED <<state, rcv_nxt, rxbuf, rxhead, early>>
  BY DEF Recv
<1>7. Unread' = Unread - n
  BY <1>1, <1>2, <1>6 DEF Unread
<1>8. Count' = Count
  BY <1>2, <1>5, <1>7 DEF Count
<1>9. Fresh'
  <2>1. state # "syn_sent"
    BY <1>2 DEF StreamInv, Fresh, Unread
  <2> QED
    BY <1>6, <2>1 DEF Fresh
<1>10. ASSUME ~early'
       PROVE  GotInOrder' /\ UnreadInOrder' /\ Count' <= Total /\ NextExpected' /\ AllCounted'
  <2>1. GotInOrder /\ UnreadInOrder /\ Count <= Total /\ NextExpected /\ AllCounted
    BY <1>6, <1>10 DEF StreamInv
  <2>2. ASSUME NEW i \in 1 .. Len(got')
        PROVE  got'[i] = i
    <3>1. CASE i <= Len(got)
      <4>1. i \in 1 .. Len(got)
        BY <1>2, <1>5, <3>1
      <4>2. got'[i] = got[i]
        BY <1>2, <1>3, <1>4, <1>5, <4>1, ConcatProperties
      <4> QED
        BY <2>1, <4>1, <4>2 DEF GotInOrder
    <3>2. CASE i > Len(got)
      <4>1. PICK k \in 1 .. n : k = i - Len(got)
        BY <1>2, <1>5, <3>2
      <4>2. got'[i] = taken[k]
        BY <1>2, <1>3, <1>4, <1>5, <3>2, <4>1, ConcatProperties
      <4>3. taken[k] = rxbuf[rxread + (k - 1)]
        <5>1. rxread + k - 1 = rxread + (k - 1)
          BY <1>2, <4>1
        <5> QED
          BY <1>3, <4>1, <5>1
      <4>4. k - 1 \in 0 .. (Unread - 1)
        BY <1>2, <4>1
      <4>5. rxbuf[rxread + (k - 1)] = Len(got) + 1 + (k - 1)
        BY <2>1, <4>4 DEF UnreadInOrder
      <4>6. Len(got) + 1 + (k - 1) = i
        BY <1>2, <1>5, <4>1
      <4> QED
        BY <4>2, <4>3, <4>5, <4>6
    <3> QED
      BY <1>2, <1>5, <3>1, <3>2
  <2>3. ASSUME NEW i \in 0 .. (Unread' - 1)
        PROVE  rxbuf'[rxread' + i] = Len(got') + 1 + i
    <3>1. n + i \in 0 .. (Unread - 1)
      BY <1>2, <1>7
    <3>2. rxbuf[rxread + (n + i)] = Len(got) + 1 + (n + i)
      BY <2>1, <3>1 DEF UnreadInOrder
    <3>3. rxread' + i = rxread + (n + i) /\ Len(got') + 1 + i = Len(got) + 1 + (n + i)
      BY <1>1, <1>2, <1>5, <1>7
    <3> QED
      BY <1>6, <3>2, <3>3
  <2>4. GotInOrder' /\ UnreadInOrder'
    BY <2>2, <2>3 DEF GotInOrder, UnreadInOrder
  <2>5. Count' <= Total /\ NextExpected' /\ AllCounted'
    BY <1>6, <1>8, <2>1 DEF NextExpected, AllCounted
  <2> QED
    BY <2>4, <2>5
<1> QED
  BY <1>9, <1>10 DEF StreamInv

\* An unused socket has an empty stream.
LEMMA StreamInit == TcpInit => StreamInv
  BY TcpAssumption DEF TcpInit, StreamInv, Fresh, GotInOrder, UnreadInOrder, Count, Unread,
     NextExpected, AllCounted

\* Every step keeps the stream in order.
LEMMA StreamStep == TcpTyped /\ StreamInv /\ [TcpNext]_tcpVars => StreamInv'
<1> SUFFICES ASSUME TcpTyped, StreamInv, [TcpNext]_tcpVars
             PROVE  StreamInv'
  OBVIOUS
<1> USE DEF StreamInv, Fresh, GotInOrder, UnreadInOrder, Count, Unread, NextExpected, AllCounted
<1>1. ASSUME NEW g \in Segments, TcpHandle(g)
      PROVE  StreamInv'
  <2>1. g.kind \in {"rst", "synack", "data"}
    BY DEF Segments
  <2>2. CASE g.kind = "rst"
    BY <1>1, <2>2 DEF TcpHandle, HandleRst, rx, caller
  <2>3. CASE g.kind = "synack"
    <3>1. got = <<>> /\ Len(got) = 0 /\ rxhead = 0 /\ rxread = 0
      BY <1>1, <2>3 DEF TcpHandle, HandleSynAck
    <3> QED
      BY <1>1, <2>3, <3>1, TcpAssumption DEF TcpHandle, HandleSynAck, rx, caller
  <2>4. CASE g.kind = "data"
    <3>1. HandleData(g) /\ UNCHANGED caller
      BY <1>1, <2>4 DEF TcpHandle
    <3> HIDE DEF StreamInv
    <3> QED
      BY <2>4, <3>1, DataKeepsStream
  <2> QED
    BY <2>1, <2>2, <2>3, <2>4
<1>2. CASE Connect
  BY <1>2, TcpAssumption DEF Connect
<1>3. CASE TcpPoll \/ NoResend \/ Resend
  BY <1>3 DEF TcpPoll, NoResend, Resend, rx
<1>4. CASE Connected \/ ConnectTimeout
  BY <1>4 DEF Connected, ConnectTimeout, rx
<1>5. CASE SendChunk \/ Requested
  BY <1>5 DEF SendChunk, Requested, rx
<1>6. CASE Recv
  <2> HIDE DEF StreamInv
  <2> QED
    BY <1>6, RecvKeepsStream
<1>7. CASE RecvEof \/ RecvTimeout
  BY <1>7 DEF RecvEof, RecvTimeout, Closing, rx
<1>8. CASE Closed
  <2>1. Unread \in Nat /\ Len(got) \in Nat
    BY DEF TcpTyped, TcpTypeOK
  <2>2. UNCHANGED <<rcv_nxt, got, early>> /\ state' = "closed" /\ rxhead' = 0 /\ rxread' = 0
    BY <1>8 DEF Closed
  <2>3. Unread' = 0
    BY <2>2
  <2>4. ~early => Len(got) + Unread <= Total
    OBVIOUS
  <2>5. ~early' => Len(got') + Unread' <= Total
    BY <2>1, <2>2, <2>3, <2>4, TcpAssumption
  <2>6. ~early' => GotInOrder'
    BY <2>2
  <2>7. UnreadInOrder' /\ NextExpected' /\ AllCounted' /\ Fresh'
    BY <2>2, <2>3
  <2> HIDE DEF GotInOrder, UnreadInOrder, NextExpected, AllCounted, Fresh, Unread
  <2> QED
    BY <2>5, <2>6, <2>7
<1>9. CASE UNCHANGED tcpVars
  BY <1>9 DEF tcpVars, rx, caller
<1> QED
  BY <1>1, <1>2, <1>3, <1>4, <1>5, <1>6, <1>7, <1>8, <1>9 DEF TcpNext

\* The invariant of a connection.
LEMMA StreamKept == TcpSpec => [](TcpTyped /\ StreamInv)
<1>1. TcpInit => TcpTyped /\ StreamInv
  BY TcpTypedInit, StreamInit
<1>2. TcpTyped /\ StreamInv /\ [TcpNext]_tcpVars => (TcpTyped /\ StreamInv)'
  BY TcpTypedStep, StreamStep
<1> QED
  BY <1>1, <1>2, PTL DEF TcpSpec

\* What was returned, and what is buffered behind it, is as long as Count says.
LEMMA ReceivedIsCount ==
    ASSUME TcpTyped
    PROVE  /\ Received \in Seq(Bytes) /\ Len(Received) = Count
           /\ \A i \in 1 .. Len(got) : Received[i] = got[i]
           /\ \A i \in 1 .. Unread : Received[Len(got) + i] = rxbuf[rxread + i - 1]
<1>1. Unread \in Nat /\ Unread \in 0 .. Unread /\ got \in Seq(Bytes) /\ Len(got) \in Nat
  BY DEF TcpTyped, TcpTypeOK, Unread
<1>2. /\ Buffered \in Seq(Bytes) /\ Len(Buffered) = Unread
      /\ \A i \in 1 .. Unread : Buffered[i] = rxbuf[rxread + i - 1]
  BY <1>1, TakenIsSeq DEF Buffered
<1> HIDE DEF Unread
<1>3. /\ Received \in Seq(Bytes) /\ Len(Received) = Len(got) + Unread
      /\ \A i \in 1 .. Len(got) : Received[i] = got[i]
  <2>1. Received \in Seq(Bytes) /\ Len(Received) = Len(got) + Len(Buffered)
    BY <1>1, <1>2, ConcatProperties DEF Received
  <2>2. ASSUME NEW i \in 1 .. Len(got)
        PROVE  Received[i] = got[i]
    BY <1>1, <1>2, ConcatProperties DEF Received
  <2> QED
    BY <1>2, <2>1, <2>2
<1>4. ASSUME NEW i \in 1 .. Unread
      PROVE  Received[Len(got) + i] = Buffered[i]
  <2>1. PICK k \in 1 .. (Len(got) + Unread) : k = Len(got) + i /\ k > Len(got) /\ k - Len(got) = i
    BY <1>1
  <2> QED
    BY <1>1, <1>2, <2>1, ConcatProperties DEF Received
<1> QED
  BY <1>2, <1>3, <1>4 DEF Count

\* Whatever the network loses, repeats or reorders, the caller of tcp_recv gets the peer's
\* bytes in order and each once, and the buffer goes on where the caller stopped, unless a FIN
\* was taken ahead of data (tcp_handle, tcp_recv).
THEOREM StreamInOrder == TcpSpec => []BytesInOrder
<1>1. TcpTyped /\ StreamInv => BytesInOrder
  <2> SUFFICES ASSUME TcpTyped, StreamInv, ~early
               PROVE  got = Prefix(Len(got)) /\ Received = Prefix(Len(Received))
    BY DEF BytesInOrder
  <2>1. ASSUME NEW s \in Seq(Bytes), \A i \in 1 .. Len(s) : s[i] = i
        PROVE  s = Prefix(Len(s))
    BY <2>1 DEF Prefix
  <2>2. got = Prefix(Len(got))
    BY <2>1 DEF TcpTyped, TcpTypeOK, StreamInv, GotInOrder
  <2>3. Unread \in Nat /\ Len(got) \in Nat
    BY DEF TcpTyped, TcpTypeOK, Unread
  <2>4. ASSUME NEW i \in 1 .. Len(Received)
        PROVE  Received[i] = i
    <3>1. CASE i <= Len(got)
      <4>1. i \in 1 .. Len(got)
        BY <2>3, <3>1, ReceivedIsCount DEF Count
      <4> QED
        BY <4>1, ReceivedIsCount DEF StreamInv, GotInOrder
    <3>2. CASE i > Len(got)
      <4>0. i \in 1 .. (Len(got) + Unread)
        BY ReceivedIsCount DEF Count
      <4>1. PICK k \in 1 .. Unread : i = Len(got) + k
        <5>1. PICK m \in Nat, u \in Nat : m = Len(got) /\ u = Unread
          BY <2>3
        <5>2. i - m \in 1 .. u /\ i = m + (i - m)
          BY <3>2, <4>0, <5>1
        <5> QED
          BY <5>1, <5>2
      <4>2. PICK r \in Nat : r = rxread
        BY DEF TcpTyped, TcpTypeOK
      <4>3. k - 1 \in 0 .. (Unread - 1) /\ r + k - 1 = r + (k - 1)
        BY <2>3, <4>1, <4>2
      <4>4. rxbuf[rxread + (k - 1)] = Len(got) + 1 + (k - 1)
        BY <4>3 DEF StreamInv, UnreadInOrder
      <4>5. Len(got) + 1 + (k - 1) = i
        BY <2>3, <4>1
      <4> QED
        BY <4>1, <4>2, <4>3, <4>4, <4>5, ReceivedIsCount
    <3> QED
      BY <2>3, <3>1, <3>2, ReceivedIsCount DEF Count
  <2>5. Received = Prefix(Len(Received))
    BY <2>1, <2>4, ReceivedIsCount
  <2> QED
    BY <2>2, <2>5
<1> QED
  BY <1>1, StreamKept, PTL


\* What the client has acknowledged is what it stored or returned: rcv_nxt moves for stored
\* bytes only (tcp_handle), unless a FIN was taken ahead of data.
THEOREM AckedBytesStored == TcpSpec => []AckedIsStored
<1>1. TcpTyped /\ StreamInv => AckedIsStored
  <2> SUFFICES ASSUME TcpTyped, StreamInv, Open, ~early
               PROVE  rcv_nxt = SeqOf(1 + Len(Received) + (IF state = "close_wait" THEN 1 ELSE 0))
    BY DEF AckedIsStored
  <2>1. PICK c \in 0 .. Total : c = Count
    BY CountBounded
  <2>2. Len(Received) = c
    BY <2>1, ReceivedIsCount
  <2>3. CASE state = "established"
    <3>1. rcv_nxt = SeqOf(c + 1)
      BY <2>1, <2>3 DEF StreamInv, NextExpected
    <3>2. 1 + c + 0 = c + 1
      BY <2>1
    <3> QED
      BY <2>2, <2>3, <3>1, <3>2
  <2>4. CASE state = "close_wait"
    <3>1. rcv_nxt = SeqOf(Total + 2) /\ c = Total
      BY <2>1, <2>4 DEF StreamInv, AllCounted
    <3>2. 1 + c + 1 = Total + 2
      BY <2>1, <3>1, TcpAssumption
    <3> QED
      BY <2>2, <2>4, <3>1, <3>2
  <2> QED
    BY <2>3, <2>4 DEF Open
<1> QED
  BY <1>1, StreamKept, PTL

-----------------------------------------------------------------------------
(* The receive path: the inductive invariant behind FramesKept *)

Ahead(S, T) == \A a \in S, b \in T : a < b

\* Where in s_rxq the i-th waiting frame is.
Slot(i) == (tail + i) % QueueN

RingSorted ==
    \A i, j \in 1 .. Len(hw) : i < j /\ hw[i] # Corrupt /\ hw[j] # Corrupt => hw[i] < hw[j]
QueueSorted ==
    \A i, j \in 0 .. (Waiting - 1) : i < j => s_rxq[Slot(i)] < s_rxq[Slot(j)]
QueueHoldsFrames == \A i \in 0 .. (Waiting - 1) : s_rxq[Slot(i)] \in Frames

\* The frame net_poll copies is the first that waits; its slot is released behind the copy.
CopyTrue ==
    /\ pollPc = "copy"    => Waiting > 0 /\ frame[1] = s_rxq[tail]
    /\ pollPc = "release" => Waiting > 0 /\ frame = <<s_rxq[tail], s_rxq[tail]>>
    /\ pollPc = "handle"  => frame[1] = frame[2] /\ frame[1] \in Frames

InStages == Given \union InHand \union Queued \union InRing

StagesInOrder ==
    /\ Ahead(Given, InHand) /\ Ahead(Given, Queued) /\ Ahead(Given, InRing)
    /\ Ahead(InHand, Queued) /\ Ahead(InHand, InRing)
    /\ Ahead(Queued, InRing)

\* No frame is anywhere twice, none is gone.
EachOnce ==
    /\ InStages \union lost = 1 .. arrived
    /\ InStages \intersect lost = {}

RxInv ==
    /\ RxTypeOK
    /\ RingSorted /\ QueueSorted /\ QueueHoldsFrames /\ CopyTrue
    /\ StagesInOrder /\ EachOnce /\ FramesInOrder

\* An index of s_rxq wraps at most once.
LEMMA SlotIs ==
    ASSUME NEW t \in Indices, NEW i \in 0 .. QueueN
    PROVE  /\ (t + i) % QueueN \in Indices
           /\ (t + i) % QueueN = IF t + i < QueueN THEN t + i ELSE t + i - QueueN
<1>1. PICK a \in Int : a = t + i
  BY NetAssumption DEF Indices
<1>2. QueueN \in Nat \ {0} /\ -QueueN <= a /\ a < 2 * QueueN /\ a >= 0
  BY <1>1, NetAssumption DEF Indices
<1>3. /\ a % QueueN \in 0 .. (QueueN - 1)
      /\ a % QueueN = IF a < 0 THEN a + QueueN ELSE IF a < QueueN THEN a ELSE a - QueueN
  BY <1>2, ModNear
<1>4. PICK s \in 0 .. (QueueN - 1) : s = a % QueueN
  BY <1>3
<1>5. s = IF a < 0 THEN a + QueueN ELSE IF a < QueueN THEN a ELSE a - QueueN
  BY <1>3, <1>4, Zenon
<1>6. s = IF t + i < QueueN THEN t + i ELSE t + i - QueueN
  BY <1>1, <1>2, <1>5, NetAssumption DEF Indices
<1>7. (t + i) % QueueN = s
  BY <1>1, <1>4
<1> QED
  BY <1>6, <1>7 DEF Indices

\* How many frames wait, without the modulus.
LEMMA WaitingIs ==
    ASSUME NEW h \in Indices, NEW t \in Indices
    PROVE  /\ (h - t) % QueueN \in 0 .. (QueueN - 1)
           /\ (h - t) % QueueN = IF h < t THEN h - t + QueueN ELSE h - t
<1>1. PICK a \in Int : a = h - t
  BY NetAssumption DEF Indices
<1>2. QueueN \in Nat \ {0} /\ -QueueN <= a /\ a < 2 * QueueN /\ a < QueueN
  BY <1>1, NetAssumption DEF Indices
<1>3. /\ a % QueueN \in 0 .. (QueueN - 1)
      /\ a % QueueN = IF a < 0 THEN a + QueueN ELSE IF a < QueueN THEN a ELSE a - QueueN
  BY <1>2, ModNear
<1>4. PICK s \in 0 .. (QueueN - 1) : s = a % QueueN
  BY <1>3
<1>5. s = IF a < 0 THEN a + QueueN ELSE IF a < QueueN THEN a ELSE a - QueueN
  BY <1>3, <1>4, Zenon
<1>6. s = IF h < t THEN h - t + QueueN ELSE h - t
  BY <1>1, <1>2, <1>5, NetAssumption DEF Indices
<1>7. (h - t) % QueueN = s
  BY <1>1, <1>4
<1> QED
  BY <1>6, <1>7

\* The queue's slots: they are distinct, head is behind the last that waits, and a full queue
\* leaves one slot empty.
LEMMA QueueBounds ==
    ASSUME RxTypeOK
    PROVE  /\ Waiting \in 0 .. (QueueN - 1)
           /\ Slot(Waiting) = head /\ Slot(0) = tail
           /\ Full <=> Waiting = QueueN - 1
           /\ \A i \in 0 .. (QueueN - 1) : Slot(i) \in Indices
           /\ \A i, j \in 0 .. (QueueN - 1) : Slot(i) = Slot(j) => i = j
<1>1. head \in Indices /\ tail \in Indices
  BY DEF RxTypeOK
<1>2. PICK w \in 0 .. (QueueN - 1) :
        w = Waiting /\ w = IF head < tail THEN head - tail + QueueN ELSE head - tail
  BY <1>1, WaitingIs DEF Waiting
<1>3. \A i \in 0 .. (QueueN - 1) :
        /\ Slot(i) \in Indices
        /\ Slot(i) = IF tail + i < QueueN THEN tail + i ELSE tail + i - QueueN
  <2>1. \A i \in 0 .. (QueueN - 1) : i \in 0 .. QueueN
    BY NetAssumption
  <2> QED
    BY <1>1, <2>1, SlotIs DEF Slot
<1>4. (head + 1) % QueueN = IF head + 1 < QueueN THEN head + 1 ELSE head + 1 - QueueN
  BY <1>1, SlotIs, NetAssumption
<1>5. PICK h1 \in Int : /\ h1 = (head + 1) % QueueN
                        /\ h1 = IF head + 1 < QueueN THEN head + 1 ELSE head + 1 - QueueN
  BY <1>1, <1>4, NetAssumption DEF Indices
<1> HIDE DEF Slot, Waiting
<1>6. Slot(w) = head
  BY <1>1, <1>2, <1>3, NetAssumption DEF Indices
<1>7. 0 \in 0 .. (QueueN - 1) /\ Slot(0) = tail
  BY <1>1, <1>3, NetAssumption DEF Indices
<1>8. h1 = tail <=> w = QueueN - 1
  BY <1>1, <1>2, <1>5, NetAssumption DEF Indices
<1>9. \A i, j \in 0 .. (QueueN - 1) : Slot(i) = Slot(j) => i = j
  BY <1>1, <1>3, NetAssumption DEF Indices
<1> QED
  BY <1>2, <1>3, <1>5, <1>6, <1>7, <1>8, <1>9 DEF Full

\* A frame put at head waits behind the others.
LEMMA QueueGrows ==
    ASSUME RxTypeOK, ~Full, NEW f, s_rxq' = [s_rxq EXCEPT ![head] = f],
           head' = (head + 1) % QueueN, tail' = tail
    PROVE  /\ Waiting' = Waiting + 1
           /\ \A i \in 0 .. (Waiting - 1) : s_rxq'[Slot(i)'] = s_rxq[Slot(i)]
           /\ \A i \in 0 .. Waiting : Slot(i)' = Slot(i)
           /\ s_rxq'[Slot(Waiting)] = f
<1>1. head \in Indices /\ tail \in Indices /\ s_rxq \in [Indices -> Frames \union {0}]
  BY DEF RxTypeOK
<1>2. PICK w \in 0 .. (QueueN - 1) :
        w = Waiting /\ w = IF head < tail THEN head - tail + QueueN ELSE head - tail
  BY <1>1, WaitingIs DEF Waiting
<1>3. w + 1 \in 0 .. (QueueN - 1)
  BY <1>2, QueueBounds, NetAssumption
<1>4. head' \in Indices /\ head' = IF head + 1 < QueueN THEN head + 1 ELSE head + 1 - QueueN
  BY <1>1, SlotIs, NetAssumption
<1>5. Waiting' = IF head' < tail' THEN head' - tail' + QueueN ELSE head' - tail'
  BY <1>1, <1>4, WaitingIs DEF Waiting
<1>6. Waiting' = w + 1
  <2>1. PICK h1 \in Int : h1 = head' /\ h1 = IF head + 1 < QueueN THEN head + 1 ELSE head + 1 - QueueN
    BY <1>4, NetAssumption DEF Indices
  <2>2. Waiting' = IF h1 < tail THEN h1 - tail + QueueN ELSE h1 - tail
    BY <1>5, <2>1
  <2> QED
    BY <1>1, <1>2, <1>3, <2>1, <2>2, NetAssumption DEF Indices
<1>7. ASSUME NEW i
      PROVE  Slot(i)' = Slot(i)
  BY DEF Slot
<1>8. Slot(w) = head
  BY <1>2, QueueBounds
<1>9. ASSUME NEW i \in 0 .. (w - 1)
      PROVE  s_rxq'[Slot(i)'] = s_rxq[Slot(i)]
  <2>1. i \in 0 .. (QueueN - 1) /\ i # w
    <3>1. PICK n \in Nat : n = QueueN
      BY NetAssumption
    <3>2. w \in 0 .. (n - 1)
      BY <3>1
    <3> QED
      BY <3>1, <3>2
  <2>2. Slot(i) \in Indices /\ Slot(i) # head
    BY <1>2, <1>8, <2>1, QueueBounds
  <2> HIDE DEF Slot
  <2> QED
    BY <1>1, <1>7, <2>2
<1>10. s_rxq'[head] = f
  BY <1>1
<1> HIDE DEF Slot, Waiting
<1> QED
  BY <1>2, <1>6, <1>7, <1>8, <1>9, <1>10

\* A slot released at tail makes every frame wait one place nearer.
LEMMA QueueShrinks ==
    ASSUME RxTypeOK, Waiting > 0, tail' = (tail + 1) % QueueN, head' = head
    PROVE  /\ Waiting' = Waiting - 1
           /\ \A i \in 0 .. (Waiting' - 1) : i + 1 \in 0 .. (Waiting - 1) /\ Slot(i)' = Slot(i + 1)
<1>1. head \in Indices /\ tail \in Indices
  BY DEF RxTypeOK
<1>2. PICK w \in 0 .. (QueueN - 1) :
        w = Waiting /\ w = IF head < tail THEN head - tail + QueueN ELSE head - tail
  BY <1>1, WaitingIs DEF Waiting
<1>3. PICK t1 \in Indices :
        t1 = tail' /\ t1 = IF tail + 1 < QueueN THEN tail + 1 ELSE tail + 1 - QueueN
  BY <1>1, SlotIs, NetAssumption
<1>4. Waiting' = IF head < t1 THEN head - t1 + QueueN ELSE head - t1
  BY <1>1, <1>3, WaitingIs DEF Waiting
<1>5. Waiting' = w - 1
  <2>1. w > 0
    BY <1>2
  <2> QED
    BY <1>1, <1>2, <1>3, <1>4, <2>1, NetAssumption DEF Indices
<1>6. ASSUME NEW i \in 0 .. (w - 2)
      PROVE  i + 1 \in 0 .. (w - 1) /\ Slot(i)' = Slot(i + 1)
  <2>1. i \in 0 .. QueueN /\ i + 1 \in 0 .. QueueN /\ i + 1 \in 0 .. (w - 1)
    BY <1>2, NetAssumption
  <2>2. Slot(i)' = (t1 + i) % QueueN
    BY <1>3 DEF Slot
  <2>3. (t1 + i) % QueueN = IF t1 + i < QueueN THEN t1 + i ELSE t1 + i - QueueN
    BY <2>1, SlotIs
  <2>4. Slot(i + 1) = IF tail + (i + 1) < QueueN THEN tail + (i + 1) ELSE tail + (i + 1) - QueueN
    BY <1>1, <2>1, SlotIs DEF Slot
  <2> HIDE DEF Slot
  <2>5. PICK a \in Int : a = Slot(i)' /\ a = IF t1 + i < QueueN THEN t1 + i ELSE t1 + i - QueueN
    BY <1>3, <2>1, <2>2, <2>3, NetAssumption DEF Indices
  <2>6. a = Slot(i + 1)
    BY <1>1, <1>3, <2>1, <2>4, <2>5, NetAssumption DEF Indices
  <2> QED
    BY <2>1, <2>5, <2>6
<1>7. 0 .. (Waiting' - 1) = 0 .. (w - 2)
  BY <1>2, <1>5
<1> HIDE DEF Waiting, Slot
<1> QED
  BY <1>2, <1>5, <1>6, <1>7

\* What is in the NIC's ring.
LEMMA RingHas ==
    ASSUME RxTypeOK
    PROVE  /\ Len(hw) \in Nat
           /\ \A i \in 1 .. Len(hw) : hw[i] \in Frames \union {Corrupt}
           /\ InRing \subseteq Frames
           /\ \A i \in 1 .. Len(hw) : hw[i] # Corrupt => hw[i] \in InRing
<1>1. hw \in Seq(Frames \union {Corrupt})
  BY DEF RxTypeOK
<1>2. Len(hw) \in Nat /\ \A i \in 1 .. Len(hw) : hw[i] \in Frames \union {Corrupt}
  BY <1>1
<1> QED
  BY <1>2 DEF InRing

\* A frame taken from the ring is the oldest one there.
LEMMA RingLosesFirst ==
    ASSUME RxTypeOK, RingSorted, hw # <<>>, Head(hw) # Corrupt, hw' = Tail(hw)
    PROVE  /\ Head(hw) \in Frames /\ Head(hw) \in InRing
           /\ hw' \in Seq(Frames \union {Corrupt}) /\ Len(hw') <= HwCap
           /\ InRing' = InRing \ {Head(hw)} /\ Ahead({Head(hw)}, InRing')
           /\ RingSorted'
<1>1. hw \in Seq(Frames \union {Corrupt}) /\ hw # <<>>
  BY DEF RxTypeOK
<1>2. PICK n \in Nat : n = Len(hw) /\ n <= HwCap
  BY <1>1 DEF RxTypeOK
<1>3. /\ n >= 1 /\ Head(hw) = hw[1]
      /\ hw' \in Seq(Frames \union {Corrupt}) /\ Len(hw') = n - 1
      /\ \A i \in 1 .. (n - 1) : hw'[i] = hw[i + 1]
  <2>1. Len(hw) # 0
    BY <1>1, EmptySeq
  <2> QED
    BY <1>1, <1>2, <2>1, HeadTailProperties
<1>4. hw[1] \in Frames /\ hw[1] \in InRing
  <2>1. 1 \in 1 .. Len(hw)
    BY <1>2, <1>3
  <2> QED
    BY <1>3, <2>1, RingHas DEF Corrupt
<1>5. ASSUME NEW i \in 2 .. n, hw[i] # Corrupt
      PROVE  hw[1] < hw[i]
  BY <1>2, <1>3, <1>5 DEF RingSorted
<1>6. InRing = {hw[i] : i \in 1 .. n} \ {Corrupt} /\ InRing' = {hw'[i] : i \in 1 .. (n - 1)} \ {Corrupt}
  BY <1>2, <1>3 DEF InRing
<1>7. ASSUME NEW b \in InRing'
      PROVE  hw[1] < b /\ b \in InRing
  <2>1. PICK i \in 1 .. (n - 1) : b = hw'[i] /\ b # Corrupt
    BY <1>6
  <2>2. i + 1 \in 2 .. n /\ i + 1 \in 1 .. n /\ b = hw[i + 1]
    BY <1>3, <2>1
  <2> QED
    BY <1>5, <1>6, <2>1, <2>2
<1>8. ASSUME NEW b \in InRing, b # hw[1]
      PROVE  b \in InRing'
  <2>1. PICK i \in 1 .. n : b = hw[i] /\ b # Corrupt
    BY <1>6
  <2>2. i - 1 \in 1 .. (n - 1) /\ (i - 1) + 1 = i
    BY <1>8, <2>1
  <2>3. hw'[i - 1] = b
    BY <1>3, <2>1, <2>2
  <2> QED
    BY <1>6, <2>1, <2>2, <2>3
<1>9. hw[1] \notin InRing'
  <2>1. hw[1] \in Nat
    BY <1>4, NetAssumption DEF Frames
  <2> QED
    BY <1>7, <2>1
<1>10. ASSUME NEW i \in 1 .. Len(hw'), NEW j \in 1 .. Len(hw'), i < j, hw'[i] # Corrupt, hw'[j] # Corrupt
       PROVE  hw'[i] < hw'[j]
  <2>1. i + 1 \in 1 .. Len(hw) /\ j + 1 \in 1 .. Len(hw) /\ i + 1 < j + 1
    BY <1>2, <1>3, <1>10
  <2>2. hw'[i] = hw[i + 1] /\ hw'[j] = hw[j + 1]
    BY <1>3
  <2> QED
    BY <1>10, <2>1, <2>2 DEF RingSorted
<1>11. RingSorted'
  BY <1>10 DEF RingSorted
<1>12. InRing' = InRing \ {hw[1]}
  BY <1>7, <1>8, <1>9
<1>13. Len(hw') <= HwCap
  BY <1>2, <1>3, NetAssumption
<1> QED
  BY <1>3, <1>4, <1>7, <1>11, <1>12, <1>13 DEF Ahead

\* A frame that arrives is the last in the ring and the newest.
LEMMA RingGetsLast ==
    ASSUME RxTypeOK, RingSorted, InRing \subseteq 1 .. arrived, NEW f \in {arrived + 1, Corrupt},
           arrived < MaxFrames, Len(hw) < HwCap, hw' = Append(hw, f)
    PROVE  /\ hw' \in Seq(Frames \union {Corrupt}) /\ Len(hw') <= HwCap
           /\ InRing' = InRing \union ({f} \ {Corrupt})
           /\ RingSorted'
<1>1. hw \in Seq(Frames \union {Corrupt}) /\ arrived \in Nat /\ Len(hw) \in Nat
  BY NetAssumption DEF RxTypeOK
<1>2. PICK n \in Nat : n = Len(hw)
  BY <1>1
<1>3. f \in Frames \union {Corrupt}
  BY <1>1, NetAssumption DEF Frames
<1>4. /\ hw' \in Seq(Frames \union {Corrupt}) /\ Len(hw') = n + 1
      /\ \A i \in 1 .. n : hw'[i] = hw[i]
      /\ hw'[n + 1] = f
  BY <1>1, <1>2, <1>3, AppendProperties
<1>5. InRing' = InRing \union ({f} \ {Corrupt})
  <2>1. InRing' = {hw'[i] : i \in 1 .. (n + 1)} \ {Corrupt}
    BY <1>4 DEF InRing
  <2>2. InRing = {hw[i] : i \in 1 .. n} \ {Corrupt}
    BY <1>2 DEF InRing
  <2>3. 1 .. (n + 1) = (1 .. n) \union {n + 1}
    OBVIOUS
  <2> QED
    BY <1>4, <2>1, <2>2, <2>3
<1>6. ASSUME NEW i \in 1 .. Len(hw'), NEW j \in 1 .. Len(hw'), i < j, hw'[i] # Corrupt, hw'[j] # Corrupt
      PROVE  hw'[i] < hw'[j]
  <2>1. i \in 1 .. n /\ (j \in 1 .. n \/ j = n + 1)
    BY <1>4, <1>6
  <2>2. CASE j \in 1 .. n
    BY <1>2, <1>4, <1>6, <2>1, <2>2 DEF RingSorted
  <2>3. CASE j = n + 1
    <3>1. hw'[i] \in 1 .. arrived
      <4>1. hw'[i] = hw[i] /\ hw[i] \in InRing
        BY <1>2, <1>4, <1>6, <2>1 DEF InRing
      <4> QED
        BY <4>1
    <3>2. hw'[j] = arrived + 1
      BY <1>4, <1>6, <2>3
    <3> QED
      BY <1>1, <3>1, <3>2
  <2> QED
    BY <2>1, <2>2, <2>3
<1>7. RingSorted'
  BY <1>6 DEF RingSorted
<1>8. Len(hw') <= HwCap
  BY <1>2, <1>4, NetAssumption
<1> QED
  BY <1>4, <1>5, <1>7, <1>8

\* The frames that wait, by their slots.
LEMMA QueuedIs == Queued = {s_rxq[Slot(i)] : i \in 0 .. (Waiting - 1)}
  BY DEF Queued, Slot

\* Every frame anywhere has arrived.
LEMMA StagesAreFrames ==
    ASSUME RxInv
    PROVE  /\ Given \subseteq Frames /\ InHand \subseteq Frames
           /\ Queued \subseteq Frames /\ InRing \subseteq Frames
           /\ InStages \subseteq 1 .. arrived /\ lost \subseteq 1 .. arrived
           /\ arrived \in Nat /\ arrived <= MaxFrames
<1>1. arrived \in Nat /\ arrived <= MaxFrames
  BY NetAssumption DEF RxInv, RxTypeOK
<1>2. InStages \subseteq 1 .. arrived /\ lost \subseteq 1 .. arrived
  BY DEF RxInv, EachOnce
<1>3. 1 .. arrived \subseteq Frames
  BY <1>1, NetAssumption DEF Frames
<1> QED
  BY <1>1, <1>2, <1>3 DEF InStages

\* A step that leaves every frame where it is.
LEMMA NothingMoves ==
    ASSUME RxInv, RxTypeOK', UNCHANGED <<hw, arrived, s_rxq, head, tail, handled, lost>>,
           CopyTrue', InHand' = InHand
    PROVE  RxInv'
<1>1. Waiting' = Waiting /\ \A i : Slot(i)' = Slot(i)
  BY DEF Waiting, Slot
<1>2. Queued' = Queued /\ InRing' = InRing /\ Given' = Given
  BY DEF Queued, InRing, Given, Waiting
<1>3. RingSorted' /\ FramesInOrder'
  BY DEF RxInv, RingSorted, FramesInOrder
<1>4. QueueSorted' /\ QueueHoldsFrames'
  BY <1>1 DEF RxInv, QueueSorted, QueueHoldsFrames
<1>5. StagesInOrder'
  BY <1>2 DEF RxInv, StagesInOrder, Ahead
<1>6. EachOnce'
  BY <1>2 DEF RxInv, EachOnce, InStages
<1> QED
  BY <1>3, <1>4, <1>5, <1>6 DEF RxInv

\* The first half of net_poll's copy.
LEMMA CopyFirstKeeps == ASSUME RxInv, CopyFirst PROVE RxInv'
<1>1. RxTypeOK /\ tail \in Indices /\ head \in Indices /\ s_rxq \in [Indices -> Frames \union {0}]
  BY DEF RxInv, RxTypeOK
<1>2. s_rxq[tail] \in Frames \union {0}
  BY <1>1
<1>3. RxTypeOK'
  BY <1>2 DEF CopyFirst, RxInv, RxTypeOK, nic, queue
<1>4. Waiting > 0
  <2>1. Waiting \in 0 .. (QueueN - 1) /\ Slot(Waiting) = head /\ Slot(0) = tail
    BY <1>1, QueueBounds
  <2>2. Waiting # 0
    BY <2>1 DEF CopyFirst
  <2> QED
    BY <2>1, <2>2, NetAssumption
<1>5. CopyTrue'
  <2>1. Waiting' = Waiting
    BY DEF CopyFirst, queue, Waiting
  <2> HIDE DEF Waiting
  <2> QED
    BY <1>4, <2>1 DEF CopyFirst, CopyTrue, queue
<1> QED
  BY <1>3, <1>5, NothingMoves DEF CopyFirst, InHand, Runs, nic, queue

\* The second half, after the handler may have run.
LEMMA CopySecondKeeps == ASSUME RxInv, CopySecond PROVE RxInv'
<1>1. RxTypeOK /\ tail \in Indices /\ s_rxq \in [Indices -> Frames \union {0}]
  BY DEF RxInv, RxTypeOK
<1>2. s_rxq[tail] \in Frames \union {0}
  BY <1>1
<1>3. Waiting > 0 /\ frame[1] = s_rxq[tail]
  BY DEF CopySecond, Runs, RxInv, CopyTrue
<1>4. frame' = <<s_rxq[tail], s_rxq[tail]>>
  BY <1>3 DEF CopySecond
<1>5. RxTypeOK'
  BY <1>2, <1>4 DEF CopySecond, RxInv, RxTypeOK, nic, queue
<1>6. CopyTrue'
  <2>1. Waiting' = Waiting
    BY DEF CopySecond, queue, Waiting
  <2> HIDE DEF Waiting
  <2> QED
    BY <1>3, <1>4, <2>1 DEF CopySecond, CopyTrue, queue
<1> QED
  BY <1>5, <1>6, NothingMoves DEF CopySecond, InHand, Runs, nic, queue

\* The slot is given back and its frame is in net_poll's hands.
LEMMA ReleaseKeeps == ASSUME RxInv, ReleaseFrame PROVE RxInv'
<1> DEFINE f == s_rxq[tail]
<1>1. /\ RxTypeOK /\ pollPc = "release" /\ Waiting > 0 /\ frame = <<f, f>>
      /\ tail' = (tail + 1) % QueueN /\ pollPc' = "handle"
      /\ UNCHANGED <<hw, rok, arrived, s_rxq, head, irq, guard, frame, due, handled, lost>>
  BY DEF ReleaseFrame, Released, Runs, RxInv, CopyTrue, nic
<1>2. /\ Waiting' = Waiting - 1
      /\ \A i \in 0 .. (Waiting' - 1) : i + 1 \in 0 .. (Waiting - 1) /\ Slot(i)' = Slot(i + 1)
  BY <1>1, QueueShrinks
<1>3. Slot(0) = tail /\ Waiting \in Nat
  BY <1>1, QueueBounds, NetAssumption
<1>4. 0 \in 0 .. (Waiting - 1)
  BY <1>1, <1>3
<1>5. f \in Frames /\ f \in Nat /\ f \in Queued
  <2>1. f \in Frames
    BY <1>3, <1>4 DEF RxInv, QueueHoldsFrames
  <2> QED
    BY <1>3, <1>4, <2>1, QueuedIs, NetAssumption DEF Frames
<1>6. tail' \in Indices
  <2>1. tail \in Indices /\ 1 \in 0 .. QueueN
    BY <1>1, NetAssumption DEF RxTypeOK
  <2> QED
    BY <1>1, <2>1, SlotIs
<1>7. RxTypeOK'
  BY <1>1, <1>6 DEF RxTypeOK
<1> HIDE DEF f
<1>8. ASSUME NEW i \in 0 .. (Waiting' - 1)
      PROVE  /\ i + 1 \in 0 .. (Waiting - 1) /\ s_rxq'[Slot(i)'] = s_rxq[Slot(i + 1)]
             /\ f < s_rxq'[Slot(i)'] /\ s_rxq'[Slot(i)'] \in Queued
             /\ s_rxq'[Slot(i)'] \in Frames
  <2>1. i + 1 \in 0 .. (Waiting - 1) /\ Slot(i)' = Slot(i + 1) /\ 0 < i + 1
    BY <1>2, <1>3
  <2>2. s_rxq'[Slot(i)'] = s_rxq[Slot(i + 1)]
    BY <1>1, <2>1
  <2>3. s_rxq[Slot(0)] < s_rxq[Slot(i + 1)]
    BY <1>4, <2>1 DEF RxInv, QueueSorted
  <2>4. s_rxq[Slot(i + 1)] \in Frames
    BY <2>1 DEF RxInv, QueueHoldsFrames
  <2> QED
    BY <1>3, <2>1, <2>2, <2>3, <2>4, QueuedIs DEF f
<1>9. QueueHoldsFrames'
  BY <1>8 DEF QueueHoldsFrames
<1>10. QueueSorted'
  <2>1. ASSUME NEW i \in 0 .. (Waiting' - 1), NEW j \in 0 .. (Waiting' - 1), i < j
        PROVE  s_rxq'[Slot(i)'] < s_rxq'[Slot(j)']
    <3>1. i + 1 < j + 1
      BY <1>2, <1>3, <2>1
    <3> QED
      BY <1>8, <3>1 DEF RxInv, QueueSorted
  <2> QED
    BY <2>1 DEF QueueSorted
<1>11. Queued' = {s_rxq'[Slot(i)'] : i \in 0 .. (Waiting' - 1)}
  BY DEF Queued, Slot
<1>12. Queued' = Queued \ {f} /\ Ahead({f}, Queued')
  <2>1. ASSUME NEW b \in Queued'
        PROVE  b \in Queued /\ f < b /\ b # f
    <3>1. b \in Queued /\ f < b
      BY <1>8, <1>11, <2>1
    <3> QED
      BY <1>5, <3>1
  <2>2. ASSUME NEW b \in Queued, b # f
        PROVE  b \in Queued'
    <3>1. PICK i \in 0 .. (Waiting - 1) : b = s_rxq[Slot(i)]
      BY QueuedIs
    <3>2. i # 0
      BY <1>3, <2>2, <3>1 DEF f
    <3>3. i - 1 \in 0 .. (Waiting' - 1) /\ (i - 1) + 1 = i
      BY <1>2, <1>3, <3>1, <3>2
    <3>4. s_rxq'[Slot(i - 1)'] = b
      BY <1>8, <3>1, <3>3
    <3> QED
      BY <1>11, <3>3, <3>4
  <2> QED
    BY <2>1, <2>2 DEF Ahead
<1>13. InHand = {} /\ InHand' = {f} /\ InRing' = InRing /\ Given' = Given
  BY <1>1 DEF InHand, InRing, Given
<1>14. StagesInOrder'
  BY <1>5, <1>12, <1>13 DEF RxInv, StagesInOrder, Ahead
<1>15. EachOnce'
  <2>1. InStages' = InStages
    BY <1>5, <1>12, <1>13 DEF InStages
  <2> QED
    BY <1>1, <2>1 DEF RxInv, EachOnce
<1>16. RingSorted' /\ FramesInOrder'
  BY <1>1 DEF RxInv, RingSorted, FramesInOrder
<1>17. CopyTrue'
  BY <1>1, <1>5 DEF CopyTrue
<1> QED
  BY <1>7, <1>9, <1>10, <1>14, <1>15, <1>16, <1>17 DEF RxInv


\* The stack gets the frame that was copied.
LEMMA EthHandleKeeps == ASSUME RxInv, EthHandle PROVE RxInv'
<1> DEFINE f == frame[1]
<1>1. /\ RxTypeOK /\ pollPc = "handle" /\ pollPc' = "pop" /\ handled' = Append(handled, frame)
      /\ frame' = <<0, 0>>
      /\ UNCHANGED <<hw, rok, arrived, s_rxq, head, tail, irq, guard, due, lost>>
  BY DEF EthHandle, Runs, RxInv, nic, queue
<1>2. f \in Frames /\ frame[2] = f /\ frame \in Frames \X Frames
  BY <1>1 DEF RxInv, CopyTrue, RxTypeOK
<1>3. handled \in Seq(Frames \X Frames) /\ Len(handled) \in Nat
  BY <1>1 DEF RxTypeOK
<1>4. PICK n \in Nat : n = Len(handled)
  BY <1>3
<1>5. /\ handled' \in Seq(Frames \X Frames) /\ Len(handled') = n + 1
      /\ \A i \in 1 .. n : handled'[i] = handled[i]
      /\ handled'[n + 1] = frame
  BY <1>1, <1>2, <1>3, <1>4, AppendProperties
<1>6. RxTypeOK'
  BY <1>1, <1>5 DEF RxTypeOK
<1>7. InHand = {f} /\ InHand' = {} /\ InRing' = InRing
  BY <1>1 DEF InHand, InRing
<1> HIDE DEF f
<1>8. Given' = Given \union {f}
  <2>1. Given' = {handled'[i][1] : i \in 1 .. (n + 1)} /\ Given = {handled[i][1] : i \in 1 .. n}
    BY <1>4, <1>5 DEF Given
  <2>2. 1 .. (n + 1) = (1 .. n) \union {n + 1}
    OBVIOUS
  <2>3. handled'[n + 1][1] = f
    BY <1>5 DEF f
  <2> QED
    BY <1>5, <2>1, <2>2, <2>3
<1>9. Waiting' = Waiting /\ \A i : Slot(i)' = Slot(i)
  BY <1>1 DEF Waiting, Slot
<1>10. Queued' = Queued
  BY <1>1 DEF Queued, Waiting
<1>11. QueueSorted' /\ QueueHoldsFrames'
  BY <1>1, <1>9 DEF RxInv, QueueSorted, QueueHoldsFrames
<1>12. FramesInOrder'
  <2>1. ASSUME NEW i \in 1 .. Len(handled')
        PROVE  handled'[i][1] = handled'[i][2]
    <3>1. i \in 1 .. n \/ i = n + 1
      BY <1>5
    <3>2. frame[1] = frame[2]
      BY <1>2 DEF f
    <3> QED
      BY <1>4, <1>5, <3>1, <3>2 DEF RxInv, FramesInOrder
  <2>2. ASSUME NEW i \in 1 .. Len(handled'), NEW j \in 1 .. Len(handled'), i < j
        PROVE  handled'[i][1] < handled'[j][1]
    <3>1. i \in 1 .. n /\ (j \in 1 .. n \/ j = n + 1)
      BY <1>5, <2>2
    <3>2. CASE j \in 1 .. n
      BY <1>4, <1>5, <2>2, <3>1, <3>2 DEF RxInv, FramesInOrder
    <3>3. CASE j = n + 1
      <4>1. handled'[i][1] \in Given
        BY <1>4, <1>5, <3>1 DEF Given
      <4>2. handled'[j][1] = f
        BY <1>5, <3>3 DEF f
      <4>3. Ahead(Given, InHand)
        BY DEF RxInv, StagesInOrder
      <4> QED
        BY <1>7, <4>1, <4>2, <4>3 DEF Ahead
    <3> QED
      BY <3>1, <3>2, <3>3
  <2> QED
    BY <2>1, <2>2 DEF FramesInOrder
<1>13. StagesInOrder'
  BY <1>7, <1>8, <1>10 DEF RxInv, StagesInOrder, Ahead
<1>14. EachOnce'
  <2>1. InStages' = InStages
    BY <1>7, <1>8, <1>10 DEF InStages
  <2> QED
    BY <1>1, <2>1 DEF RxInv, EachOnce
<1>15. RingSorted' /\ CopyTrue'
  BY <1>1 DEF RxInv, RingSorted, CopyTrue
<1> QED
  BY <1>6, <1>11, <1>12, <1>13, <1>14, <1>15 DEF RxInv

\* Where the handler may fall, net_poll's copy and the slot it reads stay as they are.
LEMMA CopySurvives ==
    ASSUME RxInv, Waiting' \in Nat, Waiting' >= Waiting, UNCHANGED <<tail, frame>>,
           Waiting > 0 => s_rxq'[tail] = s_rxq[tail], pollPc' = pollPc
    PROVE  CopyTrue'
<1>1. Waiting \in Nat
  BY QueueBounds, NetAssumption DEF RxInv
<1>2. Waiting > 0 => Waiting' > 0
  BY <1>1
<1> HIDE DEF Waiting
<1> QED
  BY <1>1, <1>2 DEF RxInv, CopyTrue

\* A frame goes from the ring to the queue, or is dropped when that is full.
LEMMA DrainFrameKeeps == ASSUME RxInv, DrainFrame PROVE RxInv'
<1> DEFINE f == Head(hw)
<1>1. /\ RxTypeOK /\ RingSorted /\ hw # <<>> /\ f # Corrupt /\ hw' = Tail(hw) /\ guard < Guard
      /\ guard' = guard + 1
      /\ UNCHANGED <<rok, arrived, tail, irq, pollPc, frame, due, handled>>
  BY DEF DrainFrame, RxInv, poll
<1>2. /\ f \in Frames /\ f \in InRing
      /\ hw' \in Seq(Frames \union {Corrupt}) /\ Len(hw') <= HwCap
      /\ InRing' = InRing \ {f} /\ Ahead({f}, InRing') /\ RingSorted'
  BY <1>1, RingLosesFirst
<1> HIDE DEF f
<1>3. f \in Nat
  BY <1>2, NetAssumption DEF Frames
<1>4. guard' \in 0 .. Guard
  BY <1>1, NetAssumption DEF RxTypeOK
<1>5. Given' = Given /\ InHand' = InHand /\ FramesInOrder'
  BY <1>1 DEF Given, InHand, RxInv, FramesInOrder
<1>6. CASE Full
  <2>1. lost' = lost \union {f} /\ UNCHANGED <<s_rxq, head>>
    BY <1>6 DEF DrainFrame, f
  <2>2. RxTypeOK'
    BY <1>1, <1>2, <1>4, <2>1 DEF RxTypeOK
  <2>3. Waiting' = Waiting /\ \A i : Slot(i)' = Slot(i)
    BY <1>1, <2>1 DEF Waiting, Slot
  <2>4. Queued' = Queued
    BY <1>1, <2>1 DEF Queued, Waiting
  <2>5. QueueSorted' /\ QueueHoldsFrames' /\ CopyTrue'
    BY <1>1, <2>1, <2>3 DEF RxInv, QueueSorted, QueueHoldsFrames, CopyTrue
  <2>6. StagesInOrder'
    BY <1>2, <1>5, <2>4 DEF RxInv, StagesInOrder, Ahead
  <2>7. f \notin Given /\ f \notin InHand /\ f \notin Queued
    <3>1. ~(f < f)
      BY <1>3
    <3> QED
      BY <1>2, <3>1 DEF RxInv, StagesInOrder, Ahead
  <2>8. EachOnce'
    <3>1. InStages' = InStages \ {f} /\ f \in InStages
      BY <1>2, <1>5, <2>4, <2>7 DEF InStages
    <3> QED
      BY <1>1, <2>1, <3>1 DEF RxInv, EachOnce
  <2> QED
    BY <1>2, <1>5, <2>2, <2>5, <2>6, <2>8 DEF RxInv
<1>7. CASE ~Full
  <2>1. s_rxq' = [s_rxq EXCEPT ![head] = f] /\ head' = (head + 1) % QueueN /\ lost' = lost
    BY <1>7 DEF DrainFrame, f
  <2>2. /\ Waiting' = Waiting + 1
        /\ \A i \in 0 .. (Waiting - 1) : s_rxq'[Slot(i)'] = s_rxq[Slot(i)]
        /\ \A i \in 0 .. Waiting : Slot(i)' = Slot(i)
        /\ s_rxq'[Slot(Waiting)] = f
    BY <1>1, <1>7, <2>1, QueueGrows
  <2>3. PICK w \in Nat : w = Waiting
    BY <1>1, QueueBounds, NetAssumption
  <2>4. Slot(0) = tail /\ head \in Indices /\ s_rxq \in [Indices -> Frames \union {0}]
    BY <1>1, QueueBounds DEF RxTypeOK
  <2>5. RxTypeOK'
    <3>1. head' \in Indices
      <4>1. 1 \in 0 .. QueueN
        BY NetAssumption
      <4> QED
        BY <2>1, <2>4, <4>1, SlotIs
    <3>2. s_rxq' \in [Indices -> Frames \union {0}]
      BY <1>2, <2>1, <2>4
    <3> QED
      BY <1>1, <1>2, <1>4, <2>1, <3>1, <3>2 DEF RxTypeOK
  <2>6. /\ \A i \in 0 .. (w - 1) : s_rxq'[Slot(i)'] = s_rxq[Slot(i)]
        /\ s_rxq'[Slot(w)'] = f /\ Waiting' = w + 1
    <3>1. w \in 0 .. w
      OBVIOUS
    <3>2. s_rxq'[Slot(w)'] = s_rxq'[Slot(w)]
      BY <2>2, <2>3, <3>1
    <3> QED
      BY <2>2, <2>3, <3>2
  <2>7. Queued' = Queued \union {f}
    <3>1. Queued' = {s_rxq'[Slot(i)'] : i \in 0 .. w}
      <4>1. Queued' = {s_rxq'[Slot(i)'] : i \in 0 .. (Waiting' - 1)}
        BY DEF Queued, Slot
      <4>2. 0 .. (Waiting' - 1) = 0 .. w
        BY <2>6
      <4> QED
        BY <4>1, <4>2
    <3>2. 0 .. w = (0 .. (w - 1)) \union {w}
      OBVIOUS
    <3>3. Queued = {s_rxq[Slot(i)] : i \in 0 .. (w - 1)}
      BY <2>3, QueuedIs
    <3> HIDE DEF Slot
    <3> QED
      BY <2>6, <3>1, <3>2, <3>3
  <2>8. QueueHoldsFrames' /\ QueueSorted'
    <3>1. ASSUME NEW i \in 0 .. w
          PROVE  i \in 0 .. (w - 1) \/ i = w
      OBVIOUS
    <3>2. 0 .. (Waiting' - 1) = 0 .. w
      BY <2>6
    <3>3. ASSUME NEW i \in 0 .. w
          PROVE  s_rxq'[Slot(i)'] \in Frames
      <4>1. \A k \in 0 .. (w - 1) : s_rxq[Slot(k)] \in Frames
        BY <2>3 DEF RxInv, QueueHoldsFrames
      <4> QED
        BY <1>2, <2>6, <3>1, <4>1
    <3>4. ASSUME NEW i \in 0 .. w, NEW j \in 0 .. w, i < j
          PROVE  s_rxq'[Slot(i)'] < s_rxq'[Slot(j)']
      <4>1. i \in 0 .. (w - 1) /\ i \in 0 .. (Waiting - 1)
        BY <2>3, <3>4
      <4>2. CASE j \in 0 .. (w - 1)
        <5>1. s_rxq[Slot(i)] < s_rxq[Slot(j)]
          BY <2>3, <3>4, <4>1, <4>2 DEF RxInv, QueueSorted
        <5> QED
          BY <2>6, <4>1, <4>2, <5>1
      <4>3. CASE j = w
        <5>1. s_rxq[Slot(i)] \in Queued
          BY <4>1, QueuedIs
        <5>2. s_rxq[Slot(i)] < f
          BY <1>2, <5>1 DEF RxInv, StagesInOrder, Ahead
        <5> QED
          BY <2>6, <4>1, <4>3, <5>2
      <4> QED
        BY <3>1, <4>2, <4>3
    <3> QED
      BY <3>2, <3>3, <3>4 DEF QueueHoldsFrames, QueueSorted
  <2>9. StagesInOrder'
    BY <1>2, <1>5, <2>7 DEF RxInv, StagesInOrder, Ahead
  <2>10. EachOnce'
    <3>1. InStages' = InStages
      BY <1>2, <1>5, <2>7 DEF InStages
    <3> QED
      BY <1>1, <2>1, <3>1 DEF RxInv, EachOnce
  <2>11. CopyTrue'
    <3>1. Waiting > 0 => s_rxq'[tail] = s_rxq[tail]
      <4>1. ASSUME Waiting > 0
            PROVE  s_rxq'[Slot(0)] = s_rxq[Slot(0)]
        <5>1. 0 \in 0 .. (Waiting - 1) /\ 0 \in 0 .. Waiting
          BY <2>3, <4>1
        <5> QED
          BY <2>2, <5>1
      <4> QED
        BY <2>4, <4>1
    <3>2. Waiting' \in Nat /\ Waiting' >= Waiting
      BY <2>3, <2>6
    <3> QED
      BY <1>1, <3>1, <3>2, CopySurvives
  <2> QED
    BY <1>2, <1>5, <2>5, <2>8, <2>9, <2>10, <2>11 DEF RxInv
<1> QED
  BY <1>6, <1>7


\* A reset of the receiver drops what is in its ring, and nothing else.
LEMMA DrainResetKeeps == ASSUME RxInv, DrainReset PROVE RxInv'
<1>1. /\ RxTypeOK /\ hw' = <<>> /\ lost' = lost \union InRing /\ guard' = 0
      /\ irq' = (IF irq = "drain" THEN "ack" ELSE irq)
      /\ pollPc' = (IF irq = "drain" THEN pollPc ELSE "pop")
      /\ irq = "drain" \/ pollPc = "drain"
      /\ UNCHANGED <<rok, arrived, s_rxq, head, tail, frame, due, handled>>
  BY DEF DrainReset, DrainDone, Draining, RxInv, queue
<1>2. InRing \subseteq Frames /\ Len(hw') = 0 /\ hw' \in Seq(Frames \union {Corrupt})
  BY <1>1, StagesAreFrames, EmptySeq
<1>3. RxTypeOK'
  BY <1>1, <1>2, NetAssumption DEF RxTypeOK
<1>4. InRing' = {} /\ RingSorted'
  BY <1>2 DEF InRing, RingSorted
<1>5. Given' = Given /\ InHand' = InHand /\ FramesInOrder'
  BY <1>1 DEF Given, InHand, RxInv, FramesInOrder
<1>6. Waiting' = Waiting /\ \A i : Slot(i)' = Slot(i)
  BY <1>1 DEF Waiting, Slot
<1>7. Queued' = Queued
  BY <1>1 DEF Queued, Waiting
<1>8. QueueSorted' /\ QueueHoldsFrames' /\ CopyTrue'
  BY <1>1, <1>6 DEF RxInv, QueueSorted, QueueHoldsFrames, CopyTrue
<1>9. StagesInOrder'
  BY <1>4, <1>5, <1>7 DEF RxInv, StagesInOrder, Ahead
<1>10. EachOnce'
  <2>1. ASSUME NEW b \in InRing
        PROVE  b \notin Given /\ b \notin InHand /\ b \notin Queued
    <3>1. b \in Nat
      BY StagesAreFrames, NetAssumption DEF Frames
    <3>2. ~(b < b)
      BY <3>1
    <3> QED
      BY <3>2 DEF RxInv, StagesInOrder, Ahead
  <2>2. InStages' = InStages \ InRing /\ InRing \subseteq InStages
    BY <1>4, <1>5, <1>7, <2>1 DEF InStages
  <2> QED
    BY <1>1, <2>2 DEF RxInv, EachOnce
<1> QED
  BY <1>3, <1>4, <1>5, <1>8, <1>9, <1>10 DEF RxInv

\* A new frame is behind all others, or dropped by the NIC.
LEMMA ArrivalKeeps == ASSUME RxInv, Arrive \/ ArriveCorrupt PROVE RxInv'
<1> DEFINE new == arrived + 1
<1>1. /\ RxTypeOK /\ RingSorted /\ arrived < MaxFrames /\ arrived' = new
      /\ UNCHANGED <<s_rxq, head, tail, irq, guard, pollPc, frame, due, handled>>
  BY DEF Arrive, ArriveCorrupt, RxInv, queue, poll
<1>2. arrived \in Nat /\ new \in Frames /\ new # Corrupt /\ arrived' \in 0 .. MaxFrames
      /\ 1 .. arrived' = (1 .. arrived) \union {new}
  BY <1>1, StagesAreFrames, NetAssumption DEF Frames, Corrupt
<1>3. InRing \subseteq 1 .. arrived
  BY StagesAreFrames DEF InStages
<1>4. Given' = Given /\ InHand' = InHand /\ FramesInOrder'
  BY <1>1 DEF Given, InHand, RxInv, FramesInOrder
<1>5. Waiting' = Waiting /\ \A i : Slot(i)' = Slot(i)
  BY <1>1 DEF Waiting, Slot
<1>6. Queued' = Queued
  BY <1>1 DEF Queued, Waiting
<1>7. QueueSorted' /\ QueueHoldsFrames' /\ CopyTrue'
  BY <1>1, <1>5 DEF RxInv, QueueSorted, QueueHoldsFrames, CopyTrue
<1>8. \A a \in InStages \union lost : a < new /\ a # new
  BY <1>2, StagesAreFrames
<1> HIDE DEF new
<1>9. /\ hw' \in Seq(Frames \union {Corrupt}) /\ Len(hw') <= HwCap /\ RingSorted' /\ rok' \in BOOLEAN
      /\ \/ InRing' = InRing \union {new} /\ lost' = lost
         \/ InRing' = InRing /\ lost' = lost \union {new}
  <2>1. CASE Arrive /\ Len(hw) < HwCap
    <3>1. hw' = Append(hw, new) /\ rok' = TRUE /\ lost' = lost
      BY <2>1 DEF Arrive, new
    <3>2. /\ hw' \in Seq(Frames \union {Corrupt}) /\ Len(hw') <= HwCap
          /\ InRing' = InRing \union ({new} \ {Corrupt}) /\ RingSorted'
      BY <1>1, <1>3, <2>1, <3>1, RingGetsLast DEF new
    <3> QED
      BY <1>2, <3>1, <3>2
  <2>2. CASE Arrive /\ ~(Len(hw) < HwCap)
    <3>1. UNCHANGED <<hw, rok>> /\ lost' = lost \union {new}
      BY <2>2 DEF Arrive, new
    <3> QED
      BY <1>1, <3>1 DEF RxTypeOK, InRing, RingSorted
  <2>3. CASE ArriveCorrupt
    <3>1. hw' = Append(hw, Corrupt) /\ rok' = TRUE /\ lost' = lost \union {new} /\ Len(hw) < HwCap
      BY <2>3 DEF ArriveCorrupt, new
    <3>2. /\ hw' \in Seq(Frames \union {Corrupt}) /\ Len(hw') <= HwCap
          /\ InRing' = InRing \union ({Corrupt} \ {Corrupt}) /\ RingSorted'
      BY <1>1, <1>3, <3>1, RingGetsLast
    <3> QED
      BY <3>1, <3>2
  <2> QED
    BY <2>1, <2>2, <2>3
<1>10. RxTypeOK'
  BY <1>1, <1>2, <1>9 DEF RxTypeOK
<1>11. StagesInOrder'
  BY <1>4, <1>6, <1>8, <1>9 DEF RxInv, StagesInOrder, Ahead, InStages
<1>12. EachOnce'
  <2>1. CASE InRing' = InRing \union {new} /\ lost' = lost
    <3>1. InStages' = InStages \union {new}
      BY <1>4, <1>6, <2>1 DEF InStages
    <3> QED
      BY <1>1, <1>2, <1>8, <2>1, <3>1 DEF RxInv, EachOnce
  <2>2. CASE InRing' = InRing /\ lost' = lost \union {new}
    <3>1. InStages' = InStages
      BY <1>4, <1>6, <2>2 DEF InStages
    <3> QED
      BY <1>1, <1>2, <1>8, <2>2, <3>1 DEF RxInv, EachOnce
  <2> QED
    BY <1>9, <2>1, <2>2
<1> QED
  BY <1>4, <1>7, <1>9, <1>10, <1>11, <1>12 DEF RxInv

\* Steps of the handler and of net_poll between two frames.
LEMMA IdleStepKeeps ==
    ASSUME RxInv, RxTick \/ DrainEnd \/ Interrupt \/ Ack \/ NetPoll \/ QueueEmpty
    PROVE  RxInv'
<1>1. /\ UNCHANGED <<hw, arrived, s_rxq, head, tail, frame, handled, lost>>
      /\ pollPc' = pollPc \/ (pollPc # "handle" /\ pollPc' \in {"idle", "drain", "pop"})
  BY DEF RxTick, DrainEnd, Draining, DrainDone, Interrupt, Ack, NetPoll, Runs, QueueEmpty,
         nic, queue, poll
<1>2. RxTypeOK'
  <2>1. RxTypeOK
    BY DEF RxInv
  <2>2. CASE DrainEnd
    <3>1. guard' \in 0 .. Guard
      BY <2>2, NetAssumption DEF DrainEnd, DrainDone
    <3> QED
      BY <1>1, <2>1, <2>2, <3>1 DEF RxTypeOK, DrainEnd, Draining, DrainDone, nic, queue
  <2>3. CASE RxTick \/ Interrupt \/ Ack
    BY <2>1, <2>3 DEF RxTypeOK, RxTick, Interrupt, Ack, nic, queue, poll
  <2>4. CASE NetPoll \/ QueueEmpty
    BY <2>1, <2>4 DEF RxTypeOK, NetPoll, QueueEmpty, nic, queue
  <2> QED
    BY <2>2, <2>3, <2>4
<1>3. InHand' = InHand
  BY <1>1 DEF InHand
<1>4. CopyTrue'
  <2>1. Waiting' = Waiting
    BY <1>1 DEF Waiting
  <2> HIDE DEF Waiting
  <2> QED
    BY <1>1, <2>1 DEF RxInv, CopyTrue
<1> QED
  BY <1>1, <1>2, <1>3, <1>4, NothingMoves

\* Every step of the NIC, the handler and net_poll.
LEMMA RxStep == RxInv /\ [RxNext]_rxVars => RxInv'
<1> SUFFICES ASSUME RxInv, [RxNext]_rxVars
             PROVE  RxInv'
  OBVIOUS
<1>1. CASE UNCHANGED rxVars
  <2>1. UNCHANGED <<hw, rok, arrived, s_rxq, head, tail, irq, guard, pollPc, frame, due, handled, lost>>
    BY <1>1 DEF rxVars, nic, queue, poll
  <2>2. RxTypeOK' /\ InHand' = InHand
    BY <2>1 DEF RxInv, RxTypeOK, InHand
  <2>3. CopyTrue'
    BY <2>1 DEF RxInv, CopyTrue, Waiting
  <2> QED
    BY <2>1, <2>2, <2>3, NothingMoves
<1>2. CASE Arrive \/ ArriveCorrupt
  BY <1>2, ArrivalKeeps
<1>3. CASE RxTick \/ Interrupt \/ Ack \/ NetPoll \/ QueueEmpty \/ DrainEnd
  BY <1>3, IdleStepKeeps
<1>4. CASE DrainFrame
  BY <1>4, DrainFrameKeeps
<1>5. CASE DrainReset
  BY <1>5, DrainResetKeeps
<1>6. CASE CopyFirst
  BY <1>6, CopyFirstKeeps
<1>7. CASE CopySecond
  BY <1>7, CopySecondKeeps
<1>8. CASE ReleaseFrame
  BY <1>8, ReleaseKeeps
<1>9. CASE EthHandle
  BY <1>9, EthHandleKeeps
<1> QED
  BY <1>1, <1>2, <1>3, <1>4, <1>5, <1>6, <1>7, <1>8, <1>9 DEF RxNext, IsrStep, MainStep

\* Nothing has arrived.
LEMMA RxStart == RxInit => RxInv
<1> SUFFICES ASSUME RxInit
             PROVE  RxInv
  OBVIOUS
<1>1. hw = <<>> /\ handled = <<>> /\ Len(hw) = 0 /\ Len(handled) = 0 /\ arrived = 0 /\ lost = {}
  BY DEF RxInit
<1>2. 0 \in Indices /\ head = 0 /\ tail = 0
  BY NetAssumption DEF RxInit, Indices
<1>3. RxTypeOK
  BY <1>1, <1>2, NetAssumption, EmptySeq DEF RxInit, RxTypeOK
<1>4. Waiting = 0
  BY <1>2, WaitingIs DEF Waiting
<1> HIDE DEF Waiting
<1>5. InRing = {} /\ Given = {} /\ InHand = {} /\ Queued = {}
  BY <1>1, <1>4, QueuedIs DEF InRing, Given, InHand, RxInit
<1>6. RingSorted /\ FramesInOrder
  BY <1>1 DEF RingSorted, FramesInOrder
<1>7. QueueSorted /\ QueueHoldsFrames /\ CopyTrue
  BY <1>4 DEF QueueSorted, QueueHoldsFrames, CopyTrue, RxInit
<1>8. StagesInOrder /\ EachOnce
  BY <1>1, <1>5 DEF StagesInOrder, EachOnce, Ahead, InStages
<1> QED
  BY <1>3, <1>6, <1>7, <1>8 DEF RxInv

\* Whole frames, each once and in the order they arrived, reach the stack while the handler fills
\* the queue under net_poll's reading, and a frame is dropped only where the code counts it as
\* dropped: no lock is needed between the one producer and the one consumer of s_rxq.
THEOREM FramesStayKept == RxSpec => []FramesKept
<1>1. RxInv => FramesKept
  BY DEF RxInv, FramesKept, NothingVanishes, EachOnce, Accounted, InStages
<1> QED
  BY <1>1, RxStart, RxStep, PTL DEF RxSpec

-----------------------------------------------------------------------------
(* Requests and their answers: the inductive invariant *)

Booting == svc \in {"offer", "ack"}

LeaseKnown ==
    /\ svc = "offer" => lease = NoLease
    /\ svc = "ack" => lease \in Offers
    /\ udpGot.kind = "offer" => udpGot.lease \in Offers

NothingYet ==
    /\ after \in {"idle", "dns0", "ping0"}
    /\ Booting => cfg = Static /\ granted = NoLease
    /\ Booting \/ (svc = "arp" /\ after = "idle") => returned = None

EchoIsLast == icmpGot \in {0, pings}

ServicesInv == LeaseKnown /\ NothingYet /\ EchoIsLast /\ ConfigWhole /\ AnswersMatch

\* A lease is taken over field by field, and what the server left out stays.
LEMMA WholeLease ==
    ASSUME NEW o \in Offers
    PROVE  [ip |-> o.ip, gw |-> Taken(o.gw, NoLease.gw), dns |-> Taken(o.dns, NoLease.dns)] = o
  BY ServicesAssumption DEF NoLease, Taken

\* Every frame that is handled and every step of a call.
LEMMA ServicesStep == ServicesInv /\ [ServicesNext]_serviceVars => ServicesInv'
<1> SUFFICES ASSUME ServicesInv, [ServicesNext]_serviceVars
             PROVE  ServicesInv'
  OBVIOUS
<1> USE DEF ServicesInv, LeaseKnown, NothingYet, EchoIsLast, ConfigWhole, AnswersMatch, Booting
<1>1. CASE Deliver
  <2>1. UNCHANGED <<svc, tries, after, udpPort, dhcp, calls>>
    BY <1>1 DEF Deliver
  <2>2. ASSUME NEW a, HandleArp(a)
        PROVE  ServicesInv'
    BY <2>1, <2>2 DEF HandleArp, dhcp, calls
  <2>3. ASSUME NEW d \in Datagrams, HandleUdp(d)
        PROVE  ServicesInv'
    <3>1. d.kind = "offer" => d.lease \in Offers
      BY <2>3 DEF Datagrams
    <3> QED
      BY <2>1, <2>3, <3>1 DEF HandleUdp, dhcp, calls, config
  <2>4. ASSUME NEW seq, HandleEcho(seq)
        PROVE  ServicesInv'
    BY <2>1, <2>4 DEF HandleEcho, IsOurReply, dhcp, calls, config
  <2> QED
    BY <1>1, <2>2, <2>3, <2>4 DEF Deliver
<1>2. CASE Discover
  <2>1. svc = "offer" /\ cfg = Static /\ granted = NoLease /\ returned = None /\ lease = NoLease
    BY <1>2 DEF Discover
  <2>2. CASE ~WaitedLong /\ Is("offer")
    <3>1. lease' = udpGot.lease /\ udpGot.lease \in Offers
      BY <1>2, <2>1, <2>2, WholeLease DEF Discover, Is
    <3> QED
      BY <1>2, <2>1, <2>2, <3>1 DEF Discover, Goes, calls, config, None
  <2>3. CASE ~(~WaitedLong /\ Is("offer"))
    BY <1>2, <2>1, <2>3 DEF Discover, NextTry, Again, StaticKept, Configured, Goes, calls, config, None
  <2> QED
    BY <2>2, <2>3
<1>3. CASE Request
  <2>1. svc = "ack" /\ cfg = Static /\ granted = NoLease /\ returned = None /\ lease \in Offers
    BY <1>3 DEF Request
  <2>2. CASE ~WaitedLong /\ Is("ack")
    BY <1>3, <2>1, <2>2 DEF Request, Configured, MacAfterLease, Goes, calls, config, None
  <2>3. CASE ~(~WaitedLong /\ Is("ack"))
    BY <1>3, <2>1, <2>3 DEF Request, NextTry, Again, StaticKept, Configured, Goes, calls, config, None
  <2> QED
    BY <2>2, <2>3
<1>4. CASE Resolved \/ AskAgain
  BY <1>4 DEF Resolved, AskAgain, Goes, config, dhcp, calls
<1>5. CASE NoGateway
  BY <1>5 DEF NoGateway, Goes, Returns, config, dhcp, calls
<1>6. CASE SendQuery
  BY <1>6 DEF SendQuery, Goes, config, dhcp, calls, None
<1>7. CASE DnsAnswer
  BY <1>7 DEF DnsAnswer, IsOurAnswer, Again, Goes, Returns, config, dhcp, None
<1>8. CASE SendEcho
  BY <1>8 DEF SendEcho, Goes, config, dhcp
<1>9. CASE Pinged
  BY <1>9 DEF Pinged, Goes, Returns, config, dhcp
<1>10. CASE Resolve \/ Ping
  BY <1>10 DEF Resolve, Ping, Asks, Goes, config, dhcp, calls
<1>11. CASE UNCHANGED serviceVars
  BY <1>11 DEF serviceVars, config, dhcp, calls
<1> QED
  BY <1>1, <1>2, <1>3, <1>4, <1>5, <1>6, <1>7, <1>8, <1>9, <1>10, <1>11 DEF ServicesNext, CallSteps

\* The invariant of the calls.
LEMMA ServicesKept == ServicesSpec => []ServicesInv
<1>1. ServicesInit => ServicesInv
  BY DEF ServicesInit, ServicesInv, LeaseKnown, NothingYet, EchoIsLast, ConfigWhole, AnswersMatch,
         Booting, None
<1> QED
  BY <1>1, ServicesStep, PTL DEF ServicesSpec

\* The machine's address, gateway and name server are the compiled-in ones or those of one lease
\* a server offered and acknowledged, whatever DHCP packets arrive (dhcp_configure), and the
\* gateway's MAC is that of the gateway in force (arp_handle).
THEOREM ConfigStaysWhole == ServicesSpec => []ConfigWhole
<1>1. ServicesInv => ConfigWhole
  BY DEF ServicesInv
<1> QED
  BY <1>1, ServicesKept, PTL

\* net_dns_resolve and net_ping return the answer to their own request or a failure, however many
\* late or repeated answers to earlier requests the network brings.
THEOREM AnswersStayMatched == ServicesSpec => []AnswersMatch
<1>1. ServicesInv => AnswersMatch
  BY DEF ServicesInv
<1> QED
  BY <1>1, ServicesKept, PTL

-----------------------------------------------------------------------------
(* Certificate chains *)

\* A set of indices has a least element, and First names it.
LEMMA FirstIs ==
    ASSUME NEW S \in SUBSET Nat, S # {}
    PROVE  /\ First(S) \in S
           /\ \A j \in S : First(S) <= j
<1>1. PICK m \in S : \A y \in S : ~(<<y, m>> \in OpToRel(<, Nat))
  BY WFMin, NatLessThanWellFounded, Zenon
<1>2. ASSUME NEW y \in S
      PROVE  m <= y
  <2>1. y \in Nat /\ m \in Nat
    OBVIOUS
  <2>2. ~(y < m)
    <3>1. ASSUME y < m
          PROVE  <<y, m>> \in OpToRel(<, Nat)
      BY <2>1, <3>1 DEF OpToRel
    <3> QED BY <1>1, <3>1
  <2> QED BY <2>1, <2>2
<1>3. \E i \in S : \A j \in S : i <= j
  BY <1>2
<1> QED
  BY <1>3 DEF First

\* A certificate that is neither too early nor too late is current.
LEMMA TimeRight ==
    ASSUME NEW c, IsCertificate(c), NEW t \in Nat
    PROVE  Current(c, t) <=> ~NotYet(c, t) /\ ~Expired(c, t)
  BY DEF IsCertificate, Current, NotYet, Expired

\* Equal tails are equal names but for the first label.
LEMMA TailsEqual ==
    ASSUME NEW a \in Seq(Labels), NEW b \in Seq(Labels), Len(a) > 1, Len(b) > 1
    PROVE  Tail(a) = Tail(b) <=>
             Len(a) = Len(b) /\ \A i \in 2 .. Len(a) : a[i] = b[i]
<1>1. /\ Tail(a) \in Seq(Labels) /\ Len(Tail(a)) = Len(a) - 1
      /\ \A i \in 1 .. Len(a) - 1 : Tail(a)[i] = a[i + 1]
  BY HeadTailProperties, EmptySeq
<1>2. /\ Tail(b) \in Seq(Labels) /\ Len(Tail(b)) = Len(b) - 1
      /\ \A i \in 1 .. Len(b) - 1 : Tail(b)[i] = b[i + 1]
  BY HeadTailProperties, EmptySeq
<1>3. Len(a) \in Nat /\ Len(b) \in Nat
  OBVIOUS
<1>4. ASSUME Tail(a) = Tail(b)
      PROVE  Len(a) = Len(b) /\ \A i \in 2 .. Len(a) : a[i] = b[i]
  <2>1. Len(a) = Len(b)
    <3>1. PICK m \in Nat, n \in Nat : m = Len(a) /\ n = Len(b)
      BY <1>3
    <3>2. Len(Tail(a)) = Len(Tail(b))
      BY <1>4
    <3>3. m - 1 = n - 1
      BY <1>1, <1>2, <3>1, <3>2
    <3> QED
      BY <3>1, <3>3
  <2>2. ASSUME NEW i \in 2 .. Len(a)
        PROVE  a[i] = b[i]
    <3>1. i - 1 \in 1 .. Len(a) - 1 /\ (i - 1) + 1 = i
      BY <1>3
    <3> QED
      BY <1>1, <1>2, <1>4, <2>1, <3>1
  <2> QED
    BY <2>1, <2>2
<1>5. ASSUME Len(a) = Len(b), \A i \in 2 .. Len(a) : a[i] = b[i]
      PROVE  Tail(a) = Tail(b)
  <2>1. Len(Tail(a)) = Len(Tail(b))
    BY <1>1, <1>2, <1>5
  <2>2. ASSUME NEW i \in 1 .. Len(Tail(a))
        PROVE  Tail(a)[i] = Tail(b)[i]
    <3>1. i \in 1 .. Len(a) - 1 /\ i + 1 \in 2 .. Len(a)
      BY <1>1, <1>3
    <3> QED
      BY <1>1, <1>2, <1>5, <3>1
  <2> QED
    BY <1>1, <1>2, <2>1, <2>2, SeqEqual
<1> QED
  BY <1>4, <1>5

\* The pattern matching of dns_match covers the names it should.
LEMMA NamesRight ==
    ASSUME NEW pattern \in Seq(Labels), NEW host \in Seq(Labels), host # <<>>
    PROVE  DnsMatch(pattern, host) <=> pattern # <<>> /\ Covers(pattern, host)
<1>1. Len(pattern) \in Nat /\ Len(host) \in Nat
  OBVIOUS
<1>2. CASE Len(pattern) > 1 /\ pattern[1] = "*"
  <2>1. pattern # <<>>
    BY <1>2, EmptySeq
  <2>2. CASE Len(host) > 1
    <3>1. Tail(host) = Tail(pattern) <=>
            Len(host) = Len(pattern) /\ \A i \in 2 .. Len(host) : host[i] = pattern[i]
      BY <1>2, <2>2, TailsEqual
    <3>2. DnsMatch(pattern, host) <=> Tail(host) = Tail(pattern)
      BY <1>2, <2>2 DEF DnsMatch
    <3>3. Covers(pattern, host) <=>
            Len(host) = Len(pattern) /\ \A i \in 2 .. Len(host) : host[i] = pattern[i]
      BY <1>1, <1>2, <2>2 DEF Covers
    <3> QED
      BY <2>1, <3>1, <3>2, <3>3
  <2>3. CASE ~(Len(host) > 1)
    BY <1>1, <1>2, <2>3 DEF DnsMatch, Covers
  <2> QED
    BY <2>2, <2>3
<1>3. CASE ~(Len(pattern) > 1 /\ pattern[1] = "*")
  BY <1>1, <1>3 DEF DnsMatch, Covers
<1> QED
  BY <1>2, <1>3

\* hostname_ok: one of the names the certificate goes by covers the host.
LEMMA HostRight ==
    ASSUME NEW leaf, IsCertificate(leaf), NEW host \in Seq(Labels), host # <<>>
    PROVE  HostnameOk(leaf, host) <=>
             \E name \in IF leaf.names = {} THEN {leaf.cn} ELSE leaf.names :
               name # <<>> /\ Covers(name, host)
<1>1. CASE leaf.names = {}
  <2>1. leaf.cn \in Seq(Labels)
    BY DEF IsCertificate
  <2>2. DnsMatch(leaf.cn, host) <=> leaf.cn # <<>> /\ Covers(leaf.cn, host)
    BY <2>1, NamesRight
  <2> QED
    BY <1>1, <2>2 DEF HostnameOk
<1>2. CASE leaf.names # {}
  <2>1. \A name \in leaf.names :
          DnsMatch(name, host) <=> name # <<>> /\ Covers(name, host)
    BY NamesRight DEF IsCertificate
  <2> QED
    BY <1>2, <2>1 DEF HostnameOk
<1> QED
  BY <1>1, <1>2

\* What PathValid asks of certificate n as the last of the path, and of the
\* step from certificate i - 1 up to certificate i.
Anchored(certs, n, t) ==
    \E r \in CertRoots : /\ r.parses /\ r.ca /\ Current(r, t)
                         /\ r.subject = certs[n].issuer
                         /\ r.key = certs[n].signedBy
Linked(certs, i) == /\ certs[i].subject = certs[i - 1].issuer
                    /\ certs[i].key = certs[i - 1].signedBy
                    /\ Authority(certs[i], i - 2)

\* verify_by_root finds a root exactly when there is one.
LEMMA RootRight ==
    ASSUME NEW certs, NEW n, NEW t \in Nat
    PROVE  VerifyByRoot(certs[n], t) <=> Anchored(certs, n, t)
<1>1. \A r \in CertRoots : Current(r, t) <=> ~NotYet(r, t) /\ ~Expired(r, t)
  BY CertAssumption, TimeRight
<1> QED
  BY <1>1 DEF VerifyByRoot, VerifySig, Anchored

\* The walk goes on exactly over a link.
LEMMA LinkRight ==
    ASSUME NEW certs, Len(certs) \in Nat, NEW i \in 1 .. Len(certs), NEW t \in Nat,
           \A j \in 1 .. Len(certs) : IsCertificate(certs[j]),
           ~VerifyByRoot(certs[i], t)
    PROVE  /\ Found(certs, i, t) # "ok"
           /\ Found(certs, i, t) = "up" <=> i < Len(certs) /\ Linked(certs, i + 1)
<1>1. CASE i = Len(certs)
  BY <1>1 DEF Found
<1>2. CASE i < Len(certs)
  <2>1. i + 1 \in 1 .. Len(certs) /\ (i + 1) - 1 = i /\ (i + 1) - 2 = i - 1
    BY <1>2
  <2>2. IsCertificate(certs[i + 1])
    BY <2>1
  <2>3. PICK issuer : issuer = certs[i + 1]
    OBVIOUS
  <2>4. Authority(issuer, i - 1) <=> CanSign(issuer) /\ ~PathTooLong(issuer, i)
    BY <2>2, <2>3 DEF Authority, CanSign, PathTooLong, IsCertificate
  <2>5. Linked(certs, i + 1) <=> /\ issuer.subject = certs[i].issuer
                                 /\ issuer.key = certs[i].signedBy
                                 /\ Authority(issuer, i - 1)
    BY <2>1, <2>3 DEF Linked
  <2> QED
    BY <1>2, <2>3, <2>4, <2>5 DEF Found, VerifySig
<1> QED
  BY <1>1, <1>2

\* The walk ends well exactly when some certificate is anchored and every one
\* below it is linked to the next.
LEMMA WalkRight ==
    ASSUME NEW certs, Len(certs) \in Nat, Len(certs) # 0, NEW t \in Nat,
           \A j \in 1 .. Len(certs) : IsCertificate(certs[j])
    PROVE  Walk(certs, t) = "ok" <=>
             \E n \in 1 .. Len(certs) : /\ Anchored(certs, n, t)
                                        /\ \A i \in 2 .. n : Linked(certs, i)
<1> DEFINE ends == {i \in 1 .. Len(certs) : Found(certs, i, t) # "up"}
<1>1. Len(certs) \in 1 .. Len(certs) /\ Found(certs, Len(certs), t) # "up"
  BY DEF Found
<1>2. PICK last \in ends : last = First(ends) /\ \A j \in ends : last <= j
  <2>1. ends \in SUBSET Nat /\ ends # {}
    BY <1>1
  <2> HIDE DEF ends
  <2> QED
    BY <2>1, FirstIs
<1>3. Walk(certs, t) = Found(certs, last, t)
  BY <1>2 DEF Walk
<1>4. last \in 1 .. Len(certs) /\ Found(certs, last, t) # "up"
  BY <1>2
<1>5. \A j \in 1 .. Len(certs) : j < last => Found(certs, j, t) = "up"
  BY <1>2, <1>4
<1> HIDE DEF ends
<1>6. ASSUME Found(certs, last, t) = "ok"
      PROVE  \E n \in 1 .. Len(certs) : /\ Anchored(certs, n, t)
                                        /\ \A i \in 2 .. n : Linked(certs, i)
  <2>1. Anchored(certs, last, t)
    BY <1>4, <1>6, LinkRight, RootRight
  <2>2. ASSUME NEW i \in 2 .. last
        PROVE  Linked(certs, i)
    <3>1. PICK j \in 1 .. Len(certs) : j = i - 1 /\ j < last /\ j + 1 = i
      BY <1>4
    <3>2. Found(certs, j, t) = "up"
      BY <1>5, <3>1
    <3>3. ~VerifyByRoot(certs[j], t)
      BY <3>2 DEF Found
    <3> QED
      BY <3>1, <3>2, <3>3, LinkRight
  <2> QED
    BY <1>4, <2>1, <2>2
<1>7. ASSUME NEW n \in 1 .. Len(certs), Anchored(certs, n, t),
             \A i \in 2 .. n : Linked(certs, i)
      PROVE  Found(certs, last, t) = "ok"
  <2>1. Found(certs, n, t) = "ok"
    BY <1>7, RootRight DEF Found
  <2>2. last <= n
    BY <1>4, <1>5, <2>1
  <2>3. CASE VerifyByRoot(certs[last], t)
    BY <2>3 DEF Found
  <2>4. CASE ~VerifyByRoot(certs[last], t)
    <3>1. last # n
      BY <1>7, <2>4, RootRight
    <3>2. last < n /\ last + 1 \in 2 .. n /\ last < Len(certs)
      BY <1>4, <2>2, <3>1
    <3>3. Linked(certs, last + 1)
      BY <1>7, <3>2
    <3> QED
      BY <1>4, <2>4, <3>2, <3>3, LinkRight
  <2> QED
    BY <2>3, <2>4
<1> QED
  BY <1>3, <1>6, <1>7

\* For every store, chain, host and time: verify_impl accepts a chain exactly if
\* it is a valid path from the host's certificate to a root (certverify.c).
THEOREM VerifyRight ==
    ASSUME NEW certs, Len(certs) \in Nat, NEW host \in Seq(Labels), host # <<>>,
           NEW t \in Nat, \A j \in 1 .. Len(certs) : IsCertificate(certs[j])
    PROVE  Verify(certs, host, t) = "ok" <=> PathValid(certs, host, t)
<1>1. CASE Len(certs) = 0 \/ Len(certs) > MaxChain
  BY <1>1, CertAssumption DEF Verify, PathValid
<1>2. CASE Len(certs) \in 1 .. MaxChain
  <2>1. 1 \in 1 .. Len(certs) /\ IsCertificate(certs[1])
    BY <1>2, CertAssumption
  <2>2. Untimely(certs, t) = {} <=> \A i \in 1 .. Len(certs) : Current(certs[i], t)
    BY TimeRight DEF Untimely
  <2>3. certs[1].eku \in {"none", "good"} <=> certs[1].eku # "other"
    BY <2>1 DEF IsCertificate
  <2>4. HostnameOk(certs[1], host) <=>
          \E name \in IF certs[1].names = {} THEN {certs[1].cn} ELSE certs[1].names :
            name # <<>> /\ Covers(name, host)
    BY <2>1, HostRight
  <2>5. Verify(certs, host, t) = "ok" <=>
          /\ \A i \in 1 .. Len(certs) : certs[i].parses
          /\ certs[1].eku # "other" /\ HostnameOk(certs[1], host)
          /\ Untimely(certs, t) = {} /\ Walk(certs, t) = "ok"
    <3>1. Len(certs) # 0 /\ ~(Len(certs) > MaxChain)
      BY <1>2, CertAssumption
    <3> QED
      BY <3>1, Zenon DEF Verify
  <2>6. Walk(certs, t) = "ok" <=>
          \E n \in 1 .. Len(certs) : /\ Anchored(certs, n, t)
                                     /\ \A i \in 2 .. n : Linked(certs, i)
    BY <1>2, WalkRight, CertAssumption
  <2>7. PathValid(certs, host, t) <=>
          /\ \A i \in 1 .. Len(certs) : certs[i].parses /\ Current(certs[i], t)
          /\ certs[1].eku \in {"none", "good"}
          /\ \E name \in IF certs[1].names = {} THEN {certs[1].cn} ELSE certs[1].names :
               name # <<>> /\ Covers(name, host)
          /\ \E n \in 1 .. Len(certs) : /\ Anchored(certs, n, t)
                                        /\ \A i \in 2 .. n : Linked(certs, i)
    BY <1>2, Zenon DEF PathValid, Anchored, Linked
  <2> QED
    BY <2>2, <2>3, <2>4, <2>5, <2>6, <2>7
<1> QED
  BY <1>1, <1>2, CertAssumption

-----------------------------------------------------------------------------
(* The invariant of a fetch *)

FetchTyped ==
    /\ url \in Urls \union Targets
    /\ Len(chain) \in Nat /\ \A i \in 1 .. Len(chain) : IsCertificate(chain[i])
    /\ now \in Nat

\* A name that resolves is not empty; the verdict is about what the call holds.
Judged ==
    /\ stage \notin {"idle", "name"} => url.host # <<>>
    /\ verdict # "none" => /\ stage \notin {"idle", "name"}
                           /\ verdict = Verify(chain, url.host, now)
    /\ stage \in {"name", "connect", "hello", "flight"} => verdict = "none"

\* The stages of a connection whose handshake is over, if it is over https.
Protected == stage \in {"get", "buffer", "read", "parse"} /\ url.scheme = "https"

\* What the handshake has established when it has come this far.
Established ==
    /\ stage \in {"keys", "finish"} \/ Protected => verdict = "ok" /\ SkeSigned
    /\ Protected => finished /\ serverEnc

\* Who has a socket, a raw buffer or a body.
Held ==
    /\ sock => stage \notin {"idle", "name", "connect", "parse"}
    /\ raw => stage \in {"read", "parse"}
    /\ body => stage = "idle" /\ outcome = "page"

FetchInv == FetchTyped /\ Judged /\ Established /\ Held

\* The invariant holds before the first fetch.
LEMMA FetchStart == FetchInit => FetchInv
<1> SUFFICES ASSUME FetchInit
             PROVE  FetchInv
  OBVIOUS
<1>1. FetchTyped
  BY EmptySeq DEF FetchInit, FetchTyped
<1>2. Judged /\ Established /\ Held
  BY DEF FetchInit, Judged, Established, Held, Protected
<1> QED
  BY <1>1, <1>2 DEF FetchInv

\* A call that returns forgets the handshake and gives back what it held.
LEMMA ReturnKeeps ==
    ASSUME FetchInv, NEW code, Return(code), stage # "idle"
    PROVE  FetchInv'
<1>1. FetchTyped'
  BY EmptySeq DEF FetchInv, FetchTyped, Return, NewHandshake
<1>2. Judged' /\ Established'
  BY DEF Return, NewHandshake, Judged, Established, Protected
<1>3. Held'
  BY DEF FetchInv, Held, Return
<1> QED
  BY <1>1, <1>2, <1>3 DEF FetchInv

\* A step that keeps the exchanged keys and the verdict, and goes to a stage for
\* which nothing is missing.
LEMMA QuietKeeps ==
    ASSUME FetchInv, UNCHANGED <<url, hello, chain, ske, now, verdict, body, outcome>>,
           stage # "idle", stage' \notin {"idle", "name"},
           stage = "name" => url.host # <<>>,
           stage' \in {"connect", "hello", "flight"} =>
             stage \in {"name", "connect", "hello", "flight"},
           stage' \in {"keys", "finish"} \/ Protected' =>
             verdict = "ok" /\ SkeSigned,
           Protected' => finished' /\ serverEnc',
           sock' => stage' \notin {"connect", "parse"},
           raw' => stage' \in {"read", "parse"}
    PROVE  FetchInv'
<1>1. FetchTyped'
  BY DEF FetchInv, FetchTyped
<1>2. Judged'
  BY DEF FetchInv, Judged
<1>3. Established'
  BY DEF Established, SkeSigned
<1>4. Held'
  BY DEF FetchInv, Held
<1> QED
  BY <1>1, <1>2, <1>3, <1>4 DEF FetchInv

\* The user asks for a page.
LEMMA AskKeeps ==
    ASSUME FetchInv, NEW u \in Urls, Fetch(u)
    PROVE  FetchInv'
<1>1. FetchTyped'
  BY DEF FetchInv, FetchTyped, Fetch, ToStage, hs, recv
<1>2. Judged' /\ Established' /\ Held'
  BY DEF FetchInv, Judged, Established, Held, Protected, Fetch, ToStage, hs, recv
<1> QED
  BY <1>1, <1>2 DEF FetchInv

\* Steps before the request that establish nothing.
LEMMA ConnectKeeps ==
    ASSUME FetchInv, Lookup \/ OpenSocket \/ SendHello \/ HelloDone \/ FlightFails
    PROVE  FetchInv'
<1>1. CASE \E code \in {"failed", "tls"} : Return(code)
  BY <1>1, ReturnKeeps DEF Lookup, OpenSocket, SendHello, HelloDone, FlightFails
<1>2. CASE ~\E code \in {"failed", "tls"} : Return(code)
  <2>1. /\ UNCHANGED <<url, hello, chain, ske, now, verdict, body, outcome, raw>>
        /\ stage \in {"name", "connect", "hello", "flight"}
        /\ stage = "name" => url.host # <<>>
        /\ stage' \in {"connect", "hello", "get", "flight", "auth"}
        /\ stage' = "connect" => UNCHANGED sock /\ stage = "name"
        /\ stage' = "get" => url.scheme # "https"
    BY <1>2 DEF Lookup, OpenSocket, SendHello, HelloDone, FlightFails, ToStage, page, recv, hs
  <2>2. ~Protected'
    BY <2>1 DEF Protected
  <2>3. (sock' => stage' \notin {"connect", "parse"}) /\ ~raw'
    BY <2>1 DEF FetchInv, Held
  <2> QED
    BY <2>1, <2>2, <2>3, QuietKeeps
<1> QED
  BY <1>1, <1>2

\* The flight of the server: whatever it sends, nothing is believed yet.
LEMMA FlightKeeps ==
    ASSUME FetchInv, FlightMessage
    PROVE  FetchInv'
<1>1. /\ stage = "flight" /\ UNCHANGED <<stage, url, body, outcome, sock, raw, now, verdict>>
      /\ chain' = chain \/ chain' \in Chains
  BY DEF FlightMessage, ServerHello, Certificate, ServerKeyExchange, OtherMessage, page, recv
<1>2. verdict = "none"
  BY <1>1 DEF FetchInv, Judged
<1>3. FetchTyped'
  BY <1>1, FetchAssumption DEF FetchInv, FetchTyped
<1>4. Judged' /\ Established' /\ Held'
  BY <1>1, <1>2 DEF FetchInv, Judged, Established, Held, Protected
<1> QED
  BY <1>3, <1>4 DEF FetchInv

\* The chain is judged: on a good verdict the signature is next.
LEMMA ChainKeeps ==
    ASSUME FetchInv, VerifyChain
    PROVE  FetchInv'
<1>1. PICK t \in Clock : now' = t /\ verdict' = Verify(chain, url.host, t)
  BY DEF VerifyChain
<1>2. /\ UNCHANGED <<url, chain, body, outcome, sock, raw>>
      /\ stage = "auth" /\ stage' \in {"auth", "refuse"}
  BY DEF VerifyChain, ToStage, page, recv
<1>3. FetchTyped'
  BY <1>1, <1>2, FetchAssumption DEF FetchInv, FetchTyped
<1>4. Judged' /\ Established' /\ Held'
  BY <1>1, <1>2 DEF FetchInv, Judged, Established, Held, Protected
<1> QED
  BY <1>3, <1>4 DEF FetchInv

\* The rest of the handshake.
LEMMA HandshakeKeeps ==
    ASSUME FetchInv,
           \/ Refuse \/ VerifySke \/ SendKeys \/ ServerCcs \/ PassedOver
           \/ ServerFinished \/ FinishFails
    PROVE  FetchInv'
<1>1. CASE \E code \in {"cert", "tls"} : Return(code)
  BY <1>1, ReturnKeeps DEF Refuse, VerifySke, SendKeys, ServerCcs, PassedOver,
     ServerFinished, FinishFails, FinishRecord
<1>2. CASE ~\E code \in {"cert", "tls"} : Return(code)
  <2>1. CASE VerifySke
    <3>1. /\ stage = "auth" /\ verdict = "ok" /\ SkeSigned /\ stage' = "keys"
          /\ UNCHANGED <<page, sock, recv, hs>>
      BY <1>2, <2>1 DEF VerifySke, ToStage
    <3> QED
      BY <3>1, QuietKeeps DEF FetchInv, Held, Protected, page, recv, hs
  <2>2. CASE SendKeys \/ ServerCcs \/ PassedOver
    <3>1. /\ stage \in {"keys", "finish"} /\ stage' = "finish"
          /\ UNCHANGED <<url, hello, chain, ske, now, verdict, body, outcome, sock, raw>>
      BY <1>2, <2>2 DEF SendKeys, ServerCcs, PassedOver, FinishRecord, ToStage, page, recv
    <3>2. verdict = "ok" /\ SkeSigned
      BY <3>1 DEF FetchInv, Established
    <3> QED
      BY <3>1, <3>2, QuietKeeps DEF FetchInv, Held, Protected
  <2>3. CASE ServerFinished
    <3>1. /\ stage = "finish" /\ stage' = "get" /\ serverEnc' /\ finished'
          /\ UNCHANGED <<url, hello, chain, ske, now, verdict, body, outcome, sock, raw>>
      BY <2>3 DEF ServerFinished, FinishRecord, Finishes, ToStage, page, recv
    <3>2. verdict = "ok" /\ SkeSigned
      BY <3>1 DEF FetchInv, Established
    <3> QED
      BY <3>1, <3>2, QuietKeeps DEF FetchInv, Held, Protected
  <2> QED
    BY <1>2, <2>1, <2>2, <2>3 DEF Refuse, FinishFails
<1> QED
  BY <1>1, <1>2

\* The request and the response.
LEMMA ReadKeeps ==
    ASSUME FetchInv, SendGet \/ AllocRaw \/ ReadSome \/ ReadIgnored \/ ReadEnd
    PROVE  FetchInv'
<1>1. CASE \E code \in {"failed", "tls"} : Return(code)
  BY <1>1, ReturnKeeps DEF SendGet, AllocRaw, ReadSome, ReadIgnored, ReadEnd
<1>2. CASE ~\E code \in {"failed", "tls"} : Return(code)
  <2>1. /\ UNCHANGED <<url, hello, chain, ske, now, verdict, body, outcome>>
        /\ UNCHANGED <<finished, serverEnc>>
        /\ stage \in {"get", "buffer", "read"} /\ stage' \in {"buffer", "read", "parse"}
        /\ stage' = "parse" => ~sock'
        /\ stage' = "buffer" => stage = "get" /\ UNCHANGED raw
    BY <1>2 DEF SendGet, AllocRaw, ReadSome, ReadIgnored, ReadEnd, ToStage, page, recv, hs
  <2>2. Protected' => Protected
    BY <2>1 DEF Protected
  <2>3. stage' = "buffer" => ~raw'
    BY <2>1 DEF FetchInv, Held
  <2>4. raw' => stage' \in {"read", "parse"}
    BY <2>1, <2>3
  <2> QED
    BY <2>1, <2>2, <2>4, QuietKeeps DEF FetchInv, Established
<1> QED
  BY <1>1, <1>2

\* A redirect starts again, with neither socket nor buffer nor handshake.
LEMMA RedirectKeeps ==
    ASSUME FetchInv, NEW t \in Targets, Redirect(t)
    PROVE  FetchInv'
<1>1. CASE \E code \in {"failed", "url"} : Return(code)
  BY <1>1, ReturnKeeps DEF Redirect
<1>2. CASE ~\E code \in {"failed", "url"} : Return(code)
  <2>1. /\ stage = "parse" /\ stage' = "name" /\ url' \in Urls \union Targets
        /\ ~raw' /\ UNCHANGED <<sock, body>> /\ NewHandshake
    BY <1>2 DEF Redirect, Follow, ToStage, RawAfterHop, FetchInv, FetchTyped
  <2>2. FetchTyped'
    BY <2>1, EmptySeq DEF FetchTyped, NewHandshake
  <2>3. Judged' /\ Established' /\ Held'
    BY <2>1 DEF FetchInv, Judged, Established, Held, Protected, NewHandshake
  <2> QED
    BY <2>2, <2>3 DEF FetchInv
<1> QED
  BY <1>1, <1>2

\* The page is handed over, and later freed.
LEMMA BodyKeeps ==
    ASSUME FetchInv, HandOver \/ FreeBody
    PROVE  FetchInv'
<1>1. CASE Return("failed") /\ stage # "idle"
  BY <1>1, ReturnKeeps
<1>2. CASE HandOver /\ ~Return("failed")
  <2>1. FetchTyped'
    BY <1>2, EmptySeq DEF FetchInv, FetchTyped, HandOver, NewHandshake
  <2>2. Judged' /\ Established' /\ Held'
    BY <1>2 DEF FetchInv, Judged, Established, Held, Protected, HandOver, NewHandshake
  <2> QED
    BY <2>1, <2>2 DEF FetchInv
<1>3. CASE FreeBody
  <2>1. FetchTyped'
    BY <1>3 DEF FetchInv, FetchTyped, FreeBody, hs
  <2>2. Judged' /\ Established' /\ Held'
    BY <1>3 DEF FetchInv, Judged, Established, Held, Protected, FreeBody, hs, recv
  <2> QED
    BY <2>1, <2>2 DEF FetchInv
<1> QED
  BY <1>1, <1>2, <1>3 DEF HandOver

\* Every step keeps the invariant.
LEMMA FetchStep == FetchInv /\ [FetchNext]_fetchVars => FetchInv'
<1> SUFFICES ASSUME FetchInv, [FetchNext]_fetchVars
             PROVE  FetchInv'
  OBVIOUS
<1>1. CASE UNCHANGED fetchVars
  <2>1. FetchTyped'
    BY <1>1 DEF FetchInv, FetchTyped, fetchVars, page, hs
  <2>2. Judged' /\ Established' /\ Held'
    BY <1>1 DEF FetchInv, Judged, Established, Held, Protected, SkeSigned, fetchVars, page,
       hs, recv
  <2> QED
    BY <2>1, <2>2 DEF FetchInv
<1>2. CASE FetchNext
  BY <1>2, AskKeeps, ConnectKeeps, FlightKeeps, ChainKeeps, HandshakeKeeps, ReadKeeps,
     RedirectKeeps, BodyKeeps DEF FetchNext, Records, CallerSteps
<1> QED
  BY <1>1, <1>2

\* What the invariant says is what a fetch promises.
LEMMA FetchGives == FetchInv => FetchRight
<1> SUFFICES ASSUME FetchInv
             PROVE  FetchRight
  OBVIOUS
<1>1. VerdictRight
  <2>1. CASE verdict = "none"
    BY <2>1 DEF VerdictRight
  <2>2. CASE verdict # "none"
    <3>1. verdict = Verify(chain, url.host, now) /\ url.host # <<>>
      BY <2>2 DEF FetchInv, Judged
    <3>2. url.host \in Seq(Labels)
      BY FetchAssumption DEF FetchInv, FetchTyped
    <3> QED
      BY <3>1, <3>2, VerifyRight DEF FetchInv, FetchTyped, VerdictRight
  <2> QED
    BY <2>1, <2>2
<1>2. AuthenticServer
  <2>1. Asked => Protected
    BY DEF Asked, Protected
  <2> QED
    BY <1>1, <2>1 DEF FetchInv, Established, SkeSigned, VerdictRight, AuthenticServer
<1>3. FetchLeavesNothing
  BY DEF FetchInv, Held, FetchLeavesNothing
<1> QED
  BY <1>1, <1>2, <1>3 DEF FetchRight, NamedServer

\* For every root store and every chain, key, record and redirect a server may
\* send: a request leaves over https only to an authenticated server, a verdict
\* is the meaning of the chain, and no exit of http_get or https_get leaves a
\* socket, a buffer or a body behind.
THEOREM FetchStaysRight == FetchSpec => []FetchRight
  BY FetchStart, FetchStep, FetchGives, PTL DEF FetchSpec
=============================================================================
