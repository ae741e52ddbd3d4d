------------------------------- MODULE NetRx -------------------------------
(***************************************************************************)
(* The receive path of kernel/net.c, from the RTL8139 to the protocol      *)
(* stack: irq_net_handler and net_rx_hw_drain, the queue s_rxq with one    *)
(* producer and one consumer, and net_poll.                                *)
(*                                                                         *)
(* The main thread runs net_poll with interrupts enabled: the handler may  *)
(* fall between any two of its steps.  The NIC is a third actor: frames    *)
(* arrive also between two steps of the handler.  What the stack does with *)
(* a frame is the subject of TcpClient.                                    *)
(***************************************************************************)
EXTENDS Integers, Sequences, FiniteSets

CONSTANTS
    QueueN,     \* RX_QUEUE_N: one slot stays empty
    HwCap,      \* frames the ring of the NIC holds
    Guard,      \* frames one drain takes at most
    MaxFrames   \* bound: frames are numbered 1 to MaxFrames as they arrive

ASSUME NetAssumption ==
    /\ QueueN \in Nat /\ QueueN > 1
    /\ HwCap \in Nat \ {0} /\ Guard \in Nat \ {0} /\ MaxFrames \in Nat

Frames  == 1 .. MaxFrames
Corrupt == 0                    \* a frame whose header makes no sense
Indices == 0 .. (QueueN - 1)

VARIABLES
    hw, rok,            \* the ring of the NIC; ROK in its interrupt status
    arrived,            \* frames so far
    s_rxq, head, tail,  \* the queue
    irq, guard,         \* the handler: where it is; the drain's count
    pollPc, frame,      \* net_poll: where it is; its copy, in two halves
    due,                \* ten ticks have passed since the ring was looked at
    handled,            \* history: what eth_handle was given
    lost                \* history: frames dropped by the NIC, by a full queue
                        \* or by a reset of the receiver

nic   == <<hw, rok, arrived>>
queue == <<s_rxq, head, tail>>
poll  == <<pollPc, frame, due, handled>>
rxVars  == <<nic, queue, irq, guard, poll, lost>>

RxTypeOK ==
    /\ hw \in Seq(Frames \union {Corrupt}) /\ Len(hw) <= HwCap
    /\ rok \in BOOLEAN /\ arrived \in 0 .. MaxFrames
    /\ s_rxq \in [Indices -> Frames \union {0}]
    /\ head \in Indices /\ tail \in Indices
    /\ irq \in {"off", "drain", "ack"} /\ guard \in 0 .. Guard
    /\ pollPc \in {"idle", "drain", "pop", "copy", "release", "handle"}
    /\ frame \in (Frames \union {0}) \X (Frames \union {0})
    /\ due \in BOOLEAN
    /\ handled \in Seq(Frames \X Frames) /\ lost \subseteq Frames

RxInit ==
    /\ hw = <<>> /\ rok = FALSE /\ arrived = 0
    /\ s_rxq = [i \in Indices |-> 0] /\ head = 0 /\ tail = 0
    /\ irq = "off" /\ guard = 0
    /\ pollPc = "idle" /\ frame = <<0, 0>> /\ due = FALSE
    /\ handled = <<>> /\ lost = {}

-----------------------------------------------------------------------------
(* the NIC and the clock *)

\* A frame is stored in the ring, raising ROK, or dropped when that is full.
Arrive ==
    /\ arrived < MaxFrames
    /\ arrived' = arrived + 1
    /\ IF Len(hw) < HwCap
         THEN /\ hw' = Append(hw, arrived + 1)
              /\ rok' = TRUE /\ UNCHANGED lost
         ELSE /\ lost' = lost \union {arrived + 1}
              /\ UNCHANGED <<hw, rok>>
    /\ UNCHANGED <<queue, irq, guard, poll>>

ArriveCorrupt ==
    /\ arrived < MaxFrames /\ Len(hw) < HwCap
    /\ arrived' = arrived + 1
    /\ hw' = Append(hw, Corrupt) /\ rok' = TRUE
    /\ lost' = lost \union {arrived + 1}
    /\ UNCHANGED <<queue, irq, guard, poll>>

RxTick == /\ ~due /\ due' = TRUE
        /\ UNCHANGED <<nic, queue, irq, guard, pollPc, frame, handled, lost>>

-----------------------------------------------------------------------------
(* net_rx_hw_drain, in the handler or in net_poll with interrupts masked *)

Draining == irq = "drain" \/ pollPc = "drain"
InRing   == {hw[i] : i \in 1 .. Len(hw)} \ {Corrupt}

\* Mutant of Full: the queue is used to its last slot.
FullNever == FALSE
Full == (head + 1) % QueueN = tail

\* A frame moves to the queue, and head follows the copy; a full queue drops.
DrainFrame ==
    /\ Draining /\ guard < Guard /\ hw # <<>> /\ Head(hw) # Corrupt
    /\ IF Full
         THEN lost' = lost \union {Head(hw)} /\ UNCHANGED <<s_rxq, head>>
         ELSE /\ s_rxq' = [s_rxq EXCEPT ![head] = Head(hw)]
              /\ head' = (head + 1) % QueueN
              /\ UNCHANGED lost
    /\ hw' = Tail(hw) /\ guard' = guard + 1
    /\ UNCHANGED <<rok, arrived, tail, irq, poll>>

DrainDone == /\ guard' = 0
             /\ irq' = IF irq = "drain" THEN "ack" ELSE irq
             /\ pollPc' = IF irq = "drain" THEN pollPc ELSE "pop"

\* The receiver is switched off and on: the ring starts again, empty.
DrainReset ==
    /\ Draining /\ guard < Guard /\ hw # <<>> /\ Head(hw) = Corrupt
    /\ hw' = <<>> /\ lost' = lost \union InRing
    /\ DrainDone
    /\ UNCHANGED <<rok, arrived, queue, frame, due, handled>>

DrainEnd ==
    /\ Draining /\ (hw = <<>> \/ guard = Guard)
    /\ DrainDone
    /\ UNCHANGED <<nic, queue, frame, due, handled, lost>>

-----------------------------------------------------------------------------
(* irq_net_handler *)

\* ROK is up and interrupts are enabled: in net_poll they are, but for the
\* drain.
Interrupt ==
    /\ rok /\ irq = "off" /\ pollPc # "drain"
    /\ irq' = "drain"
    /\ UNCHANGED <<nic, queue, guard, poll, lost>>

\* ROK is cleared, also for a frame that came after the drain ended.
Ack == /\ irq = "ack"
       /\ rok' = FALSE /\ irq' = "off"
       /\ UNCHANGED <<hw, arrived, queue, guard, poll, lost>>

-----------------------------------------------------------------------------
(* net_poll *)

Runs(step) == irq = "off" /\ pollPc = step

\* Mutant of LooksAtRing: only the interrupt empties the ring.
LooksNever == FALSE
\* The safety net: every ten ticks the ring itself is looked at.
LooksAtRing == due /\ hw # <<>>

NetPoll ==
    /\ Runs("idle")
    /\ pollPc' = IF LooksAtRing THEN "drain" ELSE "pop"
    /\ due' = FALSE
    /\ UNCHANGED <<nic, queue, irq, guard, frame, handled, lost>>

\* The frame is copied out of its slot; the handler may run in the middle.
CopyFirst ==
    /\ Runs("pop") /\ tail # head
    /\ frame' = <<s_rxq[tail], 0>>
    /\ pollPc' = "copy"
    /\ UNCHANGED <<nic, queue, irq, guard, due, handled, lost>>

CopySecond ==
    /\ Runs("copy")
    /\ frame' = <<frame[1], s_rxq[tail]>>
    /\ pollPc' = "release"
    /\ UNCHANGED <<nic, queue, irq, guard, due, handled, lost>>

ReleasedAll == head
Released == (tail + 1) % QueueN

\* "release slot, THEN handle".
ReleaseFrame ==
    /\ Runs("release")
    /\ tail' = Released
    /\ pollPc' = "handle"
    /\ UNCHANGED <<nic, s_rxq, head, irq, guard, frame, due, handled, lost>>

\* eth_handle.
EthHandle ==
    /\ Runs("handle")
    /\ handled' = Append(handled, frame)
    /\ frame' = <<0, 0>>
    /\ pollPc' = "pop"
    /\ UNCHANGED <<nic, queue, irq, guard, due, lost>>

QueueEmpty == /\ Runs("pop") /\ tail = head
         /\ pollPc' = "idle"
         /\ UNCHANGED <<nic, queue, irq, guard, frame, due, handled, lost>>

IsrStep  == irq # "off" /\ (DrainFrame \/ DrainReset \/ DrainEnd \/ Ack)
MainStep == \/ NetPoll \/ CopyFirst \/ CopySecond \/ ReleaseFrame \/ EthHandle \/ QueueEmpty
            \/ irq = "off" /\ (DrainFrame \/ DrainReset \/ DrainEnd)

RxNext == Arrive \/ ArriveCorrupt \/ RxTick \/ Interrupt \/ IsrStep \/ MainStep

RxSpec == RxInit /\ [][RxNext]_rxVars

-----------------------------------------------------------------------------
(* Properties *)

\* The stack gets whole frames, each once, in the order they arrived, with the
\* handler filling the queue while net_poll reads it: "single-producer /
\* single-consumer on one CPU ... need no lock" (net.c:808-809).
FramesInOrder ==
    /\ \A i \in 1 .. Len(handled) : handled[i][1] = handled[i][2]
    /\ \A i, j \in 1 .. Len(handled) : i < j => handled[i][1] < handled[j][1]

Waiting == (head - tail) % QueueN
Queued  == {s_rxq[(tail + i) % QueueN] : i \in 0 .. (Waiting - 1)}
InHand  == IF pollPc = "handle" THEN {frame[1]} ELSE {}
Given   == {handled[i][1] : i \in 1 .. Len(handled)}
Accounted == Given \union InHand \union Queued \union InRing \union lost

\* A frame vanishes only where the code drops one: a full queue (net.c:810), a
\* full ring, a reset receiver.  What is dropped never comes up again.
NothingVanishes ==
    /\ 1 .. arrived \subseteq Accounted
    /\ lost \intersect (Given \union InHand \union Queued \union InRing) = {}

\* What the receive path promises to the protocols above it.
FramesKept == FramesInOrder /\ NothingVanishes

Settled == 1 .. arrived \subseteq Given \union lost

\* No frame stays in the ring or the queue for ever, although acknowledging ROK
\* can miss one that came after the drain: "a lost-IRQ safety net" (net.c:873).
\* After the last of the frames that arrive, all are handled or dropped.
NoFrameForgotten == ~Settled ~> Settled
=============================================================================
