----------------------------- MODULE MacDriver -----------------------------
(***************************************************************************)
(* The Ethernet driver (src/MAC/if_socle.c) in the loop-back session of    *)
(* src/MAC/macctrl.c: the main program sends a frame, polls, sends the     *)
(* next, and polls until all have come back; the MAC takes frames from one *)
(* descriptor ring and stores them into another; sMacInt tells the main    *)
(* program through rxScheduled and txScheduled that there is work.         *)
(* gMAC.h defines SMAC_INTCOUNTER_DEBUG, so that sMacInt never masks an    *)
(* interrupt in this build, and sMacRxSchedule and sMacTxSchedule enable   *)
(* what is enabled already.                                                *)
(*                                                                         *)
(* A frame is a number and fills one or two buffers; a held session is     *)
(* that of test 8, which keeps descriptor 1 from the MAC until it has      *)
(* suspended.  macLate: may a frame arrive between the last look at the    *)
(* ring and the statement that clears rxScheduled?  tx_merge_number is 0.  *)
(* The loop-back has no bit errors, so no frame is discarded for one.      *)
(***************************************************************************)
EXTENDS Integers, Sequences, FiniteSets

CONSTANTS macRds, macTds, macFrames, macLate
ASSUME MacAssumption == /\ macFrames \in Nat \ {0} /\ macRds \in Nat /\ macRds > 2 * macFrames
                        /\ macTds \in Nat /\ macTds > 3 /\ macLate \in BOOLEAN

VARIABLES
  macPc,     \* where the main program is
  macSend,   \* the frame being sent: its number, buffers still to fill, descriptors it has filled
  macTx,     \* transmit ring: who owns a descriptor, the part of a frame in its buffer
  macRx,     \* receive ring, likewise
  macDrv,    \* rxIndex, txIndex, txDiIndex, rxScheduled, txScheduled, rx_dead, rx_FristNeeded
  macCsr,    \* status bits of CSR5, is CSR7 zero, state of the receiver and the transmitter
  macHw,     \* the MAC's own places in the rings
  macAir,    \* parts of frames between the transmitter and the receiver
  macPool    \* frames handed over (rx_PoolPt up to rx_PooliWrite)

macVars == <<macPc, macSend, macTx, macRx, macDrv, macCsr, macHw, macAir, macPool>>
Tds == 0 .. macTds - 1
Rds == 0 .. macRds - 1
NoPart == [id |-> 0, first |-> FALSE, last |-> FALSE]
Ours == [own |-> FALSE, part |-> NoPart]
Macs(part) == [own |-> TRUE, part |-> part]

MacStart(pc) ==
  /\ macPc = pc /\ macSend = [id |-> 0, left |-> 0, filled |-> {}, held |-> FALSE]
  /\ macTx = [d \in Tds |-> Ours] /\ macRx = [d \in Rds |-> Ours]
  /\ macDrv = [rx |-> 0, tx |-> 0, di |-> 0, rxS |-> FALSE, txS |-> FALSE, dead |-> FALSE, wantFirst |-> TRUE]
  /\ macCsr = [stat |-> {}, mask |-> FALSE, rs |-> "stopped", ts |-> "suspended"]
  /\ macHw = [rx |-> 0, tx |-> 0] /\ macAir = <<>> /\ macPool = <<>>
-----------------------------------------------------------------------------
SMAC_TD_INDEX_NEXT(i) == (i + 1) % macTds
SMAC_RD_INDEX_NEXT(i) == (i + 1) % macRds
Pending == macCsr.mask /\ macCsr.stat # {}
(* An enabled interrupt is taken before the main program's next statement. *)
MacMain(from, to) == macPc = from /\ macPc' = to /\ ~Pending

Init_Rx_Des(held) == [d \in Rds |-> IF d = 1 /\ held THEN Ours ELSE Macs(NoPart)]
Init_Tx_Des == [d \in Tds |-> Ours]
(* MacTestDevCrtlInit, the case's change of descriptor 1, and sMacInit.    *)
sMacInit ==
  /\ MacMain("idle", "filter")
  /\ \E held \in BOOLEAN : macSend' = [id |-> 0, left |-> 0, filled |-> {}, held |-> held]
  /\ macRx' = Init_Rx_Des(macSend'.held) /\ macTx' = Init_Tx_Des
  /\ macDrv' = [macDrv EXCEPT !.rx = 0, !.tx = 0, !.di = 0, !.dead = FALSE, !.wantFirst = TRUE]
  /\ macCsr' = [stat |-> {}, mask |-> TRUE, rs |-> "stopped", ts |-> "suspended"]
  /\ macHw' = [rx |-> 0, tx |-> 0] /\ macAir' = <<>> /\ macPool' = <<>>

(* The setup frame and the empty buffer after it, with CSR7 zero until the *)
(* MAC has taken both; then the receiver starts.                           *)
sMacFltrFrmXmit ==
  /\ MacMain("filter", "setup")
  /\ macTx' = [macTx EXCEPT ![0] = Macs(NoPart), ![1] = Macs(NoPart)]
  /\ macDrv' = [macDrv EXCEPT !.tx = 2, !.di = 2]
  /\ macCsr' = [macCsr EXCEPT !.mask = FALSE, !.ts = "running"]
  /\ UNCHANGED <<macSend, macRx, macHw, macAir, macPool>>
FilterSet ==
  /\ MacMain("setup", "send")
  /\ ~macTx[1].own
  /\ macCsr' = [macCsr EXCEPT !.mask = TRUE, !.rs = "running"]
  /\ UNCHANGED <<macSend, macTx, macRx, macDrv, macHw, macAir, macPool>>

(* sMacTxRingClean: descriptors the MAC has done with are disposed of.     *)
Disposed == CHOOSE d \in Tds :
  /\ d = macDrv.tx \/ macTx[d].own
  /\ \A e \in Tds : (e - macDrv.di) % macTds < (d - macDrv.di) % macTds => ~macTx[e].own /\ e # macDrv.tx
sMacTxRingClean == macDrv' = [macDrv EXCEPT !.di = Disposed]

(* sMacPacketSend: fill descriptors, wait for one in sMacTxRingClean when  *)
(* there is none; then give them all away and demand a poll.               *)
MacTestPrepareTx ==
  /\ MacMain("send", "fill")
  /\ macSend.id < macFrames
  /\ \E n \in 1 .. 2 : macSend' = [macSend EXCEPT !.id = @ + 1, !.left = n, !.filled = {}]
  /\ UNCHANGED <<macTx, macRx, macDrv, macCsr, macHw, macAir, macPool>>
NoDescriptor == macTx[macDrv.tx].own \/ SMAC_TD_INDEX_NEXT(macDrv.tx) = macDrv.di
SendWaits ==
  /\ MacMain("fill", "fill")
  /\ macSend.left > 0 /\ NoDescriptor
  /\ sMacTxRingClean
  /\ UNCHANGED <<macSend, macTx, macRx, macCsr, macHw, macAir, macPool>>
SendFills ==
  /\ MacMain("fill", "fill")
  /\ macSend.left > 0 /\ ~NoDescriptor
  /\ macTx' = [macTx EXCEPT ![macDrv.tx] =
                 [own |-> FALSE, part |-> [id |-> macSend.id, first |-> macSend.filled = {}, last |-> macSend.left = 1]]]
  /\ macDrv' = [macDrv EXCEPT !.tx = SMAC_TD_INDEX_NEXT(@)]
  /\ macSend' = [macSend EXCEPT !.left = @ - 1, !.filled = @ \cup {macDrv.tx}]
  /\ UNCHANGED <<macRx, macCsr, macHw, macAir, macPool>>
SendGives ==
  /\ MacMain("fill", IF macSend.held /\ macSend.id = 1 THEN "delay" ELSE "poll")
  /\ macSend.left = 0
  /\ macTx' = [d \in Tds |-> IF d \in macSend.filled THEN [macTx[d] EXCEPT !.own = TRUE] ELSE macTx[d]]
  /\ macCsr' = [macCsr EXCEPT !.ts = "running"]
  /\ UNCHANGED <<macSend, macRx, macDrv, macHw, macAir, macPool>>

(* Test 8: a hundred milliseconds, in which the MAC does all it can; then  *)
(* it is given the descriptor.                                             *)
MacQuiet == /\ macCsr.ts = "suspended" /\ (macAir = <<>> \/ macCsr.rs = "suspended") /\ ~Pending
GiveOwner ==
  /\ MacMain("delay", "poll")
  /\ MacQuiet /\ macCsr.rs = "suspended"
  /\ macRx' = [macRx EXCEPT ![1] = Macs(NoPart)]
  /\ UNCHANGED <<macSend, macTx, macDrv, macCsr, macHw, macAir, macPool>>

(* MacTestPolling, its receive half: sMacRxSchedule takes descriptors with *)
(* sMacRecv until the next one is the MAC's.                               *)
PollRx ==
  /\ MacMain("poll", IF macDrv.rxS THEN "recv" ELSE "pollTx")
  /\ UNCHANGED <<macSend, macTx, macRx, macDrv, macCsr, macHw, macAir, macPool>>
Discarded(part) == ~part.first /\ macDrv.wantFirst
sMacGetFullRMDBlind == TRUE
sMacGetFullRMD == ~macRx[macDrv.rx].own
sMacRecv ==
  /\ MacMain("recv", "recv")
  /\ sMacGetFullRMD
  /\ LET part == macRx[macDrv.rx].part IN
     /\ macPool' = IF part.last /\ ~Discarded(part) THEN Append(macPool, part.id) ELSE macPool
     /\ macDrv' = [macDrv EXCEPT !.rx = SMAC_RD_INDEX_NEXT(@), !.dead = FALSE,
                                 !.wantFirst = IF Discarded(part) THEN @ ELSE part.last]
  /\ macRx' = [macRx EXCEPT ![macDrv.rx] = Macs(NoPart)]
  /\ macCsr' = IF macDrv.dead THEN [macCsr EXCEPT !.rs = "running"] ELSE macCsr
  /\ UNCHANGED <<macSend, macTx, macHw, macAir>>
RingEmpty ==
  /\ MacMain("recv", "empty")
  /\ ~sMacGetFullRMD
  /\ UNCHANGED <<macSend, macTx, macRx, macDrv, macCsr, macHw, macAir, macPool>>
sMacRxSchedule ==
  /\ MacMain("empty", "pollTx")
  /\ macDrv' = [macDrv EXCEPT !.rxS = FALSE]
  /\ UNCHANGED <<macSend, macTx, macRx, macCsr, macHw, macAir, macPool>>

(* Its transmit half; then the next frame, another poll, or the end, which *)
(* a time-out of two hundred milliseconds brings about when nothing comes. *)
TestCheckRxNum(n) == Len(macPool) >= n
MacTestPolling ==
  /\ \/ macSend.id < macFrames /\ MacMain("pollTx", "send")
     \/ macSend.id = macFrames /\ ~TestCheckRxNum(macFrames) /\ MacMain("pollTx", "poll")
     \/ macSend.id = macFrames /\ TestCheckRxNum(macFrames) /\ MacMain("pollTx", "idle")
  /\ IF macDrv.txS THEN macDrv' = [macDrv EXCEPT !.di = Disposed, !.txS = FALSE] ELSE UNCHANGED macDrv
  /\ UNCHANGED <<macSend, macTx, macRx, macCsr, macHw, macAir, macPool>>
RxWaitTimeout ==
  /\ MacMain("poll", "idle")
  /\ macSend.id = macFrames /\ ~TestCheckRxNum(macFrames)
  /\ MacQuiet /\ ~macDrv.rxS
  /\ UNCHANGED <<macSend, macTx, macRx, macDrv, macCsr, macHw, macAir, macPool>>

MacProgram == sMacInit \/ sMacFltrFrmXmit \/ FilterSet \/ MacTestPrepareTx \/ SendWaits \/ SendFills \/ SendGives
              \/ GiveOwner \/ PollRx \/ sMacRecv \/ RingEmpty \/ sMacRxSchedule \/ MacTestPolling \/ RxWaitTimeout
-----------------------------------------------------------------------------
(* Every cause it finds is cleared; the flags remember that there is work. *)
IntRxOnlyDead(stat) == "RU" \in stat
IntRx(stat) == stat \cap {"RI", "RU"} # {}
IntDead(stat) == macDrv.dead \/ "RU" \in stat
sMacInt ==
  /\ macPc # "off" /\ Pending
  /\ macDrv' = [macDrv EXCEPT !.dead = IntDead(macCsr.stat),
                              !.rxS = @ \/ IntRx(macCsr.stat),
                              !.txS = @ \/ macCsr.stat \cap {"TI", "TU"} # {}]
  /\ macCsr' = [macCsr EXCEPT !.stat = {}]
  /\ UNCHANGED <<macPc, macSend, macTx, macRx, macHw, macAir, macPool>>

(* The MAC.  It looks at the next descriptor as soon as it has filled one, *)
(* and suspends when it may not have it.                                   *)
MacTransmits ==
  /\ macCsr.ts = "running" /\ Len(macAir) < 3
  /\ LET d == macTx[macHw.tx] IN
     \/ /\ d.own
        /\ macTx' = [macTx EXCEPT ![macHw.tx].own = FALSE]
        /\ macHw' = [macHw EXCEPT !.tx = SMAC_TD_INDEX_NEXT(@)]
        /\ macAir' = IF d.part = NoPart THEN macAir ELSE Append(macAir, d.part)
        /\ macCsr' = IF d.part.last THEN [macCsr EXCEPT !.stat = @ \cup {"TI"}] ELSE macCsr
     \/ /\ ~d.own
        /\ macCsr' = [macCsr EXCEPT !.ts = "suspended", !.stat = @ \cup {"TU"}]
        /\ UNCHANGED <<macTx, macHw, macAir>>
  /\ UNCHANGED <<macPc, macSend, macRx, macDrv, macPool>>
MacReceives ==
  /\ macCsr.rs = "running" /\ macAir # <<>>
  /\ macLate \/ macPc # "empty"
  /\ LET next == SMAC_RD_INDEX_NEXT(macHw.rx)
         starves == ~macRx[next].own
     IN /\ macRx[macHw.rx].own
        /\ macRx' = [macRx EXCEPT ![macHw.rx] = [own |-> FALSE, part |-> Head(macAir)]]
        /\ macHw' = [macHw EXCEPT !.rx = next]
        /\ macCsr' = [macCsr EXCEPT !.rs = IF starves THEN "suspended" ELSE "running",
                                    !.stat = @ \cup (IF Head(macAir).last THEN {"RI"} ELSE {}) \cup (IF starves THEN {"RU"} ELSE {})]
  /\ macAir' = Tail(macAir)
  /\ UNCHANGED <<macPc, macSend, macTx, macDrv, macPool>>

MacStep == MacProgram \/ sMacInt \/ MacTransmits \/ MacReceives
MacFair == WF_macVars(MacProgram) /\ WF_macVars(sMacInt) /\ WF_macVars(MacTransmits) /\ WF_macVars(MacReceives)
MacSpec == MacStart("idle") /\ [][MacStep]_macVars /\ MacFair
-----------------------------------------------------------------------------
(* The frames handed over are those sent, each once, whole and in order,   *)
(* however the two rings, their indices and the MAC's own places drift     *)
(* apart.                                                                  *)
MacInOrder == \A i \in 1 .. Len(macPool) : macPool[i] = i
(* A receiver that has stopped for want of a descriptor starts again, and  *)
(* every frame of a session comes back.                                    *)
MacAllBack == (macPc = "fill") ~> (TestCheckRxNum(macFrames))
(* When the main program gives up waiting, no frame is left in the ring,   *)
(* received and not taken.                                                 *)
MacTaken == [][(macPc = "poll" /\ macPc' = "idle") => macRx[macDrv.rx].own]_macVars
=============================================================================
