------------------------------ MODULE UsbDevice ------------------------------
(***************************************************************************)
(* The USB device test (src/UDC/usbctrl.c): a main loop that answers       *)
(* control requests and loops bulk blocks back to the host, and the        *)
(* interrupt handler it shares its counters with.  The loop looks at a     *)
(* counter first and only then masks interrupts to use it.                 *)
(*                                                                         *)
(* udBlocks: blocks of the loop-back buffer (uMaxBlockNumber).  udAborts:  *)
(* the host may drop a request or a loop-back before it is over, by a new  *)
(* request, a reset or by pulling the cable.  Of blocks and descriptors    *)
(* only the number of packets and, to tell blocks apart, a bit are kept.   *)
(* Suspend and resume change no state of the loops.  The interrupt pipe    *)
(* never starts: only its own completions would raise uIntrINCount above   *)
(* zero, so process_intr_req has nothing to do.  The bulk IN endpoint      *)
(* interrupts for TxDMADN alone, which process_bulk_in looks at first, so  *)
(* its branch for a transmit error is not reached.  The bus makes no       *)
(* errors: the waits for one to go away test a copy of the status and      *)
(* would not end.                                                          *)
(***************************************************************************)
EXTENDS Integers, Sequences, SequencesExt

CONSTANTS udBlocks, udAborts
ASSUME UdAssumption == udBlocks \in Nat \ {0} /\ udAborts \in BOOLEAN

VARIABLES
  udMain,    \* where the main program is: off, idle, wait, poll, ctrl, bulk, ask
  udVbus,    \* the cable: is the host there, bIsConnected, and has the handler been requested
  udIrq,     \* pending interrupts
  udCtl,     \* control endpoint: uNeedDoProcCtrlBlockNum, uControlStage, packets of uControlDataSize, ResetFlag
  udHostCtl, \* the host's request: does it read, packets it still expects or still sends, is it over
  udTx0,     \* a control packet is ready for the host
  udLoop,    \* uLoopbackCount, bBulkDMAOnGoing, uCurrentBulkInBlockNum, uCurrentBulkOutBlockNum
  udArmed,   \* the bulk OUT DMA waits for a block
  udBuffer,  \* the loop-back buffer
  udFifo,    \* blocks on their way to the host
  udSent     \* blocks the host has sent and not read back

udVars == <<udMain, udVbus, udIrq, udCtl, udHostCtl, udTx0, udLoop, udArmed, udBuffer, udFifo, udSent>>
udMainVars == <<udMain, udVbus>>
udCtlVars == <<udCtl, udHostCtl, udTx0>>
udBulkVars == <<udLoop, udArmed, udBuffer, udFifo, udSent>>
Block == 0 .. udBlocks - 1
-----------------------------------------------------------------------------
UdNoRequest == [kind |-> "other", want |-> 0, over |-> TRUE, configured |-> FALSE]
NoLoop == [count |-> 0, dma |-> FALSE, in |-> 0, out |-> 0]
UdStart(main) ==
  /\ udMain = main /\ udVbus = [there |-> FALSE, seen |-> FALSE, irq |-> FALSE] /\ udIrq = {}
  /\ udCtl = [need |-> 0, stage |-> "setup", size |-> 0, reset |-> FALSE]
  /\ udHostCtl = UdNoRequest /\ udTx0 = FALSE
  /\ udLoop = NoLoop /\ udArmed = FALSE /\ udBuffer = [b \in Block |-> 0]
  /\ udFifo = <<>> /\ udSent = <<>>
UdInit == UdStart("idle")
UdOff == UdStart("off")

(* UDCTesting: wait for a host, up to a hundred polls; serve it until the  *)
(* cable is pulled; then ask whether to go on.                             *)
UDCTesting ==
  /\ udMain = "idle" /\ udMain' = "wait"
  /\ udCtl' = [udCtl EXCEPT !.reset = FALSE]
  /\ udVbus' = [udVbus EXCEPT !.seen = udVbus.there, !.irq = TRUE]
  /\ UNCHANGED <<udIrq, udHostCtl, udTx0, udBulkVars>>
UdNoHost ==
  /\ udMain = "wait" /\ ~udVbus.seen /\ udMain' = "idle"
  /\ UNCHANGED <<udVbus, udIrq, udCtlVars, udBulkVars>>
initUDCTestingEnv ==
  /\ udMain = "wait" /\ udVbus.seen /\ udMain' = "poll"
  /\ udCtl' = [udCtl EXCEPT !.need = 0, !.size = 0]
  /\ udLoop' = [NoLoop EXCEPT !.count = udLoop.count]
  /\ udBuffer' = [b \in Block |-> 0]
  /\ UNCHANGED <<udVbus, udIrq, udHostCtl, udTx0, udArmed, udFifo, udSent>>
UdDisconnected ==
  /\ udMain = "poll" /\ ~udVbus.seen /\ udMain' = "ask"
  /\ UNCHANGED <<udVbus, udIrq, udCtlVars, udBulkVars>>
UdAnswer ==
  /\ udMain = "ask" /\ udMain' \in {"wait", "idle"}
  /\ UNCHANGED <<udVbus, udIrq, udCtlVars, udBulkVars>>

(* One round of the serving loop: look for control data to send, then send *)
(* it; look for a block to return, then return it.                         *)
UdLooks ==
  /\ udMain = "poll" /\ udVbus.seen
  /\ udMain' = IF udCtl.need > 0 /\ ~udTx0 THEN "ctrl" ELSE IF udLoop.count > 0 /\ ~udLoop.dma /\ Len(udFifo) < 2 THEN "bulk" ELSE "poll"
  /\ udMain' # "poll"
  /\ UNCHANGED <<udVbus, udIrq, udCtlVars, udBulkVars>>
UdLeftLast == IF udCtl.size > 1 THEN udCtl.size - 1 ELSE udCtl.size
UdLeft == IF udCtl.size # 0 THEN udCtl.size - 1 ELSE 0
UdSendsControl ==
  /\ udMain = "ctrl"
  /\ udMain' = IF udLoop.count > 0 /\ ~udLoop.dma /\ Len(udFifo) < 2 THEN "bulk" ELSE "poll"
  /\ udCtl' = [udCtl EXCEPT !.need = @ - 1, !.size = UdLeft]
  /\ udTx0' = TRUE
  /\ UNCHANGED <<udVbus, udIrq, udHostCtl, udBulkVars>>
UdNextBlock(b) == (b + 1) % udBlocks
UdSendsBulk ==
  /\ udMain = "bulk" /\ udMain' = "poll"
  /\ udLoop' = [udLoop EXCEPT !.count = @ - 1, !.in = UdNextBlock(@), !.dma = TRUE]
  /\ udFifo' = Append(udFifo, udBuffer[udLoop.in])
  /\ udIrq' = udIrq \cup {"IN2"}
  /\ UNCHANGED <<udVbus, udCtlVars, udArmed, udBuffer, udSent>>
-----------------------------------------------------------------------------
(* UDCIintHandler serves the causes in this order.  One at a time here:    *)
(* the handler, run twice, does the same for causes a moment apart.        *)
UdCauses == <<"VBUS", "RST", "SETUP", "IN0", "OUT0", "ENP1", "IN2">>
UDCIintHandler(cause) ==
  /\ udVbus.irq /\ cause \in udIrq
  /\ \A j \in DOMAIN UdCauses : (UdCauses[j] \in udIrq) => \E i \in 1 .. j : UdCauses[i] = cause
  /\ udIrq' = udIrq \ {cause}

process_vbus_intr ==
  /\ UDCIintHandler("VBUS")
  /\ udVbus' = [udVbus EXCEPT !.seen = udVbus.there]
  /\ UNCHANGED <<udMain, udCtlVars, udBulkVars>>
process_reset ==
  /\ UDCIintHandler("RST")
  /\ udCtl' = [udCtl EXCEPT !.reset = TRUE]
  /\ UNCHANGED <<udMainVars, udHostCtl, udTx0, udBulkVars>>

(* A request to read (fn_get_descriptor, fn_get_device_id,                 *)
(* fn_vendor_test_in0) leaves data for the main loop, none for an unknown  *)
(* descriptor; one to write (fn_vendor_test_out0) opens the OUT gate; any  *)
(* other changes no counter but the one of packets to send.  The first one *)
(* after a reset starts the loop-back over.                                *)
UdKept == [count |-> 0, dma |-> udLoop.dma, in |-> 0, out |-> 0]
UdAsked == [need |-> IF udHostCtl.kind = "read" /\ udHostCtl.want > 0 THEN 1 ELSE 0,
            stage |-> "data", reset |-> FALSE,
            size |-> IF udHostCtl.kind = "other" THEN udCtl.size ELSE udHostCtl.want]
process_setup_req ==
  /\ UDCIintHandler("SETUP")
  /\ udCtl' = UdAsked
  /\ udLoop' = IF udCtl.reset THEN UdKept ELSE udLoop
  /\ udArmed' = (udArmed \/ udCtl.reset)
  /\ UNCHANGED <<udMainVars, udHostCtl, udTx0, udBuffer, udFifo, udSent>>

(* The host has taken a control packet: another one, or the status stage.  *)
UdMoreNot == udCtl.need
UdMore == udCtl.need + 1
process_in0 ==
  /\ UDCIintHandler("IN0")
  /\ udCtl' = IF udCtl.stage # "data" THEN udCtl
              ELSE IF udCtl.size # 0 THEN [udCtl EXCEPT !.need = UdMore] ELSE [udCtl EXCEPT !.stage = "status"]
  /\ UNCHANGED <<udMainVars, udHostCtl, udTx0, udBulkVars>>
(* The host has sent a control packet: data of a write, counted down, or   *)
(* the status stage of a read.  The status of a write is never sent.       *)
process_out0 ==
  /\ UDCIintHandler("OUT0")
  /\ udCtl' = IF udCtl.stage = "data" THEN [udCtl EXCEPT !.size = @ - 1] ELSE udCtl
  /\ udHostCtl' = [udHostCtl EXCEPT !.over = (udHostCtl.want = 0)]
  /\ UNCHANGED <<udMainVars, udTx0, udBulkVars>>

(* A block has been received: the DMA is armed for the next one at once.   *)
process_bulk_out ==
  /\ UDCIintHandler("ENP1")
  /\ udLoop' = [udLoop EXCEPT !.out = UdNextBlock(@), !.count = @ + 1]
  /\ udArmed' = TRUE
  /\ UNCHANGED <<udMainVars, udCtlVars, udBuffer, udFifo, udSent>>
UdDone == [udLoop EXCEPT !.dma = FALSE]
process_bulk_in ==
  /\ UDCIintHandler("IN2")
  /\ udLoop' = UdDone
  /\ UNCHANGED <<udMainVars, udCtlVars, udArmed, udBuffer, udFifo, udSent>>
-----------------------------------------------------------------------------
(* The host.  A patient one ends what it began; no host has more blocks    *)
(* under way than the device has room for, or sends before it has          *)
(* configured the device.                                                  *)
UdIdle == udHostCtl.over /\ udSent = <<>> /\ ~udLoop.dma /\ udIrq = {}
UdCable ==
  /\ udMain # "off" /\ (udAborts \/ UdIdle)
  /\ udVbus' = [udVbus EXCEPT !.there = ~@] /\ udIrq' = udIrq \cup {"VBUS"}
  /\ udHostCtl' = UdNoRequest
  /\ udSent' = <<>> /\ udFifo' = <<>> /\ udArmed' = FALSE
  /\ UNCHANGED <<udMain, udCtl, udTx0, udLoop, udBuffer>>
UdHostOn == udVbus.there /\ udVbus.seen /\ udMain \in {"poll", "ctrl", "bulk"}
UdRequests ==
  /\ UdHostOn /\ (udAborts \/ UdIdle) /\ udIrq \cap {"RST", "SETUP"} = {}
  /\ \E want \in 0 .. 2, kind \in {"read", "write", "other"} :
       /\ kind = "other" => want = 0
       /\ kind = "write" => want > 0
       /\ udHostCtl' = [kind |-> kind, want |-> want, over |-> want = 0, configured |-> TRUE]
  /\ udTx0' = FALSE
  /\ \/ udHostCtl.configured /\ udIrq' = (udIrq \ {"IN0", "OUT0"}) \cup {"SETUP"} /\ UNCHANGED <<udFifo, udSent>>
     \/ udIrq' = (udIrq \ {"IN0", "OUT0", "ENP1"}) \cup {"RST", "SETUP"} /\ udSent' = <<>> /\ udFifo' = <<>>
  /\ UNCHANGED <<udMainVars, udCtl, udLoop, udArmed, udBuffer>>
UdTakesControl ==
  /\ UdHostOn /\ udTx0 /\ udHostCtl.kind = "read" /\ udHostCtl.want > 0
  /\ udTx0' = FALSE /\ udIrq' = udIrq \cup {"IN0"}
  /\ udHostCtl' = [udHostCtl EXCEPT !.want = @ - 1]
  /\ UNCHANGED <<udMainVars, udCtl, udBulkVars>>
UdGivesControl ==
  /\ UdHostOn /\ udHostCtl.kind = "write" /\ udHostCtl.want > 0 /\ udIrq \cap {"RST", "SETUP", "OUT0"} = {}
  /\ udIrq' = udIrq \cup {"OUT0"}
  /\ udHostCtl' = [udHostCtl EXCEPT !.want = @ - 1]
  /\ UNCHANGED <<udMainVars, udCtl, udTx0, udBulkVars>>
UdStatus ==
  /\ UdHostOn /\ udHostCtl.kind = "read" /\ udHostCtl.want = 0 /\ ~udHostCtl.over
  /\ udCtl.stage = "status" /\ "OUT0" \notin udIrq
  /\ udIrq' = udIrq \cup {"OUT0"}
  /\ UNCHANGED <<udMainVars, udCtlVars, udBulkVars>>
UdHostSends ==
  /\ UdHostOn /\ udHostCtl.configured /\ udHostCtl.over /\ udArmed /\ udIrq \cap {"RST", "SETUP"} = {}
  /\ Len(udSent) < udBlocks
  /\ \E bit \in {0, 1} : udBuffer' = [udBuffer EXCEPT ![udLoop.out] = bit] /\ udSent' = Append(udSent, bit)
  /\ udArmed' = FALSE /\ udIrq' = udIrq \cup {"ENP1"}
  /\ UNCHANGED <<udMainVars, udCtlVars, udLoop, udFifo>>
UdHostReads ==
  /\ UdHostOn /\ udFifo # <<>> /\ udSent # <<>>
  /\ udFifo' = Tail(udFifo) /\ udSent' = Tail(udSent)
  /\ UNCHANGED <<udMainVars, udIrq, udCtlVars, udLoop, udArmed, udBuffer>>

UdServes == UdLooks \/ UdSendsControl \/ UdSendsBulk
UdInterrupt == process_vbus_intr \/ process_reset \/ process_setup_req \/ process_in0 \/ process_out0
               \/ process_bulk_out \/ process_bulk_in
UdHost == UdCable \/ UdRequests \/ UdTakesControl \/ UdGivesControl \/ UdStatus \/ UdHostSends \/ UdHostReads
UdStep == UDCTesting \/ UdNoHost \/ initUDCTestingEnv \/ UdDisconnected \/ UdAnswer \/ UdServes \/ UdInterrupt \/ UdHost
(* The loop goes round and interrupts are served; the host takes what is   *)
(* ready and ends the request it began.                                    *)
UdFair == WF_udVars(UdServes) /\ WF_udVars(UdInterrupt) /\ WF_udVars(UdTakesControl) /\ WF_udVars(UdGivesControl)
          /\ WF_udVars(UdStatus) /\ WF_udVars(UdHostReads)
UdSpec == UdInit /\ [][UdStep]_udVars /\ UdFair
-----------------------------------------------------------------------------
(* The type of the state.                                                  *)
UdTypeOK ==
  /\ udMain \in {"off", "idle", "wait", "poll", "ctrl", "bulk", "ask"}
  /\ udVbus \in [there : BOOLEAN, seen : BOOLEAN, irq : BOOLEAN]
  /\ udIrq \subseteq {UdCauses[i] : i \in DOMAIN UdCauses}
  /\ udCtl \in [need : Int, stage : {"setup", "data", "status"}, size : Int, reset : BOOLEAN]
  /\ udHostCtl \in [kind : {"read", "write", "other"}, want : 0 .. 2, over : BOOLEAN, configured : BOOLEAN]
  /\ udTx0 \in BOOLEAN /\ udArmed \in BOOLEAN
  /\ udLoop \in [count : Int, dma : BOOLEAN, in : Block, out : Block]
  /\ udBuffer \in [Block -> {0, 1}] /\ udFifo \in Seq({0, 1}) /\ udSent \in Seq({0, 1})

(* The two counters the main loop and the interrupt handler share stay     *)
(* what they count: neither drops below zero, where as unsigned numbers    *)
(* they would stand for four thousand million packets to send.             *)
UdCountsTrue == udCtl.need \in 0 .. 1 /\ udLoop.count \in 0 .. udBlocks

(* The host reads back the blocks it sent, in order and unchanged: what is *)
(* on its way to it is the beginning of what it waits for.  And a control  *)
(* request moves as many packets as it asks for: what the host of a read   *)
(* still expects is what the device still has or has on its way, and what  *)
(* the device still expects of a write is what the host has not sent or    *)
(* the device not looked at.                                               *)
UdRight ==
  /\ IsPrefix(udFifo, udSent)
  /\ (udCtl.stage = "data" /\ udIrq \cap {"SETUP", "RST"} = {} /\ UdHostOn) =>
        CASE udHostCtl.kind = "read"  -> udHostCtl.want = udCtl.size + (IF udTx0 THEN 1 ELSE 0)
          [] udHostCtl.kind = "write" -> udCtl.size = udHostCtl.want + (IF "OUT0" \in udIrq THEN 1 ELSE 0)
          [] OTHER -> TRUE

(* The blocks a host has sent all come back and a request it has made      *)
(* ends, if it stays.                                                      *)
UdServed ==
  /\ (udSent # <<>> /\ udLoop.count > 0) ~> (udFifo # <<>> \/ udSent = <<>>)
  /\ (~udHostCtl.over) ~> udHostCtl.over
=============================================================================
