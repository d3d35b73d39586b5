------------------------------ MODULE UartLoop ------------------------------
(***************************************************************************)
(* The normal test of src/UART/uart-ctrl.c: a UART sends a pattern to      *)
(* itself, inside or over a cable; its handler fills one FIFO when that is *)
(* empty and drains the other.  The test leaves the interrupts enabled, so *)
(* the handler of one run is there when the next is initialised.           *)
(*                                                                         *)
(* The UART is a 16550: of the enabled sources IIR reports the first of    *)
(* line status, data and empty FIFO; the last is cleared when it is so     *)
(* reported, or by a write, the first by reading LSR.  A byte is its place *)
(* in the pattern.  The interrupt is taken before the next step of the     *)
(* main program, but is as slow as it likes.  ulSize is PATTERN_BUF_SIZE,  *)
(* ulFifo SOCLE_UART_FIFO_SIZE, ulRuns the runs of a session.              *)
(***************************************************************************)
EXTENDS Integers, Sequences

CONSTANTS ulSize, ulFifo, ulRuns
ASSUME UlAssumption == ulFifo \in Nat \ {0, 1} /\ ulSize \in Nat \ {0} /\ ulSize % ulFifo = 0 /\ ulRuns \in Nat

VARIABLES
  ulM,   \* the test: where it is, its verdict, runs left; has a byte been lost or spoilt
  ulIx,  \* pattern_buf_idx, cmpr_buf, rx_complete_flag; is the pattern made
  ulIsr, \* the handler: where it is, bytes left to write
  ulHw   \* the FIFOs and the byte on its way, line status and empty FIFO
         \* pending, are the interrupts enabled, and is the line closed

ulVars == <<ulM, ulIx, ulIsr, ulHw>>

ulThreshold == ulFifo \div 2
UlPattern == [k \in 1 .. ulSize |-> k - 1]
UlStart(pc) ==
  /\ ulM = [pc |-> pc, err |-> 0, runs |-> ulRuns, fault |-> FALSE]
  /\ ulIx = [tx |-> 0, cmpr |-> <<>>, flag |-> 0, made |-> FALSE]
  /\ ulIsr = [pc |-> "none", left |-> 0]
  /\ ulHw = [tx |-> <<>>, line |-> <<>>, rx |-> <<>>, ls |-> FALSE, empty |-> TRUE, ier |-> FALSE, closed |-> TRUE]
-----------------------------------------------------------------------------
(* The handler.                                                            *)
UlMust == ulHw.ier /\ (ulHw.ls \/ Len(ulHw.rx) >= ulThreshold \/ ulHw.empty)
UlTimeout == ulHw.ier /\ ulHw.rx # <<>> /\ ulHw.line = <<>>     \* of the characters
UlIsrAt(pc) == ulIsr.pc = pc /\ UNCHANGED ulM
UlIsrTo(pc) == ulIsr' = [ulIsr EXCEPT !.pc = pc]
socle_uart_isr == UlIsrAt("none") /\ ulM.pc \notin {"off", "idle"} /\ (UlMust \/ UlTimeout) /\ UlIsrTo("iir") /\ UNCHANGED <<ulIx, ulHw>>
(* Line status: the flag says so, and LSR is read.                         *)
socle_uart_show_lsr_error ==
  /\ UlIsrAt("iir") /\ ulHw.ls /\ UlIsrTo("none")
  /\ ulIx' = [ulIx EXCEPT !.flag = -1] /\ ulHw' = [ulHw EXCEPT !.ls = FALSE]
UlReportsData ==
  /\ UlIsrAt("iir") /\ ~ulHw.ls /\ (Len(ulHw.rx) >= ulThreshold \/ UlTimeout)
  /\ UlIsrTo("drain") /\ UNCHANGED <<ulIx, ulHw>>
(* Each look for a byte reads LSR, which clears the line status as well.   *)
UlDrains ==
  /\ UlIsrAt("drain") /\ ulHw.rx # <<>> /\ UNCHANGED ulIsr
  /\ ulIx' = [ulIx EXCEPT !.cmpr = Append(@, Head(ulHw.rx))] /\ ulHw' = [ulHw EXCEPT !.rx = Tail(@), !.ls = FALSE]
UlDrained ==
  /\ UlIsrAt("drain") /\ ulHw.rx = <<>> /\ ulHw' = [ulHw EXCEPT !.ls = FALSE]
  /\ IF Len(ulIx.cmpr) = ulSize THEN UlIsrTo("none") /\ ulIx' = [ulIx EXCEPT !.flag = 1]
     ELSE UlIsrTo("iir") /\ UNCHANGED ulIx
(* Mutant of UlRoom: the byte that has started the transfer is forgotten.  *)
UlRoomOfAll(idx) == ulFifo
UlRoom(idx) == IF idx = 1 THEN ulFifo - 1 ELSE ulFifo
UlReportsEmpty ==
  /\ UlIsrAt("iir") /\ ~ulHw.ls /\ Len(ulHw.rx) < ulThreshold /\ ulHw.empty
  /\ ulHw' = [ulHw EXCEPT !.empty = FALSE]
  /\ ulIx' = IF ulIx.tx > ulSize THEN [ulIx EXCEPT !.flag = -1] ELSE ulIx
  /\ ulIsr' = IF ulIx.tx >= ulSize THEN [ulIsr EXCEPT !.pc = "none"] ELSE [pc |-> "fill", left |-> UlRoom(ulIx.tx)]
UlWrites(ix, hw) ==
  /\ ulIx' = [ix EXCEPT !.tx = @ + 1]
  /\ ulHw' = [hw EXCEPT !.empty = FALSE, !.tx = IF Len(@) < ulFifo THEN Append(@, IF ix.made THEN ix.tx ELSE -1) ELSE @]
UlFills == UlIsrAt("fill") /\ ulIsr.left > 0 /\ ulIsr' = [ulIsr EXCEPT !.left = @ - 1] /\ UlWrites(ulIx, ulHw)
UlFilled == UlIsrAt("fill") /\ ulIsr.left = 0 /\ UlIsrTo("iir") /\ UNCHANGED <<ulIx, ulHw>>
UlReportsNone == UlIsrAt("iir") /\ ~UlMust /\ UlIsrTo("none") /\ UNCHANGED <<ulIx, ulHw>>
-----------------------------------------------------------------------------
(* The test.                                                               *)
UlMain(from, to) == ulM.pc = from /\ ulIsr.pc = "none" /\ ~UlMust /\ ulM' = [ulM EXCEPT !.pc = to] /\ UNCHANGED ulIsr
UlOpens == UlMain("idle", "menu") /\ ulM.runs > 0 /\ ulHw' = [ulHw EXCEPT !.ier = FALSE, !.ls = FALSE] /\ UNCHANGED ulIx
UlCloses == UlMain("menu", "idle") /\ UNCHANGED <<ulIx, ulHw>>
UlRun(closed) ==
  /\ ulM.pc = "menu" /\ ulM.runs > 0 /\ ulIsr.pc = "none" /\ ~UlMust /\ UNCHANGED <<ulIx, ulIsr>>
  /\ ulM' = [pc |-> "init", err |-> 0, runs |-> ulM.runs - 1, fault |-> FALSE] /\ ulHw' = [ulHw EXCEPT !.closed = closed]
socle_uart_inter_loopback_test == UlRun(TRUE)
socle_uart_ext_loopback_test == \E cable \in BOOLEAN : UlRun(cable)
socle_uart_init_environment ==
  \/ UlMain("init", "clear") /\ ulIx' = [tx |-> 0, cmpr |-> <<>>, flag |-> 0, made |-> FALSE] /\ UNCHANGED ulHw
  \/ UlMain("clear", "make") /\ ulHw' = [ulHw EXCEPT !.tx = <<>>, !.rx = <<>>, !.empty = @ \/ ulHw.tx # <<>>] /\ UNCHANGED ulIx
socle_uart_make_test_pattern == UlMain("make", "trigger") /\ ulIx' = [ulIx EXCEPT !.made = TRUE] /\ UNCHANGED ulHw
UlTriggers == UlMain("trigger", "enable") /\ UlWrites(ulIx, ulHw)
UlEnables == UlMain("enable", "wait") /\ ulHw' = [ulHw EXCEPT !.ier = TRUE] /\ UNCHANGED ulIx
(* The wait is much longer than a transfer, and ends with the value 1 only.*)
UlQuiet == ulHw.tx = <<>> /\ ulHw.line = <<>> /\ ulHw.rx = <<>> /\ ulIsr.pc = "none" /\ ~UlMust
UlWaitExpires ==
  /\ ulM.pc = "wait" /\ ulIx.flag # 1 /\ UlQuiet
  /\ ulM' = [ulM EXCEPT !.pc = "end", !.err = -1] /\ UNCHANGED <<ulIx, ulIsr, ulHw>>
UlWaited == UlMain("wait", "compare") /\ ulIx.flag = 1 /\ ulIx' = [ulIx EXCEPT !.flag = 0] /\ UNCHANGED ulHw
socle_uart_compare_memory ==
  /\ ulM.pc = "compare" /\ ulIsr.pc = "none" /\ ~UlMust /\ UNCHANGED <<ulIx, ulIsr, ulHw>>
  /\ ulM' = [ulM EXCEPT !.pc = "end", !.err = IF ulIx.cmpr = UlPattern THEN 0 ELSE -1]
UlBackInMenu == UlMain("end", "menu") /\ UNCHANGED <<ulIx, ulHw>>
-----------------------------------------------------------------------------
(* The UART: a byte goes out, and arrives, or finds the FIFO full or the   *)
(* line open; or it arrives, spoilt.                                       *)
UlShifts ==
  /\ ulHw.line = <<>> /\ ulHw.tx # <<>> /\ UNCHANGED <<ulM, ulIx, ulIsr>>
  /\ ulHw' = [ulHw EXCEPT !.line = <<Head(ulHw.tx)>>, !.tx = Tail(@), !.empty = @ \/ Len(ulHw.tx) = 1]
UlArrives ==
  /\ ulHw.line # <<>> /\ UNCHANGED <<ulIx, ulIsr>>
  /\ LET room == Len(ulHw.rx) < ulFifo IN
     \/ /\ ulHw.closed /\ room /\ UNCHANGED ulM
        /\ ulHw' = [ulHw EXCEPT !.line = <<>>, !.rx = @ \o ulHw.line]
     \/ /\ ~(ulHw.closed /\ room) /\ ulM' = [ulM EXCEPT !.fault = TRUE]
        /\ ulHw' = [ulHw EXCEPT !.line = <<>>, !.ls = @ \/ ulHw.closed]
     \/ /\ ulHw.closed /\ room /\ ~ulM.fault /\ ulM' = [ulM EXCEPT !.fault = TRUE]
        /\ ulHw' = [ulHw EXCEPT !.line = <<>>, !.rx = Append(@, -1), !.ls = TRUE]

UlStep ==
  \/ socle_uart_isr \/ socle_uart_show_lsr_error \/ UlReportsData \/ UlDrains \/ UlDrained \/ UlReportsEmpty \/ UlFills \/ UlFilled
  \/ UlReportsNone \/ UlOpens \/ UlCloses \/ socle_uart_inter_loopback_test \/ socle_uart_ext_loopback_test
  \/ socle_uart_init_environment \/ socle_uart_make_test_pattern \/ UlTriggers \/ UlEnables \/ UlWaitExpires \/ UlWaited
  \/ socle_uart_compare_memory \/ UlBackInMenu \/ UlShifts \/ UlArrives
UlSpec == UlStart("idle") /\ [][UlStep]_ulVars
-----------------------------------------------------------------------------
(* A run fails exactly when a byte of it was lost or spoilt: whatever the  *)
(* run before has left enabled, and however late the handler is, the chain *)
(* of interrupts never stops, no byte is written into a full FIFO or       *)
(* beyond the buffers, and a run that has ended leaves none on its way.    *)
UartRight ==
  /\ (ulM.pc = "end" => (ulM.err # 0) = ulM.fault)
  /\ (ulM.pc = "wait" /\ UlQuiet /\ ~ulM.fault => ulIx.flag = 1)
  /\ (ulM.pc \in {"menu", "end"} => ulHw.tx = <<>> /\ ulHw.line = <<>> /\ ulHw.rx = <<>>)
  /\ ulIx.tx <= ulSize /\ Len(ulIx.cmpr) <= ulSize
=============================================================================
