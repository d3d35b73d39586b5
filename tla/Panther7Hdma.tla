--------------------------- MODULE Panther7Hdma ---------------------------
(***************************************************************************)
(* src/DMA/dma.c (the channel service every driver calls) over             *)
(* src/DMA/panther7-hdma.c (the Panther7 HDMA driver, whose channels share *)
(* one interrupt), composed with the interrupt controller of irq.c.        *)
(*                                                                         *)
(* The main program runs the service calls access by access; panther7_     *)
(* hdma_isr runs inside irq_dispatch and cannot be preempted by it; the    *)
(* HDMA engine, which is external, runs beside both and raises flags in    *)
(* the status register at any time while a channel is started.             *)
(***************************************************************************)
EXTENDS Naturals

CONSTANTS
  NumChannels,  \* PANTHER7 HDMA channels; 2 in the chip
  Notifier,     \* struct socle_dma_notifier objects of the callers
  Handles,      \* the events a notifier has a callback for
  Hdma,         \* PANTHER7_INTC_HDMA_0, the one interrupt of all channels
  panther7_hdma_isr,
  NULL,
  LateIrq       \* see InterruptController

Channel == 0 .. NumChannels - 1

\* The three flags a channel has in PANTHER7_HDMA_ISR: INT, PAGE_INT, PAGE_ACCUM_OVF.
Event == {"int", "page", "ovf"}
Mode == {"sw", "slice"}

ASSUME HdmaAssumption ==
  /\ NumChannels \in Nat \ {0}
  /\ Handles \in [Notifier -> SUBSET Event]
  /\ NULL \notin Notifier
  /\ LateIrq \in BOOLEAN
  /\ NULL # Hdma /\ NULL # panther7_hdma_isr /\ NULL \notin Channel

VARIABLES
  lock, active, notifier, mode,   \* struct socle_dma, by channel
  container,                      \* panther7_hdma_shared_irq_container
  drv,                            \* the service call the main program is in
  hisr,                           \* panther7_hdma_isr and its locals
  flag,                           \* what the callbacks of a notifier set
  act, mask,                      \* external: flag and mask bits of the status register
  hw,                             \* external: the engine, by channel
  vec, pparam, iecr, imr, irqOn, main, isr   \* irq.c

dmaVars == <<lock, active, notifier, mode>>
regVars == <<act, mask, hw>>
icVars  == <<vec, pparam, iecr, imr, irqOn, main, isr>>
vars == <<dmaVars, container, drv, hisr, flag, regVars, icVars>>

\* The request line is high while some flag is set and not masked.
HdmaLine == IF act \subseteq mask THEN {} ELSE {Hdma}

IC == INSTANCE InterruptController WITH
        Irq <- {Hdma}, EdgeIrq <- {}, Routine <- {panther7_hdma_isr}, Param <- Channel,
        ParamOf <- [r \in {panther7_hdma_isr} |-> 0], Quiesced <- {}, MaxRaises <- 0,
        line <- HdmaLine, latch <- {}, armed <- {}, raises <- 0

Flags(c) == {c} \X Event

\* A flag is cleared by writing it 0 and left alone by writing it 1.
StatusAfterWrite(value) == act \cap value

----------------------------------------------------------------------------
DrvPc == {"idle", "req_lock", "req_init", "req_dma", "req_isr", "req_irq", "req_wait",
          "en_check", "en_read", "en_unmask", "en_con",
          "dis_check", "dis_con", "dis_read", "dis_clear", "dis_reread", "dis_mask",
          "free_check", "free_inactive", "free_lock", "free_notifier",
          "free_dma", "free_isr", "free_irq", "free_wait"}

\* then: where ops->disable returns to; snap: the status read by a read-modify-write.
NoCall == [pc |-> "idle", ch |-> 0, ntf |-> NULL, then |-> "idle", snap |-> {}]
NoHandler == [at |-> "none", ch |-> 0, stat |-> {}, snap |-> {}]

TypeOK ==
  /\ lock \in [Channel -> {0, 1}]
  /\ active \in [Channel -> {0, 1}]
  /\ notifier \in [Channel -> Notifier \cup {NULL}]
  /\ mode \in [Channel -> Mode]
  /\ container \in [Channel -> [dma: BOOLEAN, isr: BOOLEAN]]
  /\ drv \in [pc: DrvPc, ch: Channel, ntf: Notifier \cup {NULL},
              then: {"idle", "free_inactive"}, snap: SUBSET (Channel \X Event)]
  /\ hisr \in [at: {"none", "select", "stat", "rmw", "clear", "notify", "wild"},
               ch: 0 .. NumChannels, stat: SUBSET Event, snap: SUBSET (Channel \X Event)]
  /\ flag \in [Notifier -> {0, 1}]
  /\ act \subseteq Channel \X Event
  /\ mask \subseteq Channel \X Event
  /\ hw \in [Channel -> {"off", "running", "done", "overrun"}]
  /\ vec \in [{Hdma} -> {panther7_hdma_isr, NULL}]
  /\ pparam \in [{Hdma} -> Channel \cup {NULL}]
  /\ iecr \subseteq {Hdma}
  /\ imr \subseteq {Hdma}
  /\ irqOn \in BOOLEAN

\* After socle_init_service: nothing requested, the engine reset and masked.
Init ==
  /\ lock = [c \in Channel |-> 0]
  /\ active = [c \in Channel |-> 0]
  /\ notifier = [c \in Channel |-> NULL]
  /\ mode = [c \in Channel |-> "sw"]
  /\ container = [c \in Channel |-> [dma |-> FALSE, isr |-> FALSE]]
  /\ drv = NoCall
  /\ hisr = NoHandler
  /\ flag = [n \in Notifier |-> 0]
  /\ act = {}
  /\ mask = Channel \X Event
  /\ hw = [c \in Channel |-> "off"]
  /\ vec = [i \in {Hdma} |-> NULL]
  /\ pparam = [i \in {Hdma} |-> NULL]
  /\ iecr = {}
  /\ imr \in SUBSET {Hdma}
  /\ irqOn = TRUE
  /\ main = IC!Idle
  /\ isr = IC!NoIsr

----------------------------------------------------------------------------
\* A step of the main program inside a service call.
Step(from, to) ==
  /\ drv.pc = from
  /\ main = IC!Idle /\ IC!MainRuns
  /\ drv' = [drv EXCEPT !.pc = to]

Return(from) ==
  /\ drv.pc = from
  /\ main = IC!Idle /\ IC!MainRuns
  /\ drv' = NoCall

Call(to, c, n) ==
  /\ drv = NoCall /\ IC!MainRuns
  /\ drv' = [NoCall EXCEPT !.pc = to, !.ch = c, !.ntf = n]
  /\ UNCHANGED <<dmaVars, container, hisr, flag, regVars, icVars>>

socle_request_dma(c, n) == Call("req_lock", c, n)
socle_free_dma(c) == Call("free_check", c, NULL)
socle_enable_dma(c) == Call("en_check", c, NULL)
socle_disable_dma(c) == Call("dis_check", c, NULL)

\* The setters store one field each; what the model keeps of them is the mode.
socle_set_dma_mode(c, m) ==
  /\ drv = NoCall /\ IC!MainRuns
  /\ mode' = [mode EXCEPT ![c] = m]
  /\ UNCHANGED <<lock, active, notifier, container, drv, hisr, flag, regVars, icVars>>

----------------------------------------------------------------------------
\* socle_request_dma: xchg(&dma->lock, 1); a channel already held answers -1.
RequestBusy ==
  /\ Return("req_lock")
  /\ lock[drv.ch] = 1
  /\ UNCHANGED <<dmaVars, container, hisr, flag, regVars, icVars>>

RequestLock ==
  /\ Step("req_lock", "req_init")
  /\ lock[drv.ch] = 0
  /\ lock' = [lock EXCEPT ![drv.ch] = 1]
  /\ UNCHANGED <<active, notifier, mode, container, hisr, flag, regVars, icVars>>

RequestInit ==
  /\ Step("req_init", "req_dma")
  /\ active' = [active EXCEPT ![drv.ch] = 0]
  /\ notifier' = [notifier EXCEPT ![drv.ch] = drv.ntf]
  /\ UNCHANGED <<lock, mode, container, hisr, flag, regVars, icVars>>

\* panther7_hdma_request_irq: container.dma, container.isr, request_irq.
RequestDma ==
  /\ Step("req_dma", "req_isr")
  /\ container' = [container EXCEPT ![drv.ch].dma = TRUE]
  /\ UNCHANGED <<dmaVars, hisr, flag, regVars, icVars>>

RequestIsr ==
  /\ Step("req_isr", "req_irq")
  /\ container' = [container EXCEPT ![drv.ch].isr = TRUE]
  /\ UNCHANGED <<dmaVars, hisr, flag, regVars, icVars>>

RequestIrq ==
  /\ drv.pc = "req_irq"
  /\ drv' = [drv EXCEPT !.pc = "req_wait"]
  /\ UNCHANGED <<dmaVars, container, hisr, flag, regVars>>
  /\ IC!CallRequest(Hdma, panther7_hdma_isr, drv.ch)

RequestDone ==
  /\ Return("req_wait")
  /\ UNCHANGED <<dmaVars, container, hisr, flag, regVars, icVars>>

----------------------------------------------------------------------------
\* socle_enable_dma refuses a free channel and an active one.
EnableRefused ==
  /\ Return("en_check")
  /\ lock[drv.ch] = 0 \/ active[drv.ch] = 1
  /\ UNCHANGED <<dmaVars, container, hisr, flag, regVars, icVars>>

EnableActive ==
  /\ Step("en_check", "en_read")
  /\ lock[drv.ch] = 1 /\ active[drv.ch] = 0
  /\ active' = [active EXCEPT ![drv.ch] = 1]
  /\ UNCHANGED <<lock, notifier, mode, container, hisr, flag, regVars, icVars>>

\* panther7_hdma_enable: unmask (a read-modify-write of the shared register),
\* program the channel, and write its control register last.
EnableRead ==
  /\ drv.pc = "en_read" /\ main = IC!Idle /\ IC!MainRuns
  /\ drv' = [drv EXCEPT !.pc = "en_unmask", !.snap = act]
  /\ UNCHANGED <<dmaVars, container, hisr, flag, regVars, icVars>>

\* Mutant of EnableUnmask: the channel is left masked.
EnableUnmaskForgets ==
  /\ Step("en_unmask", "en_con")
  /\ act' = StatusAfterWrite(drv.snap)
  /\ UNCHANGED <<dmaVars, container, hisr, flag, mask, hw, icVars>>

EnableUnmask ==
  /\ Step("en_unmask", "en_con")
  /\ act' = StatusAfterWrite(drv.snap)
  /\ mask' = mask \ Flags(drv.ch)
  /\ UNCHANGED <<dmaVars, container, hisr, flag, hw, icVars>>

EnableCon ==
  /\ Return("en_con")
  /\ hw' = [hw EXCEPT ![drv.ch] = "running"]
  /\ UNCHANGED <<dmaVars, container, hisr, flag, act, mask, icVars>>

----------------------------------------------------------------------------
\* socle_disable_dma: nothing to do on a free or an inactive channel.
DisableRefused ==
  /\ Return("dis_check")
  /\ lock[drv.ch] = 0 \/ active[drv.ch] = 0
  /\ UNCHANGED <<dmaVars, container, hisr, flag, regVars, icVars>>

DisableInactive ==
  /\ Step("dis_check", "dis_con")
  /\ lock[drv.ch] = 1 /\ active[drv.ch] = 1
  /\ active' = [active EXCEPT ![drv.ch] = 0]
  /\ UNCHANGED <<lock, notifier, mode, container, hisr, flag, regVars, icVars>>

\* panther7_hdma_disable: stop the engine, clear the flags of the channel,
\* mask them (two read-modify-writes), zero the channel's registers.
DisableCon ==
  /\ Step("dis_con", "dis_read")
  /\ hw' = [hw EXCEPT ![drv.ch] = "off"]
  /\ UNCHANGED <<dmaVars, container, hisr, flag, act, mask, icVars>>

DisableRead ==
  /\ drv.pc = "dis_read" /\ main = IC!Idle /\ IC!MainRuns
  /\ drv' = [drv EXCEPT !.pc = "dis_clear", !.snap = act]
  /\ UNCHANGED <<dmaVars, container, hisr, flag, regVars, icVars>>

\* Mutant of DisableClear: the flags are written back as they were read.
DisableClearKeeps ==
  /\ Step("dis_clear", "dis_reread")
  /\ act' = StatusAfterWrite(drv.snap)
  /\ UNCHANGED <<dmaVars, container, hisr, flag, mask, hw, icVars>>

DisableClear ==
  /\ Step("dis_clear", "dis_reread")
  /\ act' = StatusAfterWrite(drv.snap \ Flags(drv.ch))
  /\ UNCHANGED <<dmaVars, container, hisr, flag, mask, hw, icVars>>

DisableReread ==
  /\ drv.pc = "dis_reread" /\ main = IC!Idle /\ IC!MainRuns
  /\ drv' = [drv EXCEPT !.pc = "dis_mask", !.snap = act]
  /\ UNCHANGED <<dmaVars, container, hisr, flag, regVars, icVars>>

DisableMask ==
  /\ drv.pc = "dis_mask" /\ main = IC!Idle /\ IC!MainRuns
  /\ act' = StatusAfterWrite(drv.snap)
  /\ mask' = mask \cup Flags(drv.ch)
  /\ drv' = IF drv.then = "idle" THEN NoCall
            ELSE [drv EXCEPT !.pc = drv.then, !.then = "idle", !.snap = {}]
  /\ UNCHANGED <<dmaVars, container, hisr, flag, hw, icVars>>

----------------------------------------------------------------------------
\* Mutant of FreeActive: an active channel is freed without disabling it.
FreeActiveRunning ==
  /\ drv.pc = "free_check" /\ main = IC!Idle /\ IC!MainRuns
  /\ active[drv.ch] = 1
  /\ drv' = [drv EXCEPT !.pc = "free_lock"]
  /\ UNCHANGED <<dmaVars, container, hisr, flag, regVars, icVars>>

\* socle_free_dma: an active channel is disabled on the way.
FreeActive ==
  /\ drv.pc = "free_check" /\ main = IC!Idle /\ IC!MainRuns
  /\ active[drv.ch] = 1
  /\ drv' = [drv EXCEPT !.pc = "dis_con", !.then = "free_inactive"]
  /\ UNCHANGED <<dmaVars, container, hisr, flag, regVars, icVars>>

FreeNotActive ==
  /\ Step("free_check", "free_lock")
  /\ active[drv.ch] = 0
  /\ UNCHANGED <<dmaVars, container, hisr, flag, regVars, icVars>>

FreeInactive ==
  /\ Step("free_inactive", "free_lock")
  /\ active' = [active EXCEPT ![drv.ch] = 0]
  /\ UNCHANGED <<lock, notifier, mode, container, hisr, flag, regVars, icVars>>

\* xchg(&dma->lock, 0): the channel was free already, or is released now.
FreeFree ==
  /\ Return("free_lock")
  /\ lock[drv.ch] = 0
  /\ UNCHANGED <<dmaVars, container, hisr, flag, regVars, icVars>>

FreeLock ==
  /\ Step("free_lock", "free_notifier")
  /\ lock[drv.ch] = 1
  /\ lock' = [lock EXCEPT ![drv.ch] = 0]
  /\ UNCHANGED <<active, notifier, mode, container, hisr, flag, regVars, icVars>>

FreeNotifier ==
  /\ Step("free_notifier", "free_dma")
  /\ notifier' = [notifier EXCEPT ![drv.ch] = NULL]
  /\ UNCHANGED <<lock, active, mode, container, hisr, flag, regVars, icVars>>

\* panther7_hdma_free_irq: container.dma, container.isr, and free_irq of the
\* shared interrupt whatever the other channels do.
FreeDma ==
  /\ Step("free_dma", "free_isr")
  /\ container' = [container EXCEPT ![drv.ch].dma = FALSE]
  /\ UNCHANGED <<dmaVars, hisr, flag, regVars, icVars>>

FreeIsr ==
  /\ Step("free_isr", "free_irq")
  /\ container' = [container EXCEPT ![drv.ch].isr = FALSE]
  /\ UNCHANGED <<dmaVars, hisr, flag, regVars, icVars>>

FreeIrq ==
  /\ drv.pc = "free_irq"
  /\ drv' = [drv EXCEPT !.pc = "free_wait"]
  /\ UNCHANGED <<dmaVars, container, hisr, flag, regVars>>
  /\ IC!CallFree(Hdma)

FreeDone ==
  /\ Return("free_wait")
  /\ UNCHANGED <<dmaVars, container, hisr, flag, regVars, icVars>>

----------------------------------------------------------------------------
\* irq.c on behalf of the call in progress.
IrqCall ==
  /\ UNCHANGED <<dmaVars, container, drv, hisr, flag, regVars>>
  /\ IC!RequestStep \/ IC!FreeStep

\* irq_dispatch around the handler.
DispatchStep ==
  /\ UNCHANGED <<dmaVars, container, drv, hisr, flag, regVars>>
  /\ IC!TakeIrq(Hdma) \/ IC!NullVector \/ IC!ClearIrq

----------------------------------------------------------------------------
(***************************************************************************)
(* panther7_hdma_isr: for each container with a dma, its isr: read the     *)
(* status, clear the flags that were read (another read-modify-write), and *)
(* run the callbacks.  Through a null isr or notifier it goes wild.        *)
(***************************************************************************)
HandlerEnter ==
  /\ UNCHANGED <<dmaVars, container, drv, flag, regVars>>
  /\ IC!CallHandler
  /\ hisr' = [NoHandler EXCEPT !.at = "select"]

HandlerSkip ==
  /\ hisr.at = "select" /\ hisr.ch < NumChannels
  /\ ~container[hisr.ch].dma
  /\ hisr' = [hisr EXCEPT !.ch = @ + 1]
  /\ UNCHANGED <<dmaVars, container, drv, flag, regVars, icVars>>

HandlerChannel ==
  /\ hisr.at = "select" /\ hisr.ch < NumChannels
  /\ container[hisr.ch].dma
  /\ hisr' = [hisr EXCEPT !.at = IF container[hisr.ch].isr THEN "stat" ELSE "wild"]
  /\ UNCHANGED <<dmaVars, container, drv, flag, regVars, icVars>>

HandlerStatus ==
  /\ hisr.at = "stat"
  /\ hisr' = [hisr EXCEPT !.at = "rmw", !.stat = {e \in Event : <<hisr.ch, e>> \in act}]
  /\ UNCHANGED <<dmaVars, container, drv, flag, regVars, icVars>>

HandlerRead ==
  /\ hisr.at = "rmw"
  /\ hisr' = [hisr EXCEPT !.at = "clear", !.snap = act]
  /\ UNCHANGED <<dmaVars, container, drv, flag, regVars, icVars>>

\* Mutant of HandlerClear: the flags are not cleared.
HandlerClearKeeps ==
  /\ hisr.at = "clear"
  /\ act' = StatusAfterWrite(hisr.snap)
  /\ hisr' = [hisr EXCEPT !.at = "notify", !.snap = {}]
  /\ UNCHANGED <<dmaVars, container, drv, flag, mask, hw, icVars>>

HandlerClear ==
  /\ hisr.at = "clear"
  /\ act' = StatusAfterWrite(hisr.snap \ ({hisr.ch} \X hisr.stat))
  /\ hisr' = [hisr EXCEPT !.at = "notify", !.snap = {}]
  /\ UNCHANGED <<dmaVars, container, drv, flag, mask, hw, icVars>>

\* Whether running the callbacks goes through a null notifier.
NullNotifier == hisr.stat # {} /\ notifier[hisr.ch] = NULL

HandlerNotify ==
  /\ hisr.at = "notify"
  /\ flag' = [n \in Notifier |->
                IF n = notifier[hisr.ch] /\ hisr.stat \cap Handles[n] # {} THEN 1 ELSE flag[n]]
  /\ hisr' = IF NullNotifier THEN [hisr EXCEPT !.at = "wild"]
             ELSE [NoHandler EXCEPT !.at = "select", !.ch = hisr.ch + 1]
  /\ UNCHANGED <<dmaVars, container, drv, regVars, icVars>>

HandlerLeave ==
  /\ hisr.at = "select" /\ hisr.ch = NumChannels
  /\ hisr' = NoHandler
  /\ UNCHANGED <<dmaVars, container, drv, flag, regVars>>
  /\ IC!HandlerReturns

----------------------------------------------------------------------------
\* The engine: a started channel ends its transfer, with the flag its mode
\* has; in slice mode it may then overrun, which the model lets it report
\* once per transfer.
DoneEvent(c) == IF mode[c] = "sw" THEN "int" ELSE "page"

Complete(c) ==
  /\ hw[c] = "running"
  /\ hw' = [hw EXCEPT ![c] = "done"]
  /\ act' = act \cup {<<c, DoneEvent(c)>>}
  /\ UNCHANGED <<dmaVars, container, drv, hisr, flag, mask, icVars>>

Overflow(c) ==
  /\ hw[c] = "done" /\ mode[c] = "slice"
  /\ hw' = [hw EXCEPT ![c] = "overrun"]
  /\ act' = act \cup {<<c, "ovf">>}
  /\ UNCHANGED <<dmaVars, container, drv, hisr, flag, mask, icVars>>

Finished(c) == hw[c] \in {"done", "overrun"}

----------------------------------------------------------------------------
RequestStep == \/ RequestBusy \/ RequestLock \/ RequestInit \/ RequestDma
               \/ RequestIsr \/ RequestIrq \/ RequestDone
EnableStep == EnableRefused \/ EnableActive \/ EnableRead \/ EnableUnmask \/ EnableCon
DisableStep == \/ DisableRefused \/ DisableInactive \/ DisableCon
               \/ DisableRead \/ DisableClear \/ DisableReread \/ DisableMask
FreeStep == \/ FreeActive \/ FreeNotActive \/ FreeInactive \/ FreeFree \/ FreeLock
            \/ FreeNotifier \/ FreeDma \/ FreeIsr \/ FreeIrq \/ FreeDone
ServiceStep == RequestStep \/ EnableStep \/ DisableStep \/ FreeStep \/ IrqCall
HandlerStep == \/ DispatchStep \/ HandlerEnter \/ HandlerSkip \/ HandlerChannel
               \/ HandlerStatus \/ HandlerRead \/ HandlerClear \/ HandlerNotify
               \/ HandlerLeave
Engine == \E c \in Channel : Complete(c) \/ Overflow(c)

\* Any driver: it requests channels while no channel is active, as all
\* drivers of this firmware do, and is otherwise free to call what it likes.
Quiet == \A c \in Channel : active[c] = 0
Client == \E c \in Channel :
            \/ \E n \in Notifier : Quiet /\ socle_request_dma(c, n)
            \/ socle_free_dma(c)
            \/ socle_enable_dma(c)
            \/ socle_disable_dma(c)
            \/ \E m \in Mode : active[c] = 0 /\ socle_set_dma_mode(c, m)

Next == Client \/ ServiceStep \/ HandlerStep \/ Engine
Spec == Init /\ [][Next]_vars

----------------------------------------------------------------------------
\* The shared handler never calls through a null isr (panther7-hdma.c:418) or
\* dereferences a null notifier (panther7-hdma.c:299), although free clears
\* the notifier while the handler is still registered.
NoWildCall == hisr.at # "wild"

\* A channel nobody holds is silent: the engine is off for it, it has no flag
\* set and no container, so an interrupt of another channel passes it by.
FreeChannelSilent ==
  drv = NoCall => \A c \in Channel : lock[c] = 0 =>
     /\ hw[c] = "off" /\ ~container[c].dma /\ act \cap Flags(c) = {}
=============================================================================
