------------------------- MODULE Panther7Hdma_proofs -------------------------
(***************************************************************************)
(* Safety of the channel service over the Panther7 HDMA driver, for every  *)
(* number of channels, every set of notifiers and every set of callbacks.  *)
(*                                                                         *)
(* The argument: a channel that is not active has been stopped and has no  *)
(* flag in the status register, so whatever the shared handler finds set   *)
(* belongs to a channel that is held, and a held channel has its notifier. *)
(* One lemma per conjunct of the invariant, one case per group of actions. *)
(***************************************************************************)
EXTENDS Panther7Hdma, TLAPS

ReqPc  == {"req_lock", "req_init", "req_dma", "req_isr", "req_irq", "req_wait"}
EnPc   == {"en_read", "en_unmask", "en_con"}
DisPc  == {"dis_con", "dis_read", "dis_clear", "dis_reread", "dis_mask"}
OffPc  == {"dis_read", "dis_clear", "dis_reread", "dis_mask", "free_inactive"}
CleanPc == {"dis_reread", "dis_mask", "free_inactive"}
GonePc == {"free_lock", "free_notifier", "free_dma", "free_isr", "free_irq", "free_wait"}

\* The call frames of irq.c: the main program's and the exception's.
FramesOK ==
  /\ main \in {IC!Idle} \cup [pc: IC!RequestPc, irq: {Hdma}, routine: {panther7_hdma_isr}, param: Channel]
                        \cup [pc: IC!FreePc, irq: {Hdma}, routine: {NULL}, param: {NULL}]
  /\ isr \in {IC!NoIsr} \cup [at: {"lookup", "run", "iccr"}, irq: {Hdma}]

\* panther7_hdma_isr runs inside irq_dispatch, on a channel unless between two.
HandlerRuns ==
  /\ hisr.at # "none" => isr.at = "run"
  /\ hisr.at \in {"stat", "rmw", "clear", "notify"} => hisr.ch \in Channel

\* A channel is requested only while none is active, so no exception is running.
RequestQuiet == drv.pc \in ReqPc => Quiet /\ isr = IC!NoIsr /\ drv.ntf # NULL

\* Which calls hold the channel they work on, and how far its stop has come.
CallPhase ==
  /\ \A c \in Channel : active[c] = 1 => lock[c] = 1
  /\ drv.pc \in DisPc \cup (ReqPc \ {"req_lock"}) => lock[drv.ch] = 1
  /\ drv.pc \in EnPc => active[drv.ch] = 1
  /\ drv.pc \in GonePc => active[drv.ch] = 0
  /\ drv.pc \in GonePc \ {"free_lock"} => lock[drv.ch] = 0
  /\ drv.pc \in OffPc => hw[drv.ch] = "off"
  /\ drv.pc \in CleanPc => \A e \in Event : <<drv.ch, e>> \notin act

\* An inactive channel is off and has no flag, once its disable has got there.
InactiveStopped ==
  \A c \in Channel : active[c] = 0 =>
     \/ drv.ch = c /\ drv.pc \in {"dis_con", "dis_read", "dis_clear"}
     \/ hw[c] = "off" /\ \A e \in Event : <<c, e>> \notin act

\* A held channel has a notifier, once its request has stored it.
HeldNotifier ==
  \A c \in Channel : lock[c] = 1 => notifier[c] # NULL \/ (drv.ch = c /\ drv.pc = "req_init")

\* A container names its dma only together with its isr, and while it is held.
ContainerOwned ==
  \A c \in Channel : container[c].dma =>
     /\ container[c].isr \/ (drv.ch = c /\ drv.pc = "req_isr")
     /\ lock[c] = 1 \/ (drv.ch = c /\ drv.pc \in {"free_notifier", "free_dma"})

\* What the handler has read belongs to a channel with a notifier.
HandlerReports == hisr.at \in {"rmw", "clear", "notify"} /\ hisr.stat # {} => notifier[hisr.ch] # NULL

IInv == /\ TypeOK /\ FramesOK /\ HandlerRuns /\ RequestQuiet /\ CallPhase /\ InactiveStopped
        /\ HeldNotifier /\ ContainerOwned /\ HandlerReports /\ NoWildCall

\* The abbreviations every step below looks through.
USE HdmaAssumption
    DEF Mode, Event, NoCall, NoHandler, Quiet, dmaVars, regVars, icVars,
        Step, Return, Call, StatusAfterWrite, Flags,
        IC!MainRuns, IC!Idle, IC!NoIsr, IC!At, IC!table, IC!chip, IC!world,
        DrvPc, ReqPc, EnPc, DisPc, OffPc, CleanPc, GonePc, IC!RequestPc, IC!FreePc

LEMMA InitIInv == Init => IInv
<1> SUFFICES ASSUME Init PROVE IInv
  OBVIOUS
<1> USE DEF Init, Channel
<1>1. TypeOK  BY DEF TypeOK
<1>2. FramesOK /\ HandlerRuns /\ HandlerReports /\ NoWildCall
  BY DEF FramesOK, HandlerRuns, HandlerReports, NoWildCall
<1>3. RequestQuiet /\ CallPhase  BY DEF RequestQuiet, CallPhase
<1>4. InactiveStopped /\ HeldNotifier /\ ContainerOwned
  BY DEF InactiveStopped, HeldNotifier, ContainerOwned
<1>. QED  BY <1>1, <1>2, <1>3, <1>4 DEF IInv

\* A channel with a flag set has a notifier: its user still holds it.
LEMMA FlagNotified ==
  ASSUME IInv, NEW c \in Channel, NEW e \in Event, <<c, e>> \in act
  PROVE  notifier[c] # NULL
<1>1. active[c] = 1 \/ (drv.ch = c /\ drv.pc \in DisPc)
  BY DEF IInv, InactiveStopped, TypeOK
<1>2. lock[c] = 1 /\ (drv.pc # "req_init" \/ active[c] = 1)
  BY <1>1 DEF IInv, CallPhase
<1>. QED  BY <1>2 DEF IInv, HeldNotifier, RequestQuiet

\* No channel has a flag set while one is being requested.
LEMMA RequestSilent == IInv /\ drv.pc \in ReqPc => act = {}
<1> SUFFICES ASSUME IInv, drv.pc \in ReqPc, NEW f \in act PROVE FALSE
  OBVIOUS
<1>1. PICK c \in Channel, e \in Event : f = <<c, e>>  BY DEF IInv, TypeOK
<1>2. active[c] = 0  BY <1>1 DEF IInv, RequestQuiet
<1>. QED  BY <1>1, <1>2 DEF IInv, InactiveStopped

\* Storing one field of a container keeps its type.
LEMMA ContainerStore ==
  ASSUME NEW k \in [Channel -> [dma: BOOLEAN, isr: BOOLEAN]], NEW c \in Channel, NEW b \in BOOLEAN
  PROVE  /\ [k EXCEPT ![c].dma = b] \in [Channel -> [dma: BOOLEAN, isr: BOOLEAN]]
         /\ [k EXCEPT ![c].isr = b] \in [Channel -> [dma: BOOLEAN, isr: BOOLEAN]]
<1>1. [k[c] EXCEPT !.dma = b] \in [dma: BOOLEAN, isr: BOOLEAN]  OBVIOUS
<1>2. [k[c] EXCEPT !.isr = b] \in [dma: BOOLEAN, isr: BOOLEAN]  OBVIOUS
<1>3. [k EXCEPT ![c] = [k[c] EXCEPT !.dma = b]] \in [Channel -> [dma: BOOLEAN, isr: BOOLEAN]]
  BY <1>1
<1>4. [k EXCEPT ![c] = [k[c] EXCEPT !.isr = b]] \in [Channel -> [dma: BOOLEAN, isr: BOOLEAN]]
  BY <1>2
<1>. QED  BY <1>3, <1>4

\* Starting a service call keeps the types.
LEMMA CallTyped ==
  ASSUME TypeOK, NEW to \in DrvPc, NEW c \in Channel, NEW n \in Notifier \cup {NULL}, Call(to, c, n)
  PROVE  TypeOK'
<1>1. drv' = [pc |-> to, ch |-> c, ntf |-> n, then |-> "idle", snap |-> {}]  OBVIOUS
<1>2. drv' \in [pc: DrvPc, ch: Channel, ntf: Notifier \cup {NULL},
                then: {"idle", "free_inactive"}, snap: SUBSET (Channel \X Event)]
  BY <1>1
<1>. QED  BY <1>2 DEF TypeOK

LEMMA TypeOKStep == IInv /\ [Next]_vars => TypeOK'
<1> SUFFICES ASSUME IInv, [Next]_vars PROVE TypeOK'
  OBVIOUS
<1> USE DEF IInv, TypeOK, FramesOK, HandlerRuns
<1>0. 0 \in Channel /\ \A n \in Channel : n + 1 \in 0 .. NumChannels  BY DEF Channel
<1> USE <1>0
<1>1. CASE Client
  <2> PICK c \in Channel : \/ \E n \in Notifier : Quiet /\ socle_request_dma(c, n)
                           \/ socle_free_dma(c)
                           \/ socle_enable_dma(c)
                           \/ socle_disable_dma(c)
                           \/ \E m \in Mode : active[c] = 0 /\ socle_set_dma_mode(c, m)
    BY <1>1 DEF Client
  <2>1. CASE \E n \in Notifier : Quiet /\ socle_request_dma(c, n)
    <3> PICK n \in Notifier : socle_request_dma(c, n)  BY <2>1
    <3>. QED  BY CallTyped DEF socle_request_dma
  <2>2. CASE socle_free_dma(c)  BY <2>2, CallTyped DEF socle_free_dma
  <2>3. CASE socle_enable_dma(c)  BY <2>3, CallTyped DEF socle_enable_dma
  <2>4. CASE socle_disable_dma(c)  BY <2>4, CallTyped DEF socle_disable_dma
  <2>5. CASE \E m \in Mode : active[c] = 0 /\ socle_set_dma_mode(c, m)
    BY <2>5 DEF socle_set_dma_mode
  <2>. QED  BY <2>1, <2>2, <2>3, <2>4, <2>5
<1>2. CASE RequestStep
  <2>1. CASE RequestBusy  BY <2>1 DEF RequestBusy
  <2>2. CASE RequestLock  BY <2>2 DEF RequestLock
  <2>3. CASE RequestInit  BY <2>3 DEF RequestInit
  <2>4. CASE RequestDma
    <3>1. drv.ch \in Channel /\ drv' = [drv EXCEPT !.pc = drv'.pc] /\ drv'.pc \in DrvPc
      BY <2>4 DEF RequestDma
    <3>2. container' = [container EXCEPT ![drv.ch].dma = TRUE]  BY <2>4 DEF RequestDma
    <3>3. container' \in [Channel -> [dma: BOOLEAN, isr: BOOLEAN]]  BY <3>1, <3>2, ContainerStore DEF TypeOK
    <3>. QED  BY <2>4, <3>1, <3>3 DEF RequestDma
  <2>5. CASE RequestIsr
    <3>1. drv.ch \in Channel /\ drv' = [drv EXCEPT !.pc = drv'.pc] /\ drv'.pc \in DrvPc
      BY <2>5 DEF RequestIsr
    <3>2. container' = [container EXCEPT ![drv.ch].isr = TRUE]  BY <2>5 DEF RequestIsr
    <3>3. container' \in [Channel -> [dma: BOOLEAN, isr: BOOLEAN]]  BY <3>1, <3>2, ContainerStore DEF TypeOK
    <3>. QED  BY <2>5, <3>1, <3>3 DEF RequestIsr
  <2>6. CASE RequestIrq  BY <2>6 DEF RequestIrq, IC!CallRequest
  <2>7. CASE RequestDone  BY <2>7 DEF RequestDone
  <2>. QED  BY <1>2, <2>1, <2>2, <2>3, <2>4, <2>5, <2>6, <2>7 DEF RequestStep
<1>3. CASE EnableStep
  <2>1. CASE EnableRefused  BY <2>1 DEF EnableRefused
  <2>2. CASE EnableActive  BY <2>2 DEF EnableActive
  <2>3. CASE EnableRead  BY <2>3 DEF EnableRead
  <2>4. CASE EnableUnmask  BY <2>4 DEF EnableUnmask
  <2>5. CASE EnableCon  BY <2>5 DEF EnableCon
  <2>. QED  BY <1>3, <2>1, <2>2, <2>3, <2>4, <2>5 DEF EnableStep
<1>4. CASE DisableStep
  <2>1. CASE DisableRefused  BY <2>1 DEF DisableRefused
  <2>2. CASE DisableInactive  BY <2>2 DEF DisableInactive
  <2>3. CASE DisableCon  BY <2>3 DEF DisableCon
  <2>4. CASE DisableRead  BY <2>4 DEF DisableRead
  <2>5. CASE DisableClear  BY <2>5 DEF DisableClear
  <2>6. CASE DisableReread  BY <2>6 DEF DisableReread
  <2>7. CASE DisableMask  BY <2>7 DEF DisableMask
  <2>. QED  BY <1>4, <2>1, <2>2, <2>3, <2>4, <2>5, <2>6, <2>7 DEF DisableStep
<1>5. CASE FreeStep
  <2>1. CASE FreeActive  BY <2>1 DEF FreeActive
  <2>2. CASE FreeNotActive  BY <2>2 DEF FreeNotActive
  <2>3. CASE FreeInactive  BY <2>3 DEF FreeInactive
  <2>4. CASE FreeFree  BY <2>4 DEF FreeFree
  <2>5. CASE FreeLock  BY <2>5 DEF FreeLock
  <2>6. CASE FreeNotifier  BY <2>6 DEF FreeNotifier
  <2>7. CASE FreeDma
    <3>1. drv.ch \in Channel /\ drv' = [drv EXCEPT !.pc = drv'.pc] /\ drv'.pc \in DrvPc
      BY <2>7 DEF FreeDma
    <3>2. container' = [container EXCEPT ![drv.ch].dma = FALSE]  BY <2>7 DEF FreeDma
    <3>3. container' \in [Channel -> [dma: BOOLEAN, isr: BOOLEAN]]  BY <3>1, <3>2, ContainerStore DEF TypeOK
    <3>. QED  BY <2>7, <3>1, <3>3 DEF FreeDma
  <2>8. CASE FreeIsr
    <3>1. drv.ch \in Channel /\ drv' = [drv EXCEPT !.pc = drv'.pc] /\ drv'.pc \in DrvPc
      BY <2>8 DEF FreeIsr
    <3>2. container' = [container EXCEPT ![drv.ch].isr = FALSE]  BY <2>8 DEF FreeIsr
    <3>3. container' \in [Channel -> [dma: BOOLEAN, isr: BOOLEAN]]  BY <3>1, <3>2, ContainerStore DEF TypeOK
    <3>. QED  BY <2>8, <3>1, <3>3 DEF FreeIsr
  <2>9. CASE FreeIrq  BY <2>9 DEF FreeIrq, IC!CallFree
  <2>10. CASE FreeDone  BY <2>10 DEF FreeDone
  <2>. QED  BY <1>5, <2>1, <2>2, <2>3, <2>4, <2>5, <2>6, <2>7, <2>8, <2>9, <2>10 DEF FreeStep
<1>6. CASE IrqCall
  BY <1>6 DEF IrqCall, IC!RequestStep, IC!FreeStep, IC!RequestVec, IC!RequestPparam,
      IC!RequestIecr, IC!RequestImr, IC!FreeVec, IC!FreePparam, IC!FreeIecr, IC!FreeImr
<1>7. CASE DispatchStep
  BY <1>7 DEF DispatchStep, IC!TakeIrq, IC!NullVector, IC!ClearIrq, IC!Pending, HdmaLine
<1>8. CASE HandlerStep /\ ~DispatchStep
  <2>1. CASE HandlerEnter  BY <2>1 DEF HandlerEnter, IC!CallHandler
  <2>2. CASE HandlerSkip
    <3>1. hisr.ch + 1 \in 0 .. NumChannels  BY <2>2 DEF HandlerSkip
    <3>. QED  BY <2>2, <3>1 DEF HandlerSkip
  <2>3. CASE HandlerChannel  BY <2>3 DEF HandlerChannel
  <2>4. CASE HandlerStatus  BY <2>4 DEF HandlerStatus
  <2>5. CASE HandlerRead  BY <2>5 DEF HandlerRead
  <2>6. CASE HandlerClear  BY <2>6 DEF HandlerClear
  <2>7. CASE HandlerNotify  BY <2>7 DEF HandlerNotify, NullNotifier
  <2>8. CASE HandlerLeave  BY <2>8 DEF HandlerLeave, IC!HandlerReturns
  <2>. QED  BY <1>8, <2>1, <2>2, <2>3, <2>4, <2>5, <2>6, <2>7, <2>8 DEF HandlerStep
<1>9. CASE Engine
  <2> PICK c \in Channel : Complete(c) \/ Overflow(c)  BY <1>9 DEF Engine
  <2>1. CASE Complete(c)  BY <2>1 DEF Complete, DoneEvent
  <2>2. CASE Overflow(c)  BY <2>2 DEF Overflow
  <2>. QED  BY <2>1, <2>2
<1>10. CASE UNCHANGED vars
  BY <1>10 DEF vars
<1>. QED  BY <1>1, <1>2, <1>3, <1>4, <1>5, <1>6, <1>7, <1>8, <1>9, <1>10 DEF Next, ServiceStep, HandlerStep

LEMMA FramesOKStep == IInv /\ [Next]_vars => FramesOK'
<1> SUFFICES ASSUME IInv, [Next]_vars PROVE FramesOK'
  OBVIOUS
<1> USE DEF IInv, FramesOK, HandlerRuns
<1>1. CASE Client
  BY <1>1 DEF Client, socle_request_dma, socle_free_dma, socle_enable_dma, socle_disable_dma,
      socle_set_dma_mode
<1>2. CASE RequestStep
  <2>1. CASE RequestBusy  BY <2>1 DEF RequestBusy
  <2>2. CASE RequestLock  BY <2>2 DEF RequestLock
  <2>3. CASE RequestInit  BY <2>3 DEF RequestInit
  <2>4. CASE RequestDma  BY <2>4 DEF RequestDma
  <2>5. CASE RequestIsr  BY <2>5 DEF RequestIsr
  <2>6. CASE RequestIrq
    <3>1. drv.ch \in Channel  BY DEF TypeOK
    <3>. QED  BY <2>6, <3>1 DEF RequestIrq, IC!CallRequest
  <2>7. CASE RequestDone  BY <2>7 DEF RequestDone
  <2>. QED  BY <1>2, <2>1, <2>2, <2>3, <2>4, <2>5, <2>6, <2>7 DEF RequestStep
<1>3. CASE EnableStep
  BY <1>3 DEF EnableStep, EnableRefused, EnableActive, EnableRead, EnableUnmask, EnableCon
<1>4. CASE DisableStep
  BY <1>4 DEF DisableStep, DisableRefused, DisableInactive, DisableCon, DisableRead,
      DisableClear, DisableReread, DisableMask
<1>5. CASE FreeStep
  BY <1>5 DEF FreeStep, FreeActive, FreeNotActive, FreeInactive, FreeFree, FreeLock,
      FreeNotifier, FreeDma, FreeIsr, FreeIrq, FreeDone, IC!CallFree
<1>6. CASE IrqCall
  BY <1>6 DEF IrqCall, IC!RequestStep, IC!FreeStep, IC!RequestVec, IC!RequestPparam,
      IC!RequestIecr, IC!RequestImr, IC!FreeVec, IC!FreePparam, IC!FreeIecr, IC!FreeImr
<1>7. CASE DispatchStep
  BY <1>7 DEF DispatchStep, IC!TakeIrq, IC!NullVector, IC!ClearIrq, IC!Pending, HdmaLine
<1>8. CASE HandlerStep /\ ~DispatchStep
  BY <1>8 DEF HandlerStep, HandlerEnter, HandlerSkip, HandlerChannel, HandlerStatus, HandlerRead,
      HandlerClear, HandlerNotify, HandlerLeave, NullNotifier, IC!CallHandler, IC!HandlerReturns
<1>9. CASE Engine
  BY <1>9 DEF Engine, Complete, Overflow, DoneEvent
<1>10. CASE UNCHANGED vars
  BY <1>10 DEF vars
<1>. QED  BY <1>1, <1>2, <1>3, <1>4, <1>5, <1>6, <1>7, <1>8, <1>9, <1>10 DEF Next, ServiceStep, HandlerStep

LEMMA HandlerRunsStep == IInv /\ [Next]_vars => HandlerRuns'
<1> SUFFICES ASSUME IInv, [Next]_vars PROVE HandlerRuns'
  OBVIOUS
<1> USE DEF IInv, HandlerRuns, FramesOK, TypeOK
<1>1. CASE Client
  BY <1>1 DEF Client, socle_request_dma, socle_free_dma, socle_enable_dma, socle_disable_dma,
      socle_set_dma_mode
<1>2. CASE RequestStep
  BY <1>2 DEF RequestStep, RequestBusy, RequestLock, RequestInit, RequestDma, RequestIsr,
      RequestIrq, RequestDone, IC!CallRequest
<1>3. CASE EnableStep
  BY <1>3 DEF EnableStep, EnableRefused, EnableActive, EnableRead, EnableUnmask, EnableCon
<1>4. CASE DisableStep
  BY <1>4 DEF DisableStep, DisableRefused, DisableInactive, DisableCon, DisableRead,
      DisableClear, DisableReread, DisableMask
<1>5. CASE FreeStep
  BY <1>5 DEF FreeStep, FreeActive, FreeNotActive, FreeInactive, FreeFree, FreeLock,
      FreeNotifier, FreeDma, FreeIsr, FreeIrq, FreeDone, IC!CallFree
<1>6. CASE IrqCall
  BY <1>6 DEF IrqCall, IC!RequestStep, IC!FreeStep, IC!RequestVec, IC!RequestPparam,
      IC!RequestIecr, IC!RequestImr, IC!FreeVec, IC!FreePparam, IC!FreeIecr, IC!FreeImr
<1>7. CASE DispatchStep
  BY <1>7 DEF DispatchStep, IC!TakeIrq, IC!NullVector, IC!ClearIrq, IC!Pending, HdmaLine
<1>8. CASE HandlerStep /\ ~DispatchStep
  <2>1. CASE HandlerEnter  BY <2>1 DEF HandlerEnter, IC!CallHandler
  <2>2. CASE HandlerSkip  BY <2>2 DEF HandlerSkip
  <2>3. CASE HandlerChannel  BY <2>3 DEF HandlerChannel, Channel
  <2>4. CASE HandlerStatus  BY <2>4 DEF HandlerStatus
  <2>5. CASE HandlerRead  BY <2>5 DEF HandlerRead
  <2>6. CASE HandlerClear  BY <2>6 DEF HandlerClear
  <2>7. CASE HandlerNotify  BY <2>7 DEF HandlerNotify, NullNotifier
  <2>8. CASE HandlerLeave  BY <2>8 DEF HandlerLeave, IC!HandlerReturns
  <2>. QED  BY <1>8, <2>1, <2>2, <2>3, <2>4, <2>5, <2>6, <2>7, <2>8 DEF HandlerStep
<1>9. CASE Engine
  BY <1>9 DEF Engine, Complete, Overflow, DoneEvent
<1>10. CASE UNCHANGED vars
  BY <1>10 DEF vars
<1>. QED  BY <1>1, <1>2, <1>3, <1>4, <1>5, <1>6, <1>7, <1>8, <1>9, <1>10 DEF Next, ServiceStep, HandlerStep

LEMMA RequestQuietStep == IInv /\ [Next]_vars => RequestQuiet'
<1> SUFFICES ASSUME IInv, [Next]_vars PROVE RequestQuiet'
  OBVIOUS
<1> USE DEF IInv, RequestQuiet, InactiveStopped, TypeOK, FramesOK, HandlerRuns
<1>1. CASE Client
  <2> PICK c \in Channel : \/ \E n \in Notifier : Quiet /\ socle_request_dma(c, n)
                           \/ socle_free_dma(c)
                           \/ socle_enable_dma(c)
                           \/ socle_disable_dma(c)
                           \/ \E m \in Mode : active[c] = 0 /\ socle_set_dma_mode(c, m)
    BY <1>1 DEF Client
  <2>1. CASE \E n \in Notifier : Quiet /\ socle_request_dma(c, n)
    <3> PICK n \in Notifier : Quiet /\ socle_request_dma(c, n)  BY <2>1
    <3>. QED  BY DEF socle_request_dma
  <2>2. CASE socle_free_dma(c)  BY <2>2 DEF socle_free_dma
  <2>3. CASE socle_enable_dma(c)  BY <2>3 DEF socle_enable_dma
  <2>4. CASE socle_disable_dma(c)  BY <2>4 DEF socle_disable_dma
  <2>5. CASE \E m \in Mode : active[c] = 0 /\ socle_set_dma_mode(c, m)
    BY <2>5 DEF socle_set_dma_mode
  <2>. QED  BY <2>1, <2>2, <2>3, <2>4, <2>5
<1>2. CASE RequestStep
  BY <1>2 DEF RequestStep, RequestBusy, RequestLock, RequestInit, RequestDma, RequestIsr,
      RequestIrq, RequestDone, IC!CallRequest
<1>3. CASE EnableStep
  <2>1. CASE EnableRefused  BY <2>1 DEF EnableRefused
  <2>2. CASE EnableActive  BY <2>2 DEF EnableActive
  <2>3. CASE EnableRead  BY <2>3 DEF EnableRead
  <2>4. CASE EnableUnmask  BY <2>4 DEF EnableUnmask
  <2>5. CASE EnableCon  BY <2>5 DEF EnableCon
  <2>. QED  BY <1>3, <2>1, <2>2, <2>3, <2>4, <2>5 DEF EnableStep
<1>4. CASE DisableStep
  <2>1. CASE DisableRefused  BY <2>1 DEF DisableRefused
  <2>2. CASE DisableInactive  BY <2>2 DEF DisableInactive
  <2>3. CASE DisableCon  BY <2>3 DEF DisableCon
  <2>4. CASE DisableRead  BY <2>4 DEF DisableRead
  <2>5. CASE DisableClear  BY <2>5 DEF DisableClear
  <2>6. CASE DisableReread  BY <2>6 DEF DisableReread
  <2>7. CASE DisableMask  BY <2>7 DEF DisableMask
  <2>. QED  BY <1>4, <2>1, <2>2, <2>3, <2>4, <2>5, <2>6, <2>7 DEF DisableStep
<1>5. CASE FreeStep
  <2>1. CASE FreeActive  BY <2>1 DEF FreeActive
  <2>2. CASE FreeNotActive  BY <2>2 DEF FreeNotActive
  <2>3. CASE FreeInactive  BY <2>3 DEF FreeInactive
  <2>4. CASE FreeFree  BY <2>4 DEF FreeFree
  <2>5. CASE FreeLock  BY <2>5 DEF FreeLock
  <2>6. CASE FreeNotifier  BY <2>6 DEF FreeNotifier
  <2>7. CASE FreeDma  BY <2>7 DEF FreeDma
  <2>8. CASE FreeIsr  BY <2>8 DEF FreeIsr
  <2>9. CASE FreeIrq  BY <2>9 DEF FreeIrq, IC!CallFree
  <2>10. CASE FreeDone  BY <2>10 DEF FreeDone
  <2>. QED  BY <1>5, <2>1, <2>2, <2>3, <2>4, <2>5, <2>6, <2>7, <2>8, <2>9, <2>10 DEF FreeStep
<1>6. CASE IrqCall
  BY <1>6 DEF IrqCall, IC!RequestStep, IC!FreeStep, IC!RequestVec, IC!RequestPparam,
      IC!RequestIecr, IC!RequestImr, IC!FreeVec, IC!FreePparam, IC!FreeIecr, IC!FreeImr
<1>7. CASE DispatchStep
  <2>1. CASE IC!TakeIrq(Hdma)
    <3>1. act # {}  BY <2>1 DEF IC!TakeIrq, IC!Pending, HdmaLine
    <3>2. drv.pc \notin ReqPc  BY <3>1, RequestSilent
    <3>. QED  BY <1>7, <3>2 DEF DispatchStep
  <2>2. CASE IC!NullVector  BY <1>7, <2>2 DEF DispatchStep, IC!NullVector
  <2>3. CASE IC!ClearIrq  BY <1>7, <2>3 DEF DispatchStep, IC!ClearIrq
  <2>. QED  BY <1>7, <2>1, <2>2, <2>3 DEF DispatchStep
<1>8. CASE HandlerStep /\ ~DispatchStep
  BY <1>8 DEF HandlerStep, HandlerEnter, HandlerSkip, HandlerChannel, HandlerStatus, HandlerRead,
      HandlerClear, HandlerNotify, HandlerLeave, NullNotifier, IC!CallHandler, IC!HandlerReturns
<1>9. CASE Engine
  BY <1>9 DEF Engine, Complete, Overflow, DoneEvent
<1>10. CASE UNCHANGED vars
  BY <1>10 DEF vars
<1>. QED  BY <1>1, <1>2, <1>3, <1>4, <1>5, <1>6, <1>7, <1>8, <1>9, <1>10 DEF Next, ServiceStep, HandlerStep

LEMMA CallPhaseStep == IInv /\ [Next]_vars => CallPhase'
<1> SUFFICES ASSUME IInv, [Next]_vars PROVE CallPhase'
  OBVIOUS
<1> USE DEF IInv, CallPhase, TypeOK, InactiveStopped
<1>1. CASE Client
  <2> PICK c \in Channel : \/ \E n \in Notifier : Quiet /\ socle_request_dma(c, n)
                           \/ socle_free_dma(c)
                           \/ socle_enable_dma(c)
                           \/ socle_disable_dma(c)
                           \/ \E m \in Mode : active[c] = 0 /\ socle_set_dma_mode(c, m)
    BY <1>1 DEF Client
  <2>1. CASE \E n \in Notifier : Quiet /\ socle_request_dma(c, n)
    <3>1. drv'.pc = "req_lock" /\ UNCHANGED <<lock, active>>  BY <2>1 DEF socle_request_dma
    <3>. QED  BY <3>1
  <2>2. CASE socle_free_dma(c)  BY <2>2 DEF socle_free_dma
  <2>3. CASE socle_enable_dma(c)  BY <2>3 DEF socle_enable_dma
  <2>4. CASE socle_disable_dma(c)  BY <2>4 DEF socle_disable_dma
  <2>5. CASE \E m \in Mode : active[c] = 0 /\ socle_set_dma_mode(c, m)
    BY <2>5 DEF socle_set_dma_mode
  <2>. QED  BY <2>1, <2>2, <2>3, <2>4, <2>5
<1>2. CASE RequestStep
  <2>1. CASE RequestBusy  BY <2>1 DEF RequestBusy
  <2>2. CASE RequestLock  BY <2>2 DEF RequestLock
  <2>3. CASE RequestInit  BY <2>3 DEF RequestInit
  <2>4. CASE RequestDma  BY <2>4 DEF RequestDma
  <2>5. CASE RequestIsr  BY <2>5 DEF RequestIsr
  <2>6. CASE RequestIrq  BY <2>6 DEF RequestIrq, IC!CallRequest
  <2>7. CASE RequestDone  BY <2>7 DEF RequestDone
  <2>. QED  BY <1>2, <2>1, <2>2, <2>3, <2>4, <2>5, <2>6, <2>7 DEF RequestStep
<1>3. CASE EnableStep
  <2>1. CASE EnableRefused  BY <2>1 DEF EnableRefused
  <2>2. CASE EnableActive  BY <2>2 DEF EnableActive
  <2>3. CASE EnableRead  BY <2>3 DEF EnableRead
  <2>4. CASE EnableUnmask  BY <2>4 DEF EnableUnmask
  <2>5. CASE EnableCon  BY <2>5 DEF EnableCon
  <2>. QED  BY <1>3, <2>1, <2>2, <2>3, <2>4, <2>5 DEF EnableStep
<1>4. CASE DisableStep
  <2>1. CASE DisableRefused  BY <2>1 DEF DisableRefused
  <2>2. CASE DisableInactive  BY <2>2 DEF DisableInactive
  <2>3. CASE DisableCon  BY <2>3 DEF DisableCon
  <2>4. CASE DisableRead  BY <2>4 DEF DisableRead
  <2>5. CASE DisableClear  BY <2>5 DEF DisableClear
  <2>6. CASE DisableReread  BY <2>6 DEF DisableReread
  <2>7. CASE DisableMask  BY <2>7 DEF DisableMask
  <2>. QED  BY <1>4, <2>1, <2>2, <2>3, <2>4, <2>5, <2>6, <2>7 DEF DisableStep
<1>5. CASE FreeStep
  <2>1. CASE FreeActive  BY <2>1 DEF FreeActive
  <2>2. CASE FreeNotActive  BY <2>2 DEF FreeNotActive
  <2>3. CASE FreeInactive  BY <2>3 DEF FreeInactive
  <2>4. CASE FreeFree  BY <2>4 DEF FreeFree
  <2>5. CASE FreeLock  BY <2>5 DEF FreeLock
  <2>6. CASE FreeNotifier  BY <2>6 DEF FreeNotifier
  <2>7. CASE FreeDma  BY <2>7 DEF FreeDma
  <2>8. CASE FreeIsr  BY <2>8 DEF FreeIsr
  <2>9. CASE FreeIrq  BY <2>9 DEF FreeIrq, IC!CallFree
  <2>10. CASE FreeDone  BY <2>10 DEF FreeDone
  <2>. QED  BY <1>5, <2>1, <2>2, <2>3, <2>4, <2>5, <2>6, <2>7, <2>8, <2>9, <2>10 DEF FreeStep
<1>6. CASE IrqCall
  BY <1>6 DEF IrqCall, IC!RequestStep, IC!FreeStep, IC!RequestVec, IC!RequestPparam,
      IC!RequestIecr, IC!RequestImr, IC!FreeVec, IC!FreePparam, IC!FreeIecr, IC!FreeImr
<1>7. CASE DispatchStep
  BY <1>7 DEF DispatchStep, IC!TakeIrq, IC!NullVector, IC!ClearIrq, IC!Pending, HdmaLine
<1>8. CASE HandlerStep /\ ~DispatchStep
  <2>1. CASE HandlerEnter  BY <2>1 DEF HandlerEnter, IC!CallHandler
  <2>2. CASE HandlerSkip  BY <2>2 DEF HandlerSkip
  <2>3. CASE HandlerChannel  BY <2>3 DEF HandlerChannel
  <2>4. CASE HandlerStatus  BY <2>4 DEF HandlerStatus
  <2>5. CASE HandlerRead  BY <2>5 DEF HandlerRead
  <2>6. CASE HandlerClear  BY <2>6 DEF HandlerClear
  <2>7. CASE HandlerNotify  BY <2>7 DEF HandlerNotify, NullNotifier
  <2>8. CASE HandlerLeave  BY <2>8 DEF HandlerLeave, IC!HandlerReturns
  <2>. QED  BY <1>8, <2>1, <2>2, <2>3, <2>4, <2>5, <2>6, <2>7, <2>8 DEF HandlerStep
<1>9. CASE Engine
  <2> PICK c \in Channel : Complete(c) \/ Overflow(c)  BY <1>9 DEF Engine
  <2>1. CASE Complete(c)  BY <2>1 DEF Complete, DoneEvent
  <2>2. CASE Overflow(c)  BY <2>2 DEF Overflow
  <2>. QED  BY <2>1, <2>2
<1>10. CASE UNCHANGED vars
  BY <1>10 DEF vars
<1>. QED  BY <1>1, <1>2, <1>3, <1>4, <1>5, <1>6, <1>7, <1>8, <1>9, <1>10 DEF Next, ServiceStep, HandlerStep

LEMMA InactiveStoppedStep == IInv /\ [Next]_vars => InactiveStopped'
<1> SUFFICES ASSUME IInv, [Next]_vars PROVE InactiveStopped'
  OBVIOUS
<1> USE DEF IInv, InactiveStopped, CallPhase, RequestQuiet, TypeOK
<1>1. CASE Client
  <2> PICK c \in Channel : \/ \E n \in Notifier : Quiet /\ socle_request_dma(c, n)
                           \/ socle_free_dma(c)
                           \/ socle_enable_dma(c)
                           \/ socle_disable_dma(c)
                           \/ \E m \in Mode : active[c] = 0 /\ socle_set_dma_mode(c, m)
    BY <1>1 DEF Client
  <2>1. CASE \E n \in Notifier : Quiet /\ socle_request_dma(c, n)
    <3> PICK n \in Notifier : Quiet /\ socle_request_dma(c, n)  BY <2>1
    <3>. QED  BY DEF socle_request_dma
  <2>2. CASE socle_free_dma(c)  BY <2>2 DEF socle_free_dma
  <2>3. CASE socle_enable_dma(c)  BY <2>3 DEF socle_enable_dma
  <2>4. CASE socle_disable_dma(c)  BY <2>4 DEF socle_disable_dma
  <2>5. CASE \E m \in Mode : active[c] = 0 /\ socle_set_dma_mode(c, m)
    BY <2>5 DEF socle_set_dma_mode
  <2>. QED  BY <2>1, <2>2, <2>3, <2>4, <2>5
<1>2. CASE RequestStep
  <2>1. CASE RequestBusy  BY <2>1 DEF RequestBusy
  <2>2. CASE RequestLock  BY <2>2 DEF RequestLock
  <2>3. CASE RequestInit  BY <2>3 DEF RequestInit
  <2>4. CASE RequestDma  BY <2>4 DEF RequestDma
  <2>5. CASE RequestIsr  BY <2>5 DEF RequestIsr
  <2>6. CASE RequestIrq  BY <2>6 DEF RequestIrq, IC!CallRequest
  <2>7. CASE RequestDone  BY <2>7 DEF RequestDone
  <2>. QED  BY <1>2, <2>1, <2>2, <2>3, <2>4, <2>5, <2>6, <2>7 DEF RequestStep
<1>3. CASE EnableStep
  BY <1>3 DEF EnableStep, EnableRefused, EnableActive, EnableRead, EnableUnmask, EnableCon
<1>4. CASE DisableStep
  <2>1. CASE DisableRefused  BY <2>1 DEF DisableRefused
  <2>2. CASE DisableInactive  BY <2>2 DEF DisableInactive
  <2>3. CASE DisableCon  BY <2>3 DEF DisableCon
  <2>4. CASE DisableRead  BY <2>4 DEF DisableRead
  <2>5. CASE DisableClear  BY <2>5 DEF DisableClear
  <2>6. CASE DisableReread  BY <2>6 DEF DisableReread
  <2>7. CASE DisableMask  BY <2>7 DEF DisableMask
  <2>. QED  BY <1>4, <2>1, <2>2, <2>3, <2>4, <2>5, <2>6, <2>7 DEF DisableStep
<1>5. CASE FreeStep
  <2>1. CASE FreeActive  BY <2>1 DEF FreeActive
  <2>2. CASE FreeNotActive  BY <2>2 DEF FreeNotActive
  <2>3. CASE FreeInactive
    <3>1. hw[drv.ch] = "off" /\ \A e \in Event : <<drv.ch, e>> \notin act  BY <2>3 DEF FreeInactive
    <3>2. UNCHANGED <<hw, act>> /\ drv'.ch = drv.ch /\ drv'.pc = "free_lock"  BY <2>3 DEF FreeInactive
    <3>3. \A c \in Channel \ {drv.ch} : active'[c] = active[c]  BY <2>3 DEF FreeInactive
    <3>4. ASSUME NEW c \in Channel, active'[c] = 0
          PROVE  hw[c] = "off" /\ \A e \in Event : <<c, e>> \notin act
      <4>1. CASE c = drv.ch  BY <4>1, <3>1
      <4>2. CASE c # drv.ch  BY <4>2, <3>3, <3>4
      <4>. QED  BY <4>1, <4>2
    <3>. QED  BY <3>2, <3>4
  <2>4. CASE FreeFree  BY <2>4 DEF FreeFree
  <2>5. CASE FreeLock  BY <2>5 DEF FreeLock
  <2>6. CASE FreeNotifier  BY <2>6 DEF FreeNotifier
  <2>7. CASE FreeDma  BY <2>7 DEF FreeDma
  <2>8. CASE FreeIsr  BY <2>8 DEF FreeIsr
  <2>9. CASE FreeIrq  BY <2>9 DEF FreeIrq, IC!CallFree
  <2>10. CASE FreeDone  BY <2>10 DEF FreeDone
  <2>. QED  BY <1>5, <2>1, <2>2, <2>3, <2>4, <2>5, <2>6, <2>7, <2>8, <2>9, <2>10 DEF FreeStep
<1>6. CASE IrqCall
  BY <1>6 DEF IrqCall, IC!RequestStep, IC!FreeStep, IC!RequestVec, IC!RequestPparam,
      IC!RequestIecr, IC!RequestImr, IC!FreeVec, IC!FreePparam, IC!FreeIecr, IC!FreeImr
<1>7. CASE DispatchStep
  BY <1>7 DEF DispatchStep, IC!TakeIrq, IC!NullVector, IC!ClearIrq, IC!Pending, HdmaLine
<1>8. CASE HandlerStep /\ ~DispatchStep
  BY <1>8 DEF HandlerStep, HandlerEnter, HandlerSkip, HandlerChannel, HandlerStatus, HandlerRead,
      HandlerClear, HandlerNotify, HandlerLeave, NullNotifier, IC!CallHandler, IC!HandlerReturns
<1>9. CASE Engine
  BY <1>9 DEF Engine, Complete, Overflow, DoneEvent
<1>10. CASE UNCHANGED vars
  BY <1>10 DEF vars
<1>. QED  BY <1>1, <1>2, <1>3, <1>4, <1>5, <1>6, <1>7, <1>8, <1>9, <1>10 DEF Next, ServiceStep, HandlerStep

LEMMA HeldNotifierStep == IInv /\ [Next]_vars => HeldNotifier'
<1> SUFFICES ASSUME IInv, [Next]_vars PROVE HeldNotifier'
  OBVIOUS
<1> USE DEF IInv, HeldNotifier, CallPhase, RequestQuiet, TypeOK
<1>1. CASE Client
  <2> PICK c \in Channel : \/ \E n \in Notifier : Quiet /\ socle_request_dma(c, n)
                           \/ socle_free_dma(c)
                           \/ socle_enable_dma(c)
                           \/ socle_disable_dma(c)
                           \/ \E m \in Mode : active[c] = 0 /\ socle_set_dma_mode(c, m)
    BY <1>1 DEF Client
  <2>1. CASE \E n \in Notifier : Quiet /\ socle_request_dma(c, n)
    <3> PICK n \in Notifier : Quiet /\ socle_request_dma(c, n)  BY <2>1
    <3>. QED  BY DEF socle_request_dma
  <2>2. CASE socle_free_dma(c)  BY <2>2 DEF socle_free_dma
  <2>3. CASE socle_enable_dma(c)  BY <2>3 DEF socle_enable_dma
  <2>4. CASE socle_disable_dma(c)  BY <2>4 DEF socle_disable_dma
  <2>5. CASE \E m \in Mode : active[c] = 0 /\ socle_set_dma_mode(c, m)
    BY <2>5 DEF socle_set_dma_mode
  <2>. QED  BY <2>1, <2>2, <2>3, <2>4, <2>5
<1>2. CASE RequestStep
  BY <1>2 DEF RequestStep, RequestBusy, RequestLock, RequestInit, RequestDma, RequestIsr,
      RequestIrq, RequestDone, IC!CallRequest
<1>3. CASE EnableStep
  BY <1>3 DEF EnableStep, EnableRefused, EnableActive, EnableRead, EnableUnmask, EnableCon
<1>4. CASE DisableStep
  BY <1>4 DEF DisableStep, DisableRefused, DisableInactive, DisableCon, DisableRead,
      DisableClear, DisableReread, DisableMask
<1>5. CASE FreeStep
  <2>1. CASE FreeActive  BY <2>1 DEF FreeActive
  <2>2. CASE FreeNotActive  BY <2>2 DEF FreeNotActive
  <2>3. CASE FreeInactive  BY <2>3 DEF FreeInactive
  <2>4. CASE FreeFree  BY <2>4 DEF FreeFree
  <2>5. CASE FreeLock  BY <2>5 DEF FreeLock
  <2>6. CASE FreeNotifier  BY <2>6 DEF FreeNotifier
  <2>7. CASE FreeDma  BY <2>7 DEF FreeDma
  <2>8. CASE FreeIsr  BY <2>8 DEF FreeIsr
  <2>9. CASE FreeIrq  BY <2>9 DEF FreeIrq, IC!CallFree
  <2>10. CASE FreeDone  BY <2>10 DEF FreeDone
  <2>. QED  BY <1>5, <2>1, <2>2, <2>3, <2>4, <2>5, <2>6, <2>7, <2>8, <2>9, <2>10 DEF FreeStep
<1>6. CASE IrqCall
  BY <1>6 DEF IrqCall, IC!RequestStep, IC!FreeStep, IC!RequestVec, IC!RequestPparam,
      IC!RequestIecr, IC!RequestImr, IC!FreeVec, IC!FreePparam, IC!FreeIecr, IC!FreeImr
<1>7. CASE DispatchStep
  BY <1>7 DEF DispatchStep, IC!TakeIrq, IC!NullVector, IC!ClearIrq, IC!Pending, HdmaLine
<1>8. CASE HandlerStep /\ ~DispatchStep
  BY <1>8 DEF HandlerStep, HandlerEnter, HandlerSkip, HandlerChannel, HandlerStatus, HandlerRead,
      HandlerClear, HandlerNotify, HandlerLeave, NullNotifier, IC!CallHandler, IC!HandlerReturns
<1>9. CASE Engine
  BY <1>9 DEF Engine, Complete, Overflow, DoneEvent
<1>10. CASE UNCHANGED vars
  BY <1>10 DEF vars
<1>. QED  BY <1>1, <1>2, <1>3, <1>4, <1>5, <1>6, <1>7, <1>8, <1>9, <1>10 DEF Next, ServiceStep, HandlerStep

LEMMA ContainerOwnedStep == IInv /\ [Next]_vars => ContainerOwned'
<1> SUFFICES ASSUME IInv, [Next]_vars PROVE ContainerOwned'
  OBVIOUS
<1> USE DEF IInv, ContainerOwned, CallPhase, TypeOK
<1>1. CASE Client
  <2> PICK c \in Channel : \/ \E n \in Notifier : Quiet /\ socle_request_dma(c, n)
                           \/ socle_free_dma(c)
                           \/ socle_enable_dma(c)
                           \/ socle_disable_dma(c)
                           \/ \E m \in Mode : active[c] = 0 /\ socle_set_dma_mode(c, m)
    BY <1>1 DEF Client
  <2>1. CASE \E n \in Notifier : Quiet /\ socle_request_dma(c, n)
    <3> PICK n \in Notifier : Quiet /\ socle_request_dma(c, n)  BY <2>1
    <3>. QED  BY DEF socle_request_dma
  <2>2. CASE socle_free_dma(c)  BY <2>2 DEF socle_free_dma
  <2>3. CASE socle_enable_dma(c)  BY <2>3 DEF socle_enable_dma
  <2>4. CASE socle_disable_dma(c)  BY <2>4 DEF socle_disable_dma
  <2>5. CASE \E m \in Mode : active[c] = 0 /\ socle_set_dma_mode(c, m)
    BY <2>5 DEF socle_set_dma_mode
  <2>. QED  BY <2>1, <2>2, <2>3, <2>4, <2>5
<1>2. CASE RequestStep
  BY <1>2 DEF RequestStep, RequestBusy, RequestLock, RequestInit, RequestDma, RequestIsr,
      RequestIrq, RequestDone, IC!CallRequest
<1>3. CASE EnableStep
  BY <1>3 DEF EnableStep, EnableRefused, EnableActive, EnableRead, EnableUnmask, EnableCon
<1>4. CASE DisableStep
  BY <1>4 DEF DisableStep, DisableRefused, DisableInactive, DisableCon, DisableRead,
      DisableClear, DisableReread, DisableMask
<1>5. CASE FreeStep
  <2>1. CASE FreeActive  BY <2>1 DEF FreeActive
  <2>2. CASE FreeNotActive  BY <2>2 DEF FreeNotActive
  <2>3. CASE FreeInactive  BY <2>3 DEF FreeInactive
  <2>4. CASE FreeFree  BY <2>4 DEF FreeFree
  <2>5. CASE FreeLock  BY <2>5 DEF FreeLock
  <2>6. CASE FreeNotifier  BY <2>6 DEF FreeNotifier
  <2>7. CASE FreeDma  BY <2>7 DEF FreeDma
  <2>8. CASE FreeIsr  BY <2>8 DEF FreeIsr
  <2>9. CASE FreeIrq  BY <2>9 DEF FreeIrq, IC!CallFree
  <2>10. CASE FreeDone  BY <2>10 DEF FreeDone
  <2>. QED  BY <1>5, <2>1, <2>2, <2>3, <2>4, <2>5, <2>6, <2>7, <2>8, <2>9, <2>10 DEF FreeStep
<1>6. CASE IrqCall
  BY <1>6 DEF IrqCall, IC!RequestStep, IC!FreeStep, IC!RequestVec, IC!RequestPparam,
      IC!RequestIecr, IC!RequestImr, IC!FreeVec, IC!FreePparam, IC!FreeIecr, IC!FreeImr
<1>7. CASE DispatchStep
  BY <1>7 DEF DispatchStep, IC!TakeIrq, IC!NullVector, IC!ClearIrq, IC!Pending, HdmaLine
<1>8. CASE HandlerStep /\ ~DispatchStep
  BY <1>8 DEF HandlerStep, HandlerEnter, HandlerSkip, HandlerChannel, HandlerStatus, HandlerRead,
      HandlerClear, HandlerNotify, HandlerLeave, NullNotifier, IC!CallHandler, IC!HandlerReturns
<1>9. CASE Engine
  BY <1>9 DEF Engine, Complete, Overflow, DoneEvent
<1>10. CASE UNCHANGED vars
  BY <1>10 DEF vars
<1>. QED  BY <1>1, <1>2, <1>3, <1>4, <1>5, <1>6, <1>7, <1>8, <1>9, <1>10 DEF Next, ServiceStep, HandlerStep

LEMMA HandlerReportsStep == IInv /\ [Next]_vars => HandlerReports'
<1> SUFFICES ASSUME IInv, [Next]_vars PROVE HandlerReports'
  OBVIOUS
<1> USE DEF IInv, HandlerReports, HandlerRuns, HeldNotifier, InactiveStopped, CallPhase, TypeOK
<1>1. CASE Client
  BY <1>1 DEF Client, socle_request_dma, socle_free_dma, socle_enable_dma, socle_disable_dma,
      socle_set_dma_mode
<1>2. CASE RequestStep
  BY <1>2 DEF RequestStep, RequestBusy, RequestLock, RequestInit, RequestDma, RequestIsr,
      RequestIrq, RequestDone, IC!CallRequest
<1>3. CASE EnableStep
  BY <1>3 DEF EnableStep, EnableRefused, EnableActive, EnableRead, EnableUnmask, EnableCon
<1>4. CASE DisableStep
  BY <1>4 DEF DisableStep, DisableRefused, DisableInactive, DisableCon, DisableRead,
      DisableClear, DisableReread, DisableMask
<1>5. CASE FreeStep
  BY <1>5 DEF FreeStep, FreeActive, FreeNotActive, FreeInactive, FreeFree, FreeLock,
      FreeNotifier, FreeDma, FreeIsr, FreeIrq, FreeDone, IC!CallFree
<1>6. CASE IrqCall
  BY <1>6 DEF IrqCall, IC!RequestStep, IC!FreeStep, IC!RequestVec, IC!RequestPparam,
      IC!RequestIecr, IC!RequestImr, IC!FreeVec, IC!FreePparam, IC!FreeIecr, IC!FreeImr
<1>7. CASE DispatchStep
  BY <1>7 DEF DispatchStep, IC!TakeIrq, IC!NullVector, IC!ClearIrq, IC!Pending, HdmaLine
<1>8. CASE HandlerStep /\ ~DispatchStep
  <2>1. CASE HandlerEnter  BY <2>1 DEF HandlerEnter, IC!CallHandler
  <2>2. CASE HandlerSkip  BY <2>2 DEF HandlerSkip
  <2>3. CASE HandlerChannel  BY <2>3 DEF HandlerChannel
  <2>4. CASE HandlerStatus
    <3> SUFFICES ASSUME hisr'.stat # {} PROVE notifier[hisr.ch] # NULL
      BY <2>4 DEF HandlerStatus
    <3>1. PICK e \in Event : <<hisr.ch, e>> \in act  BY <2>4 DEF HandlerStatus
    <3>. QED  BY <2>4, <3>1, FlagNotified DEF HandlerStatus
  <2>5. CASE HandlerRead  BY <2>5 DEF HandlerRead
  <2>6. CASE HandlerClear  BY <2>6 DEF HandlerClear
  <2>7. CASE HandlerNotify  BY <2>7 DEF HandlerNotify, NullNotifier
  <2>8. CASE HandlerLeave  BY <2>8 DEF HandlerLeave, IC!HandlerReturns
  <2>. QED  BY <1>8, <2>1, <2>2, <2>3, <2>4, <2>5, <2>6, <2>7, <2>8 DEF HandlerStep
<1>9. CASE Engine
  BY <1>9 DEF Engine, Complete, Overflow, DoneEvent
<1>10. CASE UNCHANGED vars
  BY <1>10 DEF vars
<1>. QED  BY <1>1, <1>2, <1>3, <1>4, <1>5, <1>6, <1>7, <1>8, <1>9, <1>10 DEF Next, ServiceStep, HandlerStep

LEMMA NoWildCallStep == IInv /\ [Next]_vars => NoWildCall'
<1> SUFFICES ASSUME IInv, [Next]_vars PROVE NoWildCall'
  OBVIOUS
<1> USE DEF IInv, NoWildCall, HandlerRuns, HandlerReports, ContainerOwned, RequestQuiet, FramesOK
<1>1. CASE Client
  BY <1>1 DEF Client, socle_request_dma, socle_free_dma, socle_enable_dma, socle_disable_dma,
      socle_set_dma_mode
<1>2. CASE RequestStep
  BY <1>2 DEF RequestStep, RequestBusy, RequestLock, RequestInit, RequestDma, RequestIsr,
      RequestIrq, RequestDone, IC!CallRequest
<1>3. CASE EnableStep
  BY <1>3 DEF EnableStep, EnableRefused, EnableActive, EnableRead, EnableUnmask, EnableCon
<1>4. CASE DisableStep
  BY <1>4 DEF DisableStep, DisableRefused, DisableInactive, DisableCon, DisableRead,
      DisableClear, DisableReread, DisableMask
<1>5. CASE FreeStep
  BY <1>5 DEF FreeStep, FreeActive, FreeNotActive, FreeInactive, FreeFree, FreeLock,
      FreeNotifier, FreeDma, FreeIsr, FreeIrq, FreeDone, IC!CallFree
<1>6. CASE IrqCall
  BY <1>6 DEF IrqCall, IC!RequestStep, IC!FreeStep, IC!RequestVec, IC!RequestPparam,
      IC!RequestIecr, IC!RequestImr, IC!FreeVec, IC!FreePparam, IC!FreeIecr, IC!FreeImr
<1>7. CASE DispatchStep
  BY <1>7 DEF DispatchStep, IC!TakeIrq, IC!NullVector, IC!ClearIrq, IC!Pending, HdmaLine
<1>8. CASE HandlerStep /\ ~DispatchStep
  <2>1. CASE HandlerEnter  BY <2>1 DEF HandlerEnter, IC!CallHandler
  <2>2. CASE HandlerSkip  BY <2>2 DEF HandlerSkip
  <2>3. CASE HandlerChannel
    <3>1. hisr.ch \in Channel  BY <2>3 DEF HandlerChannel, TypeOK, Channel
    <3>2. isr # IC!NoIsr  BY <2>3 DEF HandlerChannel
    <3>3. container[hisr.ch].isr  BY <2>3, <3>1, <3>2 DEF HandlerChannel
    <3>. QED  BY <2>3, <3>3 DEF HandlerChannel
  <2>4. CASE HandlerStatus  BY <2>4 DEF HandlerStatus
  <2>5. CASE HandlerRead  BY <2>5 DEF HandlerRead
  <2>6. CASE HandlerClear  BY <2>6 DEF HandlerClear
  <2>7. CASE HandlerNotify  BY <2>7 DEF HandlerNotify, NullNotifier
  <2>8. CASE HandlerLeave  BY <2>8 DEF HandlerLeave, IC!HandlerReturns
  <2>. QED  BY <1>8, <2>1, <2>2, <2>3, <2>4, <2>5, <2>6, <2>7, <2>8 DEF HandlerStep
<1>9. CASE Engine
  BY <1>9 DEF Engine, Complete, Overflow, DoneEvent
<1>10. CASE UNCHANGED vars
  BY <1>10 DEF vars
<1>. QED  BY <1>1, <1>2, <1>3, <1>4, <1>5, <1>6, <1>7, <1>8, <1>9, <1>10 DEF Next, ServiceStep, HandlerStep

----------------------------------------------------------------------------
\* Every step of the service, the handler or the engine keeps the invariant.
LEMMA IInvStep == IInv /\ [Next]_vars => IInv'
<1>. QED
  BY TypeOKStep, FramesOKStep, HandlerRunsStep, RequestQuietStep, CallPhaseStep, InactiveStoppedStep,
     HeldNotifierStep, ContainerOwnedStep, HandlerReportsStep, NoWildCallStep DEF IInv

\* So does a client that stores to the variable its callbacks set.
LEMMA FlagStep ==
  ASSUME IInv, flag' \in [Notifier -> {0, 1}], UNCHANGED <<dmaVars, container, drv, hisr, regVars, icVars>>
  PROVE  IInv'
<1> USE DEF IInv
<1>1. TypeOK' /\ FramesOK' /\ HandlerRuns' /\ RequestQuiet'
  BY DEF TypeOK, FramesOK, HandlerRuns, RequestQuiet
<1>2. CallPhase' /\ InactiveStopped' /\ HeldNotifier'
  BY DEF CallPhase, InactiveStopped, HeldNotifier
<1>3. ContainerOwned' /\ HandlerReports' /\ NoWildCall'
  BY DEF ContainerOwned, HandlerReports, NoWildCall
<1>. QED  BY <1>1, <1>2, <1>3

\* The strengthened invariant holds in every reachable state.
THEOREM Invariant == Spec => []IInv
<1>. QED  BY InitIInv, IInvStep, PTL DEF Spec

\* The channel table, containers, call and handler frames keep their types.
THEOREM TypeCorrect == Spec => []TypeOK
<1>1. IInv => TypeOK  BY DEF IInv
<1>. QED  BY <1>1, Invariant, PTL

\* The shared handler never calls through a null isr or a null notifier
\* (panther7-hdma.c:299, 418), whatever the number of channels.
THEOREM NeverWild == Spec => []NoWildCall
<1>1. IInv => NoWildCall  BY DEF IInv
<1>. QED  BY <1>1, Invariant, PTL

\* A channel that nobody holds is silent (dma.c:67-91, panther7-hdma.c:195-218).
THEOREM FreedChannelsSilent == Spec => []FreeChannelSilent
<1>1. ASSUME IInv, drv = NoCall, NEW c \in Channel, lock[c] = 0
      PROVE  hw[c] = "off" /\ ~container[c].dma /\ act \cap Flags(c) = {}
  <2>1. active[c] = 0  BY <1>1 DEF IInv, CallPhase, TypeOK
  <2>2. hw[c] = "off" /\ \A e \in Event : <<c, e>> \notin act  BY <1>1, <2>1 DEF IInv, InactiveStopped
  <2>3. ~container[c].dma  BY <1>1 DEF IInv, ContainerOwned
  <2>. QED  BY <2>2, <2>3
<1>2. IInv => FreeChannelSilent  BY <1>1 DEF FreeChannelSilent
<1>. QED  BY <1>2, Invariant, PTL
=============================================================================
