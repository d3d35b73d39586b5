-------------------------- MODULE UartHwdma_proofs --------------------------
(***************************************************************************)
(* The UART hardware-DMA test leaves its channels as it found them, for    *)
(* every time-out of its wait and whatever the engine does.  The test is a *)
(* client of the channel service, so the service's invariant carries over  *)
(* (CarriesOver); on top of it come which call the test is in at each of   *)
(* its places, what that call has locked, and that the last free has       *)
(* disabled the interrupt.                                                 *)
(***************************************************************************)
EXTENDS UartHwdma, Panther7Hdma_proofs

Requesting == ReqPc
Enabling   == {"en_check"} \cup EnPc
Disabling  == {"dis_check"} \cup DisPc
Holding    == {"free_check", "free_inactive", "free_lock"} \cup DisPc    \* a free that has not let go yet
Freeing    == Holding \cup GonePc

In(pcs, c) == drv.pc # "idle" => drv.pc \in pcs /\ drv.ch = c

\* The call the test is in, at each of its places.
Place ==
  /\ drv.pc = "idle" => drv = NoCall
  /\ upc = "menu" => In(Freeing, rx)
  /\ upc = "request_rx" => In(Requesting, tx)
  /\ upc = "held" => In(Requesting, rx)
  /\ upc \in {"leave_rx", "mode_tx"} => In(Disabling, tx)
  /\ upc \in {"free_tx", "mode_rx"} => In(Disabling, rx)
  /\ upc = "free_rx" => In(Freeing, tx)
  /\ upc = "enable_rx" => In(Enabling, tx)
  /\ upc = "wait" => In(Enabling, rx)
  /\ upc \in {"off", "disable_tx", "disable_rx", "enable_tx", "compare"} => drv = NoCall
  /\ drv.pc \in Disabling => drv.then = IF upc \in {"menu", "free_rx"} THEN "free_inactive" ELSE "idle"

\* What the test holds there.
Locks ==
  /\ upc = "off" => lock[tx] = 0 /\ lock[rx] = 0
  /\ upc = "menu" => lock[tx] = 0 /\ lock[rx] = IF drv.pc \in Holding THEN 1 ELSE 0
  /\ upc = "request_rx" => Quiet
  /\ upc = "held" => lock[rx] = 1 \/ drv.pc = "req_lock"
  /\ upc \in UpcRun \cup UpcLeave => lock[rx] = 1
  /\ upc = "free_rx" => lock[tx] = 0 \/ drv.pc \in Holding
  /\ upc = "mode_tx" => active[tx] = 0 \/ drv.pc = "dis_check"
  /\ upc = "mode_rx" => active[rx] = 0 \/ drv.pc = "dis_check"

\* The interrupt is enabled by a request only, and a free has disabled it.
Irqs ==
  /\ main.pc \in IC!RequestPc => drv.pc = "req_wait"
  /\ main.pc \in IC!FreePc => drv.pc = "free_wait"
  /\ drv.pc = "free_wait" => main.pc \in {"fr_vec", "fr_pparam", "fr_iecr"} \/ iecr = {}
  /\ upc \in {"off", "menu"} /\ drv.pc = "idle" => iecr = {}

UInv == UartTypeOK /\ IInv /\ Place /\ Locks /\ Irqs

USE UartHwdmaAssumption, BoardAssumption, HdmaAssumption
    DEF Mode, Event, NoCall, NoHandler, Quiet, dmaVars, regVars, icVars,
        Step, Return, Call, StatusAfterWrite, Flags,
        IC!MainRuns, IC!Idle, IC!NoIsr, IC!At, IC!table, IC!chip, IC!world,
        DrvPc, ReqPc, EnPc, DisPc, OffPc, CleanPc, GonePc, IC!RequestPc, IC!FreePc,
        Channel, tx, rx, Go, Local, UpcBegin, UpcRun, UpcLeave, In,
        Requesting, Enabling, Disabling, Holding, Freeing, Running, Quietly,
        socle_request_dma, socle_free_dma, socle_enable_dma, socle_disable_dma, socle_set_dma_mode

LEMMA UInitInv == UartInit \/ UartStart("off") => UInv
<1> SUFFICES ASSUME UartInit \/ UartStart("off") PROVE UInv
  OBVIOUS
<1>1. Init /\ upc \in {"off", "menu"} /\ t = 0  BY DEF UartInit, UartStart
<1>2. IInv  BY <1>1, InitIInv
<1>3. UartTypeOK  BY <1>1, <1>2 DEF UartTypeOK, IInv
<1>4. Place /\ Locks /\ Irqs  BY <1>1 DEF Init, Place, Locks, Irqs
<1>. QED  BY <1>2, <1>3, <1>4 DEF UInv

\* A step of the test is one a client of the channel service may take, or
\* stores to a flag only.
LEMMA CarriesOver == ASSUME UInv, [UartNext]_allVars PROVE IInv'
<1> USE DEF UInv
<1>0. 0 \in Channel /\ 1 \in Channel /\ Notifier = {socle_uart_tx_dma_notifier, socle_uart_rx_dma_notifier}
  OBVIOUS
<1>1. ASSUME NEW c \in Channel, socle_free_dma(c) \/ socle_enable_dma(c) \/ socle_disable_dma(c) PROVE IInv'
  <2>1. Client  BY <1>1 DEF Client
  <2>. QED  BY <2>1, IInvStep DEF Next
<1>2. ASSUME NEW c \in Channel, active[c] = 0, socle_set_dma_mode(c, "slice") PROVE IInv'
  <2>1. Client  BY <1>2 DEF Client
  <2>. QED  BY <2>1, IInvStep DEF Next
<1>3. ASSUME NEW c \in Channel, NEW n \in Notifier, Quiet, socle_request_dma(c, n) PROVE IInv'
  <2>1. Client  BY <1>3 DEF Client
  <2>. QED  BY <2>1, IInvStep DEF Next
<1>4. CASE Begin
  <2>1. CASE Go("menu", "request_rx") /\ socle_request_dma(tx, socle_uart_tx_dma_notifier)
    <3>1. lock[0] = 0 /\ lock[1] = 0  BY <2>1 DEF Locks
    <3>2. Quiet  BY <3>1 DEF IInv, CallPhase, TypeOK
    <3>. QED  BY <2>1, <3>2, <1>0, <1>3
  <2>2. CASE Go("request_rx", "held") /\ socle_request_dma(rx, socle_uart_rx_dma_notifier)
    <3>1. Quiet  BY <2>2 DEF Locks
    <3>. QED  BY <2>2, <3>1, <1>0, <1>3
  <2>. QED  BY <1>4, <2>1, <2>2 DEF Begin
<1>5. CASE Leave  BY <1>5, <1>0, <1>1 DEF Leave
<1>6. CASE Configure
  <2>1. CASE Go("mode_tx", "disable_rx") /\ socle_set_dma_mode(tx, "slice")
    <3>1. active[tx] = 0  BY <2>1 DEF Locks
    <3>. QED  BY <2>1, <3>1, <1>0, <1>2
  <2>2. CASE Go("mode_rx", "enable_tx") /\ socle_set_dma_mode(rx, "slice")
    <3>1. active[rx] = 0  BY <2>2 DEF Locks
    <3>. QED  BY <2>2, <3>1, <1>0, <1>2
  <2>3. CASE socle_disable_dma(tx) \/ socle_disable_dma(rx)  BY <2>3, <1>0, <1>1
  <2>. QED  BY <1>6, <2>1, <2>2, <2>3 DEF Configure
<1>7. CASE Enable  BY <1>7, <1>0, <1>1 DEF Enable
<1>8. CASE InitEnvironment \/ WaitHits \/ WaitGoesOn \/ WaitTimesOut \/ Compare
  <2>1. flag' \in [Notifier -> {0, 1}]
    BY <1>8 DEF InitEnvironment, WaitHits, WaitGoesOn, WaitTimesOut, Compare, IInv, TypeOK
  <2>2. UNCHANGED <<dmaVars, container, drv, hisr, regVars, icVars>>
    BY <1>8 DEF InitEnvironment, WaitHits, WaitGoesOn, WaitTimesOut, Compare
  <2>. QED  BY <2>1, <2>2, FlagStep
<1>9. CASE ServiceStep \/ HandlerStep \/ Engine  BY <1>9, IInvStep DEF Next
<1>10. CASE UNCHANGED allVars
  <2>1. UNCHANGED vars  BY <1>10 DEF allVars
  <2>. QED  BY <2>1, IInvStep
<1>. QED  BY <1>4, <1>5, <1>6, <1>7, <1>8, <1>9, <1>10 DEF UartNext

\* The exception and the engine leave alone what the test has locked.
LEMMA BesideTheTest ==
  ASSUME UInv, HandlerStep \/ Engine
  PROVE  UNCHANGED <<dmaVars, drv, main, iecr>>
<1>1. CASE HandlerStep
  BY <1>1 DEF HandlerStep, DispatchStep, HandlerEnter, HandlerSkip, HandlerChannel, HandlerStatus,
      HandlerRead, HandlerClear, HandlerNotify, HandlerLeave, IC!TakeIrq, IC!NullVector, IC!ClearIrq,
      IC!CallHandler, IC!HandlerReturns
<1>2. CASE Engine  BY <1>2 DEF Engine, Complete, Overflow
<1>. QED  BY <1>1, <1>2

\* A call begins where no other is in progress, and changes nothing else.
LEMMA CallFrame ==
  ASSUME NEW to, NEW c, NEW n, Call(to, c, n)
  PROVE  /\ drv = NoCall /\ drv'.pc = to /\ drv'.ch = c /\ drv'.then = "idle" /\ drv' = [NoCall EXCEPT !.pc = to, !.ch = c, !.ntf = n]
         /\ UNCHANGED <<lock, active, main, iecr>>
<1>. QED  OBVIOUS

\* At every place the test is in the call that the code makes there.
LEMMA PlaceStep == ASSUME UInv, [UartNext]_allVars PROVE Place'
<1> USE DEF UInv, IInv, TypeOK, UartTypeOK, Place
<1>1. CASE Begin \/ Leave \/ Configure \/ Enable
  <2>1. CASE Begin
    <3>1. CASE Go("menu", "request_rx") /\ socle_request_dma(tx, socle_uart_tx_dma_notifier)
      BY <3>1, CallFrame
    <3>2. CASE Go("request_rx", "held") /\ socle_request_dma(rx, socle_uart_rx_dma_notifier)
      BY <3>2, CallFrame
    <3>. QED  BY <2>1, <3>1, <3>2 DEF Begin
  <2>2. CASE Leave
    <3>1. CASE Go("held", "leave_rx") /\ socle_disable_dma(tx)
      BY <3>1, CallFrame
    <3>2. CASE Go("leave_rx", "free_tx") /\ socle_disable_dma(rx)
      BY <3>2, CallFrame
    <3>3. CASE Go("free_tx", "free_rx") /\ socle_free_dma(tx)
      BY <3>3, CallFrame
    <3>4. CASE Go("free_rx", "menu") /\ socle_free_dma(rx)
      BY <3>4, CallFrame
    <3>. QED  BY <2>2, <3>1, <3>2, <3>3, <3>4 DEF Leave
  <2>3. CASE Configure
    <3>1. CASE Go("disable_tx", "mode_tx") /\ socle_disable_dma(tx)
      BY <3>1, CallFrame
    <3>2. CASE Go("mode_tx", "disable_rx") /\ socle_set_dma_mode(tx, "slice")
      BY <3>2
    <3>3. CASE Go("disable_rx", "mode_rx") /\ socle_disable_dma(rx)
      BY <3>3, CallFrame
    <3>4. CASE Go("mode_rx", "enable_tx") /\ socle_set_dma_mode(rx, "slice")
      BY <3>4
    <3>. QED  BY <2>3, <3>1, <3>2, <3>3, <3>4 DEF Configure
  <2>4. CASE Enable
    <3>1. CASE Go("enable_tx", "enable_rx") /\ socle_enable_dma(tx)
      BY <3>1, CallFrame
    <3>2. CASE Go("enable_rx", "wait") /\ socle_enable_dma(rx)
      BY <3>2, CallFrame
    <3>. QED  BY <2>4, <3>1, <3>2 DEF Enable
  <2>. QED  BY <1>1, <2>1, <2>2, <2>3, <2>4
<1>2. CASE InitEnvironment \/ WaitHits \/ WaitGoesOn \/ WaitTimesOut \/ Compare
  BY <1>2 DEF InitEnvironment, WaitHits, WaitGoesOn, WaitTimesOut, Compare
<1>3. CASE Quietly(RequestStep)
  <2>1. CASE RequestBusy  BY <1>3, <2>1 DEF RequestBusy
  <2>2. CASE RequestLock  BY <1>3, <2>2 DEF RequestLock
  <2>3. CASE RequestInit  BY <1>3, <2>3 DEF RequestInit
  <2>4. CASE RequestDma  BY <1>3, <2>4 DEF RequestDma
  <2>5. CASE RequestIsr  BY <1>3, <2>5 DEF RequestIsr
  <2>6. CASE RequestIrq  BY <1>3, <2>6 DEF RequestIrq, IC!CallRequest
  <2>7. CASE RequestDone  BY <1>3, <2>7 DEF RequestDone
  <2>. QED  BY <1>3, <2>1, <2>2, <2>3, <2>4, <2>5, <2>6, <2>7 DEF RequestStep
<1>4. CASE Quietly(EnableStep)
  <2>1. CASE EnableRefused  BY <1>4, <2>1 DEF EnableRefused
  <2>2. CASE EnableActive  BY <1>4, <2>2 DEF EnableActive
  <2>3. CASE EnableRead  BY <1>4, <2>3 DEF EnableRead
  <2>4. CASE EnableUnmask  BY <1>4, <2>4 DEF EnableUnmask
  <2>5. CASE EnableCon  BY <1>4, <2>5 DEF EnableCon
  <2>. QED  BY <1>4, <2>1, <2>2, <2>3, <2>4, <2>5 DEF EnableStep
<1>5. CASE Quietly(DisableStep)
  <2>1. CASE DisableRefused  BY <1>5, <2>1 DEF DisableRefused
  <2>2. CASE DisableInactive  BY <1>5, <2>2 DEF DisableInactive
  <2>3. CASE DisableCon  BY <1>5, <2>3 DEF DisableCon
  <2>4. CASE DisableRead  BY <1>5, <2>4 DEF DisableRead
  <2>5. CASE DisableClear  BY <1>5, <2>5 DEF DisableClear
  <2>6. CASE DisableReread  BY <1>5, <2>6 DEF DisableReread
  <2>7. CASE DisableMask  BY <1>5, <2>7 DEF DisableMask
  <2>. QED  BY <1>5, <2>1, <2>2, <2>3, <2>4, <2>5, <2>6, <2>7 DEF DisableStep
<1>6. CASE Quietly(FreeStep)
  <2>1. CASE FreeActive  BY <1>6, <2>1 DEF FreeActive
  <2>2. CASE FreeNotActive  BY <1>6, <2>2 DEF FreeNotActive
  <2>3. CASE FreeInactive  BY <1>6, <2>3 DEF FreeInactive
  <2>4. CASE FreeFree  BY <1>6, <2>4 DEF FreeFree
  <2>5. CASE FreeLock  BY <1>6, <2>5 DEF FreeLock
  <2>6. CASE FreeNotifier  BY <1>6, <2>6 DEF FreeNotifier
  <2>7. CASE FreeDma  BY <1>6, <2>7 DEF FreeDma
  <2>8. CASE FreeIsr  BY <1>6, <2>8 DEF FreeIsr
  <2>9. CASE FreeIrq  BY <1>6, <2>9 DEF FreeIrq, IC!CallFree
  <2>10. CASE FreeDone  BY <1>6, <2>10 DEF FreeDone
  <2>. QED  BY <1>6, <2>1, <2>2, <2>3, <2>4, <2>5, <2>6, <2>7, <2>8, <2>9, <2>10 DEF FreeStep
<1>7. CASE Quietly(IrqCall)
  BY <1>7 DEF IrqCall, IC!RequestStep, IC!FreeStep, IC!RequestVec, IC!RequestPparam,
      IC!RequestIecr, IC!RequestImr, IC!FreeVec, IC!FreePparam, IC!FreeIecr, IC!FreeImr
<1>8. CASE Quietly(HandlerStep \/ Engine)  BY <1>8, BesideTheTest
<1>9. CASE UNCHANGED allVars  BY <1>9 DEF allVars, vars, icVars
<1>. QED  BY <1>1, <1>2, <1>3, <1>4, <1>5, <1>6, <1>7, <1>8, <1>9 DEF UartNext, ServiceStep

\* The channels are locked and let go by these calls only.
LEMMA LocksStep == ASSUME UInv, [UartNext]_allVars PROVE Locks'
<1> USE DEF UInv, IInv, TypeOK, UartTypeOK, CallPhase, Place, Locks
<1>1. CASE Begin \/ Leave \/ Configure \/ Enable
  <2>1. CASE Begin
    <3>1. CASE Go("menu", "request_rx") /\ socle_request_dma(tx, socle_uart_tx_dma_notifier)
      <4>1. lock[0] = 0 /\ lock[1] = 0  BY <3>1
      <4>2. active[0] = 0 /\ active[1] = 0  BY <4>1
      <4>3. active' = active /\ upc' = "request_rx" /\ drv'.pc = "req_lock"  BY <3>1, CallFrame
      <4>4. Quiet'  BY <4>2, <4>3
      <4>. QED  BY <4>3, <4>4
    <3>2. CASE Go("request_rx", "held") /\ socle_request_dma(rx, socle_uart_rx_dma_notifier)
      BY <3>2, CallFrame
    <3>. QED  BY <2>1, <3>1, <3>2 DEF Begin
  <2>2. CASE Leave
    <3>1. CASE Go("held", "leave_rx") /\ socle_disable_dma(tx)
      BY <3>1, CallFrame
    <3>2. CASE Go("leave_rx", "free_tx") /\ socle_disable_dma(rx)
      BY <3>2, CallFrame
    <3>3. CASE Go("free_tx", "free_rx") /\ socle_free_dma(tx)
      BY <3>3, CallFrame
    <3>4. CASE Go("free_rx", "menu") /\ socle_free_dma(rx)
      BY <3>4, CallFrame
    <3>. QED  BY <2>2, <3>1, <3>2, <3>3, <3>4 DEF Leave
  <2>3. CASE Configure
    <3>1. CASE Go("disable_tx", "mode_tx") /\ socle_disable_dma(tx)
      BY <3>1, CallFrame
    <3>2. CASE Go("mode_tx", "disable_rx") /\ socle_set_dma_mode(tx, "slice")
      BY <3>2
    <3>3. CASE Go("disable_rx", "mode_rx") /\ socle_disable_dma(rx)
      BY <3>3, CallFrame
    <3>4. CASE Go("mode_rx", "enable_tx") /\ socle_set_dma_mode(rx, "slice")
      BY <3>4
    <3>. QED  BY <2>3, <3>1, <3>2, <3>3, <3>4 DEF Configure
  <2>4. CASE Enable
    <3>1. CASE Go("enable_tx", "enable_rx") /\ socle_enable_dma(tx)
      BY <3>1, CallFrame
    <3>2. CASE Go("enable_rx", "wait") /\ socle_enable_dma(rx)
      BY <3>2, CallFrame
    <3>. QED  BY <2>4, <3>1, <3>2 DEF Enable
  <2>. QED  BY <1>1, <2>1, <2>2, <2>3, <2>4
<1>2. CASE InitEnvironment \/ WaitHits \/ WaitGoesOn \/ WaitTimesOut \/ Compare
  BY <1>2 DEF InitEnvironment, WaitHits, WaitGoesOn, WaitTimesOut, Compare
<1>3. CASE Quietly(RequestStep)
  <2>1. CASE RequestBusy  BY <1>3, <2>1 DEF RequestBusy
  <2>2. CASE RequestLock  BY <1>3, <2>2 DEF RequestLock
  <2>3. CASE RequestInit  BY <1>3, <2>3 DEF RequestInit
  <2>4. CASE RequestDma  BY <1>3, <2>4 DEF RequestDma
  <2>5. CASE RequestIsr  BY <1>3, <2>5 DEF RequestIsr
  <2>6. CASE RequestIrq  BY <1>3, <2>6 DEF RequestIrq, IC!CallRequest
  <2>7. CASE RequestDone  BY <1>3, <2>7 DEF RequestDone
  <2>. QED  BY <1>3, <2>1, <2>2, <2>3, <2>4, <2>5, <2>6, <2>7 DEF RequestStep
<1>4. CASE Quietly(EnableStep)
  <2>1. CASE EnableRefused  BY <1>4, <2>1 DEF EnableRefused
  <2>2. CASE EnableActive  BY <1>4, <2>2 DEF EnableActive
  <2>3. CASE EnableRead  BY <1>4, <2>3 DEF EnableRead
  <2>4. CASE EnableUnmask  BY <1>4, <2>4 DEF EnableUnmask
  <2>5. CASE EnableCon  BY <1>4, <2>5 DEF EnableCon
  <2>. QED  BY <1>4, <2>1, <2>2, <2>3, <2>4, <2>5 DEF EnableStep
<1>5. CASE Quietly(DisableStep)
  <2>1. CASE DisableRefused  BY <1>5, <2>1 DEF DisableRefused
  <2>2. CASE DisableInactive  BY <1>5, <2>2 DEF DisableInactive
  <2>3. CASE DisableCon  BY <1>5, <2>3 DEF DisableCon
  <2>4. CASE DisableRead  BY <1>5, <2>4 DEF DisableRead
  <2>5. CASE DisableClear  BY <1>5, <2>5 DEF DisableClear
  <2>6. CASE DisableReread  BY <1>5, <2>6 DEF DisableReread
  <2>7. CASE DisableMask  BY <1>5, <2>7 DEF DisableMask
  <2>. QED  BY <1>5, <2>1, <2>2, <2>3, <2>4, <2>5, <2>6, <2>7 DEF DisableStep
<1>6. CASE Quietly(FreeStep)
  <2>1. CASE FreeActive  BY <1>6, <2>1 DEF FreeActive
  <2>2. CASE FreeNotActive  BY <1>6, <2>2 DEF FreeNotActive
  <2>3. CASE FreeInactive  BY <1>6, <2>3 DEF FreeInactive
  <2>4. CASE FreeFree  BY <1>6, <2>4 DEF FreeFree
  <2>5. CASE FreeLock  BY <1>6, <2>5 DEF FreeLock
  <2>6. CASE FreeNotifier  BY <1>6, <2>6 DEF FreeNotifier
  <2>7. CASE FreeDma  BY <1>6, <2>7 DEF FreeDma
  <2>8. CASE FreeIsr  BY <1>6, <2>8 DEF FreeIsr
  <2>9. CASE FreeIrq  BY <1>6, <2>9 DEF FreeIrq, IC!CallFree
  <2>10. CASE FreeDone  BY <1>6, <2>10 DEF FreeDone
  <2>. QED  BY <1>6, <2>1, <2>2, <2>3, <2>4, <2>5, <2>6, <2>7, <2>8, <2>9, <2>10 DEF FreeStep
<1>7. CASE Quietly(IrqCall)
  BY <1>7 DEF IrqCall, IC!RequestStep, IC!FreeStep, IC!RequestVec, IC!RequestPparam,
      IC!RequestIecr, IC!RequestImr, IC!FreeVec, IC!FreePparam, IC!FreeIecr, IC!FreeImr
<1>8. CASE Quietly(HandlerStep \/ Engine)  BY <1>8, BesideTheTest
<1>9. CASE UNCHANGED allVars  BY <1>9 DEF allVars, vars, icVars
<1>. QED  BY <1>1, <1>2, <1>3, <1>4, <1>5, <1>6, <1>7, <1>8, <1>9 DEF UartNext, ServiceStep

\* And so is the interrupt.
LEMMA IrqsStep == ASSUME UInv, [UartNext]_allVars PROVE Irqs'
<1> USE DEF UInv, IInv, TypeOK, FramesOK, Place, Locks, Irqs
<1>1. CASE Begin \/ Leave \/ Configure \/ Enable
  <2>1. CASE Begin
    <3>1. CASE Go("menu", "request_rx") /\ socle_request_dma(tx, socle_uart_tx_dma_notifier)
      BY <3>1, CallFrame
    <3>2. CASE Go("request_rx", "held") /\ socle_request_dma(rx, socle_uart_rx_dma_notifier)
      BY <3>2, CallFrame
    <3>. QED  BY <2>1, <3>1, <3>2 DEF Begin
  <2>2. CASE Leave
    <3>1. CASE Go("held", "leave_rx") /\ socle_disable_dma(tx)
      BY <3>1, CallFrame
    <3>2. CASE Go("leave_rx", "free_tx") /\ socle_disable_dma(rx)
      BY <3>2, CallFrame
    <3>3. CASE Go("free_tx", "free_rx") /\ socle_free_dma(tx)
      BY <3>3, CallFrame
    <3>4. CASE Go("free_rx", "menu") /\ socle_free_dma(rx)
      BY <3>4, CallFrame
    <3>. QED  BY <2>2, <3>1, <3>2, <3>3, <3>4 DEF Leave
  <2>3. CASE Configure
    <3>1. CASE Go("disable_tx", "mode_tx") /\ socle_disable_dma(tx)
      BY <3>1, CallFrame
    <3>2. CASE Go("mode_tx", "disable_rx") /\ socle_set_dma_mode(tx, "slice")
      BY <3>2
    <3>3. CASE Go("disable_rx", "mode_rx") /\ socle_disable_dma(rx)
      BY <3>3, CallFrame
    <3>4. CASE Go("mode_rx", "enable_tx") /\ socle_set_dma_mode(rx, "slice")
      BY <3>4
    <3>. QED  BY <2>3, <3>1, <3>2, <3>3, <3>4 DEF Configure
  <2>4. CASE Enable
    <3>1. CASE Go("enable_tx", "enable_rx") /\ socle_enable_dma(tx)
      BY <3>1, CallFrame
    <3>2. CASE Go("enable_rx", "wait") /\ socle_enable_dma(rx)
      BY <3>2, CallFrame
    <3>. QED  BY <2>4, <3>1, <3>2 DEF Enable
  <2>. QED  BY <1>1, <2>1, <2>2, <2>3, <2>4
<1>2. CASE InitEnvironment \/ WaitHits \/ WaitGoesOn \/ WaitTimesOut \/ Compare
  BY <1>2 DEF InitEnvironment, WaitHits, WaitGoesOn, WaitTimesOut, Compare
<1>3. CASE Quietly(RequestStep)
  <2>1. CASE RequestBusy  BY <1>3, <2>1 DEF RequestBusy
  <2>2. CASE RequestLock  BY <1>3, <2>2 DEF RequestLock
  <2>3. CASE RequestInit  BY <1>3, <2>3 DEF RequestInit
  <2>4. CASE RequestDma  BY <1>3, <2>4 DEF RequestDma
  <2>5. CASE RequestIsr  BY <1>3, <2>5 DEF RequestIsr
  <2>6. CASE RequestIrq  BY <1>3, <2>6 DEF RequestIrq, IC!CallRequest
  <2>7. CASE RequestDone  BY <1>3, <2>7 DEF RequestDone
  <2>. QED  BY <1>3, <2>1, <2>2, <2>3, <2>4, <2>5, <2>6, <2>7 DEF RequestStep
<1>4. CASE Quietly(EnableStep)
  <2>1. CASE EnableRefused  BY <1>4, <2>1 DEF EnableRefused
  <2>2. CASE EnableActive  BY <1>4, <2>2 DEF EnableActive
  <2>3. CASE EnableRead  BY <1>4, <2>3 DEF EnableRead
  <2>4. CASE EnableUnmask  BY <1>4, <2>4 DEF EnableUnmask
  <2>5. CASE EnableCon  BY <1>4, <2>5 DEF EnableCon
  <2>. QED  BY <1>4, <2>1, <2>2, <2>3, <2>4, <2>5 DEF EnableStep
<1>5. CASE Quietly(DisableStep)
  <2>1. CASE DisableRefused  BY <1>5, <2>1 DEF DisableRefused
  <2>2. CASE DisableInactive  BY <1>5, <2>2 DEF DisableInactive
  <2>3. CASE DisableCon  BY <1>5, <2>3 DEF DisableCon
  <2>4. CASE DisableRead  BY <1>5, <2>4 DEF DisableRead
  <2>5. CASE DisableClear  BY <1>5, <2>5 DEF DisableClear
  <2>6. CASE DisableReread  BY <1>5, <2>6 DEF DisableReread
  <2>7. CASE DisableMask  BY <1>5, <2>7 DEF DisableMask
  <2>. QED  BY <1>5, <2>1, <2>2, <2>3, <2>4, <2>5, <2>6, <2>7 DEF DisableStep
<1>6. CASE Quietly(FreeStep)
  <2>1. CASE FreeActive  BY <1>6, <2>1 DEF FreeActive
  <2>2. CASE FreeNotActive  BY <1>6, <2>2 DEF FreeNotActive
  <2>3. CASE FreeInactive  BY <1>6, <2>3 DEF FreeInactive
  <2>4. CASE FreeFree  BY <1>6, <2>4 DEF FreeFree
  <2>5. CASE FreeLock  BY <1>6, <2>5 DEF FreeLock
  <2>6. CASE FreeNotifier  BY <1>6, <2>6 DEF FreeNotifier
  <2>7. CASE FreeDma  BY <1>6, <2>7 DEF FreeDma
  <2>8. CASE FreeIsr  BY <1>6, <2>8 DEF FreeIsr
  <2>9. CASE FreeIrq  BY <1>6, <2>9 DEF FreeIrq, IC!CallFree
  <2>10. CASE FreeDone  BY <1>6, <2>10 DEF FreeDone
  <2>. QED  BY <1>6, <2>1, <2>2, <2>3, <2>4, <2>5, <2>6, <2>7, <2>8, <2>9, <2>10 DEF FreeStep
<1>7. CASE Quietly(IrqCall)
  BY <1>7 DEF IrqCall, IC!RequestStep, IC!FreeStep, IC!RequestVec, IC!RequestPparam,
      IC!RequestIecr, IC!RequestImr, IC!FreeVec, IC!FreePparam, IC!FreeIecr, IC!FreeImr
<1>8. CASE Quietly(HandlerStep \/ Engine)  BY <1>8, BesideTheTest
<1>9. CASE UNCHANGED allVars  BY <1>9 DEF allVars, vars, icVars
<1>. QED  BY <1>1, <1>2, <1>3, <1>4, <1>5, <1>6, <1>7, <1>8, <1>9 DEF UartNext, ServiceStep

LEMMA PlacesTyped == ASSUME UInv, [UartNext]_allVars PROVE (upc \in UpcBegin \cup UpcRun \cup UpcLeave /\ t \in 0 .. Threshold)'
<1> USE DEF UInv, UartTypeOK
<1>1. CASE Begin \/ Leave \/ Configure \/ Enable
  BY <1>1 DEF Begin, Leave, Configure, Enable
<1>2. CASE InitEnvironment \/ WaitHits \/ WaitGoesOn \/ WaitTimesOut \/ Compare
  BY <1>2 DEF InitEnvironment, WaitHits, WaitGoesOn, WaitTimesOut, Compare, WaitPolls
<1>3. CASE Quietly(ServiceStep) \/ Quietly(HandlerStep) \/ Quietly(Engine)  BY <1>3
<1>4. CASE UNCHANGED allVars  BY <1>4 DEF allVars
<1>. QED  BY <1>1, <1>2, <1>3, <1>4 DEF UartNext

\* The invariant holds in every state of a session.
THEOREM UartInvariant == UartSpec => []UInv
<1>1. UInv /\ [UartNext]_allVars => UInv'
  <2> SUFFICES ASSUME UInv, [UartNext]_allVars PROVE UInv'
    OBVIOUS
  <2>1. IInv' /\ Place' /\ Locks' /\ Irqs'  BY CarriesOver, PlaceStep, LocksStep, IrqsStep
  <2>2. UartTypeOK'  BY <2>1, PlacesTyped DEF UartTypeOK, IInv
  <2>. QED  BY <2>1, <2>2 DEF UInv
<1>. QED  BY UInitInv, <1>1, PTL DEF UartSpec

\* Leaving the test gives both channels back and disables their interrupt
\* (uart-ctrl.c:310-313), whatever the engine was doing when a wait expired.
THEOREM TestLeavesClean == UartSpec => []LeftClean
<1>1. ASSUME UInv, upc = "menu", drv = NoCall PROVE LeftClean
  <2>1. lock[0] = 0 /\ lock[1] = 0 /\ iecr = {}  BY <1>1 DEF UInv, Locks, Irqs
  <2>2. \A c \in Channel : lock[c] = 0 /\ active[c] = 0  BY <1>1, <2>1 DEF UInv, IInv, CallPhase, TypeOK
  <2>3. \A c \in Channel : hw[c] = "off" /\ \A e \in Event : <<c, e>> \notin act
    BY <1>1, <2>2 DEF UInv, IInv, InactiveStopped
  <2>4. \A c \in Channel : ~container[c].dma  BY <1>1, <2>2 DEF UInv, IInv, ContainerOwned
  <2>. QED  BY <2>1, <2>2, <2>3, <2>4 DEF LeftClean
<1>2. UInv => LeftClean  BY <1>1 DEF LeftClean
<1>. QED  BY <1>2, UartInvariant, PTL
=============================================================================
