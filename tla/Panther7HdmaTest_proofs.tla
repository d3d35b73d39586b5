---------------------- MODULE Panther7HdmaTest_proofs ----------------------
(***************************************************************************)
(* Completions of the memory-to-memory test, for every number of channels, *)
(* every time-out of the wait and every length of a burn-in: none is taken *)
(* for that of another transfer, and none is lost.                         *)
(*                                                                         *)
(* The argument: before a transfer is enabled the disable has left no flag *)
(* in the status register and no exception running, so the first flag is   *)
(* that of the transfer itself (Current).  From then on the completion is  *)
(* in the register until the handler has read it, with the handler until   *)
(* it has run the callback, and in the test's flag after that (Carried);   *)
(* the two read-modify-writes lose nothing, because no flag can be raised  *)
(* any more.                                                               *)
(***************************************************************************)
EXTENDS Panther7HdmaTest, Panther7Hdma_proofs

Enabling   == {"en_check"} \cup EnPc
Disabling  == {"dis_check"} \cup DisPc
Holding    == {"free_check", "free_inactive", "free_lock"} \cup DisPc    \* a free that has not let go yet
Freeing    == Holding \cup GonePc
InTransfer == {"configure", "clear", "enable", "wait", "compare"}

In(pcs) == drv.pc # "idle" => drv.pc \in pcs /\ drv.ch = chan

\* The call the test is in, at each of its places.
Place ==
  /\ drv.pc = "idle" => drv = NoCall
  /\ cpc = "menu" => In(Freeing)
  /\ cpc = "held" => In(ReqPc)
  /\ cpc \in {"free", "configure"} => In(Disabling)
  /\ cpc = "wait" => In(Enabling)
  /\ cpc \in {"clear", "enable", "compare"} => drv = NoCall
  /\ drv.pc \in Disabling => drv.then = IF cpc = "menu" THEN "free_inactive" ELSE "idle"
  /\ cpc \in InTransfer => left \in 1 .. MaxBurn

\* It holds one channel, stopped before a transfer begins.
Locks ==
  /\ \A c \in Channel : lock[c] = 1 => c = chan
  /\ cpc = "menu" => lock[chan] = IF drv.pc \in Holding THEN 1 ELSE 0
  /\ cpc = "held" => lock[chan] = IF drv.pc = "req_lock" THEN 0 ELSE 1
  /\ cpc \notin {"menu", "held"} => lock[chan] = 1
  /\ cpc = "configure" => active[chan] = 0 \/ drv.pc = "dis_check"
  /\ cpc \in {"clear", "enable"} => active[chan] = 0
  /\ cpc = "wait" => active[chan] = IF drv.pc = "en_check" THEN 0 ELSE 1

\* The interrupt is enabled, with a handler, from the request on.
Registered == Hdma \in iecr /\ Hdma \in imr /\ vec[Hdma] # NULL
Irqs ==
  /\ main.pc \in IC!RequestPc => drv.pc = "req_wait"
  /\ main.pc \in IC!FreePc => drv.pc = "free_wait"
  /\ main.pc \in {"rq_pparam", "rq_iecr", "rq_imr"} => vec[Hdma] # NULL
  /\ main.pc = "rq_imr" => Hdma \in iecr
  /\ drv.pc = "req_wait" => main.pc \in IC!RequestPc \/ Registered
  /\ cpc = "held" /\ drv.pc = "idle" => Registered
  /\ cpc \notin {"menu", "held"} => Registered

\* The first flag raised after the enable is that of the transfer itself.
Current ==
  /\ cpc = "enable" => complete_flag = 0 /\ act = {} /\ isr = IC!NoIsr
  /\ cpc = "wait" /\ ~Finished(chan) => complete_flag = 0 /\ act = {} /\ isr = IC!NoIsr
  /\ cpc = "wait" /\ drv.pc # "idle" => hw[chan] = "off"
  /\ cpc = "compare" => Finished(chan)

\* Where the completion is, between the engine and the test.
Carried ==
  /\ cpc \in {"clear", "enable", "wait"} => mode[chan] = "sw"
  /\ cpc = "wait" /\ drv.pc \in {"idle", "en_con"} => \A e \in Event : <<chan, e>> \notin mask
  /\ cpc = "wait" /\ hisr.at \in {"stat", "rmw", "clear", "notify"} => hisr.ch = chan
  /\ cpc = "wait" /\ Finished(chan) /\ complete_flag = 0
       => IF hisr.at \in {"rmw", "clear", "notify"} THEN "int" \in hisr.stat ELSE <<chan, "int">> \in act

TInv == TestTypeOK /\ IInv /\ Place /\ Locks /\ Irqs /\ Current /\ Carried

USE TestAssumption, BoardAssumption, HdmaAssumption
    DEF Mode, Event, NoCall, NoHandler, Quiet, dmaVars, regVars, icVars,
        Step, Return, Call, StatusAfterWrite, Flags,
        IC!MainRuns, IC!Idle, IC!NoIsr, IC!At, IC!table, IC!chip, IC!world,
        DrvPc, ReqPc, EnPc, DisPc, OffPc, CleanPc, GonePc, IC!RequestPc, IC!FreePc,
        Local, TestPc, In, Enabling, Disabling, Holding, Freeing, InTransfer, Quietly, testVars,
        complete_flag, SetFlag, Finished, Registered,
        socle_request_dma, socle_free_dma, socle_enable_dma, socle_disable_dma, socle_set_dma_mode

LEMMA TInitInv == TestInit => TInv
<1> SUFFICES ASSUME TestInit PROVE TInv
  OBVIOUS
<1>1. Init /\ cpc = "menu" /\ chan = 0 /\ t = 0 /\ left = 0  BY DEF TestInit
<1>2. IInv  BY <1>1, InitIInv
<1>3. 0 \in Channel  BY DEF Channel
<1>4. TestTypeOK  BY <1>1, <1>2, <1>3 DEF TestTypeOK, IInv
<1>5. Place /\ Irqs /\ Current /\ Carried  BY <1>1 DEF Init, Place, Irqs, Current, Carried
<1>6. Locks  BY <1>1, <1>3 DEF Init, Locks
<1>. QED  BY <1>2, <1>4, <1>5, <1>6 DEF TInv

\* A step of the test is one a client of the channel service may take, or
\* stores to its flag only.
LEMMA CarriesOver == ASSUME TInv, [TestNext]_allVars PROVE IInv'
<1> USE DEF TInv
<1>0. chan \in Channel /\ panther7_hdma_notifier \in Notifier  BY DEF TestTypeOK
<1>1. ASSUME NEW c \in Channel, socle_free_dma(c) \/ socle_enable_dma(c) \/ socle_disable_dma(c) PROVE IInv'
  <2>1. Client  BY <1>1 DEF Client
  <2>. QED  BY <2>1, IInvStep DEF Next
<1>2. ASSUME UNCHANGED <<dmaVars, container, drv, hisr, regVars, icVars>>, flag' = flag \/ \E v \in {0, 1} : SetFlag(v) PROVE IInv'
  <2>1. flag' \in [Notifier -> {0, 1}]  BY <1>2 DEF IInv, TypeOK
  <2>. QED  BY <1>2, <2>1, FlagStep
<1>3. CASE Menu
  <2>1. ASSUME NEW c \in Channel, TestBegin(c) PROVE IInv'
    <3>1. lock[chan] = 0 /\ \A d \in Channel : lock[d] = 1 => d = chan  BY <2>1 DEF TestBegin, Locks
    <3>2. Quiet  BY <3>1 DEF IInv, CallPhase, TypeOK
    <3>3. Client  BY <1>0, <2>1, <3>2 DEF TestBegin, Client
    <3>. QED  BY <3>3, IInvStep DEF Next
  <2>2. ASSUME NEW n \in 1 .. MaxBurn, Run(n) PROVE IInv'  BY <2>2, <1>0, <1>1 DEF Run
  <2>3. CASE TestLeave  BY <2>3, <1>0, <1>1 DEF TestLeave
  <2>. QED  BY <1>3, <2>1, <2>2, <2>3 DEF Menu
<1>4. CASE TestFree  BY <1>4, <1>0, <1>1 DEF TestFree
<1>5. CASE Configure
  <2>1. active[chan] = 0 /\ socle_set_dma_mode(chan, "sw")  BY <1>5 DEF Configure, Locks
  <2>2. Client  BY <1>0, <2>1 DEF Client
  <2>. QED  BY <2>2, IInvStep DEF Next
<1>6. CASE Enable  BY <1>6, <1>0, <1>1 DEF Enable
<1>7. CASE ClearFlag \/ WaitHits \/ WaitGoesOn \/ WaitTimesOut
  BY <1>7, <1>2 DEF ClearFlag, WaitHits, WaitGoesOn, WaitTimesOut
<1>8. CASE Compare
  <2>1. CASE left > 1  BY <1>8, <2>1, <1>0, <1>1 DEF Compare
  <2>2. CASE ~(left > 1)  BY <1>8, <2>2, <1>2 DEF Compare
  <2>. QED  BY <2>1, <2>2
<1>9. CASE ServiceStep \/ HandlerStep \/ Engine  BY <1>9, IInvStep DEF Next
<1>10. CASE UNCHANGED allVars
  <2>1. UNCHANGED vars  BY <1>10 DEF allVars
  <2>. QED  BY <2>1, IInvStep
<1>. QED  BY <1>3, <1>4, <1>5, <1>6, <1>7, <1>8, <1>9, <1>10 DEF TestNext, Transfer

\* The exception and the engine leave alone what the test has locked.
LEMMA BesideTheTest ==
  ASSUME HandlerStep \/ Engine
  PROVE  UNCHANGED <<dmaVars, drv, main, vec, iecr, imr>>
<1>1. CASE HandlerStep
  BY <1>1 DEF HandlerStep, DispatchStep, HandlerEnter, HandlerSkip, HandlerChannel, HandlerStatus,
      HandlerRead, HandlerClear, HandlerNotify, HandlerLeave, IC!TakeIrq, IC!NullVector, IC!ClearIrq,
      IC!CallHandler, IC!HandlerReturns
<1>2. CASE Engine  BY <1>2 DEF Engine, Complete, Overflow
<1>. QED  BY <1>1, <1>2

\* A call begins where no other is in progress, and changes nothing else.
LEMMA CallFrame ==
  ASSUME NEW to, NEW c, NEW n, Call(to, c, n)
  PROVE  /\ drv = NoCall /\ drv'.pc = to /\ drv'.ch = c /\ drv'.then = "idle" /\ isr = IC!NoIsr
         /\ UNCHANGED <<dmaVars, hisr, flag, regVars, icVars>>
<1>. QED  OBVIOUS

\* At every place the test is in the call that the code makes there.
LEMMA PlaceStep == ASSUME TInv, [TestNext]_allVars PROVE Place'
<1> USE DEF TInv, IInv, TypeOK, TestTypeOK, Place
<1>1. CASE Menu \/ TestFree
  <2>1. ASSUME NEW c \in Channel, TestBegin(c) PROVE Place'
    BY <2>1, CallFrame DEF TestBegin
  <2>2. ASSUME NEW n \in 1 .. MaxBurn, Run(n) PROVE Place'  BY <2>2, CallFrame DEF Run
  <2>3. CASE TestLeave  BY <2>3, CallFrame DEF TestLeave
  <2>4. CASE TestFree  BY <2>4, CallFrame DEF TestFree
  <2>. QED  BY <1>1, <2>1, <2>2, <2>3, <2>4 DEF Menu
<1>2. CASE Transfer
  <2>1. CASE Configure  BY <2>1 DEF Configure
  <2>2. CASE ClearFlag  BY <2>2 DEF ClearFlag, SetFlag
  <2>3. CASE Enable  BY <2>3, CallFrame DEF Enable
  <2>4. CASE WaitHits  BY <2>4 DEF WaitHits, WaitHit, SetFlag
  <2>5. CASE WaitGoesOn  BY <2>5 DEF WaitGoesOn, WaitPolls
  <2>6. CASE WaitTimesOut  BY <2>6 DEF WaitTimesOut, WaitExpires
  <2>7. CASE Compare
    <3>1. CASE left > 1
      <4>1. cpc = "compare" /\ cpc' = "configure" /\ socle_disable_dma(chan) /\ UNCHANGED <<chan, t>>
        BY <2>7, <3>1 DEF Compare
      <4>2. left' \in 1 .. MaxBurn  BY <2>7, <3>1 DEF Compare
      <4>. QED  BY <4>1, <4>2, CallFrame
    <3>2. CASE ~(left > 1)  BY <2>7, <3>2 DEF Compare
    <3>. QED  BY <3>1, <3>2
  <2>. QED  BY <1>2, <2>1, <2>2, <2>3, <2>4, <2>5, <2>6, <2>7 DEF Transfer
<1>3. CASE Quietly(RequestStep)
  <2>1. CASE RequestBusy  BY <1>3, <2>1 DEF RequestBusy
  <2>2. CASE RequestLock  BY <1>3, <2>2 DEF RequestLock
  <2>3. CASE RequestInit  BY <1>3, <2>3 DEF RequestInit
  <2>4. CASE RequestDma  BY <1>3, <2>4 DEF RequestDma
  <2>5. CASE RequestIsr  BY <1>3, <2>5 DEF RequestIsr
  <2>6. CASE RequestIrq  BY <1>3, <2>6 DEF RequestIrq, IC!CallRequest
  <2>7. CASE RequestDone  BY <1>3, <2>7 DEF RequestDone
  <2>. QED  BY <1>3, <2>1, <2>2, <2>3, <2>4, <2>5, <2>6, <2>7 DEF RequestStep
<1>4. CASE Quietly(EnableStep)
  <2>1. CASE EnableRefused  BY <1>4, <2>1 DEF EnableRefused
  <2>2. CASE EnableActive  BY <1>4, <2>2 DEF EnableActive
  <2>3. CASE EnableRead  BY <1>4, <2>3 DEF EnableRead
  <2>4. CASE EnableUnmask  BY <1>4, <2>4 DEF EnableUnmask
  <2>5. CASE EnableCon  BY <1>4, <2>5 DEF EnableCon
  <2>. QED  BY <1>4, <2>1, <2>2, <2>3, <2>4, <2>5 DEF EnableStep
<1>5. CASE Quietly(DisableStep)
  <2>1. CASE DisableRefused  BY <1>5, <2>1 DEF DisableRefused
  <2>2. CASE DisableInactive  BY <1>5, <2>2 DEF DisableInactive
  <2>3. CASE DisableCon  BY <1>5, <2>3 DEF DisableCon
  <2>4. CASE DisableRead  BY <1>5, <2>4 DEF DisableRead
  <2>5. CASE DisableClear  BY <1>5, <2>5 DEF DisableClear
  <2>6. CASE DisableReread  BY <1>5, <2>6 DEF DisableReread
  <2>7. CASE DisableMask  BY <1>5, <2>7 DEF DisableMask
  <2>. QED  BY <1>5, <2>1, <2>2, <2>3, <2>4, <2>5, <2>6, <2>7 DEF DisableStep
<1>6. CASE Quietly(FreeStep)
  <2>1. CASE FreeActive  BY <1>6, <2>1 DEF FreeActive
  <2>2. CASE FreeNotActive  BY <1>6, <2>2 DEF FreeNotActive
  <2>3. CASE FreeInactive  BY <1>6, <2>3 DEF FreeInactive
  <2>4. CASE FreeFree  BY <1>6, <2>4 DEF FreeFree
  <2>5. CASE FreeLock  BY <1>6, <2>5 DEF FreeLock
  <2>6. CASE FreeNotifier  BY <1>6, <2>6 DEF FreeNotifier
  <2>7. CASE FreeDma  BY <1>6, <2>7 DEF FreeDma
  <2>8. CASE FreeIsr  BY <1>6, <2>8 DEF FreeIsr
  <2>9. CASE FreeIrq  BY <1>6, <2>9 DEF FreeIrq, IC!CallFree
  <2>10. CASE FreeDone  BY <1>6, <2>10 DEF FreeDone
  <2>. QED  BY <1>6, <2>1, <2>2, <2>3, <2>4, <2>5, <2>6, <2>7, <2>8, <2>9, <2>10 DEF FreeStep
<1>7. CASE Quietly(IrqCall)
  BY <1>7 DEF IrqCall, IC!RequestStep, IC!FreeStep, IC!RequestVec, IC!RequestPparam,
      IC!RequestIecr, IC!RequestImr, IC!FreeVec, IC!FreePparam, IC!FreeIecr, IC!FreeImr
<1>8. CASE Quietly(HandlerStep) \/ Quietly(Engine)  BY <1>8, BesideTheTest
<1>9. CASE UNCHANGED allVars  BY <1>9 DEF allVars, testVars, vars, icVars
<1>. QED  BY <1>1, <1>2, <1>3, <1>4, <1>5, <1>6, <1>7, <1>8, <1>9 DEF TestNext, ServiceStep

\* The channel is locked, started and let go by these calls only.
LEMMA LocksStep == ASSUME TInv, [TestNext]_allVars PROVE Locks'
<1> USE DEF TInv, IInv, TypeOK, CallPhase, TestTypeOK, Place, Locks
<1>1. CASE Menu \/ TestFree
  <2>1. ASSUME NEW c \in Channel, TestBegin(c) PROVE Locks'
    <3>1. \A d \in Channel : lock[d] = 0  BY <2>1 DEF TestBegin
    <3>2. lock' = lock /\ cpc' = "held" /\ drv'.pc = "req_lock" /\ chan' = c  BY <2>1, CallFrame DEF TestBegin
    <3>. QED  BY <3>1, <3>2
  <2>2. ASSUME NEW n \in 1 .. MaxBurn, Run(n) PROVE Locks'  BY <2>2, CallFrame DEF Run
  <2>3. CASE TestLeave  BY <2>3, CallFrame DEF TestLeave
  <2>4. CASE TestFree  BY <2>4, CallFrame DEF TestFree
  <2>. QED  BY <1>1, <2>1, <2>2, <2>3, <2>4 DEF Menu
<1>2. CASE Transfer
  <2>1. CASE Configure  BY <2>1 DEF Configure
  <2>2. CASE ClearFlag  BY <2>2 DEF ClearFlag, SetFlag
  <2>3. CASE Enable  BY <2>3, CallFrame DEF Enable
  <2>4. CASE WaitHits  BY <2>4 DEF WaitHits, WaitHit, SetFlag
  <2>5. CASE WaitGoesOn  BY <2>5 DEF WaitGoesOn, WaitPolls
  <2>6. CASE WaitTimesOut  BY <2>6 DEF WaitTimesOut, WaitExpires
  <2>7. CASE Compare
    <3>1. CASE left > 1
      <4>1. cpc = "compare" /\ cpc' = "configure" /\ socle_disable_dma(chan) /\ UNCHANGED <<chan, t>>
        BY <2>7, <3>1 DEF Compare
      <4>2. left' \in 1 .. MaxBurn  BY <2>7, <3>1 DEF Compare
      <4>. QED  BY <4>1, <4>2, CallFrame
    <3>2. CASE ~(left > 1)  BY <2>7, <3>2 DEF Compare
    <3>. QED  BY <3>1, <3>2
  <2>. QED  BY <1>2, <2>1, <2>2, <2>3, <2>4, <2>5, <2>6, <2>7 DEF Transfer
<1>3. CASE Quietly(RequestStep)
  <2>1. CASE RequestBusy  BY <1>3, <2>1 DEF RequestBusy
  <2>2. CASE RequestLock  BY <1>3, <2>2 DEF RequestLock
  <2>3. CASE RequestInit  BY <1>3, <2>3 DEF RequestInit
  <2>4. CASE RequestDma  BY <1>3, <2>4 DEF RequestDma
  <2>5. CASE RequestIsr  BY <1>3, <2>5 DEF RequestIsr
  <2>6. CASE RequestIrq  BY <1>3, <2>6 DEF RequestIrq, IC!CallRequest
  <2>7. CASE RequestDone  BY <1>3, <2>7 DEF RequestDone
  <2>. QED  BY <1>3, <2>1, <2>2, <2>3, <2>4, <2>5, <2>6, <2>7 DEF RequestStep
<1>4. CASE Quietly(EnableStep)
  <2>1. CASE EnableRefused  BY <1>4, <2>1 DEF EnableRefused
  <2>2. CASE EnableActive  BY <1>4, <2>2 DEF EnableActive
  <2>3. CASE EnableRead  BY <1>4, <2>3 DEF EnableRead
  <2>4. CASE EnableUnmask  BY <1>4, <2>4 DEF EnableUnmask
  <2>5. CASE EnableCon  BY <1>4, <2>5 DEF EnableCon
  <2>. QED  BY <1>4, <2>1, <2>2, <2>3, <2>4, <2>5 DEF EnableStep
<1>5. CASE Quietly(DisableStep)
  <2>1. CASE DisableRefused  BY <1>5, <2>1 DEF DisableRefused
  <2>2. CASE DisableInactive  BY <1>5, <2>2 DEF DisableInactive
  <2>3. CASE DisableCon  BY <1>5, <2>3 DEF DisableCon
  <2>4. CASE DisableRead  BY <1>5, <2>4 DEF DisableRead
  <2>5. CASE DisableClear  BY <1>5, <2>5 DEF DisableClear
  <2>6. CASE DisableReread  BY <1>5, <2>6 DEF DisableReread
  <2>7. CASE DisableMask  BY <1>5, <2>7 DEF DisableMask
  <2>. QED  BY <1>5, <2>1, <2>2, <2>3, <2>4, <2>5, <2>6, <2>7 DEF DisableStep
<1>6. CASE Quietly(FreeStep)
  <2>1. CASE FreeActive  BY <1>6, <2>1 DEF FreeActive
  <2>2. CASE FreeNotActive  BY <1>6, <2>2 DEF FreeNotActive
  <2>3. CASE FreeInactive  BY <1>6, <2>3 DEF FreeInactive
  <2>4. CASE FreeFree  BY <1>6, <2>4 DEF FreeFree
  <2>5. CASE FreeLock  BY <1>6, <2>5 DEF FreeLock
  <2>6. CASE FreeNotifier  BY <1>6, <2>6 DEF FreeNotifier
  <2>7. CASE FreeDma  BY <1>6, <2>7 DEF FreeDma
  <2>8. CASE FreeIsr  BY <1>6, <2>8 DEF FreeIsr
  <2>9. CASE FreeIrq  BY <1>6, <2>9 DEF FreeIrq, IC!CallFree
  <2>10. CASE FreeDone  BY <1>6, <2>10 DEF FreeDone
  <2>. QED  BY <1>6, <2>1, <2>2, <2>3, <2>4, <2>5, <2>6, <2>7, <2>8, <2>9, <2>10 DEF FreeStep
<1>7. CASE Quietly(IrqCall)
  BY <1>7 DEF IrqCall, IC!RequestStep, IC!FreeStep, IC!RequestVec, IC!RequestPparam,
      IC!RequestIecr, IC!RequestImr, IC!FreeVec, IC!FreePparam, IC!FreeIecr, IC!FreeImr
<1>8. CASE Quietly(HandlerStep) \/ Quietly(Engine)  BY <1>8, BesideTheTest
<1>9. CASE UNCHANGED allVars  BY <1>9 DEF allVars, testVars, vars, icVars
<1>. QED  BY <1>1, <1>2, <1>3, <1>4, <1>5, <1>6, <1>7, <1>8, <1>9 DEF TestNext, ServiceStep

\* The interrupt is registered by the request and freed by the free.
LEMMA IrqsStep == ASSUME TInv, [TestNext]_allVars PROVE Irqs'
<1> USE DEF TInv, IInv, TypeOK, FramesOK, TestTypeOK, Place, Locks, Irqs
<1>1. CASE Menu \/ TestFree
  <2>1. ASSUME NEW c \in Channel, TestBegin(c) PROVE Irqs'
    BY <2>1, CallFrame DEF TestBegin
  <2>2. ASSUME NEW n \in 1 .. MaxBurn, Run(n) PROVE Irqs'  BY <2>2, CallFrame DEF Run
  <2>3. CASE TestLeave  BY <2>3, CallFrame DEF TestLeave
  <2>4. CASE TestFree  BY <2>4, CallFrame DEF TestFree
  <2>. QED  BY <1>1, <2>1, <2>2, <2>3, <2>4 DEF Menu
<1>2. CASE Transfer
  <2>1. CASE Configure  BY <2>1 DEF Configure
  <2>2. CASE ClearFlag  BY <2>2 DEF ClearFlag, SetFlag
  <2>3. CASE Enable  BY <2>3, CallFrame DEF Enable
  <2>4. CASE WaitHits  BY <2>4 DEF WaitHits, WaitHit, SetFlag
  <2>5. CASE WaitGoesOn  BY <2>5 DEF WaitGoesOn, WaitPolls
  <2>6. CASE WaitTimesOut  BY <2>6 DEF WaitTimesOut, WaitExpires
  <2>7. CASE Compare
    <3>1. CASE left > 1
      <4>1. cpc = "compare" /\ cpc' = "configure" /\ socle_disable_dma(chan) /\ UNCHANGED <<chan, t>>
        BY <2>7, <3>1 DEF Compare
      <4>2. left' \in 1 .. MaxBurn  BY <2>7, <3>1 DEF Compare
      <4>. QED  BY <4>1, <4>2, CallFrame
    <3>2. CASE ~(left > 1)  BY <2>7, <3>2 DEF Compare
    <3>. QED  BY <3>1, <3>2
  <2>. QED  BY <1>2, <2>1, <2>2, <2>3, <2>4, <2>5, <2>6, <2>7 DEF Transfer
<1>3. CASE Quietly(RequestStep)
  <2>1. CASE RequestBusy  BY <1>3, <2>1 DEF RequestBusy
  <2>2. CASE RequestLock  BY <1>3, <2>2 DEF RequestLock
  <2>3. CASE RequestInit  BY <1>3, <2>3 DEF RequestInit
  <2>4. CASE RequestDma  BY <1>3, <2>4 DEF RequestDma
  <2>5. CASE RequestIsr  BY <1>3, <2>5 DEF RequestIsr
  <2>6. CASE RequestIrq  BY <1>3, <2>6 DEF RequestIrq, IC!CallRequest
  <2>7. CASE RequestDone  BY <1>3, <2>7 DEF RequestDone
  <2>. QED  BY <1>3, <2>1, <2>2, <2>3, <2>4, <2>5, <2>6, <2>7 DEF RequestStep
<1>4. CASE Quietly(EnableStep)
  <2>1. CASE EnableRefused  BY <1>4, <2>1 DEF EnableRefused
  <2>2. CASE EnableActive  BY <1>4, <2>2 DEF EnableActive
  <2>3. CASE EnableRead  BY <1>4, <2>3 DEF EnableRead
  <2>4. CASE EnableUnmask  BY <1>4, <2>4 DEF EnableUnmask
  <2>5. CASE EnableCon  BY <1>4, <2>5 DEF EnableCon
  <2>. QED  BY <1>4, <2>1, <2>2, <2>3, <2>4, <2>5 DEF EnableStep
<1>5. CASE Quietly(DisableStep)
  <2>1. CASE DisableRefused  BY <1>5, <2>1 DEF DisableRefused
  <2>2. CASE DisableInactive  BY <1>5, <2>2 DEF DisableInactive
  <2>3. CASE DisableCon  BY <1>5, <2>3 DEF DisableCon
  <2>4. CASE DisableRead  BY <1>5, <2>4 DEF DisableRead
  <2>5. CASE DisableClear  BY <1>5, <2>5 DEF DisableClear
  <2>6. CASE DisableReread  BY <1>5, <2>6 DEF DisableReread
  <2>7. CASE DisableMask  BY <1>5, <2>7 DEF DisableMask
  <2>. QED  BY <1>5, <2>1, <2>2, <2>3, <2>4, <2>5, <2>6, <2>7 DEF DisableStep
<1>6. CASE Quietly(FreeStep)
  <2>1. CASE FreeActive  BY <1>6, <2>1 DEF FreeActive
  <2>2. CASE FreeNotActive  BY <1>6, <2>2 DEF FreeNotActive
  <2>3. CASE FreeInactive  BY <1>6, <2>3 DEF FreeInactive
  <2>4. CASE FreeFree  BY <1>6, <2>4 DEF FreeFree
  <2>5. CASE FreeLock  BY <1>6, <2>5 DEF FreeLock
  <2>6. CASE FreeNotifier  BY <1>6, <2>6 DEF FreeNotifier
  <2>7. CASE FreeDma  BY <1>6, <2>7 DEF FreeDma
  <2>8. CASE FreeIsr  BY <1>6, <2>8 DEF FreeIsr
  <2>9. CASE FreeIrq  BY <1>6, <2>9 DEF FreeIrq, IC!CallFree
  <2>10. CASE FreeDone  BY <1>6, <2>10 DEF FreeDone
  <2>. QED  BY <1>6, <2>1, <2>2, <2>3, <2>4, <2>5, <2>6, <2>7, <2>8, <2>9, <2>10 DEF FreeStep
<1>7. CASE Quietly(IrqCall)
  BY <1>7 DEF IrqCall, IC!RequestStep, IC!FreeStep, IC!RequestVec, IC!RequestPparam,
      IC!RequestIecr, IC!RequestImr, IC!FreeVec, IC!FreePparam, IC!FreeIecr, IC!FreeImr
<1>8. CASE Quietly(HandlerStep) \/ Quietly(Engine)  BY <1>8, BesideTheTest
<1>9. CASE UNCHANGED allVars  BY <1>9 DEF allVars, testVars, vars, icVars
<1>. QED  BY <1>1, <1>2, <1>3, <1>4, <1>5, <1>6, <1>7, <1>8, <1>9 DEF TestNext, ServiceStep

\* While a transfer is on its way the engine runs on the channel of the test
\* only, and only after the enable has returned.
LEMMA OnlyChanRuns ==
  ASSUME TInv, NEW c \in Channel, hw[c] # "off", cpc \in {"clear", "enable", "wait", "compare"}
  PROVE  c = chan /\ active[chan] = 1 /\ cpc \in {"wait", "compare"} /\ drv.pc = "idle"
<1> USE DEF TInv, IInv, TypeOK, TestTypeOK
<1>1. drv.pc \notin DisPc  BY DEF Place
<1>2. active[c] # 0  BY <1>1, Zenon DEF InactiveStopped
<1>3. active[c] = 1  BY <1>2
<1>4. lock[c] = 1  BY <1>3 DEF CallPhase
<1>5. c = chan  BY <1>4 DEF Locks
<1>6. cpc \in {"wait", "compare"}  BY <1>3, <1>5 DEF Locks
<1>7. drv.pc = "idle"  BY <1>5, <1>6 DEF Current, Place
<1>. QED  BY <1>3, <1>5, <1>6, <1>7

\* No flag and no exception of an earlier transfer outlives its disable.
LEMMA CurrentStep == ASSUME TInv, [TestNext]_allVars PROVE Current'
<1> USE DEF TInv, IInv, TypeOK, FramesOK, HandlerRuns, InactiveStopped, TestTypeOK, Place, Locks, Irqs, Current
<1>1. CASE Menu \/ TestFree
  <2>1. ASSUME NEW c \in Channel, TestBegin(c) PROVE Current'
    BY <2>1, CallFrame DEF TestBegin
  <2>2. ASSUME NEW n \in 1 .. MaxBurn, Run(n) PROVE Current'  BY <2>2, CallFrame DEF Run
  <2>3. CASE TestLeave  BY <2>3, CallFrame DEF TestLeave
  <2>4. CASE TestFree  BY <2>4, CallFrame DEF TestFree
  <2>. QED  BY <1>1, <2>1, <2>2, <2>3, <2>4 DEF Menu
<1>2. CASE Transfer
  <2>1. CASE Configure  BY <2>1 DEF Configure
  <2>2. CASE ClearFlag
    <3>1. cpc = "clear" /\ cpc' = "enable" /\ complete_flag' = 0 /\ isr = IC!NoIsr
          /\ drv = NoCall /\ UNCHANGED <<act, isr, hw, chan>>
      BY <2>2 DEF ClearFlag
    <3>2. \A c \in Channel : active[c] = 0  BY <3>1 DEF CallPhase
    <3>3. act = {}
      <4>1. SUFFICES ASSUME NEW p \in act PROVE FALSE  OBVIOUS
      <4>2. PICK c \in Channel, e \in Event : p = <<c, e>>  BY <4>1
      <4>3. drv.pc = "idle"  BY <3>1
      <4>4. active[c] = 0  BY <3>2
      <4>5. <<c, e>> \notin act  BY <4>3, <4>4 DEF InactiveStopped
      <4>. QED  BY <4>1, <4>2, <4>5
    <3>. QED  BY <3>1, <3>3
  <2>3. CASE Enable  BY <2>3, CallFrame DEF Enable
  <2>4. CASE WaitHits  BY <2>4 DEF WaitHits, WaitHit, SetFlag
  <2>5. CASE WaitGoesOn  BY <2>5 DEF WaitGoesOn, WaitPolls
  <2>6. CASE WaitTimesOut  BY <2>6 DEF WaitTimesOut, WaitExpires
  <2>7. CASE Compare
    <3>1. CASE left > 1  BY <2>7, <3>1, CallFrame DEF Compare
    <3>2. CASE ~(left > 1)  BY <2>7, <3>2 DEF Compare
    <3>. QED  BY <3>1, <3>2
  <2>. QED  BY <1>2, <2>1, <2>2, <2>3, <2>4, <2>5, <2>6, <2>7 DEF Transfer
<1>3. CASE Quietly(RequestStep)
  <2>1. CASE RequestBusy  BY <1>3, <2>1 DEF RequestBusy
  <2>2. CASE RequestLock  BY <1>3, <2>2 DEF RequestLock
  <2>3. CASE RequestInit  BY <1>3, <2>3 DEF RequestInit
  <2>4. CASE RequestDma  BY <1>3, <2>4 DEF RequestDma
  <2>5. CASE RequestIsr  BY <1>3, <2>5 DEF RequestIsr
  <2>6. CASE RequestIrq  BY <1>3, <2>6 DEF RequestIrq, IC!CallRequest
  <2>7. CASE RequestDone  BY <1>3, <2>7 DEF RequestDone
  <2>. QED  BY <1>3, <2>1, <2>2, <2>3, <2>4, <2>5, <2>6, <2>7 DEF RequestStep
<1>4. CASE Quietly(EnableStep)
  <2>1. CASE EnableRefused  BY <1>4, <2>1 DEF EnableRefused
  <2>2. CASE EnableActive  BY <1>4, <2>2 DEF EnableActive
  <2>3. CASE EnableRead  BY <1>4, <2>3 DEF EnableRead
  <2>4. CASE EnableUnmask  BY <1>4, <2>4 DEF EnableUnmask
  <2>5. CASE EnableCon  BY <1>4, <2>5 DEF EnableCon
  <2>. QED  BY <1>4, <2>1, <2>2, <2>3, <2>4, <2>5 DEF EnableStep
<1>5. CASE Quietly(DisableStep)
  <2>1. CASE DisableRefused  BY <1>5, <2>1 DEF DisableRefused
  <2>2. CASE DisableInactive  BY <1>5, <2>2 DEF DisableInactive
  <2>3. CASE DisableCon  BY <1>5, <2>3 DEF DisableCon
  <2>4. CASE DisableRead  BY <1>5, <2>4 DEF DisableRead
  <2>5. CASE DisableClear  BY <1>5, <2>5 DEF DisableClear
  <2>6. CASE DisableReread  BY <1>5, <2>6 DEF DisableReread
  <2>7. CASE DisableMask  BY <1>5, <2>7 DEF DisableMask
  <2>. QED  BY <1>5, <2>1, <2>2, <2>3, <2>4, <2>5, <2>6, <2>7 DEF DisableStep
<1>6. CASE Quietly(FreeStep)
  <2>1. CASE FreeActive  BY <1>6, <2>1 DEF FreeActive
  <2>2. CASE FreeNotActive  BY <1>6, <2>2 DEF FreeNotActive
  <2>3. CASE FreeInactive  BY <1>6, <2>3 DEF FreeInactive
  <2>4. CASE FreeFree  BY <1>6, <2>4 DEF FreeFree
  <2>5. CASE FreeLock  BY <1>6, <2>5 DEF FreeLock
  <2>6. CASE FreeNotifier  BY <1>6, <2>6 DEF FreeNotifier
  <2>7. CASE FreeDma  BY <1>6, <2>7 DEF FreeDma
  <2>8. CASE FreeIsr  BY <1>6, <2>8 DEF FreeIsr
  <2>9. CASE FreeIrq  BY <1>6, <2>9 DEF FreeIrq, IC!CallFree
  <2>10. CASE FreeDone  BY <1>6, <2>10 DEF FreeDone
  <2>. QED  BY <1>6, <2>1, <2>2, <2>3, <2>4, <2>5, <2>6, <2>7, <2>8, <2>9, <2>10 DEF FreeStep
<1>7. CASE Quietly(IrqCall)
  BY <1>7 DEF IrqCall, IC!RequestStep, IC!FreeStep, IC!RequestVec, IC!RequestPparam,
      IC!RequestIecr, IC!RequestImr, IC!FreeVec, IC!FreePparam, IC!FreeIecr, IC!FreeImr
<1>8. CASE Quietly(HandlerStep) \/ Quietly(Engine)
  <2>1. CASE DispatchStep
    BY <1>8, <2>1 DEF DispatchStep, IC!TakeIrq, IC!NullVector, IC!ClearIrq, IC!Pending, HdmaLine
  <2>2. CASE HandlerEnter  BY <1>8, <2>2 DEF HandlerEnter, IC!CallHandler
  <2>3. CASE HandlerSkip  BY <1>8, <2>3 DEF HandlerSkip
  <2>4. CASE HandlerChannel  BY <1>8, <2>4 DEF HandlerChannel
  <2>5. CASE HandlerStatus  BY <1>8, <2>5 DEF HandlerStatus
  <2>6. CASE HandlerRead  BY <1>8, <2>6 DEF HandlerRead
  <2>7. CASE HandlerClear  BY <1>8, <2>7 DEF HandlerClear
  <2>8. CASE HandlerNotify  BY <1>8, <2>8 DEF HandlerNotify, NullNotifier
  <2>9. CASE HandlerLeave  BY <1>8, <2>9 DEF HandlerLeave, IC!HandlerReturns
  <2>10. ASSUME NEW c \in Channel, Complete(c) PROVE Current'
    <3>3. hw[c] # "off"  BY <2>10 DEF Complete
    <3>1. CASE cpc \in {"clear", "enable", "wait", "compare"}
      <4>1. c = chan /\ active[chan] = 1 /\ cpc \in {"wait", "compare"} /\ drv.pc = "idle"  BY <3>3, <3>1, OnlyChanRuns
      <4>. QED  BY <1>8, <2>10, <4>1 DEF Complete, DoneEvent
    <3>2. CASE cpc \notin {"clear", "enable", "wait", "compare"}  BY <1>8, <2>10, <3>2 DEF Complete, DoneEvent
    <3>. QED  BY <3>1, <3>2
  <2>11. ASSUME NEW c \in Channel, Overflow(c) PROVE Current'
    <3>3. hw[c] # "off"  BY <2>11 DEF Overflow
    <3>1. CASE cpc \in {"clear", "enable", "wait", "compare"}
      <4>1. c = chan /\ active[chan] = 1 /\ cpc \in {"wait", "compare"} /\ drv.pc = "idle"  BY <3>3, <3>1, OnlyChanRuns
      <4>. QED  BY <1>8, <2>11, <4>1 DEF Overflow
    <3>2. CASE cpc \notin {"clear", "enable", "wait", "compare"}  BY <1>8, <2>11, <3>2 DEF Overflow
    <3>. QED  BY <3>1, <3>2
  <2>. QED  BY <1>8, <2>1, <2>2, <2>3, <2>4, <2>5, <2>6, <2>7, <2>8, <2>9, <2>10, <2>11 DEF HandlerStep, Engine
<1>9. CASE UNCHANGED allVars  BY <1>9 DEF allVars, testVars, vars, icVars
<1>. QED  BY <1>1, <1>2, <1>3, <1>4, <1>5, <1>6, <1>7, <1>8, <1>9 DEF TestNext, ServiceStep

\* The completion is handed on from the engine to the test.
LEMMA CarriedStep == ASSUME TInv, [TestNext]_allVars PROVE Carried'
<1> USE DEF TInv, IInv, TypeOK, FramesOK, HandlerRuns, InactiveStopped, ContainerOwned, HeldNotifier, TestTypeOK, Place, Locks, Irqs, Current, Carried
<1>1. CASE Menu \/ TestFree
  <2>1. ASSUME NEW c \in Channel, TestBegin(c) PROVE Carried'
    BY <2>1, CallFrame DEF TestBegin
  <2>2. ASSUME NEW n \in 1 .. MaxBurn, Run(n) PROVE Carried'  BY <2>2, CallFrame DEF Run
  <2>3. CASE TestLeave  BY <2>3, CallFrame DEF TestLeave
  <2>4. CASE TestFree  BY <2>4, CallFrame DEF TestFree
  <2>. QED  BY <1>1, <2>1, <2>2, <2>3, <2>4 DEF Menu
<1>2. CASE Transfer
  <2>1. CASE Configure  BY <2>1 DEF Configure
  <2>2. CASE ClearFlag  BY <2>2 DEF ClearFlag, SetFlag
  <2>3. CASE Enable  BY <2>3, CallFrame DEF Enable
  <2>4. CASE WaitHits  BY <2>4 DEF WaitHits, WaitHit, SetFlag
  <2>5. CASE WaitGoesOn  BY <2>5 DEF WaitGoesOn, WaitPolls
  <2>6. CASE WaitTimesOut  BY <2>6 DEF WaitTimesOut, WaitExpires
  <2>7. CASE Compare
    <3>1. CASE left > 1  BY <2>7, <3>1, CallFrame DEF Compare
    <3>2. CASE ~(left > 1)  BY <2>7, <3>2 DEF Compare
    <3>. QED  BY <3>1, <3>2
  <2>. QED  BY <1>2, <2>1, <2>2, <2>3, <2>4, <2>5, <2>6, <2>7 DEF Transfer
<1>3. CASE Quietly(RequestStep)
  <2>1. CASE RequestBusy  BY <1>3, <2>1 DEF RequestBusy
  <2>2. CASE RequestLock  BY <1>3, <2>2 DEF RequestLock
  <2>3. CASE RequestInit  BY <1>3, <2>3 DEF RequestInit
  <2>4. CASE RequestDma  BY <1>3, <2>4 DEF RequestDma
  <2>5. CASE RequestIsr  BY <1>3, <2>5 DEF RequestIsr
  <2>6. CASE RequestIrq  BY <1>3, <2>6 DEF RequestIrq, IC!CallRequest
  <2>7. CASE RequestDone  BY <1>3, <2>7 DEF RequestDone
  <2>. QED  BY <1>3, <2>1, <2>2, <2>3, <2>4, <2>5, <2>6, <2>7 DEF RequestStep
<1>4. CASE Quietly(EnableStep)
  <2>1. CASE EnableRefused  BY <1>4, <2>1 DEF EnableRefused
  <2>2. CASE EnableActive  BY <1>4, <2>2 DEF EnableActive
  <2>3. CASE EnableRead  BY <1>4, <2>3 DEF EnableRead
  <2>4. CASE EnableUnmask  BY <1>4, <2>4 DEF EnableUnmask
  <2>5. CASE EnableCon  BY <1>4, <2>5 DEF EnableCon
  <2>. QED  BY <1>4, <2>1, <2>2, <2>3, <2>4, <2>5 DEF EnableStep
<1>5. CASE Quietly(DisableStep)
  <2>1. CASE DisableRefused  BY <1>5, <2>1 DEF DisableRefused
  <2>2. CASE DisableInactive  BY <1>5, <2>2 DEF DisableInactive
  <2>3. CASE DisableCon  BY <1>5, <2>3 DEF DisableCon
  <2>4. CASE DisableRead  BY <1>5, <2>4 DEF DisableRead
  <2>5. CASE DisableClear  BY <1>5, <2>5 DEF DisableClear
  <2>6. CASE DisableReread  BY <1>5, <2>6 DEF DisableReread
  <2>7. CASE DisableMask  BY <1>5, <2>7 DEF DisableMask
  <2>. QED  BY <1>5, <2>1, <2>2, <2>3, <2>4, <2>5, <2>6, <2>7 DEF DisableStep
<1>6. CASE Quietly(FreeStep)
  <2>1. CASE FreeActive  BY <1>6, <2>1 DEF FreeActive
  <2>2. CASE FreeNotActive  BY <1>6, <2>2 DEF FreeNotActive
  <2>3. CASE FreeInactive  BY <1>6, <2>3 DEF FreeInactive
  <2>4. CASE FreeFree  BY <1>6, <2>4 DEF FreeFree
  <2>5. CASE FreeLock  BY <1>6, <2>5 DEF FreeLock
  <2>6. CASE FreeNotifier  BY <1>6, <2>6 DEF FreeNotifier
  <2>7. CASE FreeDma  BY <1>6, <2>7 DEF FreeDma
  <2>8. CASE FreeIsr  BY <1>6, <2>8 DEF FreeIsr
  <2>9. CASE FreeIrq  BY <1>6, <2>9 DEF FreeIrq, IC!CallFree
  <2>10. CASE FreeDone  BY <1>6, <2>10 DEF FreeDone
  <2>. QED  BY <1>6, <2>1, <2>2, <2>3, <2>4, <2>5, <2>6, <2>7, <2>8, <2>9, <2>10 DEF FreeStep
<1>7. CASE Quietly(IrqCall)
  BY <1>7 DEF IrqCall, IC!RequestStep, IC!FreeStep, IC!RequestVec, IC!RequestPparam,
      IC!RequestIecr, IC!RequestImr, IC!FreeVec, IC!FreePparam, IC!FreeIecr, IC!FreeImr
<1>8. CASE Quietly(HandlerStep) \/ Quietly(Engine)
  <2>1. CASE DispatchStep
    BY <1>8, <2>1 DEF DispatchStep, IC!TakeIrq, IC!NullVector, IC!ClearIrq, IC!Pending, HdmaLine
  <2>2. CASE HandlerEnter  BY <1>8, <2>2 DEF HandlerEnter, IC!CallHandler
  <2>3. CASE HandlerSkip  BY <1>8, <2>3 DEF HandlerSkip
  <2>4. CASE HandlerChannel
    <3>1. hisr.ch \in Channel /\ container[hisr.ch].dma  BY <2>4 DEF HandlerChannel, Channel
    <3>2. cpc = "wait" => lock[hisr.ch] = 1  BY <3>1
    <3>3. cpc = "wait" => hisr'.ch = chan  BY <2>4, <3>1, <3>2 DEF HandlerChannel
    <3>. QED  BY <1>8, <2>4, <3>3 DEF HandlerChannel
  <2>5. CASE HandlerStatus  BY <1>8, <2>5 DEF HandlerStatus
  <2>6. CASE HandlerRead  BY <1>8, <2>6 DEF HandlerRead
  <2>7. CASE HandlerClear  BY <1>8, <2>7 DEF HandlerClear
  <2>8. CASE HandlerNotify
    <3>1. cpc = "wait" => hisr.ch = chan /\ lock[chan] = 1 /\ drv.pc # "req_init"  BY <2>8 DEF HandlerNotify
    <3>2. cpc = "wait" => notifier[chan] = panther7_hdma_notifier  BY <3>1
    <3>3. cpc = "wait" /\ "int" \in hisr.stat => complete_flag' = 1
      BY <2>8, <3>1, <3>2 DEF HandlerNotify, NullNotifier
    <3>4. complete_flag = 1 => complete_flag' = 1  BY <2>8 DEF HandlerNotify
    <3>5. UNCHANGED <<dmaVars, container, drv, main, vec, iecr, imr, testVars, act, mask, mode, hw>>
      BY <1>8, <2>8 DEF HandlerNotify
    <3>6. hisr.at = "notify" /\ hisr'.at \notin {"stat", "rmw", "clear", "notify"}
      BY <2>8 DEF HandlerNotify
    <3>. QED  BY <3>3, <3>4, <3>5, <3>6
  <2>9. CASE HandlerLeave  BY <1>8, <2>9 DEF HandlerLeave, IC!HandlerReturns
  <2>10. ASSUME NEW c \in Channel, Complete(c) PROVE Carried'
    <3>3. hw[c] # "off"  BY <2>10 DEF Complete
    <3>1. CASE cpc \in {"clear", "enable", "wait", "compare"}
      <4>1. c = chan /\ active[chan] = 1 /\ cpc \in {"wait", "compare"} /\ drv.pc = "idle"  BY <3>3, <3>1, OnlyChanRuns
      <4>2. cpc = "wait" => mode[chan] = "sw" /\ hisr.at = "none"  BY <2>10, <4>1 DEF Complete, Finished
      <4>3. cpc = "wait" => <<chan, "int">> \in act'  BY <2>10, <4>1, <4>2 DEF Complete, DoneEvent
      <4>4. UNCHANGED <<dmaVars, hisr, drv, mask, testVars>>  BY <1>8, <2>10 DEF Complete
      <4>. QED  BY <4>1, <4>2, <4>3, <4>4
    <3>2. CASE cpc \notin {"clear", "enable", "wait", "compare"}  BY <1>8, <2>10, <3>2 DEF Complete, DoneEvent
    <3>. QED  BY <3>1, <3>2
  <2>11. ASSUME NEW c \in Channel, Overflow(c) PROVE Carried'
    <3>3. hw[c] # "off"  BY <2>11 DEF Overflow
    <3>1. CASE cpc \in {"clear", "enable", "wait", "compare"}
      <4>1. c = chan /\ active[chan] = 1 /\ cpc \in {"wait", "compare"} /\ drv.pc = "idle"  BY <3>3, <3>1, OnlyChanRuns
      <4>. QED  BY <1>8, <2>11, <4>1 DEF Overflow
    <3>2. CASE cpc \notin {"clear", "enable", "wait", "compare"}  BY <1>8, <2>11, <3>2 DEF Overflow
    <3>. QED  BY <3>1, <3>2
  <2>. QED  BY <1>8, <2>1, <2>2, <2>3, <2>4, <2>5, <2>6, <2>7, <2>8, <2>9, <2>10, <2>11 DEF HandlerStep, Engine
<1>9. CASE UNCHANGED allVars  BY <1>9 DEF allVars, testVars, vars, icVars
<1>. QED  BY <1>1, <1>2, <1>3, <1>4, <1>5, <1>6, <1>7, <1>8, <1>9 DEF TestNext, ServiceStep

LEMMA TestTyped == ASSUME TInv, [TestNext]_allVars PROVE TestTypeOK'
<1> USE DEF TInv
<1>1. TypeOK'  BY CarriesOver DEF IInv
<1>2. cpc' \in TestPc /\ chan' \in Channel /\ t' \in 0 .. Threshold /\ left' \in 0 .. MaxBurn
  <2> USE DEF TestTypeOK
  <2>1. CASE Menu \/ TestFree
    <3>1. ASSUME NEW c \in Channel, TestBegin(c) PROVE cpc' \in TestPc /\ chan' = c /\ UNCHANGED <<t, left>>
      BY <3>1 DEF TestBegin
    <3>2. ASSUME NEW n \in 1 .. MaxBurn, Run(n) PROVE cpc' \in TestPc /\ left' = n /\ UNCHANGED <<chan, t>>
      BY <3>2 DEF Run
    <3>3. CASE TestLeave \/ TestFree  BY <3>3 DEF TestLeave, TestFree
    <3>. QED  BY <2>1, <3>1, <3>2, <3>3 DEF Menu
  <2>2. CASE Transfer
    <3>1. CASE Compare  BY <3>1 DEF Compare, Place
    <3>2. CASE Configure \/ ClearFlag \/ Enable \/ WaitHits \/ WaitGoesOn \/ WaitTimesOut
      BY <3>2 DEF Configure, ClearFlag, Enable, WaitHits, WaitGoesOn, WaitTimesOut, WaitPolls
    <3>. QED  BY <2>2, <3>1, <3>2 DEF Transfer
  <2>3. CASE UNCHANGED testVars  BY <2>3
  <2>. QED  BY <2>1, <2>2, <2>3 DEF TestNext, allVars
<1>. QED  BY <1>1, <1>2 DEF TestTypeOK

\* The invariant holds in every state of a session.
THEOREM TestInvariant == TestSpec => []TInv
<1>1. TInv /\ [TestNext]_allVars => TInv'
  BY CarriesOver, TestTyped, PlaceStep, LocksStep, IrqsStep, CurrentStep, CarriedStep DEF TInv
<1>. QED  BY TInitInv, <1>1, PTL DEF TestSpec

\* A successful wait is about the transfer just started: a completion of an
\* earlier one, arriving after its time-out, is never taken for it.
THEOREM CompletionsAreCurrent == TestSpec => []CompletionIsCurrent
<1>1. TInv => CompletionIsCurrent  BY DEF TInv, Current, CompletionIsCurrent
<1>. QED  BY <1>1, TestInvariant, PTL

\* No completion is lost: until the flag of the test is set, its interrupt is
\* enabled and pending, or being handled.
THEOREM CompletionsArrive == TestSpec => []CompletionOnItsWay
<1>1. ASSUME TInv, cpc = "wait", drv = NoCall, Finished(chan), complete_flag = 0
      PROVE  /\ Hdma \in iecr \cap imr /\ vec[Hdma] # NULL
             /\ \/ <<chan, "int">> \in act \ mask
                \/ hisr.at \in {"rmw", "clear", "notify"} /\ hisr.ch = chan /\ "int" \in hisr.stat
  <2>1. Hdma \in iecr \cap imr /\ vec[Hdma] # NULL  BY <1>1 DEF TInv, Irqs
  <2>2. <<chan, "int">> \notin mask  BY <1>1 DEF TInv, Carried
  <2>3. IF hisr.at \in {"rmw", "clear", "notify"} THEN hisr.ch = chan /\ "int" \in hisr.stat ELSE <<chan, "int">> \in act
    BY <1>1 DEF TInv, Carried
  <2>. QED  BY <2>1, <2>2, <2>3
<1>. QED  BY <1>1, TestInvariant, PTL DEF CompletionOnItsWay
=============================================================================
