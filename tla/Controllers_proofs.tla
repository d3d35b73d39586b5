-------------------------- MODULE Controllers_proofs --------------------------
(***************************************************************************)
(* Safety of the interrupt controller, for every set of sources, handlers  *)
(* and parameters, with exceptions on time or late; of the two USB host    *)
(* tests, for every sequence of menu keys, answers of the device and       *)
(* interrupts; and of the free rings, for any number of descriptors.       *)
(*                                                                         *)
(* A transfer function waits for a flag that an interrupt sets.  That the  *)
(* flag is its own transfer's is known because between two transfers       *)
(* nothing is left to execute, nothing to report and no flag is set, and   *)
(* during one at most one of the three is the case: EhQuiet and EhOneQueue *)
(* for EHCI, while no descriptor was returned in use, and OhPhase for      *)
(* OHCI, when the controller is fast.                                      *)
(***************************************************************************)
EXTENDS InterruptController, UsbHosts, SequenceTheorems, TLAPS

-----------------------------------------------------------------------------
(* The interrupt controller.                                               *)
EarlyBoot == {"boot_iecr", "boot_iccr"}

\* An enabled source has a complete entry, or free_irq has emptied it.
EnabledEntry ==
  main.pc # "boot_iecr" => \A i \in iecr :
     IF vec[i] # NULL THEN pparam[i] = ParamOf[vec[i]]
                      ELSE main.pc \in {"fr_pparam", "fr_iecr"} /\ main.irq = i

\* What request_irq has stored so far, and that its source is still disabled.
RequestProgress ==
  /\ main.pc \in RequestPc => main.param = ParamOf[main.routine]
  /\ main.pc \in {"rq_vec", "rq_pparam", "rq_iecr"} => main.irq \notin iecr
  /\ main.pc \in {"rq_pparam", "rq_iecr", "rq_imr"} => vec[main.irq] = main.routine
  /\ main.pc \in {"rq_iecr", "rq_imr"} => pparam[main.irq] = main.param

\* free_irq empties the handler before the parameter.
FreeProgress == main.pc \in {"fr_pparam", "fr_iecr", "fr_imr"} => vec[main.irq] = NULL

\* The exception runs only for an enabled source, after the boot, and the
\* entry of a running handler is not empty.
RunningIsr ==
  /\ irqOn <=> main.pc \notin BootPc
  /\ isr # NoIsr => irqOn /\ isr.irq \in iecr
  /\ isr.at = "run" => vec[isr.irq] # NULL

\* A quiesced device that is not armed has neither a line nor a latched edge.
QuiescedSilent ==
  \A i \in Quiesced \ armed : i \notin line /\ (main.pc \notin EarlyBoot => i \notin latch)

\* An armed device has a registered handler that is not being removed.
ArmedRegistered ==
  \A i \in Quiesced \cap armed : vec[i] # NULL /\ ~(main.pc \in FreePc /\ main.irq = i)

IInv == /\ TypeOK /\ EnabledEntry /\ RequestProgress /\ FreeProgress /\ RunningIsr
        /\ QuiescedSilent /\ ArmedRegistered /\ NoSpuriousDispatch

LEMMA InitIInv == Init => IInv
<1> SUFFICES ASSUME Init PROVE IInv
  OBVIOUS
<1> USE ControllerAssumption DEF Init, At, NoIsr, BootPc, RequestPc, FreePc, EarlyBoot
<1>1. TypeOK  BY DEF TypeOK
<1>2. EnabledEntry /\ RequestProgress /\ FreeProgress
  BY DEF EnabledEntry, RequestProgress, FreeProgress
<1>3. RunningIsr /\ NoSpuriousDispatch  BY DEF RunningIsr, NoSpuriousDispatch
<1>4. QuiescedSilent /\ ArmedRegistered  BY DEF QuiescedSilent, ArmedRegistered
<1>. QED  BY <1>1, <1>2, <1>3, <1>4 DEF IInv

LEMMA StepIInv == IInv /\ [Next]_vars => IInv'
<1> SUFFICES ASSUME IInv, [Next]_vars PROVE IInv'
  OBVIOUS
<1> USE ControllerAssumption
    DEF IInv, TypeOK, EnabledEntry, RequestProgress, FreeProgress, RunningIsr, QuiescedSilent, ArmedRegistered,
        NoSpuriousDispatch, At, Idle, NoIsr, BootPc, RequestPc, FreePc, EarlyBoot, MainRuns, table, chip, world
<1>1. CASE Boot
  <2>1. CASE BootIecr  BY <2>1 DEF BootIecr
  <2>2. CASE BootIccr  BY <2>2 DEF BootIccr
  <2>3. CASE EnableIrq
    <3> USE <2>3 DEF EnableIrq
    <3>1. TypeOK' /\ EnabledEntry' /\ RequestProgress' /\ FreeProgress'  OBVIOUS
    <3>2. RunningIsr' /\ NoSpuriousDispatch'  OBVIOUS
    <3>3. QuiescedSilent' /\ ArmedRegistered'  OBVIOUS
    <3>. QED  BY <3>1, <3>2, <3>3 DEF IInv
  <2>. QED  BY <1>1, <2>1, <2>2, <2>3 DEF Boot
<1>2. CASE RequestStep
  <2>1. CASE RequestVec  BY <2>1 DEF RequestVec
  <2>2. CASE RequestPparam  BY <2>2 DEF RequestPparam
  <2>3. CASE RequestIecr  BY <2>3 DEF RequestIecr
  <2>4. CASE RequestImr  BY <2>4 DEF RequestImr
  <2>. QED  BY <1>2, <2>1, <2>2, <2>3, <2>4 DEF RequestStep
<1>3. CASE FreeStep
  <2>1. CASE FreeVec  BY <2>1 DEF FreeVec
  <2>2. CASE FreePparam  BY <2>2 DEF FreePparam
  <2>3. CASE FreeIecr  BY <2>3 DEF FreeIecr
  <2>4. CASE FreeImr  BY <2>4 DEF FreeImr
  <2>. QED  BY <1>3, <2>1, <2>2, <2>3, <2>4 DEF FreeStep
<1>4. CASE Take
  BY <1>4 DEF Take, TakeIrq, Pending
<1>5. CASE Dispatch
  <2>1. CASE NullVector  BY <2>1 DEF NullVector
  <2>2. CASE CallHandler  BY <2>2 DEF CallHandler
  <2>3. CASE Service  BY <2>3 DEF Service, Lower
  <2>4. CASE HandlerDone  BY <2>4 DEF HandlerDone, HandlerReturns
  <2>5. CASE ClearIrq  BY <2>5 DEF ClearIrq
  <2>. QED  BY <1>5, <2>1, <2>2, <2>3, <2>4, <2>5 DEF Dispatch
<1>6. CASE Driver
  <2> PICK i \in Irq : (\E r \in Routine : Acquire(i, r)) \/ Release(i) \/ Arm(i) \/ Quiesce(i)
    BY <1>6 DEF Driver
  <2>1. CASE \E r \in Routine : Acquire(i, r)  BY <2>1 DEF Acquire, CallRequest
  <2>2. CASE Release(i)  BY <2>2 DEF Release, CallFree
  <2>3. CASE Arm(i)  BY <2>3 DEF Arm
  <2>4. CASE Quiesce(i)  BY <2>4 DEF Quiesce
  <2>. QED  BY <2>1, <2>2, <2>3, <2>4
<1>7. CASE Device
  BY <1>7 DEF Device, Raise
<1>8. CASE UNCHANGED vars
  BY <1>8 DEF vars
<1>. QED  BY <1>1, <1>2, <1>3, <1>4, <1>5, <1>6, <1>7, <1>8 DEF Next

\* The strengthened invariant holds in every reachable state.
THEOREM Invariant == Spec => []IInv
  BY InitIInv, StepIInv, PTL DEF Spec

\* irq.c keeps its table, registers and call frames well typed.
THEOREM TypeCorrect == Spec => []TypeOK
<1>1. IInv => TypeOK  BY DEF IInv
<1>. QED  BY <1>1, Invariant, PTL

\* A handler runs only on a complete entry (irq.c:42-47, 106-107).
THEOREM HandlersGetTheirParam == Spec => []HandlerGetsItsParam
<1>1. IInv => HandlerGetsItsParam
  BY DEF IInv, RunningIsr, EnabledEntry, HandlerGetsItsParam, NoIsr, BootPc
<1>. QED  BY <1>1, Invariant, PTL

\* No empty entry stays enabled outside free_irq (irq.c:60-73).
THEOREM EmptyEntriesDisabled == Spec => []EmptyEntryDisabled
<1>1. IInv => EmptyEntryDisabled
  BY DEF IInv, RunningIsr, EnabledEntry, EmptyEntryDisabled, BootPc
<1>. QED  BY <1>1, Invariant, PTL

\* With quiescing drivers the silent return of irq_dispatch (irq.c:101-104) is dead code.
THEOREM DispatchNeverSpurious == Spec => []NoSpuriousDispatch
<1>1. IInv => NoSpuriousDispatch  BY DEF IInv
<1>. QED  BY <1>1, Invariant, PTL

-----------------------------------------------------------------------------
(* The invariant of the EHCI test.                                         *)
EhLoops == {"BulkLoopData", "IsoLoopData"}
EhCauses == {"INT", "ERR"}
EhStage == {"quiet", "in", "ioc"}
EhEntry == [left : Seq(EhStage), halted : BOOLEAN, address : BOOLEAN]

EhTyped ==
  /\ ehCall \in [name : DOMAIN EhShape, hub : BOOLEAN, short : BOOLEAN] \cup {EhNone}
  /\ ehStrayed \in BOOLEAN
  /\ ehFree \in [DOMAIN EhRings -> Int]
  /\ ehFlag \in [tc : BOOLEAN, ec : BOOLEAN, connect : BOOLEAN]
  /\ ehReg \in [run : BOOLEAN, ase : BOOLEAN, pse : BOOLEAN, enabled : SUBSET EhUpper, pending : SUBSET EhUpper]
  /\ ehList \in [DOMAIN ehList -> EhEntry]
  /\ ehSt \in {0, 1}
  /\ ehDev \in [there : BOOLEAN, address : {0, 1}, sure : BOOLEAN]

(* Transfers happen in a menu only.                                        *)
EhInMenu == ehMenu \in {"off", "idle"} => ehCall = EhNone /\ ehPlan = <<>>

EhSilent == ~ehFlag.tc /\ ~ehFlag.ec /\ ehReg.pending \cap EhCauses = {}
EhQuiet == ~ehStrayed /\ ehCall = EhNone => EhSilent /\ ehList = <<>>

(* Only the last descriptor of a queue has IOC, and only the one before it *)
(* may be answered short, so that a short answer leaves the last one.      *)
EhEndsWithIOC(left) == \A j \in 1 .. Len(left) :
  (left[j] = "ioc" <=> j = Len(left)) /\ (left[j] = "in" => j = Len(left) - 1)
EhOneQueue ==
  ~ehStrayed /\ ehCall # EhNone /\ ehCall.name \notin EhLoops =>
    /\ DOMAIN ehList = {1} /\ EhEndsWithIOC(ehList[1].left)
    /\ ehCall.short => Len(ehList[1].left) <= 1
    /\ ~ehCall.short => /\ EhActive(ehList[1]) => EhSilent
                        /\ (ehFlag.tc \/ ehFlag.ec) => ehReg.pending \cap EhCauses = {}

(* The device learns its address with the last descriptor of SetAddress,   *)
(* and its completion is reported from then on.                            *)
EhSettingAddress == ehCall.name = "SetAddress" /\ ~ehCall.hub
EhAddressing ==
  /\ ehCall # EhNone /\ ~EhSettingAddress => \A i \in DOMAIN ehList : ~ehList[i].address
  /\ ehDev.sure /\ ~EhSettingAddress => ehSt = ehDev.address
  /\ EhSettingAddress =>
       /\ DOMAIN ehList = {1} /\ ehList[1].address /\ EhEndsWithIOC(ehList[1].left)
       /\ ehDev.sure /\ EhRan(ehList[1]) => ehDev.address = 1 /\ (ehFlag.tc \/ "INT" \in ehReg.pending)
       /\ ehDev.sure /\ ~EhRan(ehList[1]) => ehSt = ehDev.address

EhInv == EhTyped /\ EhInMenu /\ EhPoolWhole /\ EhQuiet /\ EhOneQueue /\ EhAddressing
-----------------------------------------------------------------------------
(* The invariant of the OHCI test.                                         *)
OhEntry == [left : Int, end : Int, halted : BOOLEAN, last : BOOLEAN, address : BOOLEAN]
OhTyped ==
  /\ ohCall \in DOMAIN OhShape \cup {"none", "ResetDevice"}
  /\ ohFree \in [DOMAIN OhRings -> Int] /\ ohLost \in Nat
  /\ ohFlag \in [tc : BOOLEAN, reset : BOOLEAN, connect : BOOLEAN]
  /\ ohReg \in [operational : BOOLEAN, enabled : SUBSET OhUpper, pending : SUBSET (OhUpper \cup {"PRS"})]
  /\ ohList \in [DOMAIN ohList -> OhEntry]
  /\ ohDone \in [last : BOOLEAN, good : BOOLEAN, any : BOOLEAN]
  /\ ohHcca \in [last : BOOLEAN, good : BOOLEAN, any : BOOLEAN]
  /\ ohSt \in {0, 1} /\ ohDev \in [there : BOOLEAN, address : {0, 1}, resetting : BOOLEAN, sure : BOOLEAN]

OhInMenu == ohMenu \in {"off", "idle"} => ohCall = "none"

(* A transfer is executed, then handed over, then reported, one after the  *)
(* other; between two transfers nothing of the three is left.              *)
OhReported == ohFlag.tc \/ "WDH" \in ohReg.pending
OhPhase ==
  /\ OhReported => ~OhBusy /\ ~ohDone.any
  /\ ~(ohFlag.tc /\ "WDH" \in ohReg.pending)
  /\ ohCall \notin DOMAIN OhShape => ~OhBusy /\ ~ohDone.any /\ ~OhReported

(* A done queue whose head is the last descriptor of SetAddress, executed  *)
(* well, tells that the device has the address.                            *)
OhSaysAddressed(head) == head.any /\ head.last /\ head.good => ohDev.address = 1
OhAddressing ==
  /\ ohDev.sure => ohDev.there
  /\ ohCall \in DOMAIN OhShape => \A i \in DOMAIN ohList : ohList[i].address = (ohCall = "SetAddress")
  /\ ohDev.sure /\ ohCall = "SetAddress" => OhSaysAddressed(ohDone) /\ (OhReported => OhSaysAddressed(ohHcca))
  /\ ohDev.sure /\ ohCall = "ResetDevice" => ohDev.address = 0
  /\ OhKnowsAddress

OhInv == OhTyped /\ OhInMenu /\ OhPoolWhole /\ (ohFast => OhPhase /\ OhAddressing)
-----------------------------------------------------------------------------
(* The transfer functions of EHCI: what they take, and that all but the    *)
(* loops queue one transfer, reported by its last descriptor.              *)
EhShapeOK(x) == x.take \in [DOMAIN EhRings -> Int] /\ x.queues \in [DOMAIN x.queues -> Seq(EhStage)]
EhSingle(x) == DOMAIN x.queues = {1} /\ EhEndsWithIOC(x.queues[1]) /\ x.queues[1] # <<>>
EhSingleShapes == {EhNoData, EhRead, EhOne, ReceiveIntrData, GetHubDescriptor}
LEMMA EhLists ==
  /\ <<"quiet", "ioc">> \in Seq(EhStage) /\ EhEndsWithIOC(<<"quiet", "ioc">>)
  /\ <<"quiet", "in", "ioc">> \in Seq(EhStage) /\ EhEndsWithIOC(<<"quiet", "in", "ioc">>)
  /\ <<"ioc">> \in Seq(EhStage) /\ EhEndsWithIOC(<<"ioc">>)
  /\ <<"quiet">> \in Seq(EhStage)
<1>1. /\ <<"quiet", "ioc">> \in Seq(EhStage) /\ <<"quiet", "in", "ioc">> \in Seq(EhStage)
      /\ <<"ioc">> \in Seq(EhStage) /\ <<"quiet">> \in Seq(EhStage)
      BY DEF EhStage
<1>2. 1 .. 1 = {1} /\ 1 .. 2 = {1, 2} /\ 1 .. 3 = {1, 2, 3} OBVIOUS
<1>3. Len(<<"ioc">>) = 1 /\ <<"ioc">>[1] = "ioc" OBVIOUS
<1>4. Len(<<"quiet", "ioc">>) = 2 /\ <<"quiet", "ioc">>[1] = "quiet" /\ <<"quiet", "ioc">>[2] = "ioc" OBVIOUS
<1>5. /\ Len(<<"quiet", "in", "ioc">>) = 3 /\ <<"quiet", "in", "ioc">>[1] = "quiet"
      /\ <<"quiet", "in", "ioc">>[2] = "in" /\ <<"quiet", "in", "ioc">>[3] = "ioc"
      OBVIOUS
<1>6. EhEndsWithIOC(<<"ioc">>) BY <1>2, <1>3 DEF EhEndsWithIOC
<1>7. EhEndsWithIOC(<<"quiet", "ioc">>) BY <1>2, <1>4 DEF EhEndsWithIOC
<1>8. EhEndsWithIOC(<<"quiet", "in", "ioc">>) BY <1>2, <1>5 DEF EhEndsWithIOC
<1> QED BY <1>1, <1>6, <1>7, <1>8

LEMMA EhSingleOK ==
  ASSUME NEW x, x.take \in [{"qtd", "qh", "itd"} -> Int], NEW q \in Seq(EhStage), x.queues = <<q>>, EhEndsWithIOC(q), q # <<>>
  PROVE  EhShapeOK(x) /\ EhSingle(x)
<1>1. DOMAIN <<q>> = {1} /\ <<q>>[1] = q /\ <<q>> \in [{1} -> Seq(EhStage)] OBVIOUS
<1>2. DOMAIN EhRings = {"qtd", "qh", "itd"} BY DEF EhRings
<1> QED BY <1>1, <1>2 DEF EhShapeOK, EhSingle

LEMMA EhShapesAre ==
  /\ "none" \notin DOMAIN EhShape /\ "SetAddress" \in DOMAIN EhShape
  /\ \A n \in DOMAIN EhShape : EhShapeOK(EhShape[n]) /\ (n \notin EhLoops => EhSingle(EhShape[n]))
<1>1. EhShapeOK(EhNoData) /\ EhSingle(EhNoData)
  <2>1. EhNoData.take \in [{"qtd", "qh", "itd"} -> Int] BY DEF EhNoData
  <2>2. EhNoData.queues = << <<"quiet", "ioc">> >> BY DEF EhNoData
  <2> QED BY <2>1, <2>2, EhLists, EhSingleOK
<1>2. EhShapeOK(EhRead) /\ EhSingle(EhRead)
  <2>1. EhRead.take \in [{"qtd", "qh", "itd"} -> Int] BY DEF EhRead
  <2>2. EhRead.queues = << <<"quiet", "in", "ioc">> >> BY DEF EhRead
  <2> QED BY <2>1, <2>2, EhLists, EhSingleOK
<1>3. EhShapeOK(EhOne) /\ EhSingle(EhOne)
  <2>1. EhOne.take \in [{"qtd", "qh", "itd"} -> Int] BY DEF EhOne
  <2>2. EhOne.queues = << <<"ioc">> >> BY DEF EhOne
  <2> QED BY <2>1, <2>2, EhLists, EhSingleOK
<1>4. EhShapeOK(ReceiveIntrData) /\ EhSingle(ReceiveIntrData)
  <2>1. ReceiveIntrData.take \in [{"qtd", "qh", "itd"} -> Int] BY DEF ReceiveIntrData, EhOne
  <2>2. ReceiveIntrData.queues = << <<"ioc">> >> BY DEF ReceiveIntrData, EhOne
  <2> QED BY <2>1, <2>2, EhLists, EhSingleOK
<1>5. EhShapeOK(GetHubDescriptor) /\ EhSingle(GetHubDescriptor)
  <2>1. GetHubDescriptor.take \in [{"qtd", "qh", "itd"} -> Int] BY DEF GetHubDescriptor, EhRead
  <2>2. GetHubDescriptor.queues = << <<"quiet", "in", "ioc">> >> BY DEF GetHubDescriptor, EhRead
  <2> QED BY <2>1, <2>2, EhLists, EhSingleOK
<1>6. EhShapeOK(BulkLoopData) /\ EhShapeOK(IsoLoopData)
  <2>1. BulkLoopData.take = [qtd |-> 2, qh |-> 2, itd |-> 0] BY DEF BulkLoopData, EhOne
  <2>6. BulkLoopData.queues = EhLoopQueues BY DEF BulkLoopData, EhOne
  <2>2. IsoLoopData.take = [qtd |-> 0, qh |-> 0, itd |-> 2] BY DEF IsoLoopData
  <2>7. IsoLoopData.queues = EhLoopQueues BY DEF IsoLoopData
  <2>3. \A q, r \in Seq(EhStage) : <<q, r>> \in [{1, 2} -> Seq(EhStage)] /\ DOMAIN <<q, r>> = {1, 2} OBVIOUS
  <2>5. EhLoopQueues \in [DOMAIN EhLoopQueues -> Seq(EhStage)] BY <2>3, EhLists DEF EhLoopQueues
  <2> QED BY <2>1, <2>2, <2>5, <2>6, <2>7 DEF EhShapeOK, EhRings
<1>7. /\ "none" \notin DOMAIN EhShape /\ "SetAddress" \in DOMAIN EhShape
      /\ \A n \in DOMAIN EhShape : /\ EhShape[n] \in EhSingleShapes \cup {BulkLoopData, IsoLoopData}
                                   /\ n \notin EhLoops => EhShape[n] \in EhSingleShapes
      BY DEF EhShape, EhLoops, EhSingleShapes, SetAddress, GetDescriptor, SetConfiguration, GetConfiguration, SetFeature, SetInterface, ClearFeature,
             GetInterface, GetStatus, SendBulkData, ReceiveBulkData, GetPortStatus, GetHubStatus, ClearPortFeature, ClearHubFeature,
             SetHubFeature, SetPortFeature, ClearTTBuffer, ResetTT, StopTT, GetTTState
<1> QED BY <1>1, <1>2, <1>3, <1>4, <1>5, <1>6, <1>7 DEF EhSingleShapes
-----------------------------------------------------------------------------
(* Resetting or starting the controller leaves no cause pending.           *)
EhRegs == [run : BOOLEAN, ase : BOOLEAN, pse : BOOLEAN, enabled : SUBSET EhUpper, pending : SUBSET EhUpper]
LEMMA EhStarted ==
  ASSUME EhTyped, EhReset \/ EHCI_Start
  PROVE  /\ ehReg' \in EhRegs /\ ehReg'.pending = {} /\ ~ehDev'.sure
         /\ ehDev' \in [there : BOOLEAN, address : {0, 1}, sure : BOOLEAN]
<1>1. ehDev' \in [there : BOOLEAN, address : {0, 1}, sure : BOOLEAN] /\ ~ehDev'.sure BY DEF EhTyped, EhReset, EHCI_Start
<1>2. EhDown \in EhRegs BY DEF EhDown, EhRegs
<1>3. EhDown.pending = {} BY DEF EhDown
<1>4. ehReg' \in EhRegs BY <1>2 DEF EhReset, EHCI_Start, EhRegs
<1>5. ehReg'.pending = {} BY <1>2, <1>3 DEF EhReset, EHCI_Start, EhRegs
<1> QED BY <1>1, <1>4, <1>5

(* A short answer is noted of the transfer in progress, if there is one.   *)
EhCalls == [name : DOMAIN EhShape, hub : BOOLEAN, short : BOOLEAN]
LEMMA EhMarksShort ==
  ASSUME EhTyped, NEW i \in DOMAIN ehList, EhAnswersShort(i)
  PROVE  /\ ehCall'.name = ehCall.name /\ ehCall'.hub = ehCall.hub
         /\ ehCall = EhNone => ehCall' = EhNone
         /\ ehCall # EhNone => ehCall' \in EhCalls /\ ehCall' # EhNone /\ ehCall'.short
<1>1. CASE ehCall = EhNone
  <2>1. ehCall' = [ehCall EXCEPT !.short = FALSE] BY <1>1 DEF EhAnswersShort
  <2> QED BY <1>1, <2>1 DEF EhNone
<1>2. CASE ehCall # EhNone
  <2>1. ehCall' = [ehCall EXCEPT !.short = TRUE] BY <1>2 DEF EhAnswersShort
  <2>2. ehCall \in EhCalls BY <1>2 DEF EhTyped, EhCalls
  <2>3. ehCall' \in EhCalls /\ ehCall'.name = ehCall.name /\ ehCall'.hub = ehCall.hub /\ ehCall'.short BY <2>1, <2>2 DEF EhCalls
  <2>4. ehCall' # EhNone BY <2>3 DEF EhNone
  <2> QED BY <1>2, <2>3, <2>4
<1> QED BY <1>1, <1>2

LEMMA EhTypedStep == ASSUME EhInv, [EhStep]_ehVars PROVE EhTyped'
<1> USE DEF EhTyped, EhUpper, EhNone, EhEntry
<1> EhTyped BY DEF EhInv
<1>1. CASE ehci_test \/ USB_TestMode
  <2> SUFFICES ASSUME NEW m, NEW p, NEW b, EhEnter(m, p, b) PROVE EhTyped' BY <1>1 DEF ehci_test, USB_TestMode
  <2>1. ehFree' \in [DOMAIN EhRings -> Int] BY DEF EhEnter, EhRings
  <2>2. ehReg' \in EhRegs /\ ehDev' \in [there : BOOLEAN, address : {0, 1}, sure : BOOLEAN] BY EhStarted DEF EhEnter
  <2>3. ehFlag' \in [tc : BOOLEAN, ec : BOOLEAN, connect : BOOLEAN] BY DEF EhEnter
  <2> QED BY <2>1, <2>2, <2>3 DEF EhEnter, EhRegs
<1>2. CASE EhKey \/ EhAutoKey BY <1>2 DEF EhKey, EhAutoKey
<1>3. CASE EHCI_Base_TestItem BY <1>3, EhStarted DEF EHCI_Base_TestItem, EhRegs
<1>4. CASE EhModeKey BY <1>4 DEF EhModeKey
<1>5. CASE Suspend_Resume BY <1>5 DEF Suspend_Resume
<1>6. CASE ResetDevice BY <1>6 DEF ResetDevice, ResetForgets
<1>7. ASSUME NEW n \in DOMAIN EhShape, NEW hub \in BOOLEAN, Begin(n, hub) PROVE EhTyped'
  <2>1. EhShapeOK(EhShape[n]) BY EhShapesAre
  <2>2. ehFree' \in [DOMAIN EhRings -> Int] BY <1>7, <2>1 DEF Begin, EhTaken, EhShapeOK
  <2>3. ehList' \in [DOMAIN ehList' -> EhEntry] BY <1>7, <2>1 DEF Begin, EhShapeOK, EhQueue
  <2>4. ehReg' \in [run : BOOLEAN, ase : BOOLEAN, pse : BOOLEAN, enabled : SUBSET EhUpper, pending : SUBSET EhUpper]
        BY <1>7 DEF Begin, EhSchedule
  <2> QED BY <1>7, <2>2, <2>3, <2>4 DEF Begin
<1>8. CASE WaitEnds
  <2>1. ehCall.name \in DOMAIN EhShape BY <1>8 DEF WaitEnds
  <2>2. EhShapeOK(EhShape[ehCall.name]) BY <2>1, EhShapesAre
  <2>3. ehFree' \in [DOMAIN EhRings -> Int] BY <1>8, <2>2 DEF WaitEnds, EhReturned, EhShapeOK
  <2>4. ehList' \in [DOMAIN ehList' -> EhEntry]
    <3>1. ehList' = ehList \/ ehList' = <<>> BY <1>8 DEF WaitEnds
    <3>2. CASE ehList' = ehList BY <3>2
    <3>3. CASE ehList' = <<>> BY <3>3
    <3> QED BY <3>1, <3>2, <3>3
  <2>5. ehSt' \in {0, 1} BY <1>8 DEF WaitEnds, EhStored
  <2>6. ehStrayed' \in BOOLEAN BY <1>8 DEF WaitEnds, EhInUse, EhExecuting
  <2>7. ehFlag' \in [tc : BOOLEAN, ec : BOOLEAN, connect : BOOLEAN] BY <1>8 DEF WaitEnds, ClearedFlags
  <2>8. ehReg' \in [run : BOOLEAN, ase : BOOLEAN, pse : BOOLEAN, enabled : SUBSET EhUpper, pending : SUBSET EhUpper]
    <3>1. PICK late \in EhLate : ehReg' = [ehReg EXCEPT !.pse = @ /\ ~EhPeriodic, !.pending = @ \cup late] BY <1>8 DEF WaitEnds
    <3>2. late \subseteq {"INT", "ERR"} /\ EhPeriodic \in BOOLEAN BY DEF EhLate, EhPeriodic
    <3> QED BY <3>1, <3>2
  <2>9. ehDev' \in [there : BOOLEAN, address : {0, 1}, sure : BOOLEAN] BY <1>8 DEF WaitEnds, EhInUse
  <2> QED BY <1>8, <2>3, <2>4, <2>5, <2>6, <2>7, <2>8, <2>9 DEF WaitEnds
<1>9. CASE EhAutoReturns BY <1>9 DEF EhAutoReturns
<1>10. ASSUME NEW i \in DOMAIN ehList, EhExecutes(i) PROVE EhTyped'
  <2>0. \A q \in Seq(EhStage) : q # <<>> => Tail(q) \in Seq(EhStage) OBVIOUS
  <2>1. Tail(ehList[i].left) \in Seq(EhStage) BY <1>10, <2>0 DEF EhExecutes, EhActive
  <2>2. ehList' \in [DOMAIN ehList' -> EhEntry] BY <1>10, <2>1 DEF EhExecutes
  <2>3. ehReg' \in [run : BOOLEAN, ase : BOOLEAN, pse : BOOLEAN, enabled : SUBSET EhUpper, pending : SUBSET EhUpper]
        BY <1>10 DEF EhExecutes, EhPend
  <2>4. ehDev' \in [there : BOOLEAN, address : {0, 1}, sure : BOOLEAN] BY <1>10 DEF EhExecutes
  <2> QED BY <1>10, <2>2, <2>3, <2>4 DEF EhExecutes
<1>15. ASSUME NEW i \in DOMAIN ehList, EhAnswersShort(i) PROVE EhTyped'
  <2>0. \A q \in Seq(EhStage) : q # <<>> => Tail(q) \in Seq(EhStage) OBVIOUS
  <2>1. Tail(ehList[i].left) \in Seq(EhStage) BY <1>15, <2>0 DEF EhAnswersShort, EhActive
  <2>2. ehList' \in [DOMAIN ehList' -> EhEntry] BY <1>15, <2>1 DEF EhAnswersShort
  <2>3. ehReg' \in [run : BOOLEAN, ase : BOOLEAN, pse : BOOLEAN, enabled : SUBSET EhUpper, pending : SUBSET EhUpper]
        BY <1>15 DEF EhAnswersShort, EhPend
  <2>4. ehCall' \in [name : DOMAIN EhShape, hub : BOOLEAN, short : BOOLEAN] \cup {EhNone} BY <1>15, EhMarksShort DEF EhCalls
  <2> QED BY <1>15, <2>2, <2>3, <2>4 DEF EhAnswersShort
<1>11. ASSUME NEW i \in DOMAIN ehList, EhFails(i) PROVE EhTyped'
  <2>2. ehList' \in [DOMAIN ehList' -> EhEntry] BY <1>11 DEF EhFails
  <2>3. ehReg' \in [run : BOOLEAN, ase : BOOLEAN, pse : BOOLEAN, enabled : SUBSET EhUpper, pending : SUBSET EhUpper]
        BY <1>11 DEF EhFails, EhPend
  <2>4. ehDev' \in [there : BOOLEAN, address : {0, 1}, sure : BOOLEAN] BY <1>11 DEF EhFails
  <2> QED BY <1>11, <2>2, <2>3, <2>4 DEF EhFails
<1>12. CASE EhPlug BY <1>12 DEF EhPlug, EhPend
<1>13. CASE EHCIIntrHandler BY <1>13 DEF EHCIIntrHandler, EhSetFlags
<1>14. CASE UNCHANGED ehVars BY <1>14 DEF ehVars
<1> QED BY <1>1, <1>2, <1>3, <1>4, <1>5, <1>6, <1>7, <1>8, <1>9, <1>10, <1>11, <1>12, <1>13, <1>14, <1>15 DEF EhStep, EhController

LEMMA EhPoolStep == ASSUME EhInv, [EhStep]_ehVars PROVE (EhInMenu /\ EhPoolWhole)'
<1> EhTyped /\ EhInMenu /\ EhPoolWhole BY DEF EhInv
<1> USE DEF EhInMenu, EhPoolWhole
<1>1. CASE ehci_test \/ USB_TestMode
  <2> SUFFICES ASSUME NEW m \in {"main", "ctrl", "mode"}, NEW p, NEW b, EhEnter(m, p, b) PROVE (EhInMenu /\ EhPoolWhole)'
    BY <1>1 DEF ehci_test, USB_TestMode
  <2>1. \A k \in DOMAIN EhRings : EhRings[k] \in Int BY DEF EhRings
  <2>2. ehCall' = EhNone /\ ehMenu' \notin {"off", "idle"} BY DEF EhEnter
  <2>3. \A k \in DOMAIN EhRings : ehFree'[k] = EhRings[k] - 0 BY <2>1 DEF EhEnter
  <2> QED BY <2>2, <2>3
<1>2. CASE EhKey \/ EhAutoKey BY <1>2 DEF EhKey, EhAutoKey, EhAtKey, EhItems
<1>3. CASE EHCI_Base_TestItem BY <1>3 DEF EHCI_Base_TestItem
<1>4. CASE EhModeKey BY <1>4 DEF EhModeKey
<1>5. CASE Suspend_Resume BY <1>5 DEF Suspend_Resume
<1>6. CASE ResetDevice BY <1>6 DEF ResetDevice, EhNext, EhItems
<1>7. ASSUME NEW n \in DOMAIN EhShape, NEW hub \in BOOLEAN, Begin(n, hub) PROVE (EhInMenu /\ EhPoolWhole)'
  <2>1. EhShapeOK(EhShape[n]) BY EhShapesAre
  <2>2. ehMenu \notin {"off", "idle"} /\ ehMenu' = ehMenu BY <1>7 DEF Begin, EhNext, EhItems
  <2>3. ehCall = EhNone /\ ehCall' # EhNone /\ ehCall'.name = n BY <1>7, EhShapesAre DEF Begin, EhNext, EhNone
  <2>4. \A k \in DOMAIN EhRings : ehFree[k] = EhRings[k] BY <2>2, <2>3 DEF EhRings
  <2>5. \A k \in DOMAIN EhRings : ehFree'[k] = EhRings[k] - EhShape[n].take[k] BY <1>7, <2>4 DEF Begin, EhTaken, EhTyped
  <2> QED BY <2>2, <2>3, <2>5
<1>8. CASE WaitEnds
  <2>1. ehCall.name \in DOMAIN EhShape BY <1>8 DEF WaitEnds, EhTyped
  <2>2. EhShapeOK(EhShape[ehCall.name]) BY <2>1, EhShapesAre
  <2>3. ehCall' = EhNone /\ ehMenu' = ehMenu /\ ehMenu \notin {"off", "idle"} BY <1>8 DEF WaitEnds
  <2>4. \A k \in DOMAIN EhRings : ehFree[k] = EhRings[k] - EhShape[ehCall.name].take[k] BY <1>8 DEF WaitEnds
  <2>5. \A k \in DOMAIN EhRings : EhRings[k] \in Int BY DEF EhRings
  <2>6. \A k \in DOMAIN EhRings : ehFree'[k] = EhRings[k] BY <1>8, <2>2, <2>4, <2>5 DEF WaitEnds, EhReturned, EhTyped, EhShapeOK
  <2> QED BY <2>3, <2>5, <2>6
<1>9. CASE EhAutoReturns BY <1>9 DEF EhAutoReturns
<1>10. ASSUME NEW i \in DOMAIN ehList, EhExecutes(i) \/ EhAnswersShort(i) \/ EhFails(i) PROVE (EhInMenu /\ EhPoolWhole)'
  <2>1. ehCall'.name = ehCall.name /\ (ehCall' = EhNone <=> ehCall = EhNone) BY <1>10, EhMarksShort DEF EhExecutes, EhFails
  <2>2. UNCHANGED <<ehMenu, ehPlan, ehFree>> BY <1>10 DEF EhExecutes, EhAnswersShort, EhFails
  <2> QED BY <2>1, <2>2
<1>12. CASE EhPlug BY <1>12 DEF EhPlug
<1>13. CASE EHCIIntrHandler BY <1>13 DEF EHCIIntrHandler
<1>14. CASE UNCHANGED ehVars BY <1>14 DEF ehVars
<1> QED BY <1>1, <1>2, <1>3, <1>4, <1>5, <1>6, <1>7, <1>8, <1>9, <1>10, <1>12, <1>13, <1>14 DEF EhStep, EhController

(* What executing a descriptor leaves of a queue that ends with IOC.       *)
LEMMA EhTailEnds ==
  ASSUME NEW q \in Seq(EhStage), q # <<>>, EhEndsWithIOC(q)
  PROVE  /\ EhEndsWithIOC(Tail(q)) /\ Len(q) >= 1
         /\ Head(q) = "ioc" <=> Len(q) = 1
         /\ Head(q) = "in" => Len(Tail(q)) <= 1
         /\ Tail(q) = <<>> <=> Len(q) = 1
<1>1. Len(q) \in Nat /\ Len(q) >= 1 /\ Head(q) = q[1] OBVIOUS
<1>2. Len(Tail(q)) = Len(q) - 1 OBVIOUS
<1>3. EhEndsWithIOC(Tail(q)) BY HeadTailProperties DEF EhEndsWithIOC
<1>4. (q[1] = "ioc" <=> 1 = Len(q)) /\ (q[1] = "in" => Len(q) = 2)
  <2>1. 1 \in 1 .. Len(q) BY <1>1
  <2>2. (q[1] = "ioc" <=> 1 = Len(q)) /\ (q[1] = "in" => 1 = Len(q) - 1) BY <2>1, Zenon DEF EhEndsWithIOC
  <2> QED BY <1>1, <2>2
<1>5. Tail(q) = <<>> <=> Len(q) = 1
  <2>1. Tail(q) \in Seq(EhStage) BY HeadTailProperties
  <2>2. Tail(q) = <<>> <=> Len(Tail(q)) = 0 BY <2>1, EmptySeq
  <2> QED BY <1>1, <1>2, <2>2
<1>6. Head(q) = "in" => Len(Tail(q)) <= 1 BY <1>1, <1>2, <1>4
<1> QED BY <1>1, <1>3, <1>4, <1>5, <1>6

LEMMA EhQuietStep == ASSUME EhInv, [EhStep]_ehVars PROVE EhQuiet'
<1> EhTyped /\ EhInMenu /\ EhQuiet BY DEF EhInv
<1> USE DEF EhQuiet, EhSilent, EhCauses
<1>1. CASE ehci_test \/ USB_TestMode
  <2> SUFFICES ASSUME NEW m, NEW p, NEW b, EhEnter(m, p, b) PROVE EhQuiet' BY <1>1 DEF ehci_test, USB_TestMode
  <2>1. ehReg'.pending = {} BY EhStarted DEF EhEnter
  <2>2. ehCall = EhNone /\ ehList' = <<>> /\ ehStrayed' = ehStrayed /\ ehCall' = ehCall BY DEF EhEnter, EhInMenu
  <2>3. ~ehFlag'.tc /\ ehFlag'.ec = ehFlag.ec BY DEF EhEnter, EhTyped
  <2> QED BY <2>1, <2>2, <2>3
<1>2. CASE EhKey \/ EhAutoKey BY <1>2 DEF EhKey, EhAutoKey
<1>3. CASE EHCI_Base_TestItem
  <2>1. ehReg'.pending = {} BY <1>3, EhStarted DEF EHCI_Base_TestItem
  <2> QED BY <1>3, <2>1 DEF EHCI_Base_TestItem
<1>4. CASE EhModeKey BY <1>4 DEF EhModeKey
<1>5. CASE Suspend_Resume BY <1>5 DEF Suspend_Resume, EhTyped
<1>6. CASE ResetDevice BY <1>6 DEF ResetDevice, EhNext, EhTyped
<1>7. ASSUME NEW n \in DOMAIN EhShape, NEW hub \in BOOLEAN, Begin(n, hub) PROVE EhQuiet'
  BY <1>7, EhShapesAre DEF Begin, EhNone
<1>8. CASE WaitEnds
  <2>1. SUFFICES ASSUME ~EhInUse PROVE EhSilent' /\ ehList' = <<>> BY <1>8 DEF WaitEnds
  <2>2. ehList' = <<>> /\ EhLate = {{}} BY <1>8, <2>1 DEF WaitEnds, EhInUse, EhLate
  <2>3. ehReg.pending \cap EhCauses = {} /\ ehReg'.pending = ehReg.pending BY <1>8, <2>1, <2>2 DEF WaitEnds, EhInUse, EhTyped
  <2>4. ~ehFlag'.tc /\ ~ehFlag'.ec BY <1>8 DEF WaitEnds, ClearedFlags, EhTyped
  <2> QED BY <2>2, <2>3, <2>4
<1>9. CASE EhAutoReturns BY <1>9 DEF EhAutoReturns
<1>10. ASSUME NEW i \in DOMAIN ehList, EhExecutes(i) \/ EhAnswersShort(i) \/ EhFails(i) PROVE EhQuiet'
  <2>1. ehList # <<>> BY <1>10
  <2>2. ehCall' = EhNone => ehCall = EhNone BY <1>10, EhMarksShort DEF EhExecutes, EhFails
  <2>3. ehStrayed' = ehStrayed BY <1>10 DEF EhExecutes, EhAnswersShort, EhFails
  <2> QED BY <2>1, <2>2, <2>3
<1>12. CASE EhPlug BY <1>12 DEF EhPlug, EhPend, EhTyped
<1>13. CASE EHCIIntrHandler BY <1>13 DEF EHCIIntrHandler, EhSetFlags, EhTyped
<1>14. CASE UNCHANGED ehVars BY <1>14 DEF ehVars
<1> QED BY <1>1, <1>2, <1>3, <1>4, <1>5, <1>6, <1>7, <1>8, <1>9, <1>10, <1>12, <1>13, <1>14 DEF EhStep, EhController

LEMMA EhOneQueueStep == ASSUME EhInv, [EhStep]_ehVars PROVE EhOneQueue'
<1> EhTyped /\ EhInMenu /\ EhQuiet /\ EhOneQueue BY DEF EhInv
<1> USE DEF EhOneQueue, EhSilent, EhCauses
<1>1. CASE ehci_test \/ USB_TestMode BY <1>1 DEF ehci_test, USB_TestMode, EhEnter, EhInMenu
<1>2. CASE EhKey \/ EhAutoKey BY <1>2 DEF EhKey, EhAutoKey
<1>3. CASE EHCI_Base_TestItem BY <1>3 DEF EHCI_Base_TestItem, EhAtKey
<1>4. CASE EhModeKey BY <1>4 DEF EhModeKey
<1>5. CASE Suspend_Resume BY <1>5 DEF Suspend_Resume
<1>6. CASE ResetDevice BY <1>6 DEF ResetDevice, EhNext
<1>7. ASSUME NEW n \in DOMAIN EhShape, NEW hub \in BOOLEAN, Begin(n, hub) PROVE EhOneQueue'
  <2>1. SUFFICES ASSUME ~ehStrayed, n \notin EhLoops
                 PROVE  DOMAIN ehList' = {1} /\ EhEndsWithIOC(ehList'[1].left) /\ EhSilent' /\ ~ehCall'.short
    BY <1>7 DEF Begin
  <2>2. EhShapeOK(EhShape[n]) /\ EhSingle(EhShape[n]) BY <2>1, EhShapesAre
  <2>3. EhSilent /\ ehReg'.pending = ehReg.pending /\ ehFlag' = ehFlag BY <1>7, <2>1 DEF Begin, EhNext, EhQuiet, EhSchedule, EhTyped
  <2> QED BY <1>7, <2>2, <2>3 DEF Begin, EhSingle, EhQueue
<1>8. CASE WaitEnds BY <1>8 DEF WaitEnds
<1>9. CASE EhAutoReturns BY <1>9 DEF EhAutoReturns
<1>10. ASSUME NEW i \in DOMAIN ehList, EhExecutes(i) \/ EhAnswersShort(i) \/ EhFails(i) PROVE EhOneQueue'
  <2> SUFFICES ASSUME ~ehStrayed, ehCall # EhNone, ehCall.name \notin EhLoops PROVE EhOneQueue'
    BY <1>10, EhMarksShort DEF EhExecutes, EhAnswersShort, EhFails
  <2>1. i = 1 /\ EhEndsWithIOC(ehList[1].left) /\ EhActive(ehList[1])
        /\ (~ehCall.short => EhSilent) /\ (ehCall.short => Len(ehList[1].left) <= 1)
    BY <1>10 DEF EhExecutes, EhAnswersShort, EhFails
  <2>2. ehList[1] \in EhEntry /\ ehList[1].left \in Seq(EhStage) /\ ehList[1].left # <<>> BY <2>1 DEF EhActive, EhTyped, EhEntry
  <2>3. ehFlag' = ehFlag /\ DOMAIN ehList' = {1} BY <1>10, <2>1 DEF EhExecutes, EhAnswersShort, EhFails
  <2>4. CASE EhExecutes(i)
    <3>1. ehList'[1].left = Tail(ehList[1].left) /\ ehCall' = ehCall BY <2>1, <2>2, <2>4 DEF EhExecutes, EhEntry
    <3>2. EhActive(ehList'[1]) => Head(ehList[1].left) # "ioc" BY <3>1, <2>1, <2>2, EhTailEnds DEF EhActive
    <3>3. ehReg'.pending = ehReg.pending \cup (IF Head(ehList[1].left) = "ioc" THEN {"INT"} ELSE {})
      BY <2>1, <2>4 DEF EhExecutes, EhPend, EhTyped
    <3>4. EhEndsWithIOC(ehList'[1].left) BY <3>1, <2>1, <2>2, EhTailEnds
    <3>5. ehCall.short => Len(ehList'[1].left) <= 1 BY <3>1, <2>1, <2>2
    <3>6. ~ehCall.short /\ EhActive(ehList'[1]) => EhSilent' BY <2>1, <2>3, <3>2, <3>3
    <3> QED BY <2>1, <2>3, <3>1, <3>4, <3>5, <3>6
  <2>5. CASE EhAnswersShort(i)
    <3>1. ehList'[1].left = Tail(ehList[1].left) /\ Head(ehList[1].left) = "in" BY <2>1, <2>2, <2>5 DEF EhAnswersShort, EhEntry
    <3>2. ehCall'.short BY <2>5, EhMarksShort
    <3>3. EhEndsWithIOC(Tail(ehList[1].left)) /\ Len(Tail(ehList[1].left)) <= 1 BY <2>1, <2>2, <3>1, EhTailEnds, Zenon
    <3>4. EhEndsWithIOC(ehList'[1].left) /\ Len(ehList'[1].left) <= 1 BY <3>1, <3>3, Zenon
    <3> QED BY <2>3, <3>2, <3>4
  <2>6. CASE EhFails(i)
    <3>1. ehList'[1].left = ehList[1].left /\ ehList'[1].halted BY <2>1, <2>2, <2>6 DEF EhFails, EhEntry
    <3>2. ehCall' = ehCall BY <2>6 DEF EhFails
    <3> QED BY <2>1, <2>3, <3>1, <3>2 DEF EhActive
  <2> QED BY <1>10, <2>4, <2>5, <2>6
<1>12. CASE EhPlug BY <1>12 DEF EhPlug, EhPend, EhTyped
<1>13. CASE EHCIIntrHandler
  <2>1. ehReg'.pending = {} BY <1>13 DEF EHCIIntrHandler, EhTyped
  <2>2. ehReg.pending \cap EhCauses = {} => ehFlag'.tc = ehFlag.tc /\ ehFlag'.ec = ehFlag.ec BY <1>13 DEF EHCIIntrHandler, EhSetFlags, EhTyped
  <2> QED BY <1>13, <2>1, <2>2 DEF EHCIIntrHandler
<1>14. CASE UNCHANGED ehVars BY <1>14 DEF ehVars
<1> QED BY <1>1, <1>2, <1>3, <1>4, <1>5, <1>6, <1>7, <1>8, <1>9, <1>10, <1>12, <1>13, <1>14 DEF EhStep, EhController

LEMMA EhAddressingStep == ASSUME EhInv, [EhStep]_ehVars PROVE EhAddressing'
<1> EhTyped /\ EhInMenu /\ EhAddressing BY DEF EhInv
<1> USE DEF EhAddressing, EhSettingAddress
<1>0. ~EhNone.hub /\ EhNone.name = "none" BY DEF EhNone
<1>1. CASE ehci_test \/ USB_TestMode
  <2> SUFFICES ASSUME NEW m, NEW p, NEW b, EhEnter(m, p, b) PROVE EhAddressing' BY <1>1 DEF ehci_test, USB_TestMode
  <2>1. ehCall = EhNone /\ ehCall' = EhNone /\ ~ehDev'.sure BY EhStarted DEF EhEnter, EhInMenu
  <2> QED BY <1>0, <2>1
<1>2. CASE EhKey \/ EhAutoKey BY <1>2 DEF EhKey, EhAutoKey
<1>3. CASE EHCI_Base_TestItem
  <2>1. ehCall = EhNone /\ ehCall' = EhNone /\ ~ehDev'.sure BY <1>3, EhStarted DEF EHCI_Base_TestItem, EhAtKey
  <2> QED BY <1>0, <2>1
<1>4. CASE EhModeKey BY <1>4 DEF EhModeKey
<1>5. CASE Suspend_Resume
  <2>1. ehReg'.pending = ehReg.pending BY <1>5 DEF Suspend_Resume, EhTyped
  <2> QED BY <1>5, <2>1 DEF Suspend_Resume
<1>6. CASE ResetDevice
  <2>1. ehCall = EhNone /\ ehCall' = EhNone /\ ehSt' = 0 /\ ehDev'.address = 0 BY <1>6 DEF ResetDevice, ResetForgets, EhNext, EhTyped
  <2> QED BY <1>0, <2>1
<1>7. ASSUME NEW n \in DOMAIN EhShape, NEW hub \in BOOLEAN, Begin(n, hub) PROVE EhAddressing'
  <2>1. /\ ehCall = EhNone /\ ehCall'.name = n /\ ehCall'.hub = hub /\ ehSt' = ehSt /\ ehDev' = ehDev
        /\ ehList' = [j \in DOMAIN EhShape[n].queues |-> EhQueue(EhShape[n].queues[j], n = "SetAddress" /\ ~hub)]
    BY <1>7 DEF Begin, EhNext
  <2>2. ehDev.sure => ehSt = ehDev.address BY <2>1, <1>0
  <2>3. CASE n = "SetAddress" /\ ~hub
    <3>1. EhShapeOK(EhShape[n]) /\ EhSingle(EhShape[n]) BY <2>3, EhShapesAre DEF EhLoops
    <3>2. DOMAIN ehList' = {1} /\ ehList'[1].left = EhShape[n].queues[1] /\ ehList'[1].address BY <2>1, <2>3, <3>1 DEF EhQueue, EhSingle
    <3> QED BY <2>1, <2>2, <2>3, <3>1, <3>2 DEF EhSingle, EhRan
  <2>4. CASE ~(n = "SetAddress" /\ ~hub) BY <2>1, <2>2, <2>4 DEF EhQueue
  <2> QED BY <2>3, <2>4
<1>8. CASE WaitEnds
  <2>1. ehCall' = EhNone /\ ehDev'.address = ehDev.address /\ ehSt' = EhStored
        /\ (ehDev'.sure => ehDev.sure /\ ~(EhInUse /\ ehCall.name = "SetAddress"))
        /\ (ehFlag.tc \/ ehFlag.ec)
    BY <1>8 DEF WaitEnds, EhTyped
  <2>2. ehDev'.sure => ehSt' = ehDev'.address
    <3> SUFFICES ASSUME ehDev'.sure PROVE EhStored = ehDev.address BY <2>1
    <3>1. CASE ~EhSettingAddress BY <3>1, <2>1 DEF EhStored
    <3>2. CASE EhSettingAddress
      <4>1. ~EhActive(ehList[1]) /\ "INT" \notin ehReg.pending BY <2>1, <3>2 DEF EhInUse, EhExecuting
      <4>2. Success <=> ehFlag.tc /\ EhRan(ehList[1]) BY <3>2 DEF Success
      <4> QED BY <2>1, <3>2, <4>1, <4>2 DEF EhStored
    <3> QED BY <3>1, <3>2
  <2> QED BY <1>0, <2>1, <2>2
<1>9. CASE EhAutoReturns BY <1>9 DEF EhAutoReturns
<1>10. ASSUME NEW i \in DOMAIN ehList, EhExecutes(i) PROVE EhAddressing'
  <2>1. /\ ehCall' = ehCall /\ ehSt' = ehSt /\ ehFlag' = ehFlag /\ EhActive(ehList[i])
        /\ ehList[i] \in EhEntry /\ ehList[i].left # <<>>
        /\ ehList' = [ehList EXCEPT ![i].left = Tail(@)]
    BY <1>10 DEF EhExecutes, EhActive, EhTyped
  <2>2. \A j \in DOMAIN ehList : ehList'[j].address = ehList[j].address BY <2>1 DEF EhTyped, EhEntry
  <2>3. ehList'[i].left = Tail(ehList[i].left) BY <2>1 DEF EhTyped, EhEntry
  <2>4. /\ ~EhSetsAddress(i) => ehDev' = ehDev
        /\ EhSetsAddress(i) => ehDev'.address = 1 /\ (ehDev'.sure => ehCall # EhNone)
    BY <1>10 DEF EhExecutes, EhTyped
  <2>5. CASE EhSettingAddress
    <3>1. i = 1 /\ DOMAIN ehList' = {1} /\ EhEndsWithIOC(ehList[1].left) /\ ehList[1].left \in Seq(EhStage) BY <2>1, <2>5 DEF EhEntry
    <3>2. EhEndsWithIOC(Tail(ehList[1].left)) /\ (Head(ehList[1].left) = "ioc" <=> Len(ehList[1].left) = 1)
          /\ (Tail(ehList[1].left) = <<>> <=> Len(ehList[1].left) = 1)
      BY <2>1, <3>1, EhTailEnds
    <3>3. EhSetsAddress(1) <=> EhRan(ehList'[1]) BY <3>1, <3>2, <2>3, <2>5 DEF EhSetsAddress, EhRan
    <3>4. EhRan(ehList'[1]) => "INT" \in ehReg'.pending BY <1>10, <3>1, <3>2, <2>3 DEF EhExecutes, EhPend, EhRan, EhTyped
    <3>5. ~EhRan(ehList[1]) BY <2>1, <3>1 DEF EhRan
    <3> QED BY <2>1, <2>2, <2>3, <2>4, <2>5, <3>1, <3>2, <3>3, <3>4, <3>5
  <2>6. CASE ~EhSettingAddress /\ ehCall # EhNone BY <2>1, <2>2, <2>4, <2>6 DEF EhSetsAddress
  <2>7. CASE ehCall = EhNone BY <2>1, <2>4, <2>7, <1>0
  <2> QED BY <2>5, <2>6, <2>7
<1>15. ASSUME NEW i \in DOMAIN ehList, EhAnswersShort(i) PROVE EhAddressing'
  <2>1. /\ ehSt' = ehSt /\ ehFlag' = ehFlag /\ ehDev' = ehDev /\ EhActive(ehList[i])
        /\ ehList[i] \in EhEntry /\ ehList[i].left # <<>> /\ Head(ehList[i].left) = "in"
        /\ ehList' = [ehList EXCEPT ![i].left = Tail(@)]
    BY <1>15 DEF EhAnswersShort, EhActive, EhTyped
  <2>2. \A j \in DOMAIN ehList : ehList'[j].address = ehList[j].address BY <2>1 DEF EhTyped, EhEntry
  <2>3. ehList'[i].left = Tail(ehList[i].left) BY <2>1 DEF EhTyped, EhEntry
  <2>4. ehCall'.name = ehCall.name /\ ehCall'.hub = ehCall.hub /\ (ehCall = EhNone => ehCall' = EhNone)
    BY <1>15, EhMarksShort
  <2>5. CASE EhSettingAddress
    <3>1. i = 1 /\ DOMAIN ehList' = {1} /\ EhEndsWithIOC(ehList[1].left) /\ ehList[1].left \in Seq(EhStage) BY <2>1, <2>5 DEF EhEntry
    <3>2. EhEndsWithIOC(Tail(ehList[1].left)) /\ Tail(ehList[1].left) # <<>> BY <2>1, <3>1, EhTailEnds
    <3>3. ~EhRan(ehList'[1]) /\ ~EhRan(ehList[1]) BY <2>1, <2>3, <3>1, <3>2 DEF EhRan
    <3> QED BY <2>1, <2>2, <2>3, <2>4, <2>5, <3>1, <3>2, <3>3
  <2>6. CASE ~EhSettingAddress BY <2>1, <2>2, <2>4, <2>6
  <2> QED BY <2>5, <2>6
<1>11. ASSUME NEW i \in DOMAIN ehList, EhFails(i) PROVE EhAddressing'
  <2>1. /\ ehCall' = ehCall /\ ehSt' = ehSt /\ ehFlag' = ehFlag /\ EhActive(ehList[i])
        /\ ehList[i] \in EhEntry /\ ehList[i].left # <<>>
        /\ ehList' = [ehList EXCEPT ![i].halted = TRUE]
        /\ ehDev'.address = ehDev.address /\ (ehDev'.sure => ehDev.sure)
    BY <1>11 DEF EhFails, EhActive, EhTyped
  <2>2. \A j \in DOMAIN ehList : ehList'[j].address = ehList[j].address /\ ehList'[j].left = ehList[j].left BY <2>1 DEF EhTyped, EhEntry
  <2>3. CASE EhSettingAddress
    <3>1. i = 1 /\ DOMAIN ehList' = {1} /\ ~EhRan(ehList'[1]) /\ ~EhRan(ehList[1]) BY <2>1, <2>2, <2>3 DEF EhRan
    <3> QED BY <2>1, <2>2, <2>3, <3>1
  <2>4. CASE ~EhSettingAddress BY <2>1, <2>2, <2>4
  <2> QED BY <2>3, <2>4
<1>12. CASE EhPlug
  <2>1. ~ehDev'.sure BY <1>12 DEF EhPlug
  <2> QED BY <1>12, <2>1 DEF EhPlug
<1>13. CASE EHCIIntrHandler
  <2>1. ehFlag.tc \/ "INT" \in ehReg.pending => ehFlag'.tc BY <1>13 DEF EHCIIntrHandler, EhSetFlags
  <2> QED BY <1>13, <2>1 DEF EHCIIntrHandler
<1>14. CASE UNCHANGED ehVars BY <1>14 DEF ehVars
<1> QED BY <1>1, <1>2, <1>3, <1>4, <1>5, <1>6, <1>7, <1>8, <1>9, <1>10, <1>11, <1>12, <1>13, <1>14, <1>15 DEF EhStep, EhController

LEMMA EhStepInv == EhInv /\ [EhStep]_ehVars => EhInv'
<1> SUFFICES ASSUME EhInv, [EhStep]_ehVars PROVE EhInv' OBVIOUS
<1> QED BY EhTypedStep, EhPoolStep, EhQuietStep, EhOneQueueStep, EhAddressingStep DEF EhInv

LEMMA EhInitInv == EhInit \/ EhOff => EhInv
<1> SUFFICES ASSUME NEW m \in {"idle", "off"}, EhStart(m) PROVE EhInv BY DEF EhInit, EhOff
<1> USE DEF EhStart
<1>1. ehFree \in [DOMAIN EhRings -> Int] BY DEF EhRings
<1>2. ehReg \in EhRegs /\ ehReg.pending = {} BY DEF EhDown, EhRegs
<1>3. ehList \in [DOMAIN ehList -> EhEntry] OBVIOUS
<1>4. ehFlag \in [tc : BOOLEAN, ec : BOOLEAN, connect : BOOLEAN] /\ ehDev \in [there : BOOLEAN, address : {0, 1}, sure : BOOLEAN] OBVIOUS
<1>5. EhTyped BY <1>1, <1>2, <1>3, <1>4 DEF EhTyped, EhRegs
<1> QED BY <1>2, <1>5 DEF EhInv, EhInMenu, EhPoolWhole, EhQuiet, EhSilent, EhCauses, EhOneQueue, EhAddressing, EhSettingAddress, EhNone
-----------------------------------------------------------------------------
(* The transfer functions of OHCI.                                         *)
OhShapeOK(x) == x.take \in [DOMAIN OhRings -> Int] /\ x.queues \in [DOMAIN x.queues -> Int] /\ x.stops \subseteq Int
LEMMA OhShapesAre ==
  /\ "none" \notin DOMAIN OhShape /\ "ResetDevice" \notin DOMAIN OhShape
  /\ "SetAddress" \in DOMAIN OhShape /\ "ReceiveIsoData" \in DOMAIN OhShape
  /\ \A n \in DOMAIN OhShape : OhShapeOK(OhShape[n])
<1>1. DOMAIN OhRings = {"ed", "gtd", "itd"} BY DEF OhRings
<1>2. \A a, b \in Int : <<a>> \in [DOMAIN <<a>> -> Int] /\ <<a, b>> \in [DOMAIN <<a, b>> -> Int] OBVIOUS
<1>3. OhShapeOK(OhNoData)
  <2>1. OhNoData.take \in [{"ed", "gtd", "itd"} -> Int] BY DEF OhNoData
  <2>2. OhNoData.queues = <<2>> /\ OhNoData.stops = {2} BY DEF OhNoData
  <2> QED BY <1>1, <1>2, <2>1, <2>2 DEF OhShapeOK
<1>4. OhShapeOK(OhRead)
  <2>1. OhRead.take \in [{"ed", "gtd", "itd"} -> Int] BY DEF OhRead
  <2>2. OhRead.queues = <<3>> /\ OhRead.stops = {3} BY DEF OhRead
  <2> QED BY <1>1, <1>2, <2>1, <2>2 DEF OhShapeOK
<1>5. OhShapeOK(OhReadTail)
  <2>1. OhReadTail.take \in [{"ed", "gtd", "itd"} -> Int] BY DEF OhReadTail, OhRead
  <2>2. OhReadTail.queues = <<3>> BY DEF OhReadTail, OhRead
  <2>3. OhReadTail.stops = 0 .. 3 BY DEF OhReadTail, OhRead
  <2> QED BY <1>1, <1>2, <2>1, <2>2, <2>3 DEF OhShapeOK
<1>6. OhShapeOK(OhOne)
  <2>1. OhOne.take \in [{"ed", "gtd", "itd"} -> Int] BY DEF OhOne
  <2>2. OhOne.queues = <<1>> /\ OhOne.stops = {1} BY DEF OhOne
  <2> QED BY <1>1, <1>2, <2>1, <2>2 DEF OhShapeOK
<1>7. OhShapeOK(OhIso)
  <2>1. OhIso.take \in [{"ed", "gtd", "itd"} -> Int] BY DEF OhIso
  <2>2. OhIso.queues = <<1>> /\ OhIso.stops = {1} BY DEF OhIso
  <2> QED BY <1>1, <1>2, <2>1, <2>2 DEF OhShapeOK
<1>8. OhShapeOK(OHCI_BulkLoopData)
  <2>1. OHCI_BulkLoopData.take \in [{"ed", "gtd", "itd"} -> Int] BY DEF OHCI_BulkLoopData
  <2>2. OHCI_BulkLoopData.queues = <<1, 1>> /\ OHCI_BulkLoopData.stops = {1} BY DEF OHCI_BulkLoopData, OhLoopQueues
  <2> QED BY <1>1, <1>2, <2>1, <2>2 DEF OhShapeOK
<1>9. /\ "none" \notin DOMAIN OhShape /\ "ResetDevice" \notin DOMAIN OhShape
      /\ "SetAddress" \in DOMAIN OhShape /\ "ReceiveIsoData" \in DOMAIN OhShape
      /\ \A n \in DOMAIN OhShape : OhShape[n] \in {OhNoData, OhRead, OhReadTail, OhOne, OhIso, OHCI_BulkLoopData}
  BY DEF OhShape, SetAddress_OHCI, GetDescriptor_OHCI, GetConfiguration_OHCI, SetConfiguration_OHCI, SetFeature_OHCI, ClearFeature_OHCI,
         SetInterface_OHCI, GetInterface_OHCI, GetStatus_OHCI, ClearHubFeature_OHCI, ClearPortFeature_OHCI, SetHubFeature_OHCI,
         SetPortFeature_OHCI, GetHubStatus_OHCI, GetPortStatus_OHCI, GetHubDescriptor_OHCI, OHCI_SendBulkData, OHCI_ReceiveBulkData,
         OHCI_SendIsoData, OHCI_ReceiveIsoData, OHCI_ReceiveIntrData
<1> QED BY <1>3, <1>4, <1>5, <1>6, <1>7, <1>8, <1>9

OhRegs == [operational : BOOLEAN, enabled : SUBSET OhUpper, pending : SUBSET (OhUpper \cup {"PRS"})]
OhDevs == [there : BOOLEAN, address : {0, 1}, resetting : BOOLEAN, sure : BOOLEAN]
LEMMA OhStarted ==
  ASSUME OhTyped, OHCI_Reset \/ OHCI_Start, OhEmptied
  PROVE  /\ ohReg' \in OhRegs /\ ohReg'.pending = {}
         /\ ohList' = <<>> /\ ohDone' = OhNil /\ ohDev' \in OhDevs /\ ~ohDev'.sure
<1>1. ohReg'.pending = {} BY DEF OHCI_Reset, OHCI_Start
<1>2. ohReg' \in OhRegs
  <2>1. CASE OHCI_Reset BY <2>1 DEF OHCI_Reset, OhRegs
  <2>2. CASE OHCI_Start BY <2>2 DEF OHCI_Start, OhRegs
  <2> QED BY <2>1, <2>2
<1> QED BY <1>1, <1>2 DEF OhEmptied, OhTyped, OhDevs

(* The list after a descriptor has been retired from it.                   *)
LEMMA OhRetired ==
  ASSUME OhTyped, NEW i \in DOMAIN ohList, NEW good \in BOOLEAN, OhRetires(i, good)
  PROVE  /\ DOMAIN ohList' = DOMAIN ohList
         /\ ohList' \in [DOMAIN ohList' -> OhEntry]
         /\ \A j \in DOMAIN ohList : ohList'[j].address = ohList[j].address /\ ohList'[j].last = ohList[j].last
<1>1. ohList' = [ohList EXCEPT ![i] = [ohList[i] EXCEPT !.left = @ - 1, !.halted = ~good]] BY DEF OhRetires
<1>2. ohList[i] \in OhEntry /\ ohList \in [DOMAIN ohList -> OhEntry] BY DEF OhTyped
<1>3. [ohList[i] EXCEPT !.left = @ - 1, !.halted = ~good] \in OhEntry
  <2>1. \A x \in OhEntry, n \in Int, b \in BOOLEAN : [x EXCEPT !.left = n, !.halted = b] \in OhEntry BY DEF OhEntry
  <2>2. ohList[i].left - 1 \in Int /\ (~good) \in BOOLEAN BY <1>2 DEF OhEntry
  <2> HIDE DEF OhEntry
  <2> QED BY <1>2, <2>1, <2>2
<1>4. [ohList[i] EXCEPT !.left = @ - 1, !.halted = ~good].address = ohList[i].address BY <1>2 DEF OhEntry
<1>5. [ohList[i] EXCEPT !.left = @ - 1, !.halted = ~good].last = ohList[i].last BY <1>2 DEF OhEntry
<1> QED BY <1>1, <1>2, <1>3, <1>4, <1>5

LEMMA OhTypedStep == ASSUME OhInv, [OhStep]_ohVars PROVE OhTyped'
<1> USE DEF OhTyped, OhUpper, OhEntry
<1> OhTyped BY DEF OhInv
<1>0. OhNil \in [last : BOOLEAN, good : BOOLEAN, any : BOOLEAN] /\ <<>> \in [DOMAIN <<>> -> OhEntry] BY DEF OhNil
<1>1. CASE ohci_test
  <2>1. OhRings \in [DOMAIN OhRings -> Int] BY DEF OhRings
  <2>2. ohReg' \in OhRegs /\ ohList' = <<>> /\ ohDone' = OhNil /\ ohDev' \in OhDevs BY <1>1, OhStarted DEF ohci_test
  <2>3. ohList' \in [DOMAIN ohList' -> OhEntry] BY <1>0, <2>2
  <2> QED BY <1>0, <1>1, <2>1, <2>2, <2>3 DEF ohci_test, OhRegs, OhDevs
<1>2. CASE OhKey BY <1>2 DEF OhKey
<1>3. CASE OHCI_Base_TestItem
  <2>2. ohReg' \in OhRegs /\ ohList' = <<>> /\ ohDone' = OhNil /\ ohDev' \in OhDevs BY <1>3, OhStarted DEF OHCI_Base_TestItem
  <2>3. ohList' \in [DOMAIN ohList' -> OhEntry] BY <1>0, <2>2
  <2> QED BY <1>0, <1>3, <2>2, <2>3 DEF OHCI_Base_TestItem, OhRegs, OhDevs
<1>4. CASE OhResetBegins
  <2>1. ohDev' \in OhDevs BY <1>4 DEF OhResetBegins, OhDevs
  <2> QED BY <1>4, <2>1 DEF OhResetBegins, OhDevs
<1>5. CASE OhResetReturns BY <1>5 DEF OhResetReturns, OhForgets
<1>6. ASSUME NEW n \in DOMAIN OhShape, OhBegin(n) PROVE OhTyped'
  <2>1. OhShapeOK(OhShape[n]) BY OhShapesAre
  <2>2. ohFree' \in [DOMAIN OhRings -> Int] BY <1>6, <2>1 DEF OhBegin, OhTaken, OhShapeOK
  <2>3. ohList' \in [DOMAIN ohList' -> OhEntry] BY <1>6, <2>1 DEF OhBegin, OhShapeOK, OhLeft
  <2> QED BY <1>6, <2>2, <2>3 DEF OhBegin
<1>7. ASSUME NEW n \in DOMAIN OhShape, OhRunsOut(n) PROVE OhTyped' BY <1>7 DEF OhRunsOut
<1>8. CASE OhWaitEnds
  <2>1. OhShapeOK(OhShape[ohCall]) /\ ohCall \in DOMAIN OhShape BY <1>8, OhShapesAre DEF OhWaitEnds
  <2>2. ohFree' \in [DOMAIN OhRings -> Int] BY <1>8, <2>1 DEF OhWaitEnds, OhReturned, OhShapeOK
  <2>3. ohList' \in [DOMAIN ohList' -> OhEntry] BY <1>0, <1>8 DEF OhWaitEnds
  <2>4. ohDev' \in OhDevs BY <1>8 DEF OhWaitEnds, OhDevs, OhGood, OhIsLast
  <2>5. ohFlag' \in [tc : BOOLEAN, reset : BOOLEAN, connect : BOOLEAN] BY <1>8 DEF OhWaitEnds, OhTcCleared
  <2> QED BY <1>8, <2>2, <2>3, <2>4, <2>5 DEF OhWaitEnds, OhDevs
<1>9. ASSUME NEW i \in DOMAIN ohList, OhExecutes(i) \/ OhFails(i) PROVE OhTyped'
  <2>1. PICK good \in BOOLEAN : OhRetires(i, good) BY <1>9 DEF OhExecutes, OhFails
  <2>2. ohList' \in [DOMAIN ohList' -> OhEntry] BY <2>1, OhRetired DEF OhRetires
  <2>3. ohDone' \in [last : BOOLEAN, good : BOOLEAN, any : BOOLEAN] BY <2>1 DEF OhRetires
  <2>4. ohDev' \in OhDevs BY <1>9 DEF OhExecutes, OhFails, OhDevs
  <2> QED BY <2>1, <2>2, <2>3, <2>4 DEF OhRetires, OhDevs
<1>10. CASE OhFrameEnds BY <1>0, <1>10 DEF OhFrameEnds
<1>11. CASE OhPort
  <2>1. ohDev' \in OhDevs
    <3>1. CASE ohDev' = [ohDev EXCEPT !.resetting = FALSE] BY <3>1 DEF OhDevs
    <3>2. CASE ohDev' = [there |-> ~ohDev.there, address |-> 0, resetting |-> FALSE, sure |-> FALSE] BY <3>2 DEF OhDevs
    <3> QED BY <1>11, <3>1, <3>2 DEF OhPort
  <2>2. ohReg' \in OhRegs
    <3>1. PICK s \in {{"RHSC", "PRS"}, {"RHSC"}} : ohReg' = OhPend(s) BY <1>11 DEF OhPort
    <3> QED BY <3>1 DEF OhPend, OhRegs
  <2> QED BY <1>11, <2>1, <2>2 DEF OhPort, OhDevs, OhRegs
<1>12. CASE OHCIIntrHandler
  <2>1. ohReg' \in OhRegs BY <1>12 DEF OHCIIntrHandler, OhRegs
  <2>2. ohFlag' \in [tc : BOOLEAN, reset : BOOLEAN, connect : BOOLEAN]
    <3>1. ohFlag' = OhSetFlags BY <1>12 DEF OHCIIntrHandler
    <3> QED BY <3>1 DEF OhSetFlags
  <2> QED BY <1>12, <2>1, <2>2 DEF OHCIIntrHandler, OhRegs
<1>13. CASE UNCHANGED ohVars BY <1>13 DEF ohVars
<1> QED BY <1>1, <1>2, <1>3, <1>4, <1>5, <1>6, <1>7, <1>8, <1>9, <1>10, <1>11, <1>12, <1>13 DEF OhStep, OhController

LEMMA OhPoolStep == ASSUME OhInv, [OhStep]_ohVars PROVE (OhInMenu /\ OhPoolWhole)'
<1> OhTyped /\ OhInMenu /\ OhPoolWhole BY DEF OhInv
<1> USE DEF OhInMenu, OhPoolWhole, OhMissing
<1>0. \A k \in DOMAIN OhRings : OhRings[k] \in Int /\ OhShape["ReceiveIsoData"].take[k] \in Int BY OhShapesAre DEF OhRings, OhShapeOK
<1>1. CASE ohci_test
  <2>1. ohCall' = "none" /\ ohMenu' = "main" /\ ohFree' = OhRings /\ ohLost' = 0 BY <1>1 DEF ohci_test
  <2>2. \A k \in DOMAIN OhRings : OhMissing(k)' = 0 BY <2>1, <1>0, OhShapesAre
  <2> QED BY <2>1, <2>2, <1>0
<1>2. CASE OhKey BY <1>2 DEF OhKey, OhItems
<1>3. CASE OHCI_Base_TestItem BY <1>3 DEF OHCI_Base_TestItem
<1>4. CASE OhResetBegins BY <1>4, OhShapesAre DEF OhResetBegins
<1>5. CASE OhResetReturns BY <1>5, OhShapesAre DEF OhResetReturns
<1>6. ASSUME NEW n \in DOMAIN OhShape, OhBegin(n) PROVE (OhInMenu /\ OhPoolWhole)'
  <2>1. OhShapeOK(OhShape[n]) BY OhShapesAre
  <2>2. ohMenu \notin {"off", "idle"} /\ ohMenu' = ohMenu /\ ohCall = "none" /\ ohCall' = n /\ ohLost' = ohLost BY <1>6 DEF OhBegin, OhItems
  <2>3. \A k \in DOMAIN OhRings : ohFree'[k] = ohFree[k] - OhShape[n].take[k] BY <1>6 DEF OhBegin, OhTaken, OhTyped
  <2> DEFINE Lost(k) == ohLost * OhShape["ReceiveIsoData"].take[k]
  <2>4. \A k \in DOMAIN OhRings : Lost(k) \in Int BY <1>0 DEF OhTyped
  <2>5. \A k \in DOMAIN OhRings : OhMissing(k) = 0 + Lost(k) /\ OhMissing(k)' = OhShape[n].take[k] + Lost(k) BY <2>2, OhShapesAre
  <2>6. \A k \in DOMAIN OhRings : ohFree[k] = OhRings[k] - OhMissing(k) BY <2>2
  <2> HIDE DEF Lost, OhMissing
  <2>7. \A k \in DOMAIN OhRings : ohFree'[k] = OhRings[k] - OhMissing(k)' BY <1>0, <2>1, <2>3, <2>4, <2>5, <2>6 DEF OhShapeOK
  <2> QED BY <2>2, <2>7
<1>7. ASSUME NEW n \in DOMAIN OhShape, OhRunsOut(n) PROVE (OhInMenu /\ OhPoolWhole)' BY <1>7 DEF OhRunsOut, OhItems
<1>8. CASE OhWaitEnds
  <2>1. OhShapeOK(OhShape[ohCall]) /\ ohCall \in DOMAIN OhShape BY <1>8, OhShapesAre DEF OhWaitEnds, OhTyped
  <2>2. ohMenu \notin {"off", "idle"} /\ ohMenu' = ohMenu /\ ohCall' = "none" BY <1>8 DEF OhWaitEnds
  <2> DEFINE Lost(k) == ohLost * OhShape["ReceiveIsoData"].take[k]
  <2>4. \A k \in DOMAIN OhRings : Lost(k) \in Int BY <1>0 DEF OhTyped
  <2>5. \A k \in DOMAIN OhRings : OhMissing(k) = OhShape[ohCall].take[k] + Lost(k) BY <2>1
  <2>6. \A k \in DOMAIN OhRings : ohFree[k] = OhRings[k] - OhMissing(k) BY <2>2
  <2>7. CASE OhLeaks
    <3>1. ohCall = "ReceiveIsoData" /\ ohFree' = ohFree /\ ohLost' = ohLost + 1 BY <1>8, <2>7 DEF OhWaitEnds, OhLeaks
    <3>2. \A k \in DOMAIN OhRings : OhMissing(k)' = 0 + (ohLost + 1) * OhShape["ReceiveIsoData"].take[k] BY <2>2, <3>1, OhShapesAre
    <3>3. \A a \in Nat, b \in Int : (a + 1) * b = a * b + b OBVIOUS
    <3>4. \A k \in DOMAIN OhRings : (ohLost + 1) * OhShape["ReceiveIsoData"].take[k] = Lost(k) + OhShape["ReceiveIsoData"].take[k]
          BY <1>0, <3>3 DEF OhTyped
    <3>5. \A k \in DOMAIN OhRings : OhMissing(k)' = OhMissing(k)
      <4> HIDE DEF Lost, OhMissing
      <4> QED BY <1>0, <2>4, <2>5, <3>1, <3>2, <3>4
    <3> QED BY <2>2, <2>6, <3>1, <3>5
  <2>8. CASE ~OhLeaks
    <3>1. ohLost' = ohLost /\ \A k \in DOMAIN OhRings : ohFree'[k] = ohFree[k] + OhShape[ohCall].take[k]
      BY <1>8, <2>8 DEF OhWaitEnds, OhReturned, OhTyped
    <3>2. \A k \in DOMAIN OhRings : OhMissing(k)' = 0 + Lost(k) BY <2>2, <3>1, OhShapesAre
    <3> HIDE DEF Lost, OhMissing
    <3>3. \A k \in DOMAIN OhRings : ohFree'[k] = OhRings[k] - OhMissing(k)' BY <1>0, <2>1, <2>4, <2>5, <2>6, <3>1, <3>2 DEF OhShapeOK
    <3> QED BY <2>2, <3>3
  <2> QED BY <2>7, <2>8
<1>9. CASE OhController BY <1>9 DEF OhController, OhExecutes, OhFails, OhRetires
<1>10. CASE OhFrameEnds BY <1>10 DEF OhFrameEnds
<1>11. CASE OhPort BY <1>11 DEF OhPort
<1>12. CASE OHCIIntrHandler BY <1>12 DEF OHCIIntrHandler
<1>13. CASE UNCHANGED ohVars BY <1>13 DEF ohVars
<1> QED BY <1>1, <1>2, <1>3, <1>4, <1>5, <1>6, <1>7, <1>8, <1>9, <1>10, <1>11, <1>12, <1>13 DEF OhStep

LEMMA OhPhaseStep == ASSUME ohFast, OhInv, [OhStep]_ohVars PROVE OhPhase'
<1> OhTyped /\ OhInMenu /\ OhPhase BY DEF OhInv
<1> USE DEF OhPhase, OhReported
<1>0. ~OhNil.any BY DEF OhNil
<1>1. CASE ohci_test
  <2>1. ohReg'.pending = {} /\ ohList' = <<>> /\ ohDone' = OhNil /\ ~ohFlag'.tc BY <1>1, OhStarted DEF ohci_test
  <2> QED BY <1>0, <2>1 DEF OhBusy
<1>2. CASE OhKey BY <1>2 DEF OhKey, OhBusy, OhActive
<1>3. CASE OHCI_Base_TestItem
  <2>1. ohReg'.pending = {} /\ ohList' = <<>> /\ ohDone' = OhNil /\ ohFlag' = ohFlag /\ ohCall = "none" BY <1>3, OhStarted DEF OHCI_Base_TestItem
  <2> QED BY <1>0, <2>1, OhShapesAre DEF OhBusy
<1>4. CASE OhResetBegins BY <1>4, OhShapesAre DEF OhResetBegins, OhBusy, OhActive
<1>5. CASE OhResetReturns BY <1>5, OhShapesAre DEF OhResetReturns, OhBusy, OhActive
<1>6. ASSUME NEW n \in DOMAIN OhShape, OhBegin(n) PROVE OhPhase'
  BY <1>6, OhShapesAre DEF OhBegin
<1>7. ASSUME NEW n \in DOMAIN OhShape, OhRunsOut(n) PROVE OhPhase' BY <1>7 DEF OhRunsOut, OhBusy, OhActive
<1>8. CASE OhWaitEnds
  <2>1. ohFlag.tc /\ ~ohFlag'.tc /\ ohReg' = ohReg /\ ohDone' = ohDone /\ ohList' \in {ohList, <<>>} BY <1>8 DEF OhWaitEnds, OhTcCleared, OhTyped
  <2>2. ~OhBusy' BY <2>1 DEF OhBusy, OhActive
  <2> QED BY <2>1, <2>2
<1>9. ASSUME NEW i \in DOMAIN ohList, OhExecutes(i) \/ OhFails(i) PROVE OhPhase'
  <2>1. PICK good \in BOOLEAN : OhRetires(i, good) BY <1>9 DEF OhExecutes, OhFails
  <2>2. OhBusy /\ ohFlag' = ohFlag /\ ohReg' = ohReg /\ ohCall' = ohCall BY <2>1 DEF OhRetires, OhBusy
  <2> QED BY <2>2
<1>10. CASE OhFrameEnds
  <2>1. ohDone.any /\ ~OhBusy /\ ohFlag' = ohFlag /\ ohCall' = ohCall /\ ohDone' = OhNil /\ ohList' = ohList BY <1>10 DEF OhFrameEnds
  <2> QED BY <1>0, <2>1 DEF OhBusy, OhActive
<1>11. CASE OhPort
  <2>1. "WDH" \in ohReg'.pending => "WDH" \in ohReg.pending BY <1>11 DEF OhPort, OhPend, OhTyped
  <2> QED BY <1>11, <2>1 DEF OhPort, OhBusy, OhActive
<1>12. CASE OHCIIntrHandler
  <2>1. ohReg'.pending = {} BY <1>12 DEF OHCIIntrHandler, OhTyped
  <2>2. ohFlag'.tc => OhReported BY <1>12 DEF OHCIIntrHandler, OhSetFlags
  <2> QED BY <1>12, <2>1, <2>2 DEF OHCIIntrHandler, OhBusy, OhActive
<1>13. CASE UNCHANGED ohVars BY <1>13 DEF ohVars, OhBusy, OhActive
<1> QED BY <1>1, <1>2, <1>3, <1>4, <1>5, <1>6, <1>7, <1>8, <1>9, <1>10, <1>11, <1>12, <1>13 DEF OhStep, OhController

LEMMA OhAddressingStep == ASSUME ohFast, OhInv, [OhStep]_ohVars PROVE OhAddressing'
<1> OhTyped /\ OhInMenu /\ OhPhase /\ OhAddressing BY DEF OhInv
<1> USE DEF OhAddressing, OhKnowsAddress, OhSaysAddressed
<1>0. ~OhNil.any BY DEF OhNil
<1>1. CASE ohci_test
  <2>1. ohCall' = "none" /\ ~ohDev'.sure BY <1>1, OhStarted DEF ohci_test, OhInMenu
  <2> QED BY <2>1, OhShapesAre
<1>2. CASE OhKey BY <1>2 DEF OhKey, OhReported
<1>3. CASE OHCI_Base_TestItem
  <2>1. ohCall' = "none" /\ ~ohDev'.sure BY <1>3, OhStarted DEF OHCI_Base_TestItem
  <2> QED BY <2>1, OhShapesAre
<1>4. CASE OhResetBegins
  <2>1. ohCall' = "ResetDevice" /\ (ohDev'.sure => ohDev'.there /\ ohDev'.address = 0) BY <1>4 DEF OhResetBegins, OhTyped
  <2> QED BY <2>1, OhShapesAre
<1>5. CASE OhResetReturns
  <2>1. ohCall' = "none" /\ ohDev' = ohDev /\ ohSt' = 0 /\ ohCall = "ResetDevice" BY <1>5 DEF OhResetReturns, OhForgets
  <2> QED BY <2>1, OhShapesAre
<1>6. ASSUME NEW n \in DOMAIN OhShape, OhBegin(n) PROVE OhAddressing'
  <2>1. ohCall = "none" /\ ohCall' = n /\ ohSt' = ohSt /\ ohDev' = ohDev /\ ohDone' = ohDone /\ ohHcca' = ohHcca /\ ohReg' = ohReg /\ ohFlag' = ohFlag
        BY <1>6 DEF OhBegin
  <2>2. \A i \in DOMAIN ohList' : ohList'[i].address = (n = "SetAddress") BY <1>6 DEF OhBegin
  <2>3. ~ohDone.any /\ ~OhReported BY <2>1, OhShapesAre DEF OhPhase
  <2>4. ~OhReported' BY <2>1, <2>3 DEF OhReported
  <2> QED BY <2>1, <2>2, <2>3, <2>4, OhShapesAre
<1>7. ASSUME NEW n \in DOMAIN OhShape, OhRunsOut(n) PROVE OhAddressing' BY <1>7 DEF OhRunsOut, OhReported
<1>8. CASE OhWaitEnds
  <2>1. /\ ohCall' = "none" /\ ohCall \notin {"none", "ResetDevice"} /\ OhReported
        /\ ohDev'.there = ohDev.there /\ ohDev'.address = ohDev.address
        /\ (ohDev'.sure => ohDev.sure /\ (ohCall = "SetAddress" => OhGood))
        /\ ohSt' = IF ohCall = "SetAddress" /\ OhGood THEN 1 ELSE ohSt
    BY <1>8 DEF OhWaitEnds, OhReported, OhTyped
  <2> QED BY <2>1, OhShapesAre DEF OhGood, OhIsLast
<1>9. ASSUME NEW i \in DOMAIN ohList, OhExecutes(i) PROVE OhAddressing'
  <2>1. OhRetires(i, TRUE) BY <1>9 DEF OhExecutes
  <2>2. OhBusy /\ ohCall' = ohCall /\ ohSt' = ohSt /\ ohFlag' = ohFlag /\ ohReg' = ohReg BY <2>1 DEF OhRetires, OhBusy
  <2>3. ohCall \in DOMAIN OhShape /\ ~OhReported /\ ~OhReported' BY <2>2 DEF OhPhase, OhReported
  <2>4. \A j \in DOMAIN ohList' : ohList'[j].address = (ohCall = "SetAddress") BY <2>1, <2>3, OhRetired
  <2>5. /\ ohDev'.sure = ohDev.sure /\ ohDev'.there = ohDev.there
        /\ ohList[i].address /\ ohList[i].left = 1 => ohDev'.address = 1
        /\ ~ohList[i].address => ohDev'.address = ohDev.address
    BY <1>9 DEF OhExecutes, OhTyped
  <2>6. ohDone'.last => ohList[i].left = 1 BY <2>1 DEF OhRetires
  <2> QED BY <2>2, <2>3, <2>4, <2>5, <2>6, OhShapesAre
<1>10. ASSUME NEW i \in DOMAIN ohList, OhFails(i) PROVE OhAddressing'
  <2>1. OhRetires(i, FALSE) /\ ohDev' = ohDev BY <1>10 DEF OhFails
  <2>2. OhBusy /\ ohCall' = ohCall /\ ohSt' = ohSt /\ ohFlag' = ohFlag /\ ohReg' = ohReg /\ ~ohDone'.good BY <2>1 DEF OhRetires, OhBusy
  <2>3. ohCall \in DOMAIN OhShape /\ ~OhReported /\ ~OhReported' BY <2>2 DEF OhPhase, OhReported
  <2>4. \A j \in DOMAIN ohList' : ohList'[j].address = (ohCall = "SetAddress") BY <2>1, <2>3, OhRetired
  <2> QED BY <2>1, <2>2, <2>3, <2>4, OhShapesAre
<1>11. CASE OhFrameEnds BY <1>0, <1>11 DEF OhFrameEnds
<1>12. CASE OhPort
  <2>1. OhReported' => OhReported BY <1>12 DEF OhPort, OhPend, OhTyped, OhReported
  <2>2. ohDev'.sure => ohDev.sure /\ ohDev'.there = ohDev.there /\ ohDev'.address = ohDev.address BY <1>12 DEF OhPort, OhTyped
  <2> QED BY <1>12, <2>1, <2>2 DEF OhPort
<1>13. CASE OHCIIntrHandler
  <2>1. OhReported' => OhReported BY <1>13 DEF OHCIIntrHandler, OhSetFlags, OhTyped, OhReported
  <2> QED BY <1>13, <2>1 DEF OHCIIntrHandler
<1>14. CASE UNCHANGED ohVars BY <1>14 DEF ohVars, OhReported
<1> QED BY <1>1, <1>2, <1>3, <1>4, <1>5, <1>6, <1>7, <1>8, <1>9, <1>10, <1>11, <1>12, <1>13, <1>14 DEF OhStep, OhController

LEMMA OhStepInv == OhInv /\ [OhStep]_ohVars => OhInv'
<1> SUFFICES ASSUME OhInv, [OhStep]_ohVars PROVE OhInv' OBVIOUS
<1>1. OhTyped' /\ OhInMenu' /\ OhPoolWhole' BY OhTypedStep, OhPoolStep
<1>2. ohFast => OhPhase' /\ OhAddressing' BY OhPhaseStep, OhAddressingStep
<1> QED BY <1>1, <1>2 DEF OhInv

LEMMA OhInitInv == OhInit \/ OhOff => OhInv
<1> SUFFICES ASSUME NEW m \in {"idle", "off"}, OhStart(m) PROVE OhInv BY DEF OhInit, OhOff
<1> USE DEF OhStart
<1>1. ohFree \in [DOMAIN OhRings -> Int] BY DEF OhRings
<1>2. ohList \in [DOMAIN ohList -> OhEntry] OBVIOUS
<1>3. ohDone \in [last : BOOLEAN, good : BOOLEAN, any : BOOLEAN] /\ ~ohDone.any BY DEF OhNil
<1>4. ohHcca \in [last : BOOLEAN, good : BOOLEAN, any : BOOLEAN] BY DEF OhNil
<1>5. ohReg \in OhRegs /\ ohReg.pending = {} BY DEF OhRegs
<1>6. ohFlag \in [tc : BOOLEAN, reset : BOOLEAN, connect : BOOLEAN] /\ ~ohFlag.tc OBVIOUS
<1>7. ohDev \in OhDevs BY DEF OhDevs
<1>8. OhTyped BY <1>1, <1>2, <1>3, <1>4, <1>5, <1>6, <1>7 DEF OhTyped, OhRegs, OhDevs
<1>9. OhPhase BY <1>3, <1>5, <1>6 DEF OhPhase, OhReported, OhBusy
<1>10. OhAddressing BY OhShapesAre DEF OhAddressing, OhKnowsAddress
<1> QED BY <1>8, <1>9, <1>10 DEF OhInv, OhInMenu, OhPoolWhole
-----------------------------------------------------------------------------
(* The free rings are FIFO queues for every set of descriptors.  The three *)
(* invariants are inductive together: which descriptor a link leads to is  *)
(* only known because a held descriptor, whose link may be overwritten, is *)
(* not in the queue.                                                       *)
RingInv == RingTypeOK /\ QueueLinked /\ FreeOnce

(* Adding keeps the queue linked: the old last one now leads to it.        *)
LEMMA AddKeeps == ASSUME RingInv, NEW d \in Node, AddFree(d) PROVE RingInv'
<1> USE RingAssumption DEF RingInv, RingTypeOK, Word
<1>1. d \notin {queue[i] : i \in 1 .. Len(queue)} BY DEF FreeOnce, AddFree
<1>2. queue' \in Seq(Node) /\ Len(queue') = Len(queue) + 1 /\ queue'[Len(queue) + 1] = d
      /\ \A i \in 1 .. Len(queue) : queue'[i] = queue[i] BY DEF AddFree
<1>3. AloneLink(d) \in Word
      BY DEF AloneLink, Add_Free_QH_Ring, Add_Free_QTD_Ring, Add_Free_iTD_Ring, Add_Free_ED_Ring, Add_Free_GTD_Ring, Add_Free_ISOTD_Ring
<1>4. RingTypeOK' BY <1>2, <1>3 DEF AddFree
<1>5. QueueLinked'
  <2>1. CASE size = 0
    <3>1. Len(queue) = 0 BY <2>1 DEF QueueLinked
    <3> QED BY <2>1, <3>1, <1>2 DEF AddFree, QueueLinked
  <2>2. CASE size # 0
    <3>1. size > 0 /\ size = Len(queue) /\ end = queue[size] /\ root = queue[1] BY <2>2 DEF QueueLinked
    <3>2. end \in Node /\ end # d BY <3>1, <1>1
    <3>3. link'[end] = d BY <2>2, <3>2 DEF AddFree
    <3>4. \A i \in 1 .. size - 1 : queue[i] # end /\ queue[i] # d BY <3>1, <1>1 DEF FreeOnce
    <3>5. \A i \in 1 .. size - 1 : link'[queue[i]] = queue[i + 1] BY <2>2, <3>1, <3>4 DEF AddFree, QueueLinked
    <3>6. \A i \in 1 .. size : link'[queue'[i]] = queue'[i + 1]
      <4> TAKE i \in 1 .. size
      <4>1. CASE i = size BY <4>1, <1>2, <3>1, <3>3
      <4>2. CASE i # size BY <4>2, <1>2, <3>1, <3>5
      <4> QED BY <4>1, <4>2
    <3> QED BY <2>2, <3>1, <3>6, <1>2 DEF AddFree, QueueLinked
  <2> QED BY <2>1, <2>2
<1>6. FreeOnce' BY <1>1, <1>2 DEF FreeOnce, AddFree
<1> QED BY <1>4, <1>5, <1>6

(* Taking the first one: the new Root is the second one of the queue, and  *)
(* the store through End changes no link that is followed.                 *)
LEMMA GetKeeps == ASSUME RingInv, GetFree PROVE RingInv'
<1> USE RingAssumption DEF RingInv, RingTypeOK, Word, GetFree, Gotten, RootLink
<1>1. size = Len(queue) /\ Len(queue) > 0 /\ root = queue[1] /\ end = queue[size] BY DEF QueueLinked
<1>2. queue' \in Seq(Node) /\ Len(queue') = Len(queue) - 1 /\ \A i \in 1 .. Len(queue) - 1 : queue'[i] = queue[i + 1] BY <1>1
<1>3. root \in Node /\ end \in Node BY <1>1
<1>4. RingTypeOK' BY <1>1, <1>2, <1>3
<1>5. \A i \in 1 .. size - 1 : queue[i] # end BY <1>1 DEF FreeOnce
<1>6. \A i \in 1 .. size - 1 : link'[queue[i]] = queue[i + 1] BY <1>1, <1>5 DEF QueueLinked
<1>7. QueueLinked'
  <2>1. size' = Len(queue') BY <1>1, <1>2
  <2>2. size' > 0 => root' = queue'[1] /\ end' = queue'[size'] BY <1>1, <1>2 DEF QueueLinked
  <2>3. \A i \in 1 .. size' - 1 : link'[queue'[i]] = queue'[i + 1] BY <1>1, <1>2, <1>6
  <2> QED BY <2>1, <2>2, <2>3 DEF QueueLinked
<1>8. FreeOnce' BY <1>1, <1>2 DEF FreeOnce
<1> QED BY <1>4, <1>7, <1>8

(* Whatever is written into a held descriptor is not followed.             *)
LEMMA UseKeeps == ASSUME RingInv, NEW d \in Node, UseHeld(d) PROVE RingInv'
<1> USE DEF RingInv, RingTypeOK, UseHeld
<1>1. RingTypeOK' OBVIOUS
<1>2. \A i \in 1 .. Len(queue) : queue[i] # d BY DEF FreeOnce
<1>3. QueueLinked' BY <1>2 DEF QueueLinked
<1>4. FreeOnce' BY DEF FreeOnce
<1> QED BY <1>1, <1>3, <1>4

(* The rings of the USB drivers are queues of their free descriptors, for  *)
(* any number of descriptors and in each of the six variants.              *)
THEOREM RingIsQueue == RingSpec => [](RingTypeOK /\ QueueLinked /\ FreeOnce)
<1>1. RingInit => RingInv BY RingAssumption DEF RingInit, RingInv, RingTypeOK, QueueLinked, FreeOnce, Word
<1>2. RingInv /\ [RingNext]_ringVars => RingInv'
  <2> SUFFICES ASSUME RingInv, [RingNext]_ringVars PROVE RingInv' OBVIOUS
  <2>1. CASE GetFree BY <2>1, GetKeeps
  <2>2. ASSUME NEW d \in Node, AddFree(d) \/ UseHeld(d) PROVE RingInv' BY <2>2, AddKeeps, UseKeeps
  <2>3. CASE UNCHANGED ringVars BY <2>3 DEF ringVars, RingInv, RingTypeOK, QueueLinked, FreeOnce, Word
  <2> QED BY <2>1, <2>2, <2>3 DEF RingNext
<1> QED BY <1>1, <1>2, PTL DEF RingSpec, RingInv

(* Every ring implements the pool: Get_Free_QH, Get_Free_QTD and the       *)
(* others hand out the descriptor that has been free longest, and never    *)
(* one that is still held.                                                 *)
THEOREM RingImplementsPool == RingSpec => ImplementsPool
<1>1. RingInit => Pool!PoolInit BY DEF RingInit, Pool!PoolInit
<1>2. RingInv /\ [RingNext]_ringVars => [Pool!PoolNext]_<<queue, held>>
  <2> SUFFICES ASSUME RingInv, [RingNext]_ringVars PROVE [Pool!PoolNext]_<<queue, held>> OBVIOUS
  <2>1. CASE GetFree
    <3>1. Len(queue) > 0 /\ root = queue[1] BY <2>1 DEF GetFree, RingInv, QueueLinked
    <3>2. queue # <<>> /\ Head(queue) = root BY <3>1 DEF RingInv, RingTypeOK
    <3>3. root \notin held BY <3>1 DEF RingInv, FreeOnce
    <3> QED BY <2>1, <3>2, <3>3 DEF GetFree, Gotten, Pool!PoolNext, Pool!Take
  <2>2. ASSUME NEW d \in Node, AddFree(d) PROVE Pool!PoolNext BY <2>2 DEF AddFree, Pool!PoolNext, Pool!Give
  <2>3. ASSUME NEW d \in Node, UseHeld(d) PROVE UNCHANGED <<queue, held>> BY <2>3 DEF UseHeld
  <2>4. CASE UNCHANGED ringVars BY <2>4 DEF ringVars
  <2> QED BY <2>1, <2>2, <2>3, <2>4 DEF RingNext
<1>3. RingSpec => []RingInv BY RingIsQueue, PTL DEF RingInv
<1> QED BY <1>1, <1>2, <1>3, PTL DEF RingSpec, ImplementsPool, Pool!PoolSpec
-----------------------------------------------------------------------------
(* Both invariants hold in every session with the USB host tests.          *)
THEOREM HostInvariant == HostSpec => [](EhInv /\ OhInv)
<1>1. HostInit => EhInv /\ OhInv BY EhInitInv, OhInitInv DEF HostInit
<1>2. EhInv /\ OhInv /\ [HostNext]_hostVars => (EhInv /\ OhInv)'
  <2> SUFFICES ASSUME EhInv, OhInv, [HostNext]_hostVars PROVE (EhInv /\ OhInv)' OBVIOUS
  <2>1. [EhStep]_ehVars /\ [OhStep]_ohVars BY DEF HostNext, EhOn, OhOn, RingOn, hostVars
  <2> QED BY <2>1, EhStepInv, OhStepInv
<1> QED BY <1>1, <1>2, PTL DEF HostSpec

(* Neither test ever keeps or returns a descriptor too many, with any      *)
(* controller: what a transfer function takes it gives back, on every path *)
(* but that of the isochronous receive that fails.                         *)
THEOREM PoolsAreWhole == HostSpec => []PoolsWhole
<1>1. EhInv /\ OhInv => PoolsWhole BY DEF EhInv, OhInv, PoolsWhole
<1> QED BY <1>1, HostInvariant, PTL

(* No EHCI transfer begins with the completion of the one before: a flag   *)
(* is set between transfers only after descriptors were returned in use.   *)
THEOREM FlagsAreFresh == HostSpec => []EhNoStaleFlag
<1>1. EhInv => EhNoStaleFlag BY DEF EhInv, EhQuiet, EhSilent, EhNoStaleFlag
<1> QED BY <1>1, HostInvariant, PTL

(* An EHCI transfer function returns descriptors that are in use in three  *)
(* cases only: a control read answered short, of which the status stage is *)
(* to come, and the two loop-backs, of which the isochronous one has       *)
(* stopped its schedule.                                                   *)
THEOREM FreesWhenDone == HostSpec => EhFreesWhenDone
<1>1. EhInv /\ [HostNext]_hostVars =>
        [~ehStrayed /\ ehStrayed' =>
           \/ ehCall.short /\ \A i \in DOMAIN ehList' : ehList'[i].left = <<"ioc">>
           \/ ehCall.name = "BulkLoopData"
           \/ ehCall.name = "IsoLoopData" /\ ehList' = <<>>]_ehVars
  <2> SUFFICES ASSUME EhInv, [HostNext]_hostVars, ~ehStrayed, ehStrayed'
               PROVE  \/ ehCall.short /\ \A i \in DOMAIN ehList' : ehList'[i].left = <<"ioc">>
                      \/ ehCall.name = "BulkLoopData"
                      \/ ehCall.name = "IsoLoopData" /\ ehList' = <<>>
    OBVIOUS
  <2>1. [EhStep]_ehVars BY DEF HostNext, EhOn, OhOn, RingOn, hostVars
  <2>2. WaitEnds
    BY <2>1 DEF EhStep, ehVars, ehci_test, USB_TestMode, EhEnter, EhKey, EhAutoKey, EHCI_Base_TestItem, EhModeKey, Suspend_Resume,
               ResetDevice, Begin, EhAutoReturns, EhController, EhExecutes, EhAnswersShort, EhFails, EhPlug, EHCIIntrHandler
  <2>3. EhInUse /\ ehCall # EhNone /\ (ehFlag.tc \/ ehFlag.ec) BY <2>2 DEF WaitEnds
  <2>4. CASE ehCall.name \in EhLoops BY <2>2, <2>4 DEF EhLoops, WaitEnds, EhPeriodic
  <2>5. CASE ehCall.name \notin EhLoops
    <3>1. ehCall.short /\ DOMAIN ehList = {1} /\ EhEndsWithIOC(ehList[1].left) /\ Len(ehList[1].left) <= 1
      BY <2>3, <2>5 DEF EhInv, EhOneQueue, EhSilent, EhCauses, EhInUse, EhExecuting
    <3>2. EhActive(ehList[1]) => ehList[1].left = <<"ioc">>
      <4> SUFFICES ASSUME EhActive(ehList[1]) PROVE ehList[1].left = <<"ioc">> OBVIOUS
      <4> DEFINE q == ehList[1].left
      <4>1. q \in Seq(EhStage) /\ q # <<>> BY <3>1 DEF EhActive, EhInv, EhTyped, EhEntry
      <4>2. Len(q) = 1 BY <3>1, <4>1, EmptySeq, LenProperties
      <4>3. q[1] = "ioc" BY <3>1, <4>1, <4>2 DEF EhEndsWithIOC
      <4>4. <<"ioc">> \in Seq(EhStage) /\ Len(<<"ioc">>) = 1 /\ <<"ioc">>[1] = "ioc" BY EhLists
      <4> HIDE DEF q
      <4>5. \A j \in 1 .. Len(q) : q[j] = <<"ioc">>[j] BY <4>2, <4>3, <4>4
      <4>6. q = <<"ioc">> BY <4>1, <4>2, <4>4, <4>5, SeqEqual
      <4> QED BY <4>6 DEF q
    <3>3. ehList' = <<>> \/ (ehList' = ehList /\ EhActive(ehList[1])) BY <2>2, <3>1 DEF WaitEnds, EhExecuting
    <3> QED BY <3>1, <3>2, <3>3
  <2> QED BY <2>4, <2>5
<1> QED BY <1>1, HostInvariant, PTL DEF HostSpec, EhFreesWhenDone

(* With a controller that executes what is linked within a frame, an OHCI  *)
(* transfer function returns only when nothing of its transfer is left.    *)
THEOREM TransfersFinish == ASSUME ohFast PROVE HostSpec => OhFinished
<1>1. OhInv /\ [HostNext]_hostVars => [(ohCall \in DOMAIN OhShape /\ ohCall' = "none") => ~OhBusy]_ohVars
  <2> SUFFICES ASSUME OhInv, [HostNext]_hostVars, ohCall \in DOMAIN OhShape, ohCall' = "none" PROVE ~OhBusy OBVIOUS
  <2>1. [OhStep]_ohVars BY DEF HostNext, EhOn, OhOn, RingOn, hostVars
  <2>2. ohCall # "none" /\ ohCall # "ResetDevice" BY OhShapesAre
  <2>3. ohMenu # "idle" BY <2>2 DEF OhInv, OhInMenu
  <2>4. OhWaitEnds
    BY <2>1, <2>2, <2>3 DEF OhStep, ohVars, ohci_test, OhKey, OHCI_Base_TestItem, OhResetBegins, OhResetReturns, OhBegin, OhRunsOut,
               OhController, OhExecutes, OhFails, OhRetires, OhFrameEnds, OhPort, OHCIIntrHandler
  <2> QED BY <2>4 DEF OhInv, OhPhase, OhReported, OhWaitEnds
<1> QED BY <1>1, HostInvariant, PTL DEF HostSpec, OhFinished

(* With such a controller both hosts know the device's address after every *)
(* transfer and reset; EHCI's does with any.                               *)
THEOREM AddressesAgree == ASSUME ohFast PROVE HostSpec => []HostKnowsAddress
<1>1. EhInv /\ OhInv => HostKnowsAddress
  <2> SUFFICES ASSUME EhInv, OhInv PROVE HostKnowsAddress OBVIOUS
  <2>1. EhKnowsAddress BY DEF EhInv, EhAddressing, EhSettingAddress, EhKnowsAddress
  <2>2. OhKnowsAddress BY DEF OhInv, OhAddressing
  <2> QED BY <2>1, <2>2 DEF HostKnowsAddress
<1> QED BY <1>1, HostInvariant, PTL

(* EHCI's part of it, without a condition on the controller.               *)
THEOREM EhciAddressAgrees == HostSpec => []EhKnowsAddress
<1>1. EhInv => EhKnowsAddress BY DEF EhInv, EhAddressing, EhSettingAddress, EhKnowsAddress
<1> QED BY <1>1, HostInvariant, PTL

=============================================================================
