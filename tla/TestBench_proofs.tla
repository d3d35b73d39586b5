--------------------------- MODULE TestBench_proofs ---------------------------
(***************************************************************************)
(* Safety of the GPIO interrupt service, and of tests that the user picks  *)
(* from the main menu, one of which runs in a behaviour.  Each test has an *)
(* invariant of its own, which its own steps preserve; the steps of        *)
(* another leave it alone.                                                 *)
(***************************************************************************)
EXTENDS TestBench, MenuUartAudio_proofs, Timers_proofs, FiniteSetTheorems

-----------------------------------------------------------------------------
(* The GPIO interrupt service, for every number of pins, every choice of   *)
(* level triggered ones and every set of sub-routines.  A pin is unmasked  *)
(* only while it is held and its entry is whole, and irq_num never counts  *)
(* fewer pins than are unmasked.  The handler, during which the main       *)
(* program stands still, therefore meets pins with their sub-routine, and  *)
(* has served every pin of its snapshot when it has served irq_num.        *)
FillPc    == {"rq_active", "rq_sub", "rq_param"}     \* the entry is being filled
UncountPc == FillPc \cup {"rq_num"}                  \* held, and not counted yet
GonePc    == {"fr_sub", "fr_num"}                    \* counted, and not held any more
Held      == {p \in Pin : lock[p] = 1}

\* The handler runs inside irq_dispatch.
FramesOK ==
  /\ isr \in {IC!NoIsr} \cup [at: {"lookup", "run", "iccr"}, irq: {Port}]
  /\ hisr.at # "none" => isr.at = "run"

\* How far the call of the main program has come.
CallPhase ==
  /\ \A p \in Pin : active[p] = 1 => lock[p] = 1
  /\ drv.pc \in UncountPc \cup {"rq_lock"} => drv.sub # NULL
  /\ drv.pc \in UncountPc \cup {"rq_mask", "en_mask"} => lock[drv.pin] = 1
  /\ drv.pc \in {"rq_sub", "rq_param", "rq_num", "rq_mask", "en_mask"} => active[drv.pin] = 1
  /\ drv.pc \in GonePc \cup {"fr_mask", "fr_lock", "di_mask"} => active[drv.pin] = 0
  /\ drv.pc \in GonePc => lock[drv.pin] = 0

\* The entry of a held pin is whole, unless the request is filling it.
HeldEntry ==
  /\ \A p \in Held : \/ sub_routine[p] # NULL /\ sub_param[p] = ParamOf[sub_routine[p]]
                     \/ drv.pin = p /\ drv.pc \in FillPc
  /\ drv.pc = "rq_param" => sub_routine[drv.pin] = drv.sub

\* An unmasked pin is held and active, but for the store that is to mask it.
Unmasked ==
  \A p \in ie : /\ lock[p] = 1
                /\ active[p] = 1 \/ (drv.pin = p /\ drv.pc \in {"fr_mask", "di_mask"})
                /\ ~(drv.pin = p /\ drv.pc \in UncountPc)

\* irq_num is the number of held pins, but for the stores that are to follow.
Counted ==
  irq_num = Cardinality(Held) + (IF drv.pc \in UncountPc THEN -1
                                 ELSE IF drv.pc \in GonePc THEN 1 ELSE 0)

\* The pins the handler has still to serve are unmasked, and there are no more
\* of them than it will serve.
Snapshot ==
  /\ hisr.at # "none" => /\ hisr.status \subseteq ie
                         /\ hisr.count + Cardinality(hisr.status) <= irq_num
  /\ hisr.at = "clear" => hisr.pin \in hisr.status

IInv == TypeOK /\ FramesOK /\ CallPhase /\ HeldEntry /\ Unmasked /\ Counted /\ Snapshot

USE GpioAssumption
    DEF MainProgram, Call, Step, Return, SetActive, Mask, Unmask, NoCall, NoHandler, Scanned,
        HandlerRuns, StopsEarly, SwitchRefused, Switch, pinVars, devVars, icVars, Status,
        FillPc, UncountPc, GonePc,
        IC!MainRuns, IC!Idle, IC!NoIsr, IC!At, IC!table, IC!chip, IC!world

LEMMA InitIInv == Init => IInv
<1> SUFFICES ASSUME Init PROVE IInv
  OBVIOUS
<1> USE DEF Init
<1>0. 0 \in Pin  BY DEF Pin
<1>1. TypeOK  BY <1>0 DEF TypeOK, DrvPc
<1>2. FramesOK /\ CallPhase /\ Unmasked /\ Snapshot
  BY DEF FramesOK, CallPhase, Unmasked, Snapshot
<1>3. Held = {}  BY DEF Held
<1>4. HeldEntry /\ Counted  BY <1>3, FS_EmptySet DEF HeldEntry, Counted
<1>. QED  BY <1>1, <1>2, <1>4 DEF IInv

\* The sets of pins are finite.
LEMMA PinsFinite ==
  /\ IsFiniteSet(Pin) /\ Cardinality(Pin) = NumPins
  /\ IsFiniteSet(Held) /\ Cardinality(Held) \in 0 .. NumPins
  /\ \A s \in SUBSET Pin : IsFiniteSet(s) /\ Cardinality(s) \in 0 .. NumPins
<1>1. IsFiniteSet(Pin) /\ Cardinality(Pin) = NumPins
  BY FS_Interval DEF Pin
<1>2. \A s \in SUBSET Pin : IsFiniteSet(s) /\ Cardinality(s) \in 0 .. NumPins
  <2> TAKE s \in SUBSET Pin
  <2>1. IsFiniteSet(s) /\ Cardinality(s) <= NumPins  BY <1>1, FS_Subset
  <2>2. Cardinality(s) \in Nat  BY <2>1, FS_CardinalityType
  <2>. QED  BY <2>1, <2>2
<1>3. Held \in SUBSET Pin  BY DEF Held
<1>. QED  BY <1>1, <1>2, <1>3

\* The main program takes a step only while no handler runs, and leaves the
\* frames of the exception alone.
LEMMA MainAlone ==
  ASSUME IInv, Client \/ ServiceStep
  PROVE  hisr.at = "none" /\ UNCHANGED <<hisr, devVars, icVars>>
<1>1. isr = IC!NoIsr /\ UNCHANGED <<hisr, devVars, icVars>>
  BY DEF Client, ServiceStep, RequestStep, FreeStep, SwitchStep,
         socle_request_gpio_irq, socle_free_gpio_irq, socle_enable_gpio_irq, socle_disable_gpio_irq,
         RequestBusy, RequestLock, RequestActive, RequestSub, RequestParam, RequestNum, RequestMask,
         FreeActive, FreeMask, FreeNotHeld, FreeLock, FreeSub, FreeNum,
         EnableCheck, EnableMask, DisableCheck, DisableMask
<1>. QED  BY <1>1 DEF IInv, FramesOK

\* The handler and the devices leave the pin table, the mask register and the
\* call of the main program alone.
LEMMA TableKept ==
  ASSUME HandlerStep \/ Device \/ UNCHANGED vars
  PROVE  UNCHANGED <<lock, active, sub_routine, sub_param, irq_num, drv, ie>>
<1>1. CASE IsrStep  BY <1>1 DEF IsrStep, IsrEnter, IsrRun, IsrClear, IsrLeave
<1>2. CASE DispatchStep  BY <1>2 DEF DispatchStep
<1>3. CASE Device  BY <1>3 DEF Device, Raise, Withdraw
<1>4. CASE UNCHANGED vars  BY <1>4 DEF vars
<1>. QED  BY <1>1, <1>2, <1>3, <1>4 DEF HandlerStep

\* A call starts with its first step, on some pin, and stores nothing.
LEMMA CallStarts ==
  ASSUME Client
  PROVE  /\ drv.pc = "idle"
         /\ \E p \in Pin, to \in {"rq_lock", "fr_active", "en_check", "di_check"}, r \in SubRoutine \cup {NULL} :
              /\ drv' = [pc |-> to, pin |-> p, sub |-> r]
              /\ to = "rq_lock" => r # NULL
         /\ UNCHANGED <<lock, active, sub_routine, sub_param, irq_num, ie>>
<1>1. PICK p \in Pin : \/ \E r \in SubRoutine : socle_request_gpio_irq(p, r)
                       \/ socle_free_gpio_irq(p)
                       \/ socle_enable_gpio_irq(p)
                       \/ socle_disable_gpio_irq(p)
  BY DEF Client
<1>2. CASE \E r \in SubRoutine : socle_request_gpio_irq(p, r)
  BY <1>2 DEF socle_request_gpio_irq
<1>3. CASE socle_free_gpio_irq(p)  BY <1>3 DEF socle_free_gpio_irq
<1>4. CASE socle_enable_gpio_irq(p)  BY <1>4 DEF socle_enable_gpio_irq
<1>5. CASE socle_disable_gpio_irq(p)  BY <1>5 DEF socle_disable_gpio_irq
<1>. QED  BY <1>1, <1>2, <1>3, <1>4, <1>5

LEMMA CallPhaseStep == IInv /\ [Next]_vars => CallPhase'
<1> SUFFICES ASSUME IInv, [Next]_vars PROVE CallPhase'
  OBVIOUS
<1> USE DEF IInv, TypeOK, CallPhase
<1>1. CASE Client  BY <1>1, CallStarts
<1>2. CASE RequestStep
  BY <1>2 DEF RequestStep, RequestBusy, RequestLock, RequestActive, RequestSub, RequestParam,
              RequestNum, RequestMask
<1>3. CASE FreeStep
  BY <1>3 DEF FreeStep, FreeActive, FreeMask, FreeNotHeld, FreeLock, FreeSub, FreeNum
<1>4. CASE SwitchStep
  BY <1>4 DEF SwitchStep, EnableCheck, EnableMask, DisableCheck, DisableMask
<1>5. CASE HandlerStep \/ Device \/ UNCHANGED vars  BY <1>5, TableKept
<1>. QED  BY <1>1, <1>2, <1>3, <1>4, <1>5 DEF Next, ServiceStep

LEMMA HeldEntryStep == IInv /\ [Next]_vars => HeldEntry'
<1> SUFFICES ASSUME IInv, [Next]_vars PROVE HeldEntry'
  OBVIOUS
<1> USE DEF IInv, TypeOK, CallPhase, HeldEntry, Held
<1>1. CASE Client  BY <1>1, CallStarts
<1>2. CASE RequestStep
  BY <1>2 DEF RequestStep, RequestBusy, RequestLock, RequestActive, RequestSub, RequestParam,
              RequestNum, RequestMask
<1>3. CASE FreeStep
  BY <1>3 DEF FreeStep, FreeActive, FreeMask, FreeNotHeld, FreeLock, FreeSub, FreeNum
<1>4. CASE SwitchStep
  BY <1>4 DEF SwitchStep, EnableCheck, EnableMask, DisableCheck, DisableMask
<1>5. CASE HandlerStep \/ Device \/ UNCHANGED vars  BY <1>5, TableKept
<1>. QED  BY <1>1, <1>2, <1>3, <1>4, <1>5 DEF Next, ServiceStep

LEMMA UnmaskedStep == IInv /\ [Next]_vars => Unmasked'
<1> SUFFICES ASSUME IInv, [Next]_vars PROVE Unmasked'
  OBVIOUS
<1> USE DEF IInv, TypeOK, CallPhase, Unmasked
<1>1. CASE Client  BY <1>1, CallStarts
<1>2. CASE RequestStep
  BY <1>2 DEF RequestStep, RequestBusy, RequestLock, RequestActive, RequestSub, RequestParam,
              RequestNum, RequestMask
<1>3. CASE FreeStep
  BY <1>3 DEF FreeStep, FreeActive, FreeMask, FreeNotHeld, FreeLock, FreeSub, FreeNum
<1>4. CASE SwitchStep
  BY <1>4 DEF SwitchStep, EnableCheck, EnableMask, DisableCheck, DisableMask
<1>5. CASE HandlerStep \/ Device \/ UNCHANGED vars  BY <1>5, TableKept
<1>. QED  BY <1>1, <1>2, <1>3, <1>4, <1>5 DEF Next, ServiceStep

\* Taking and giving back a pin changes the number of held pins by one.
LEMMA HeldChanges ==
  ASSUME IInv, NEW p \in Pin, NEW v \in {0, 1}, lock[p] # v, lock' = [lock EXCEPT ![p] = v]
  PROVE  /\ v = 1 => Cardinality(Held') = Cardinality(Held) + 1
         /\ v = 0 => Cardinality(Held') = Cardinality(Held) - 1
<1>1. lock \in [Pin -> {0, 1}]  BY DEF IInv, TypeOK
<1>2. CASE v = 1
  <2>1. p \notin Held /\ Held' = Held \cup {p}  BY <1>1, <1>2 DEF Held
  <2>. QED  BY <1>2, <2>1, PinsFinite, FS_AddElement
<1>3. CASE v = 0
  <2>1. p \in Held /\ Held' = Held \ {p}  BY <1>1, <1>3 DEF Held
  <2>. QED  BY <1>3, <2>1, PinsFinite, FS_RemoveElement
<1>. QED  BY <1>2, <1>3

LEMMA CountedStep == IInv /\ [Next]_vars => Counted'
<1> SUFFICES ASSUME IInv, [Next]_vars PROVE Counted'
  OBVIOUS
<1>0. Cardinality(Held) \in Nat /\ drv.pin \in Pin /\ irq_num \in Nat
  BY PinsFinite DEF IInv, TypeOK
<1>a. ASSUME UNCHANGED lock PROVE Held' = Held
  BY <1>a DEF Held
<1>b. Counted /\ drv = [pc |-> drv.pc, pin |-> drv.pin, sub |-> drv.sub]
  BY DEF IInv, TypeOK
<1> USE DEF Counted
<1>1. CASE Client  BY <1>1, <1>0, <1>a, <1>b, CallStarts
<1>2. CASE RequestStep
  <2>1. CASE RequestLock
    <3>0. lock[drv.pin] # 1 /\ lock' = [lock EXCEPT ![drv.pin] = 1]  BY <2>1 DEF RequestLock
    <3>1. Cardinality(Held') = Cardinality(Held) + 1  BY <3>0, <1>0, HeldChanges
    <3>2. drv.pc = "rq_lock" /\ drv'.pc = "rq_active" /\ irq_num' = irq_num
      BY <2>1, <1>b DEF RequestLock
    <3>. QED  BY <3>1, <3>2, <1>0, <1>b
  <2>2. CASE RequestBusy \/ RequestActive \/ RequestSub \/ RequestParam \/ RequestNum \/ RequestMask
    BY <2>2, <1>0, <1>a, <1>b
    DEF RequestBusy, RequestActive, RequestSub, RequestParam, RequestNum, RequestMask
  <2>. QED  BY <1>2, <2>1, <2>2 DEF RequestStep
<1>3. CASE FreeStep
  <2>1. CASE FreeLock
    <3>0. lock[drv.pin] # 0 /\ lock' = [lock EXCEPT ![drv.pin] = 0]  BY <2>1 DEF FreeLock
    <3>1. Cardinality(Held') = Cardinality(Held) - 1  BY <3>0, <1>0, HeldChanges
    <3>2. drv.pc = "fr_lock" /\ drv'.pc = "fr_sub" /\ irq_num' = irq_num
      BY <2>1, <1>b DEF FreeLock
    <3>. QED  BY <3>1, <3>2, <1>0, <1>b
  <2>2. CASE FreeActive \/ FreeMask \/ FreeNotHeld \/ FreeSub \/ FreeNum
    BY <2>2, <1>0, <1>a, <1>b DEF FreeActive, FreeMask, FreeNotHeld, FreeSub, FreeNum
  <2>. QED  BY <1>3, <2>1, <2>2 DEF FreeStep
<1>4. CASE SwitchStep
  BY <1>4, <1>0, <1>a, <1>b DEF SwitchStep, EnableCheck, EnableMask, DisableCheck, DisableMask
<1>5. CASE HandlerStep \/ Device \/ UNCHANGED vars  BY <1>5, <1>a, <1>b, TableKept
<1>. QED  BY <1>1, <1>2, <1>3, <1>4, <1>5 DEF Next, ServiceStep

LEMMA FramesOKStep == IInv /\ [Next]_vars => FramesOK'
<1> SUFFICES ASSUME IInv, [Next]_vars PROVE FramesOK'
  OBVIOUS
<1> USE DEF IInv, TypeOK, FramesOK
<1>1. CASE Client \/ ServiceStep  BY <1>1, MainAlone
<1>2. CASE IsrStep
  <2>1. CASE IsrEnter  BY <2>1 DEF IsrEnter, IC!CallHandler
  <2>2. CASE IsrRun \/ IsrClear  BY <2>2 DEF IsrRun, IsrClear
  <2>3. CASE IsrLeave  BY <2>3 DEF IsrLeave, IC!HandlerReturns
  <2>. QED  BY <1>2, <2>1, <2>2, <2>3 DEF IsrStep
<1>3. CASE DispatchStep
  BY <1>3 DEF DispatchStep, IC!TakeIrq, IC!NullVector, IC!ClearIrq
<1>4. CASE Device \/ UNCHANGED vars  BY <1>4 DEF Device, Raise, Withdraw, vars
<1>. QED  BY <1>1, <1>2, <1>3, <1>4 DEF Next, HandlerStep

\* The unmasked pins are no more than irq_num.
LEMMA UnmaskedCounted == IInv => Cardinality(ie) <= irq_num
<1> SUFFICES ASSUME IInv PROVE Cardinality(ie) <= irq_num
  OBVIOUS
<1>1. ie \in SUBSET Held  BY DEF IInv, TypeOK, Unmasked, Held
<1>2. Cardinality(ie) <= Cardinality(Held) /\ Cardinality(ie) \in Nat /\ Cardinality(Held) \in Nat
  BY <1>1, PinsFinite, FS_Subset DEF IInv, TypeOK
<1>3. CASE drv.pc \in UncountPc
  <2>1. drv.pin \in Held /\ ie \in SUBSET (Held \ {drv.pin})
    BY <1>1, <1>3 DEF IInv, TypeOK, CallPhase, Unmasked, Held
  <2>2. IsFiniteSet(Held \ {drv.pin}) /\ Cardinality(Held \ {drv.pin}) = Cardinality(Held) - 1
    BY <2>1, PinsFinite, FS_RemoveElement
  <2>3. Cardinality(ie) <= Cardinality(Held) - 1  BY <2>1, <2>2, FS_Subset
  <2>. QED  BY <1>2, <1>3, <2>3 DEF IInv, Counted
<1>4. CASE drv.pc \notin UncountPc  BY <1>2, <1>4 DEF IInv, Counted
<1>. QED  BY <1>3, <1>4

LEMMA SnapshotStep == IInv /\ [Next]_vars => Snapshot'
<1> SUFFICES ASSUME IInv, [Next]_vars PROVE Snapshot'
  OBVIOUS
<1>0. hisr \in [at: {"none", "scan", "clear"}, pin: Pin, status: SUBSET Pin, count: 0 .. NumPins]
  BY DEF IInv, TypeOK
<1>a. irq_num \in Nat /\ hisr.count \in Nat /\ Cardinality(hisr.status) \in Nat /\ IsFiniteSet(hisr.status)
  BY <1>0, PinsFinite DEF IInv, TypeOK
<1>b. Snapshot  BY DEF IInv
<1>1. CASE Client \/ ServiceStep  BY <1>1, MainAlone DEF Snapshot
<1>2. CASE IsrStep
  <2>0. UNCHANGED <<ie, irq_num>>  BY <1>2, TableKept DEF HandlerStep
  <2>1. CASE IsrEnter
    <3>1. /\ hisr'.at = "scan" /\ hisr'.count = 0
          /\ hisr'.status = IF irq_num = 0 THEN {} ELSE event \cap ie
      BY <2>1 DEF IsrEnter
    <3>2. Cardinality(event \cap ie) <= irq_num /\ Cardinality(event \cap ie) \in Nat
      <4>1. ie \in SUBSET Pin  BY DEF IInv, TypeOK
      <4>2. IsFiniteSet(ie) /\ Cardinality(ie) \in Nat  BY <4>1, PinsFinite
      <4>3. Cardinality(event \cap ie) <= Cardinality(ie)  BY <4>2, FS_Subset
      <4>4. Cardinality(event \cap ie) \in Nat  BY <4>1, PinsFinite
      <4>. QED  BY <4>2, <4>3, <4>4, <1>a, UnmaskedCounted
    <3>. QED  BY <2>0, <3>1, <3>2, <1>a, FS_EmptySet DEF Snapshot
  <2>2. CASE IsrRun
    <3>1. PICK p \in hisr.status :
             hisr' = IF sub_routine[p] # NULL
                      THEN [hisr EXCEPT !.at = "clear", !.pin = p]
                      ELSE [hisr EXCEPT !.status = @ \ {p}]
      BY <2>2 DEF IsrRun
    <3>2. hisr.at = "scan"  BY <2>2 DEF IsrRun
    <3>3. CASE sub_routine[p] # NULL  BY <2>0, <3>1, <3>2, <3>3, <1>0, <1>b DEF Snapshot
    <3>4. CASE sub_routine[p] = NULL
      <4>1. Cardinality(hisr.status \ {p}) = Cardinality(hisr.status) - 1
        BY <1>a, <3>1, FS_RemoveElement
      <4>2. hisr'.at = "scan" /\ hisr'.count = hisr.count /\ hisr'.status = hisr.status \ {p}
        BY <3>1, <3>2, <3>4, <1>0
      <4>. QED  BY <2>0, <4>1, <4>2, <3>2, <1>a, <1>b DEF Snapshot
    <3>. QED  BY <3>3, <3>4
  <2>3. CASE IsrClear
    <3>1. Cardinality(hisr.status \ {hisr.pin}) = Cardinality(hisr.status) - 1
      BY <2>3, <1>a, <1>b, FS_RemoveElement DEF IsrClear, Snapshot
    <3>2. /\ hisr.at = "clear" /\ hisr'.at = "scan" /\ hisr'.count = hisr.count + 1
          /\ hisr'.status \in {{}, hisr.status \ {hisr.pin}}
      BY <2>3, <1>0 DEF IsrClear
    <3>3. Cardinality(hisr.status \ {hisr.pin}) \in Nat  BY <1>0, PinsFinite
    <3>4. hisr'.count + Cardinality(hisr'.status) <= irq_num
      <4>1. CASE hisr'.status = {}
        BY <4>1, <3>1, <3>2, <3>3, <1>a, <1>b, FS_EmptySet DEF Snapshot
      <4>2. CASE hisr'.status = hisr.status \ {hisr.pin}
        BY <4>2, <3>1, <3>2, <3>3, <1>a, <1>b DEF Snapshot
      <4>. QED  BY <3>2, <4>1, <4>2
    <3>. QED  BY <2>0, <3>2, <3>4, <1>b DEF Snapshot
  <2>4. CASE IsrLeave  BY <2>4 DEF IsrLeave, Snapshot
  <2>. QED  BY <1>2, <2>1, <2>2, <2>3, <2>4 DEF IsrStep
<1>3. CASE DispatchStep \/ Device \/ UNCHANGED vars
  <2>1. UNCHANGED <<hisr, ie, irq_num>>
    BY <1>3, TableKept DEF HandlerStep, DispatchStep, Device, Raise, Withdraw, vars
  <2>. QED  BY <2>1, <1>b DEF Snapshot
<1>. QED  BY <1>1, <1>2, <1>3 DEF Next, HandlerStep

LEMMA TypeOKStep == IInv /\ [Next]_vars => TypeOK'
<1> SUFFICES ASSUME IInv, [Next]_vars PROVE TypeOK'
  OBVIOUS
<1> USE DEF IInv, TypeOK, CallPhase, DrvPc
<1>0. irq_num = Cardinality(Held) + (IF drv.pc \in UncountPc THEN -1
                                     ELSE IF drv.pc \in GonePc THEN 1 ELSE 0)
  BY DEF Counted
<1>1. CASE Client
  <2>1. drv' \in [pc: DrvPc, pin: Pin, sub: SubRoutine \cup {NULL}]
    BY <1>1, CallStarts
  <2>. QED  BY <1>1, <2>1, CallStarts, MainAlone
<1>2. CASE ServiceStep
  <2>0. UNCHANGED <<hisr, devVars, icVars>>  BY <1>2, MainAlone
  <2>a. ASSUME NEW pc \in DrvPc, drv' = [drv EXCEPT !.pc = pc]
        PROVE  drv' \in [pc: DrvPc, pin: Pin, sub: SubRoutine \cup {NULL}]
    BY <2>a
  <2>b. NoCall \in [pc: DrvPc, pin: Pin, sub: SubRoutine \cup {NULL}]  BY DEF Pin
  <2>c. ie \cup {drv.pin} \subseteq Pin /\ ie \ {drv.pin} \subseteq Pin  OBVIOUS
  <2>1. CASE RequestStep
    <3>1. irq_num' \in 0 .. NumPins
      <4>1. CASE RequestNum  BY <4>1, <1>0, PinsFinite DEF RequestNum
      <4>2. CASE ~ RequestNum
        BY <2>1, <4>2 DEF RequestStep, RequestBusy, RequestLock, RequestActive, RequestSub,
                          RequestParam, RequestMask
      <4>. QED  BY <4>1, <4>2
    <3>2. drv' \in [pc: DrvPc, pin: Pin, sub: SubRoutine \cup {NULL}]
      BY <2>1, <2>a, <2>b DEF RequestStep, RequestBusy, RequestLock, RequestActive, RequestSub,
                              RequestParam, RequestNum, RequestMask
    <3>. QED
      BY <2>0, <2>c, <2>1, <3>1, <3>2
      DEF RequestStep, RequestBusy, RequestLock, RequestActive, RequestSub, RequestParam,
          RequestNum, RequestMask
  <2>2. CASE FreeStep
    <3>1. irq_num' \in 0 .. NumPins
      <4>1. CASE FreeNum  BY <4>1, <1>0, PinsFinite DEF FreeNum
      <4>2. CASE ~ FreeNum
        BY <2>2, <4>2 DEF FreeStep, FreeActive, FreeMask, FreeNotHeld, FreeLock, FreeSub
      <4>. QED  BY <4>1, <4>2
    <3>2. drv' \in [pc: DrvPc, pin: Pin, sub: SubRoutine \cup {NULL}]
      BY <2>2, <2>a, <2>b DEF FreeStep, FreeActive, FreeMask, FreeNotHeld, FreeLock, FreeSub, FreeNum
    <3>. QED
      BY <2>0, <2>c, <2>2, <3>1, <3>2
      DEF FreeStep, FreeActive, FreeMask, FreeNotHeld, FreeLock, FreeSub, FreeNum
  <2>3. CASE SwitchStep
    <3>1. drv' \in [pc: DrvPc, pin: Pin, sub: SubRoutine \cup {NULL}]
      BY <2>3, <2>a, <2>b DEF SwitchStep, EnableCheck, EnableMask, DisableCheck, DisableMask
    <3>. QED
      BY <2>0, <2>c, <2>3, <3>1 DEF SwitchStep, EnableCheck, EnableMask, DisableCheck, DisableMask
  <2>. QED  BY <1>2, <2>1, <2>2, <2>3 DEF ServiceStep
<1>3. CASE IsrStep
  <2>0. UNCHANGED <<pinVars, drv, ie, raised, vec, pparam, iecr, imr, irqOn>>
    BY <1>3 DEF IsrStep, IsrEnter, IsrRun, IsrClear, IsrLeave
  <2>1. 0 \in Pin /\ 0 \in 0 .. NumPins  BY DEF Pin
  <2>2. CASE IsrEnter  BY <2>0, <2>1, <2>2 DEF IsrEnter
  <2>3. CASE IsrRun
    <3>1. PICK p \in hisr.status : hisr' \in {[hisr EXCEPT !.at = "clear", !.pin = p],
                                             [hisr EXCEPT !.status = @ \ {p}]}
      BY <2>3 DEF IsrRun
    <3>2. p \in Pin /\ hisr.status \ {p} \subseteq Pin  OBVIOUS
    <3>3. hisr' \in [at: {"none", "scan", "clear"}, pin: Pin, status: SUBSET Pin, count: 0 .. NumPins]
      BY <3>1, <3>2
    <3>. QED  BY <2>0, <2>3, <3>3 DEF IsrRun
  <2>4. CASE IsrClear
    <3>1. hisr.count + 1 \in 0 .. NumPins
      <4>1. /\ hisr.pin \in hisr.status /\ hisr.count + Cardinality(hisr.status) <= irq_num
        BY <2>4 DEF IsrClear, Snapshot
      <4>2. Cardinality(hisr.status) \in Nat /\ Cardinality(hisr.status) # 0
        BY <4>1, PinsFinite, FS_EmptySet
      <4>. QED  BY <4>1, <4>2
    <3>. QED  BY <2>0, <2>1, <2>4, <3>1 DEF IsrClear
  <2>5. CASE IsrLeave  BY <2>0, <2>1, <2>5 DEF IsrLeave
  <2>. QED  BY <1>3, <2>2, <2>3, <2>4, <2>5 DEF IsrStep
<1>4. CASE DispatchStep
  BY <1>4 DEF DispatchStep, IC!TakeIrq, IC!NullVector, IC!ClearIrq
<1>5. CASE Device  BY <1>5 DEF Device, Raise, Withdraw
<1>6. CASE UNCHANGED vars  BY <1>6 DEF vars
<1>. QED  BY <1>1, <1>2, <1>3, <1>4, <1>5, <1>6 DEF Next, HandlerStep

\* The invariant holds in every state that can be reached.
THEOREM Invariant == Spec => []IInv
<1>1. IInv /\ [Next]_vars => IInv'
  BY TypeOKStep, FramesOKStep, CallPhaseStep, HeldEntryStep, UnmaskedStep, CountedStep, SnapshotStep
  DEF IInv
<1>. QED  BY InitIInv, <1>1, PTL DEF Spec

\* The variables keep their types: the count of pins and the handler's count
\* stay between zero and the number of pins.
THEOREM TypeCorrect == Spec => []TypeOK
<1>1. IInv => TypeOK  BY DEF IInv
<1>. QED  BY <1>1, Invariant, PTL

\* The handler meets only pins with their sub-routine and its parameter: gpio.c
\* never reports a pin without a socle_gpio_irq_s.
THEOREM AlwaysItsRoutine == Spec => []PinHasItsRoutine
<1>1. IInv => PinHasItsRoutine
  BY DEF IInv, TypeOK, CallPhase, Unmasked, HeldEntry, Held, Snapshot, PinHasItsRoutine
<1>. QED  BY <1>1, Invariant, PTL

\* The sub-routine of a pin runs only while its holder has it enabled, or is
\* between the two stores that disable it.
THEOREM RunsEnabled == Spec => []OnlyEnabledPinsRun
<1>1. IInv => OnlyEnabledPinsRun
  BY DEF IInv, TypeOK, Unmasked, Snapshot, OnlyEnabledPinsRun
<1>. QED  BY <1>1, Invariant, PTL

\* Between two calls irq_num is the number of held pins.
THEOREM CountsHeld == Spec => []CountIsHeld
<1>1. IInv => CountIsHeld
  <2> SUFFICES ASSUME IInv, drv = NoCall PROVE irq_num = Cardinality(Held)
    BY DEF CountIsHeld, Held
  <2>. QED  BY PinsFinite DEF IInv, Counted
<1>. QED  BY <1>1, Invariant, PTL

\* The handler that stops at irq_num pins has served all it has seen.
THEOREM ServesAll == Spec => NoPinLeftOut
<1>1. IInv /\ IsrClear /\ StopsEarly(hisr.count + 1) => hisr.status = {hisr.pin}
  <2> SUFFICES ASSUME IInv, IsrClear, StopsEarly(hisr.count + 1) PROVE hisr.status = {hisr.pin}
    OBVIOUS
  <2>1. hisr.pin \in hisr.status /\ hisr.count + Cardinality(hisr.status) <= irq_num
    BY DEF IInv, Snapshot, IsrClear
  <2>2. IsFiniteSet(hisr.status) /\ Cardinality(hisr.status) \in Nat /\ hisr.count \in Nat /\ irq_num \in Nat
    BY PinsFinite DEF IInv, TypeOK
  <2>3. Cardinality(hisr.status) <= 1  BY <2>1, <2>2
  <2>4. Cardinality(hisr.status) # 0  BY <2>1, <2>2, FS_EmptySet
  <2>5. Cardinality(hisr.status) = 1  BY <2>2, <2>3, <2>4
  <2>6. \E x : hisr.status = {x}  BY <2>2, <2>5, FS_Singleton, Zenon
  <2>. QED  BY <2>1, <2>6
<1>2. IInv => [IsrClear /\ StopsEarly(hisr.count + 1) => hisr.status = {hisr.pin}]_vars
  BY <1>1
<1>. QED  BY <1>2, Invariant, PTL DEF NoPinLeftOut
-----------------------------------------------------------------------------
(* The keypad test.  The flag that ends the wait is set by the handler     *)
(* when it has seen all keys, and nothing forgets a key until the next     *)
(* test begins.                                                            *)
KpdSeen == kpd_matrix \subseteq Key
KpdAll == (kpc = "wait" /\ finish = 1) \/ kpc = "free" => kpd_matrix = Key
KpdInv == KpdSeen /\ KpdAll

LEMMA KpdInit == BenchInit => KpdInv
BY DEF BenchInit, KeypadStart, KpdInv, KpdSeen, KpdAll, Tests

LEMMA KpdStep == KpdInv /\ [KeypadNext]_allVars => KpdInv'
<1> SUFFICES ASSUME KpdInv, [KeypadNext]_allVars PROVE KpdInv'
  OBVIOUS
<1>1. CASE KpdRequest
  BY <1>1 DEF KpdRequest, Goto, KpdInv, KpdSeen, KpdAll
<1>2. CASE Running
  <2>1. CASE KpdInitMatrix  BY <2>1 DEF KpdInitMatrix, Here, Goto, KpdInv, KpdSeen, KpdAll
  <2>2. CASE KpdInitMask  BY <2>2 DEF KpdInitMask, Here, Goto, KpdInv, KpdSeen, KpdAll
  <2>3. CASE KpdResetFinish  BY <2>3 DEF KpdResetFinish, Here, Goto, KpdInv, KpdSeen, KpdAll
  <2>4. CASE KpdWaitEnds  BY <2>4 DEF KpdWaitEnds, Here, Goto, KpdInv, KpdSeen, KpdAll
  <2>5. CASE KpdFree  BY <2>5 DEF KpdFree, Goto, KpdInv, KpdSeen, KpdAll
  <2>6. CASE KpdMemset  BY <2>6 DEF KpdMemset, Here, Goto, KpdInv, KpdSeen, KpdAll
  <2>7. CASE KpdRegister  BY <2>7 DEF KpdRegister, Goto, KpdInv, KpdSeen, KpdAll
  <2>8. CASE KpdRegistered \/ KpdReturn  BY <2>8 DEF KpdRegistered, KpdReturn, Here, Goto, KpdInv, KpdSeen, KpdAll
  <2>9. CASE IrqCall  BY <2>9 DEF IrqCall, kpdVars, KpdInv, KpdSeen, KpdAll
  <2> QED  BY <1>2, <2>1, <2>2, <2>3, <2>4, <2>5, <2>6, <2>7, <2>8, <2>9 DEF Running
<1>3. CASE KpdIsrEnter
  BY <1>3 DEF KpdIsrEnter, kpdVars, KpdInv, KpdSeen, KpdAll
<1>4. CASE KpdIsrClear
  <2>1. PICK k \in Key \cup {NULL} :
          /\ kpd_matrix' = kpd_matrix \cup ({k} \ {NULL})
          /\ finish' = IF KpdFinish(kpd_matrix \cup ({k} \ {NULL}), count + Cardinality({k} \ {NULL}))
                        THEN 1 ELSE finish
    BY <1>4 DEF KpdIsrClear
  <2> DEFINE matrix == kpd_matrix \cup ({k} \ {NULL})
             n      == count + Cardinality({k} \ {NULL})
  <2>3. finish' = 1 => matrix = Key \/ finish = 1
    <3>1. KpdFinish(matrix, n) => matrix = Key  BY DEF KpdFinish
    <3> QED  BY <2>1, <3>1
  <2>2. kpc' = kpc  BY <1>4, Zenon DEF KpdIsrClear
  <2> QED  BY <2>1, <2>2, <2>3 DEF KpdInv, KpdSeen, KpdAll
<1>5. CASE UNCHANGED kpdVars
  BY <1>5 DEF kpdVars, KpdInv, KpdSeen, KpdAll
<1> QED  BY <1>1, <1>2, <1>3, <1>4, <1>5 DEF KeypadNext, Handling, Pressing, allVars

-----------------------------------------------------------------------------
(* A step of the bench is a step of the test that runs.                    *)
LEMMA BenchSteps ==
  [BenchNext]_tbVars => [KeypadNext]_allVars /\ [VvStep]_videoVars /\ [UlStep]_ulVars /\ [IsStep]_isVars /\ [NrStep]_nrVars
                       /\ [TrStep]_trVars /\ [PaStep]_paVars
<1> SUFFICES ASSUME [BenchNext]_tbVars
             PROVE  /\ [KeypadNext]_allVars /\ [VvStep]_videoVars /\ [UlStep]_ulVars /\ [IsStep]_isVars /\ [NrStep]_nrVars
                    /\ [TrStep]_trVars /\ [PaStep]_paVars
  OBVIOUS
<1>1. CASE KeypadOn  BY <1>1 DEF KeypadOn
<1>2. CASE VvOn  BY <1>2 DEF VvOn
<1>3. CASE UlOn  BY <1>3 DEF UlOn
<1>4. CASE IsOn  BY <1>4 DEF IsOn
<1>5. CASE NrOn  BY <1>5 DEF NrOn
<1>6. CASE TrOn  BY <1>6 DEF TrOn
<1>7. CASE PaOn  BY <1>7 DEF PaOn
<1>8. CASE NfOn \/ RsOn \/ SdOn \/ SpOn \/ IcOn \/ RtOn
  BY <1>8 DEF NfOn, RsOn, SdOn, SpOn, IcOn, RtOn
<1>9. CASE UNCHANGED tbVars  BY <1>9 DEF tbVars
<1> QED  BY <1>1, <1>2, <1>3, <1>4, <1>5, <1>6, <1>7, <1>8, <1>9 DEF BenchNext

LEMMA VvInit == BenchInit => VvInv
<1> SUFFICES ASSUME BenchInit PROVE VvInv
  OBVIOUS
<1>1. VvStart("key") \/ VvStart("off")  BY DEF BenchInit
<1> QED  BY <1>1, VvBegins

LEMMA UlInit == BenchInit => UlInv
<1> SUFFICES ASSUME BenchInit PROVE UlInv
  OBVIOUS
<1>1. UlStart("idle") \/ UlStart("off")  BY DEF BenchInit
<1> QED  BY <1>1, UlBegins

LEMMA IsInit == BenchInit => IsInv
<1> SUFFICES ASSUME BenchInit PROVE IsInv
  OBVIOUS
<1>1. IsStart("idle") \/ IsStart("off")  BY DEF BenchInit
<1> QED  BY <1>1, IsBegins

LEMMA NrInit == BenchInit => NrInv
<1> SUFFICES ASSUME BenchInit PROVE NrInv
  OBVIOUS
<1>1. NrStart("idle") \/ NrStart("off")  BY DEF BenchInit
<1> QED  BY <1>1, NrStarting

LEMMA TrInit == BenchInit => TrInv
<1> SUFFICES ASSUME BenchInit PROVE TrInv
  OBVIOUS
<1>1. TrStart("idle") \/ TrStart("off")  BY DEF BenchInit
<1> QED  BY <1>1, TrStarting

LEMMA PaInit == BenchInit => PaInv
<1> SUFFICES ASSUME BenchInit PROVE PaInv
  OBVIOUS
<1>1. PaStart("idle") \/ PaStart("off")  BY DEF BenchInit
<1> QED  BY <1>1, PaStarting

(* The test of the keypad (test_kpd of src/GPIO/gpio-ctrl.c) ends only     *)
(* when each key has been seen pressed, whatever the interrupts between    *)
(* its steps.                                                              *)
THEOREM KeysAreAllPressed == BenchSpec => []EndsWithAllKeys
<1>1. KpdInv => EndsWithAllKeys  BY DEF KpdInv, KpdAll, EndsWithAllKeys
<1> QED  BY <1>1, KpdInit, KpdStep, BenchSteps, PTL DEF BenchSpec

(* The menus (test_item_ctrl, src/VIP_VOP): what is shown is what the path *)
(* of the prompt says, the sizes offered are those of the test, and an     *)
(* automatic menu reports a failure exactly when one of its items failed;  *)
(* for sessions of any length.                                             *)
THEOREM MenusAreRight == BenchSpec => []MenuRight
BY VvInit, VvNextStep, VvInvRight, BenchSteps, PTL DEF BenchSpec

(* The normal test of the UART (src/UART/uart-ctrl.c): a run fails just    *)
(* when a byte of it was lost or spoilt, the chain of interrupts does not  *)
(* stop before the pattern is out, nothing overruns a buffer, and nothing  *)
(* is on its way when a run has ended; for FIFOs and patterns of any size, *)
(* and any number of runs.                                                 *)
THEOREM UartTestRight == BenchSpec => []UartRight
BY UlInit, UlNextStep, UlInvRight, BenchSteps, PTL DEF BenchSpec

(* The audio tests (src/I2S/i2s-ctrl.c): what is played is the recording   *)
(* in its order, what is recorded is what has come in, and a loop-back     *)
(* that passes has what was sent, unless an interrupt has come between the *)
(* clearing of the flag and the reading of the place; and a ring never     *)
(* stops for want of a page.  For recordings, rings and FIFOs of any size, *)
(* and any number of tests.                                                *)
THEOREM AudioTestsRight == BenchSpec => []I2sRight
BY IsInit, IsNextStep, IsInvRight, BenchSteps, PTL DEF BenchSpec

(* The NOR flash tests (src/NOR-MXIC/nor-mxic-ctrl.c): a test that passes  *)
(* has done what it says to the flash, whatever state an earlier one has   *)
(* left that in; and none, passed or failed, changes anything but its      *)
(* sectors, a successful write nothing but its unit, unless the flash was  *)
(* still busy when it began.  For sectors and flashes of any size, and any *)
(* number of tests.                                                        *)
THEOREM NorTestsRight == BenchSpec => []NorRight
BY NrInit, NrNextStep, NrInvRight, BenchSteps, PTL DEF BenchSpec

(* The timer tests (src/TIMER/timer-ctrl.c), and those of the PWM timers   *)
(* and the converter (src/ADC_PWM), pass just when what they time works,   *)
(* whatever an earlier test has left set, chained or pending; for any      *)
(* number of tests and of early ticks or late conversions.                 *)
THEOREM ClocksTestsRight == BenchSpec => []ClocksRight
<1>1. BenchSpec => []TimerRight  BY TrInit, TrNextStep, TrInvRight, BenchSteps, PTL DEF BenchSpec
<1>2. BenchSpec => []PwmRight  BY PaInit, PaNextStep, PaInvRight, BenchSteps, PTL DEF BenchSpec
<1>3. TimerRight /\ PwmRight => ClocksRight  BY DEF ClocksRight
<1> QED  BY <1>1, <1>2, <1>3, PTL

=============================================================================
