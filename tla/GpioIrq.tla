------------------------------ MODULE GpioIrq ------------------------------
(***************************************************************************)
(* src/GPIO/gpio.c, the GPIO interrupt service of one group of ports: the  *)
(* pins of the group share one interrupt, whose handler reads the status   *)
(* register and runs the sub-routine of each asserting pin.  Composed with *)
(* the interrupt controller of irq.c.                                      *)
(*                                                                         *)
(* The main program runs the service calls store by store; the mask        *)
(* register is read and written by the main program alone, so its read-    *)
(* modify-write is one step.  The pins' devices are external and raise     *)
(* events at any time.                                                     *)
(***************************************************************************)
EXTENDS Integers, FiniteSets

CONSTANTS
  NumPins,      \* pins of the group; 32 in the chip
  LevelPin,     \* pins requested with GPIO_INT_SENSE_LEVEL; the others are edge triggered
  SubRoutine,   \* the callers' sub-routines
  Param, ParamOf,   \* their parameters, and which caller passes which
  Port,         \* the interrupt of the group, SOCLE_INTC_GPIO0..3
  PortRoutine, socle_gpio_isr,   \* handlers of it; the one the service registers
  MaxEvents,    \* how often the devices raise an event, in all
  NULL,
  LateIrq       \* see InterruptController

Pin == 0 .. NumPins - 1

ASSUME GpioAssumption ==
  /\ NumPins \in Nat \ {0}
  /\ LevelPin \subseteq Pin
  /\ ParamOf \in [SubRoutine -> Param]
  /\ socle_gpio_isr \in PortRoutine
  /\ NULL \notin SubRoutine \cup Param \cup PortRoutine /\ NULL # Port
  /\ MaxEvents \in Nat
  /\ LateIrq \in BOOLEAN

VARIABLES
  lock, active, sub_routine, sub_param,   \* struct socle_gpio_irq_s, by pin
  irq_num,                                \* struct socle_gpio_s
  drv,                                    \* the service call the main program is in
  hisr,                                   \* socle_gpio_com_isr and its locals
  ie,                                     \* mask register, as the set of enabled pins
  event, raised,                          \* external: events of the pins; how many there were
  vec, pparam, iecr, imr, irqOn, main, isr   \* irq.c

pinVars == <<lock, active, sub_routine, sub_param, irq_num>>
devVars == <<event, raised>>
icVars  == <<vec, pparam, iecr, imr, irqOn, main, isr>>
vars == <<pinVars, drv, hisr, ie, devVars, icVars>>

\* The status register: the enabled pins that assert an interrupt.
Status == event \cap ie

IC == INSTANCE InterruptController WITH
        Irq <- {Port}, EdgeIrq <- {}, Routine <- PortRoutine, Param <- {},
        ParamOf <- [r \in PortRoutine |-> NULL], Quiesced <- {}, MaxRaises <- 0,
        line <- IF Status = {} THEN {} ELSE {Port}, latch <- {}, armed <- {}, raises <- 0

DrvPc == {"idle", "rq_lock", "rq_active", "rq_sub", "rq_param", "rq_num", "rq_mask",
          "fr_active", "fr_mask", "fr_lock", "fr_sub", "fr_num",
          "en_check", "en_mask", "di_check", "di_mask"}

NoCall == [pc |-> "idle", pin |-> 0, sub |-> NULL]
NoHandler == [at |-> "none", pin |-> 0, status |-> {}, count |-> 0]

TypeOK ==
  /\ lock \in [Pin -> {0, 1}]
  /\ active \in [Pin -> {0, 1}]
  /\ sub_routine \in [Pin -> SubRoutine \cup {NULL}]
  /\ sub_param \in [Pin -> Param \cup {NULL}]
  /\ irq_num \in 0 .. NumPins
  /\ drv \in [pc: DrvPc, pin: Pin, sub: SubRoutine \cup {NULL}]
  /\ hisr \in [at: {"none", "scan", "clear"}, pin: Pin, status: SUBSET Pin, count: 0 .. NumPins]
  /\ ie \subseteq Pin
  /\ event \subseteq Pin
  /\ raised \in 0 .. MaxEvents
  /\ vec \in [{Port} -> PortRoutine \cup {NULL}]
  /\ pparam \in [{Port} -> {NULL}]
  /\ iecr \subseteq {Port} /\ imr \subseteq {Port}
  /\ irqOn \in BOOLEAN

\* After the first socle_init_gpio_irq: the pin table zeroed, every pin masked
\* since reset, the handler registered.
Init ==
  /\ lock = [p \in Pin |-> 0]
  /\ active = [p \in Pin |-> 0]
  /\ sub_routine = [p \in Pin |-> NULL]
  /\ sub_param = [p \in Pin |-> NULL]
  /\ irq_num = 0
  /\ drv = NoCall
  /\ hisr = NoHandler
  /\ ie = {}
  /\ event = {} /\ raised = 0
  /\ vec = [i \in {Port} |-> socle_gpio_isr]
  /\ pparam = [i \in {Port} |-> NULL]
  /\ iecr = {Port} /\ imr = {Port}
  /\ irqOn = TRUE
  /\ main = IC!Idle /\ isr = IC!NoIsr

----------------------------------------------------------------------------
\* The main program runs: outside a call, and at one of the steps of a call.
MainProgram == main = IC!Idle /\ IC!MainRuns /\ UNCHANGED <<hisr, devVars, icVars>>

Call(to, p, r) ==
  /\ drv = NoCall /\ MainProgram
  /\ drv' = [pc |-> to, pin |-> p, sub |-> r]
  /\ UNCHANGED <<pinVars, ie>>

Step(from, to) == drv.pc = from /\ MainProgram /\ drv' = [drv EXCEPT !.pc = to]
Return(from) == drv.pc = from /\ MainProgram /\ drv' = NoCall

socle_request_gpio_irq(p, r) == Call("rq_lock", p, r)
socle_free_gpio_irq(p) == Call("fr_active", p, NULL)
socle_enable_gpio_irq(p) == Call("en_check", p, NULL)
socle_disable_gpio_irq(p) == Call("di_check", p, NULL)

SetActive(v) == active' = [active EXCEPT ![drv.pin] = v]
Unmask == ie' = ie \cup {drv.pin} /\ UNCHANGED pinVars
Mask == ie' = ie \ {drv.pin} /\ UNCHANGED pinVars

----------------------------------------------------------------------------
\* Request: xchg(&irq->lock, 1) fails on a held pin; then the fields, the
\* number of pins, the trigger (a constant of the pin here) and, last, the mask.
RequestBusy ==
  /\ Return("rq_lock")
  /\ lock[drv.pin] = 1
  /\ UNCHANGED <<pinVars, ie>>

RequestLock ==
  /\ Step("rq_lock", "rq_active")
  /\ lock[drv.pin] = 0
  /\ lock' = [lock EXCEPT ![drv.pin] = 1]
  /\ UNCHANGED <<active, sub_routine, sub_param, irq_num, ie>>

RequestActive ==
  /\ Step("rq_active", "rq_sub")
  /\ SetActive(1)
  /\ UNCHANGED <<lock, sub_routine, sub_param, irq_num, ie>>

\* Mutant of RequestSub: the pin is unmasked before the entry is complete.
RequestSubUnmasks ==
  /\ Step("rq_sub", "rq_param")
  /\ sub_routine' = [sub_routine EXCEPT ![drv.pin] = drv.sub]
  /\ ie' = ie \cup {drv.pin}
  /\ UNCHANGED <<lock, active, sub_param, irq_num>>

RequestSub ==
  /\ Step("rq_sub", "rq_param")
  /\ sub_routine' = [sub_routine EXCEPT ![drv.pin] = drv.sub]
  /\ UNCHANGED <<lock, active, sub_param, irq_num, ie>>

RequestParam ==
  /\ Step("rq_param", "rq_num")
  /\ sub_param' = [sub_param EXCEPT ![drv.pin] = ParamOf[drv.sub]]
  /\ UNCHANGED <<lock, active, sub_routine, irq_num, ie>>

\* Mutant of RequestNum: only the first pin is counted.
RequestNumForgets ==
  /\ Step("rq_num", "rq_mask")
  /\ irq_num' = IF irq_num = 0 THEN 1 ELSE irq_num
  /\ UNCHANGED <<lock, active, sub_routine, sub_param, ie>>

RequestNum ==
  /\ Step("rq_num", "rq_mask")
  /\ irq_num' = irq_num + 1
  /\ UNCHANGED <<lock, active, sub_routine, sub_param, ie>>

RequestMask == Return("rq_mask") /\ Unmask

----------------------------------------------------------------------------
\* Free: an active pin is made inactive and masked first; then
\* xchg(&irq->lock, 0) tells whether the pin was held at all.
FreeActive ==
  /\ drv.pc = "fr_active" /\ MainProgram
  /\ drv' = [drv EXCEPT !.pc = IF active[drv.pin] = 1 THEN "fr_mask" ELSE "fr_lock"]
  /\ SetActive(0)
  /\ UNCHANGED <<lock, sub_routine, sub_param, irq_num, ie>>

\* Mutant of FreeMask: the pin stays unmasked.
FreeMaskForgets == Step("fr_mask", "fr_lock") /\ UNCHANGED <<pinVars, ie>>

FreeMask == Step("fr_mask", "fr_lock") /\ Mask

FreeNotHeld ==
  /\ Return("fr_lock")
  /\ lock[drv.pin] = 0
  /\ UNCHANGED <<pinVars, ie>>

FreeLock ==
  /\ Step("fr_lock", "fr_sub")
  /\ lock[drv.pin] = 1
  /\ lock' = [lock EXCEPT ![drv.pin] = 0]
  /\ UNCHANGED <<active, sub_routine, sub_param, irq_num, ie>>

FreeSub ==
  /\ Step("fr_sub", "fr_num")
  /\ sub_routine' = [sub_routine EXCEPT ![drv.pin] = NULL]
  /\ UNCHANGED <<lock, active, sub_param, irq_num, ie>>

FreeNum ==
  /\ Return("fr_num")
  /\ irq_num' = irq_num - 1
  /\ UNCHANGED <<lock, active, sub_routine, sub_param, ie>>

----------------------------------------------------------------------------
\* Enable and disable: refused on a free pin, nothing to do when the pin is
\* in that state already.
SwitchRefused(from, v) ==
  /\ Return(from)
  /\ lock[drv.pin] = 0 \/ active[drv.pin] = v
  /\ UNCHANGED <<pinVars, ie>>

Switch(from, to, v) ==
  /\ Step(from, to)
  /\ lock[drv.pin] = 1 /\ active[drv.pin] # v
  /\ SetActive(v)
  /\ UNCHANGED <<lock, sub_routine, sub_param, irq_num, ie>>

EnableCheck == SwitchRefused("en_check", 1) \/ Switch("en_check", "en_mask", 1)
EnableMask == Return("en_mask") /\ Unmask
DisableCheck == SwitchRefused("di_check", 0) \/ Switch("di_check", "di_mask", 0)
DisableMask == Return("di_mask") /\ Mask

----------------------------------------------------------------------------
(***************************************************************************)
(* socle_gpio_com_isr: with no pin requested it returns at once; otherwise *)
(* it takes one snapshot of the status register and goes through its pins  *)
(* in order, running the sub-routine of each and clearing its interrupt    *)
(* afterwards, until it has served as many pins as are requested.  A pin   *)
(* without a sub-routine is passed over, its interrupt not cleared.        *)
(***************************************************************************)
HandlerRuns == UNCHANGED <<pinVars, drv, ie, raised, vec, pparam, iecr, imr, irqOn, main>>

IsrEnter ==
  /\ HandlerRuns /\ UNCHANGED event
  /\ vec[Port] = socle_gpio_isr /\ IC!CallHandler
  /\ hisr' = [NoHandler EXCEPT !.at = "scan", !.status = IF irq_num = 0 THEN {} ELSE Status]

Scanned == [hisr EXCEPT !.at = "scan", !.pin = 0, !.status = @ \ {hisr.pin}, !.count = @ + 1]

\* The sub-routine of the next pin.  No sub-routine of the repository does
\* anything to its device, it leaves that to the main program.
IsrRun ==
  /\ hisr.at = "scan"
  /\ \E p \in hisr.status :
       /\ \A q \in hisr.status : p <= q
       /\ hisr' = IF sub_routine[p] # NULL
                   THEN [hisr EXCEPT !.at = "clear", !.pin = p]
                   ELSE [hisr EXCEPT !.status = @ \ {p}]
  /\ HandlerRuns /\ UNCHANGED <<event, isr>>

\* Mutant of StopsEarly: one pin too few.
StopsEarlyOffByOne(count) == count + 1 >= irq_num
StopsEarly(count) == count >= irq_num

\* Mutant of IsrClear: the interrupt is not cleared.
IsrClearForgets ==
  /\ hisr.at = "clear"
  /\ hisr' = IF StopsEarly(hisr.count + 1) THEN [Scanned EXCEPT !.status = {}] ELSE Scanned
  /\ HandlerRuns /\ UNCHANGED <<event, isr>>

\* The write to the clear register has no effect on a level that persists.
IsrClear ==
  /\ hisr.at = "clear"
  /\ event' = event \ ({hisr.pin} \ LevelPin)
  /\ hisr' = IF StopsEarly(hisr.count + 1) THEN [Scanned EXCEPT !.status = {}] ELSE Scanned
  /\ HandlerRuns /\ UNCHANGED isr

IsrLeave ==
  /\ hisr.at = "scan" /\ hisr.status = {}
  /\ HandlerRuns /\ UNCHANGED event
  /\ IC!HandlerReturns
  /\ hisr' = NoHandler

\* irq_dispatch around the handler.
DispatchStep ==
  /\ UNCHANGED <<pinVars, drv, hisr, ie, devVars>>
  /\ IC!TakeIrq(Port) \/ IC!NullVector \/ IC!ClearIrq

----------------------------------------------------------------------------
\* The devices: an event of any pin, also of a masked one; a level may go away.
Raise(p) ==
  /\ raised < MaxEvents /\ p \notin event
  /\ event' = event \cup {p}
  /\ raised' = raised + 1
  /\ UNCHANGED <<pinVars, drv, hisr, ie, icVars>>

Withdraw(p) ==
  /\ p \in event \cap LevelPin
  /\ event' = event \ {p}
  /\ UNCHANGED <<pinVars, drv, hisr, ie, raised, icVars>>

----------------------------------------------------------------------------
RequestStep == \/ RequestBusy \/ RequestLock \/ RequestActive \/ RequestSub
               \/ RequestParam \/ RequestNum \/ RequestMask
FreeStep == FreeActive \/ FreeMask \/ FreeNotHeld \/ FreeLock \/ FreeSub \/ FreeNum
SwitchStep == EnableCheck \/ EnableMask \/ DisableCheck \/ DisableMask
ServiceStep == RequestStep \/ FreeStep \/ SwitchStep
IsrStep == IsrEnter \/ IsrRun \/ IsrClear \/ IsrLeave
HandlerStep == IsrStep \/ DispatchStep
Client == \E p \in Pin : \/ \E r \in SubRoutine : socle_request_gpio_irq(p, r)
                         \/ socle_free_gpio_irq(p)
                         \/ socle_enable_gpio_irq(p)
                         \/ socle_disable_gpio_irq(p)
Device == \E p \in Pin : Raise(p) \/ Withdraw(p)

Next == Client \/ ServiceStep \/ HandlerStep \/ Device
Spec == Init /\ [][Next]_vars

\* The core executes; callers and devices may stay silent for ever.
FairSpec == Spec /\ WF_vars(ServiceStep) /\ WF_vars(HandlerStep)

----------------------------------------------------------------------------
\* Every pin the handler meets has its sub-routine with that caller's
\* parameter, so "Error! ... No socle_gpio_irq_s" (gpio.c:834) is never
\* printed: request unmasks last, free masks before it empties the entry.
PinHasItsRoutine ==
  hisr.at = "scan" => \A p \in hisr.status :
    sub_routine[p] # NULL /\ sub_param[p] = ParamOf[sub_routine[p]]

\* A pin whose sub-routine runs is enabled by its holder, except between the
\* two stores that disable it (gpio.c:750-752, 796-797).
OnlyEnabledPinsRun ==
  hisr.at = "clear" => \/ lock[hisr.pin] = 1 /\ active[hisr.pin] = 1
                       \/ drv.pc \in {"fr_mask", "di_mask"} /\ drv.pin = hisr.pin

\* Counting the pins served against irq_num (gpio.c:838) leaves none out: when
\* the handler stops early every pin of its snapshot has been served.
NoPinLeftOut ==
  [][IsrClear /\ StopsEarly(hisr.count + 1) => hisr.status = {hisr.pin}]_vars

\* irq_num is the number of the pins that are held, whatever calls were made
\* in whatever order, those that are refused included.
CountIsHeld ==
  drv = NoCall => irq_num = Cardinality({p \in Pin : lock[p] = 1})

\* An edge of an enabled pin is served, unless the pin is disabled first, also
\* when the level of another pin keeps the group's interrupt pending for ever.
EdgeServed == \A p \in Pin \ LevelPin : (p \in Status) ~> (p \notin Status)
=============================================================================
