------------------------ MODULE InterruptController ------------------------
(***************************************************************************)
(* platform/PDK_PC9220/irq.c: the vector table, the registration calls     *)
(* request_irq and free_irq, and irq_dispatch, on the single ARM9 core.    *)
(*                                                                         *)
(* Two threads of control share the table: the main program, which runs    *)
(* the calls store by store, and the IRQ exception, which the core takes   *)
(* between two instructions of the main program when an enabled request is *)
(* pending, at once or, with LateIrq, some instructions later.  It is not  *)
(* nested: the core enters it with IRQs masked and the code never unmasks  *)
(* them there.  The interrupt controller chip and the devices that drive   *)
(* its lines are external.                                                 *)
(***************************************************************************)
EXTENDS Naturals, FiniteSets

CONSTANTS
  Irq,        \* interrupt sources
  EdgeIrq,    \* the ones init_irq_controller makes edge triggered
  Routine,    \* handlers: void (*)(void *)
  Param,      \* handler parameters
  ParamOf,    \* the parameter the driver that owns a handler passes with it
  NULL,       \* the null pointer, as a handler and as a parameter
  MaxRaises,  \* how often the devices raise a line, in all
  LateIrq     \* may the core execute instructions between a request and its exception?

ASSUME ControllerAssumption ==
  /\ EdgeIrq \subseteq Irq
  /\ NULL \notin Irq \cup Routine \cup Param
  /\ ParamOf \in [Routine -> Param]
  /\ MaxRaises \in Nat
  /\ LateIrq \in BOOLEAN

VARIABLES
  vec,      \* irq_vector_table[].vec
  pparam,   \* irq_vector_table[].pparam
  iecr,     \* IRQ enable register, as the set of its bits
  imr,      \* IRQ mask register (a set bit lets the source through)
  irqOn,    \* IRQs enabled in the CPSR of the main program
  main,     \* the main program: where it is in a call, and the arguments
  isr,      \* the exception: where irq_dispatch is, and the source v it read
  line,     \* external: level of the request lines
  latch,    \* external: edges the controller has latched
  armed,    \* external: devices that have been told to work
  raises,   \* external: how many times a line has been raised
  Quiesced  \* the sources whose driver silences the device before free_irq; never changes

table == <<vec, pparam>>
chip  == <<iecr, imr>>
world == <<line, latch, armed, raises, Quiesced>>
vars  == <<vec, pparam, iecr, imr, irqOn, main, isr, line, latch, armed, raises, Quiesced>>

At(pc, i, r, p) == [pc |-> pc, irq |-> i, routine |-> r, param |-> p]

BootPc == {"boot_iecr", "boot_iccr", "boot_on"}
RequestPc == {"rq_vec", "rq_pparam", "rq_iecr", "rq_imr"}
FreePc == {"fr_vec", "fr_pparam", "fr_iecr", "fr_imr"}

Idle == At("idle", NULL, NULL, NULL)
NoIsr == [at |-> "none", irq |-> NULL]

TypeOK ==
  /\ vec \in [Irq -> Routine \cup {NULL}]
  /\ pparam \in [Irq -> Param \cup {NULL}]
  /\ iecr \subseteq Irq
  /\ imr \subseteq Irq
  /\ irqOn \in BOOLEAN
  /\ main \in [pc: BootPc \cup {"idle"}, irq: {NULL}, routine: {NULL}, param: {NULL}]
              \cup [pc: RequestPc, irq: Irq, routine: Routine, param: Param]
              \cup [pc: FreePc, irq: Irq, routine: {NULL}, param: {NULL}]
  /\ isr \in {NoIsr} \cup [at: {"lookup", "run", "iccr"}, irq: Irq]
  /\ line \subseteq Irq
  /\ latch \subseteq Irq
  /\ armed \subseteq Irq
  /\ raises \in Nat
  /\ Quiesced \subseteq Irq

Init ==
  /\ vec = [i \in Irq |-> NULL]
  /\ pparam = [i \in Irq |-> NULL]
  /\ iecr \in SUBSET Irq
  /\ imr \in SUBSET Irq
  /\ irqOn = FALSE
  /\ main = At("boot_iecr", NULL, NULL, NULL)
  /\ isr = NoIsr
  /\ line = {}
  /\ latch \in SUBSET EdgeIrq
  /\ armed = {}
  /\ raises = 0
  /\ Quiesced \in SUBSET Irq

(***************************************************************************)
(* The chip: a level source is pending while its line is high, an edge     *)
(* source from the edge until its bit is written to the clear register.    *)
(***************************************************************************)
Pending == { i \in iecr \cap imr : i \in (IF i \in EdgeIrq THEN latch ELSE line) }

\* The main program executes an instruction: no exception is running and, if
\* exceptions are not late, none is due.
MainRuns == isr = NoIsr /\ (LateIrq \/ (irqOn => Pending = {}))

----------------------------------------------------------------------------
\* init_irq_controller, then enable_irq.
BootIecr ==
  /\ main.pc = "boot_iecr" /\ MainRuns
  /\ iecr' = {}
  /\ main' = [main EXCEPT !.pc = "boot_iccr"]
  /\ UNCHANGED <<table, imr, irqOn, isr, world>>

BootIccr ==
  /\ main.pc = "boot_iccr" /\ MainRuns
  /\ latch' = {}
  /\ main' = [main EXCEPT !.pc = "boot_on"]
  /\ UNCHANGED <<table, chip, irqOn, isr, line, armed, raises, Quiesced>>

EnableIrq ==
  /\ main.pc = "boot_on" /\ MainRuns
  /\ irqOn' = TRUE
  /\ main' = Idle
  /\ UNCHANGED <<table, chip, isr, world>>

----------------------------------------------------------------------------
\* request_irq(i, r, p): handler, parameter, enable bit, mask bit, in this order.
CallRequest(i, r, p) ==
  /\ main = Idle /\ MainRuns
  /\ main' = At("rq_vec", i, r, p)
  /\ UNCHANGED <<table, chip, irqOn, isr, world>>

\* Mutant of RequestVec: the source is enabled before its entry is complete.
RequestVecEnables ==
  /\ main.pc = "rq_vec" /\ MainRuns
  /\ vec' = [vec EXCEPT ![main.irq] = main.routine]
  /\ iecr' = iecr \cup {main.irq}
  /\ main' = [main EXCEPT !.pc = "rq_pparam"]
  /\ imr' = imr \cup {main.irq}
  /\ UNCHANGED <<pparam, irqOn, isr, world>>

RequestVec ==
  /\ main.pc = "rq_vec" /\ MainRuns
  /\ vec' = [vec EXCEPT ![main.irq] = main.routine]
  /\ main' = [main EXCEPT !.pc = "rq_pparam"]
  /\ UNCHANGED <<pparam, chip, irqOn, isr, world>>

RequestPparam ==
  /\ main.pc = "rq_pparam" /\ MainRuns
  /\ pparam' = [pparam EXCEPT ![main.irq] = main.param]
  /\ main' = [main EXCEPT !.pc = "rq_iecr"]
  /\ UNCHANGED <<vec, chip, irqOn, isr, world>>

RequestIecr ==
  /\ main.pc = "rq_iecr" /\ MainRuns
  /\ iecr' = iecr \cup {main.irq}
  /\ main' = [main EXCEPT !.pc = "rq_imr"]
  /\ UNCHANGED <<table, imr, irqOn, isr, world>>

RequestImr ==
  /\ main.pc = "rq_imr" /\ MainRuns
  /\ imr' = imr \cup {main.irq}
  /\ main' = Idle
  /\ UNCHANGED <<table, iecr, irqOn, isr, world>>

\* free_irq(i): the table entry is emptied first, the source disabled after it.
CallFree(i) ==
  /\ main = Idle /\ MainRuns
  /\ main' = At("fr_vec", i, NULL, NULL)
  /\ UNCHANGED <<table, chip, irqOn, isr, world>>

FreeVec ==
  /\ main.pc = "fr_vec" /\ MainRuns
  /\ vec' = [vec EXCEPT ![main.irq] = NULL]
  /\ main' = [main EXCEPT !.pc = "fr_pparam"]
  /\ UNCHANGED <<pparam, chip, irqOn, isr, world>>

FreePparam ==
  /\ main.pc = "fr_pparam" /\ MainRuns
  /\ pparam' = [pparam EXCEPT ![main.irq] = NULL]
  /\ main' = [main EXCEPT !.pc = "fr_iecr"]
  /\ UNCHANGED <<vec, chip, irqOn, isr, world>>

\* Mutant of FreeIecr: the bit is cleared in the mask register only.
FreeIecrMasks ==
  /\ main.pc = "fr_iecr" /\ MainRuns
  /\ imr' = imr \ {main.irq}
  /\ main' = [main EXCEPT !.pc = "fr_imr"]
  /\ UNCHANGED <<table, iecr, irqOn, isr, world>>

FreeIecr ==
  /\ main.pc = "fr_iecr" /\ MainRuns
  /\ iecr' = iecr \ {main.irq}
  /\ main' = [main EXCEPT !.pc = "fr_imr"]
  /\ UNCHANGED <<table, imr, irqOn, isr, world>>

FreeImr ==
  /\ main.pc = "fr_imr" /\ MainRuns
  /\ imr' = imr \ {main.irq}
  /\ main' = Idle
  /\ UNCHANGED <<table, iecr, irqOn, isr, world>>

----------------------------------------------------------------------------
\* The core takes the exception; irq_dispatch reads the source number v.
TakeIrq(i) ==
  /\ irqOn /\ isr = NoIsr /\ i \in Pending
  /\ isr' = [at |-> "lookup", irq |-> i]
  /\ UNCHANGED <<table, chip, irqOn, main, world>>

\* An empty entry: irq_dispatch returns and leaves the request as it is.
NullVector ==
  /\ isr.at = "lookup"
  /\ vec[isr.irq] = NULL
  /\ isr' = NoIsr
  /\ UNCHANGED <<table, chip, irqOn, main, world>>

CallHandler ==
  /\ isr.at = "lookup"
  /\ vec[isr.irq] # NULL
  /\ isr' = [isr EXCEPT !.at = "run"]
  /\ UNCHANGED <<table, chip, irqOn, main, world>>

HandlerReturns ==
  /\ isr.at = "run"
  /\ isr' = [isr EXCEPT !.at = "iccr"]
  /\ UNCHANGED <<table, chip, irqOn, main, world>>

\* Mutant of ClearIrq: the clear register is not written.
ClearIrqForgets ==
  /\ isr.at = "iccr"
  /\ isr' = NoIsr
  /\ UNCHANGED <<table, chip, irqOn, main, world>>

\* The clear register is written after the handler, and only then.
ClearIrq ==
  /\ isr.at = "iccr"
  /\ latch' = latch \ {isr.irq}
  /\ isr' = NoIsr
  /\ UNCHANGED <<table, chip, irqOn, main, line, armed, raises, Quiesced>>

----------------------------------------------------------------------------
(***************************************************************************)
(* The drivers around irq.c, as far as they matter to it: a driver arms    *)
(* its device after request_irq, its handler silences the line, and a      *)
(* driver in Quiesced stops the device before free_irq.                    *)
(***************************************************************************)
Raise(i) ==
  /\ raises < MaxRaises
  /\ i \in armed \ line
  /\ line' = line \cup {i}
  /\ latch' = IF i \in EdgeIrq THEN latch \cup {i} ELSE latch
  /\ raises' = raises + 1
  /\ UNCHANGED <<table, chip, irqOn, main, isr, armed, Quiesced>>

Lower(i) ==
  /\ line' = line \ {i}
  /\ UNCHANGED <<table, chip, irqOn, main, isr, latch, armed, raises, Quiesced>>

Service == isr.at = "run" /\ isr.irq \in line /\ Lower(isr.irq)

Arm(i) ==
  /\ main = Idle /\ MainRuns
  /\ vec[i] # NULL
  /\ armed' = armed \cup {i}
  /\ UNCHANGED <<table, chip, irqOn, main, isr, line, latch, raises, Quiesced>>

Quiesce(i) ==
  /\ main = Idle /\ MainRuns
  /\ i \in Quiesced
  /\ armed' = armed \ {i}
  /\ line' = line \ {i}
  /\ latch' = latch \ {i}
  /\ UNCHANGED <<table, chip, irqOn, main, isr, raises, Quiesced>>

\* One driver per source, with its own parameter: it requests a free entry
\* and frees the entry it holds.
Acquire(i, r) == vec[i] = NULL /\ CallRequest(i, r, ParamOf[r])

\* Mutant of Release: the interrupt is freed while the device may still raise it.
ReleaseArmed(i) ==
  /\ vec[i] # NULL
  /\ CallFree(i)

Release(i) ==
  /\ vec[i] # NULL
  /\ i \in Quiesced => i \notin armed
  /\ CallFree(i)

----------------------------------------------------------------------------
Boot == BootIecr \/ BootIccr \/ EnableIrq
RequestStep == RequestVec \/ RequestPparam \/ RequestIecr \/ RequestImr
FreeStep == FreeVec \/ FreePparam \/ FreeIecr \/ FreeImr
Take == \E i \in Irq : TakeIrq(i)
HandlerDone == isr.at = "run" /\ isr.irq \notin line /\ HandlerReturns
Dispatch == NullVector \/ CallHandler \/ Service \/ HandlerDone \/ ClearIrq
Driver == \E i \in Irq : \/ \E r \in Routine : Acquire(i, r)
                         \/ Release(i)
                         \/ Arm(i)
                         \/ Quiesce(i)
Device == \E i \in Irq : Raise(i)

Next == Boot \/ RequestStep \/ FreeStep \/ Take \/ Dispatch \/ Driver \/ Device

Spec == Init /\ [][Next]_vars

\* The core executes: a started call goes on, a pending exception is taken,
\* a running one goes on.  Drivers and devices may stay silent for ever.
FairSpec == Spec /\ WF_vars(Boot \/ RequestStep \/ FreeStep) /\ WF_vars(Take) /\ WF_vars(Dispatch)

----------------------------------------------------------------------------
\* The handler never runs with the parameter of another registration:
\* request_irq stores both before it enables the source (irq.c:42-47), so no
\* exception sees the entry half written.
HandlerGetsItsParam ==
  isr.at = "run" => vec[isr.irq] # NULL /\ pparam[isr.irq] = ParamOf[vec[isr.irq]]

\* A source whose entry is empty is disabled, except in the middle of a call
\* that is filling or emptying that entry (irq.c:40-73).
EmptyEntryDisabled ==
  \A i \in Irq : vec[i] = NULL /\ irqOn /\ i \in iecr
                   => main.pc \in {"fr_pparam", "fr_iecr"} /\ main.irq = i

\* With drivers that quiesce their device first, irq_dispatch never finds an
\* empty entry, so its silent return at irq.c:101-104 is never taken.
NoSpuriousDispatch == isr.at = "lookup" /\ isr.irq \in Quiesced => vec[isr.irq] # NULL

\* When every driver quiesces its device first, the main program comes back
\* from every call it starts: no flood of exceptions keeps it from the next
\* store of request_irq or free_irq.
CallsReturn == (main.pc # "idle" /\ Quiesced = Irq) ~> (main.pc = "idle")

\* "irq disable" (irq.c:66): every free_irq gets as far as disabling its source.
FreeDisablesIrq ==
  \A i \in Irq : (main.pc = "fr_vec" /\ main.irq = i) ~> (i \notin iecr)

\* Likewise every pending interrupt of a registered source is acknowledged, or
\* the source is freed first.
InterruptsServed == \A i \in Irq : (irqOn /\ i \in Pending /\ Quiesced = Irq) ~> (i \notin Pending)
=============================================================================
