----------------------------- MODULE KeypadTest -----------------------------
(***************************************************************************)
(* src/GPIO/gpio-kpd-ctrl.c on the PC9220: the keypad hangs on one port,   *)
(* and the test takes the interrupt of the port's group away from the GPIO *)
(* service, waits until every key has been pressed, and gives it back with *)
(* socle_init_gpio_irq.                                                    *)
(*                                                                         *)
(* Which key an interrupt stands for is decoded from the status and the    *)
(* column pins, and may fail: bounces, two keys at once.  A pin event is   *)
(* external, and so is the key it decodes to.                              *)
(***************************************************************************)
EXTENDS GpioIrq

CONSTANTS Key,               \* KPD_NUM * KPD_NUM keys
          pdk_gpio_kpd_isr

ASSUME KeypadAssumption ==
  /\ IsFiniteSet(Key) /\ NULL \notin Key
  /\ pdk_gpio_kpd_isr \in PortRoutine \ {socle_gpio_isr}

VARIABLES
  kpc,               \* where socle_gpio_kpd_test is
  kpd_matrix,        \* the keys seen
  count,             \* the test's local, which the handler counts in
  finish

kpdVars == <<kpc, kpd_matrix, count, finish>>
allVars == <<vars, kpdVars>>

KpcSet == {"off", "menu", "requested", "zeroed", "init", "wait", "free", "freed",
           "memset", "registered", "return"}

KeypadTypeOK ==
  /\ TypeOK
  /\ kpc \in KpcSet
  /\ kpd_matrix \subseteq Key
  /\ count \in 0 .. MaxEvents
  /\ finish \in {0, 1}

KeypadStart(pc) == Init /\ kpc = pc /\ kpd_matrix = {} /\ count = 0 /\ finish = 0
KeypadInit == KeypadStart("menu")

Goto(from, to) == kpc = from /\ kpc' = to /\ UNCHANGED <<drv, hisr, devVars>>
Here(from, to) == Goto(from, to) /\ MainProgram

\* request_irq of the port's interrupt, over the handler of the service.
KpdRequest ==
  /\ Goto("menu", "requested")
  /\ count' = 0
  /\ UNCHANGED <<pinVars, ie, kpd_matrix, finish>>
  /\ IC!CallRequest(Port, pdk_gpio_kpd_isr, NULL)

\* gpio_kpd_init: clear the matrix, program the triggers, unmask all pins.
KpdInitMatrix ==
  /\ Here("requested", "zeroed")
  /\ kpd_matrix' = {}
  /\ UNCHANGED <<pinVars, ie, count, finish>>

KpdInitMask ==
  /\ Here("zeroed", "init")
  /\ ie' = Pin
  /\ UNCHANGED <<pinVars, kpd_matrix, count, finish>>

\* Mutant of KpdResetFinish: the flag of an earlier test is still there.
KpdResetFinishForgets ==
  /\ Here("init", "wait")
  /\ UNCHANGED <<pinVars, ie, kpd_matrix, count, finish>>

KpdResetFinish ==
  /\ Here("init", "wait")
  /\ finish' = 0
  /\ UNCHANGED <<pinVars, ie, kpd_matrix, count>>

KpdWaitEnds ==
  /\ Here("wait", "free")
  /\ finish = 1
  /\ finish' = 0
  /\ UNCHANGED <<pinVars, ie, kpd_matrix, count>>

KpdFree ==
  /\ Goto("free", "freed")
  /\ UNCHANGED <<pinVars, ie, kpd_matrix, count, finish>>
  /\ IC!CallFree(Port)

\* socle_init_gpio_irq: zero the pin table, register the service's handler.
\* The mask register is left as gpio_kpd_init has set it.
KpdMemset ==
  /\ Here("freed", "memset")
  /\ lock' = [p \in Pin |-> 0] /\ active' = [p \in Pin |-> 0]
  /\ sub_routine' = [p \in Pin |-> NULL] /\ sub_param' = [p \in Pin |-> NULL]
  /\ irq_num' = 0
  /\ UNCHANGED <<ie, kpd_matrix, count, finish>>

KpdRegister ==
  /\ Goto("memset", "registered")
  /\ UNCHANGED <<pinVars, ie, kpd_matrix, count, finish>>
  /\ IC!CallRequest(Port, socle_gpio_isr, NULL)

KpdRegistered == Here("registered", "return") /\ UNCHANGED <<pinVars, ie, kpd_matrix, count, finish>>
KpdReturn == Here("return", "menu") /\ UNCHANGED <<pinVars, ie, kpd_matrix, count, finish>>

\* irq.c on behalf of the request and free calls.
IrqCall ==
  /\ UNCHANGED <<pinVars, drv, hisr, ie, devVars, kpdVars>>
  /\ IC!RequestStep \/ IC!FreeStep

----------------------------------------------------------------------------
\* pdk_gpio_kpd_isr: read the status, clear what was read, decode a key or none.
KpdIsrEnter ==
  /\ HandlerRuns /\ UNCHANGED <<event, kpdVars>>
  /\ vec[Port] = pdk_gpio_kpd_isr /\ IC!CallHandler
  /\ hisr' = [NoHandler EXCEPT !.at = "clear", !.status = Status]

\* pdk_check_kpd, called once as many keys as there are have been counted.
KpdFinish(matrix, n) == n >= Cardinality(Key) /\ matrix = Key

KpdIsrClear ==
  /\ vec[Port] = pdk_gpio_kpd_isr
  /\ hisr.at = "clear"
  /\ event' = event \ hisr.status
  /\ \E k \in Key \cup {NULL} :
       LET pressed == {k} \ {NULL}
           matrix  == kpd_matrix \cup pressed
           n       == count + Cardinality(pressed)
       IN /\ kpd_matrix' = matrix
          /\ count' = n
          /\ finish' = IF KpdFinish(matrix, n) THEN 1 ELSE finish
  /\ hisr' = [NoHandler EXCEPT !.at = "scan"]
  /\ HandlerRuns /\ UNCHANGED <<isr, kpc>>

----------------------------------------------------------------------------
Running == \/ KpdInitMatrix \/ KpdInitMask \/ KpdResetFinish \/ KpdWaitEnds \/ KpdFree
           \/ KpdMemset \/ KpdRegister \/ KpdRegistered \/ KpdReturn \/ IrqCall
Handling == \/ KpdIsrEnter \/ KpdIsrClear
            \/ (IsrEnter \/ IsrLeave \/ DispatchStep) /\ UNCHANGED kpdVars
Pressing == (\E p \in Pin : Raise(p)) /\ UNCHANGED kpdVars

KeypadNext == KpdRequest \/ Running \/ Handling \/ Pressing
KeypadSpec == KeypadInit /\ [][KeypadNext]_allVars
KeypadFairSpec == KeypadSpec /\ WF_allVars(Running) /\ WF_allVars(Handling)

----------------------------------------------------------------------------
\* The wait ends only when every key has been pressed since this test began:
\* a finish flag that the handler sets once more after the wait of an earlier
\* test (gpio-kpd-ctrl.c:318-320) does not end this one.
EndsWithAllKeys == kpc = "free" => kpd_matrix = Key

\* "Please press all keys and then exit." (gpio-kpd-ctrl.c:313): once the test
\* has given the interrupt back, the menu appears again.
MenuComesBack == (kpc = "return") ~> (kpc = "menu")
=============================================================================
