------------------------------ MODULE TimerTest ------------------------------
(***************************************************************************)
(* src/TIMER/timer-ctrl.c: the three timers, each of its own and chained.  *)
(*                                                                         *)
(* A timer is loaded with two seconds, or in a chain with two periods of   *)
(* the timer before it, of which only the last then interrupts.  The       *)
(* timers, external, count or stand still, and reload themselves as told   *)
(* or always.  Time passes in seconds, and a second is longer than the     *)
(* handlers and what waits for them take.  trEarly bounds the seconds that *)
(* pass outside of the waits of a test, trTests the tests of a session.    *)
(***************************************************************************)
EXTENDS Integers

CONSTANTS trEarly, trTests
ASSUME TrAssumption == {trEarly, trTests} \subseteq Nat

VARIABLES
  trM,     \* the test: where it is, its name and timer, socle_timer_chain_mode,
           \* _int_flag and _sec, seconds to wait, verdict; seconds since it began,
           \* those left outside of waits, tests left
  trMode,  \* SOCLE_TMRMODE
  trTimer, \* of each timer: enabled, periodical, its count, its interrupt
  trIrq,   \* are the handlers registered
  trChip   \* timers that stand still, and that reload always

trVars == <<trM, trMode, trTimer, trIrq, trChip>>

TrOff == [on |-> FALSE, per |-> FALSE, n |-> 0, int |-> FALSE]
TrIdle == [pc |-> "idle", test |-> "none", idx |-> 0, chain |-> 0, flag |-> 0, sec |-> 0, wait |-> 0, err |-> 0, age |-> 0, early |-> 0, tests |-> trTests]
TrStart(pc) ==
  /\ trM = [TrIdle EXCEPT !.pc = pc] /\ trMode = 0 /\ trIrq = FALSE /\ trTimer = [k \in 0 .. 2 |-> TrOff]
  /\ \E dead, wraps \in (IF pc = "off" THEN {{}} ELSE SUBSET {0, 1, 2}) : trChip = [dead |-> dead, wraps |-> wraps]

TIMERTesting ==
  /\ UNCHANGED <<trMode, trChip>>
  /\ \/ /\ trM.pc = "idle" /\ trM.tests > 0 /\ trM' = [trM EXCEPT !.pc = "menu"]
        /\ trTimer' = [k \in 0 .. 2 |-> TrOff] /\ trIrq' = TRUE
     \/ /\ trM.pc = "menu" /\ trM' = [trM EXCEPT !.pc = "idle"] /\ trIrq' = FALSE /\ UNCHANGED trTimer
-----------------------------------------------------------------------------
(* A test enables its timers and waits.                                    *)
TrLoaded(per, n) == [on |-> TRUE, per |-> per, n |-> n, int |-> FALSE]
TrBegins(test, idx, chain, wait) ==
  /\ trM.pc = "menu" /\ trM.tests > 0 /\ UNCHANGED <<trIrq, trChip>>
  /\ trM' = [trM EXCEPT !.pc = "wait", !.test = test, !.idx = idx, !.chain = chain, !.flag = 0, !.sec = 0, !.wait = wait,
                        !.err = 0, !.age = 0, !.early = trEarly, !.tests = @ - 1]
(* Mutant of TrModeOfOne: the timers stay chained.                         *)
TrModeStays == trMode
TrModeOfOne == 0
socle_timer_cnt_free_running ==
  \E k \in 0 .. 2 :
    TrBegins("free", k, 0, 5) /\ trMode' = TrModeOfOne /\ trTimer' = [trTimer EXCEPT ![k] = TrLoaded(FALSE, 2)]
socle_timer_cnt_periodical ==
  \E k \in 0 .. 2 :
    TrBegins("periodical", k, 0, 5) /\ trMode' = TrModeOfOne /\ trTimer' = [trTimer EXCEPT ![k] = TrLoaded(TRUE, 2)]
socle_timer_mode_1 ==
  /\ TrBegins("chain", 1, 1, 10) /\ trMode' = 1
  /\ trTimer' = [trTimer EXCEPT ![0] = TrLoaded(TRUE, 2), ![1] = TrLoaded(FALSE, 2)]
socle_timer_mode_2 ==
  /\ TrBegins("chain", 2, 2, 15) /\ trMode' = 2
  /\ trTimer' = [k \in 0 .. 2 |-> TrLoaded(k < 2, 2)]

(* The handlers.                                                           *)
TrServed(k) == [trTimer EXCEPT ![k].int = FALSE]
TrHandler(k, sec) ==
  /\ trIrq /\ trTimer[k].int /\ trTimer' = TrServed(k)
  /\ trM' = [trM EXCEPT !.flag = 1, !.sec = sec] /\ UNCHANGED <<trMode, trIrq, trChip>>
socle_timer_isr_0 == TrHandler(0, trM.sec + 2)
socle_timer_isr_1 == TrHandler(1, IF trM.chain = 1 THEN 4 ELSE trM.sec + 2)
socle_timer_isr_2 == TrHandler(2, IF trM.chain = 2 THEN 8 ELSE trM.sec + 2)

(* The waits: one in a chain, two otherwise, of which the second must end  *)
(* in time for a periodical timer, and must not for a free-running one.    *)
TrQuiet == \A k \in 0 .. 2 : ~trTimer[k].int
TrHit ==
  /\ trM.pc \in {"wait", "again"} /\ trM.flag = 1 /\ UNCHANGED <<trMode, trTimer, trIrq, trChip>>
  /\ trM' = [trM EXCEPT !.pc = IF trM.pc = "again" THEN "twice" ELSE "told", !.flag = 0]
TrTold ==
  /\ UNCHANGED <<trMode, trTimer, trIrq, trChip>>
  /\ \/ trM.pc = "told" /\ trM' = [trM EXCEPT !.pc = IF trM.test = "chain" THEN "stop" ELSE "again", !.wait = 5]
     \/ trM.pc = "twice" /\ trM' = [trM EXCEPT !.pc = "stop", !.err = IF trM.test = "free" THEN -1 ELSE 0]
TrTimeout ==
  /\ trM.pc \in {"wait", "again"} /\ trM.flag = 0 /\ TrQuiet /\ trM.wait = 0 /\ UNCHANGED <<trMode, trTimer, trIrq, trChip>>
  /\ trM' = [trM EXCEPT !.pc = "stop", !.err = IF trM.pc = "again" /\ trM.test = "free" THEN 0 ELSE -1]
TrStops ==
  /\ trM.pc = "stop" /\ trM' = [trM EXCEPT !.pc = "end"] /\ UNCHANGED <<trMode, trIrq, trChip>>
  /\ trTimer' = [k \in 0 .. 2 |-> IF k = trM.idx \/ (trM.test = "chain" /\ k < trM.idx) THEN TrOff ELSE trTimer[k]]
TrBack ==
  /\ trM.pc = "end" /\ UNCHANGED <<trMode, trTimer, trIrq, trChip>>
  /\ trM' = [TrIdle EXCEPT !.pc = "menu", !.chain = trM.chain, !.tests = trM.tests]

(* A second passes.                                                        *)
TrCounts(k) == trTimer[k].on /\ trTimer[k].n > 0 /\ k \notin trChip.dead
TrAtEnd(k) == TrCounts(k) /\ trTimer[k].n = 1
TrChained(k) == IF k <= trMode THEN 0 .. k - 1 ELSE {}
TrClocked(k) == TrCounts(k) /\ \A j \in TrChained(k) : TrAtEnd(j)
TrExpires(k) == TrClocked(k) /\ TrAtEnd(k)
TrSecond ==
  /\ trM.pc \in {"wait", "told", "again", "twice", "stop"} /\ trM.flag = 0 /\ TrQuiet /\ UNCHANGED <<trMode, trIrq, trChip>>
  /\ IF trM.pc \in {"wait", "again"} THEN trM.wait > 0 /\ trM' = [trM EXCEPT !.wait = @ - 1, !.age = @ + 1]
     ELSE trM.early > 0 /\ trM' = [trM EXCEPT !.early = @ - 1, !.age = @ + 1]
  /\ trTimer' = [k \in 0 .. 2 |->
       IF ~TrClocked(k) THEN trTimer[k]
       ELSE [trTimer[k] EXCEPT !.n = IF @ > 1 THEN @ - 1 ELSE IF trTimer[k].per \/ k \in trChip.wraps THEN 2 ELSE 0,
                               !.int = @ \/ (TrExpires(k) /\ (trMode = 0 \/ k >= trMode))]]

TrStep == \/ TIMERTesting \/ socle_timer_cnt_free_running \/ socle_timer_cnt_periodical \/ socle_timer_mode_1 \/ socle_timer_mode_2
          \/ socle_timer_isr_0 \/ socle_timer_isr_1 \/ socle_timer_isr_2 \/ TrHit \/ TrTold \/ TrTimeout \/ TrStops \/ TrBack \/ TrSecond
TrSpec == TrStart("idle") /\ [][TrStep]_trVars
-----------------------------------------------------------------------------
(* A timer test passes just when its timers do what they were told, chained*)
(* before or not, and the seconds it tells are those that have passed.     *)
TrGood ==
  IF trM.test = "chain" THEN \A k \in 0 .. trM.idx : k \notin trChip.dead
  ELSE trM.idx \notin trChip.dead /\ (trM.test = "free" => trM.idx \notin trChip.wraps)
TimerRight ==
  /\ trM.pc = "end" => (trM.err = 0 <=> TrGood)
  /\ trM.pc \in {"told", "twice"} /\ trM.early = trEarly => trM.sec = trM.age
=============================================================================
