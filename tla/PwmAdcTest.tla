------------------------------ MODULE PwmAdcTest ------------------------------
(***************************************************************************)
(* src/ADC_PWM: the two PWM timers of the board as timers, one measuring   *)
(* the signal of the other, and as the input of the converter.             *)
(*                                                                         *)
(* The timers, external, work, or one is dead, or wrong: interrupts once,  *)
(* holds its signal too long, puts out full voltage.  Edges are 1600       *)
(* cycles apart, and the loop that measures goes round twice in that time: *)
(* no edge is missed, and neither is a duty found out of range nor hrc_val *)
(* left.  A conversion ends within the 10 ms of every access to the        *)
(* converter, or later than the wait for it; paLate bounds the late ones,  *)
(* paTests the tests of a session.                                         *)
(***************************************************************************)
EXTENDS Integers

CONSTANTS paTests, paLate
ASSUME PaAssumption == {paTests, paLate} \subseteq Nat

VARIABLES
  paM,    \* the test: where it is, its name and timer, its interrupt flag and count,
          \* seconds to wait, duty cycle, hrc_rx, the last pair of values, the
          \* converter's channel, reference and sum, verdict; tests left
  paBusy, \* the structures in use
  paPwm,  \* the timer: interrupt and its enable, single counter mode, has expired,
          \* is its counter beyond the end
  paWire, \* of the timer that measures: its counter, phase, hrc and lrc, reads until an edge
  paAdc,  \* the converter: busy, late, channel, value, interrupt and its enable; late ones left
  paChip  \* of each timer, does it work

paVars == <<paM, paBusy, paPwm, paWire, paAdc, paChip>>

PaIdle == [pc |-> "idle", test |-> "none", k |-> 0, flag |-> 0, count |-> 0, wait |-> 0, duty |-> 0, hrc |-> 0, was |-> <<0, 0>>,
           ch |-> 0, v |-> 0, sum |-> 0, ret |-> 0, tests |-> paTests]
PaStart(pc) ==
  /\ paM = [PaIdle EXCEPT !.pc = pc] /\ paBusy = {}
  /\ paPwm = [int |-> FALSE, en |-> FALSE, single |-> FALSE, fired |-> FALSE, past |-> FALSE]
  /\ paWire = [t |-> 0, phase |-> 0, hrc |-> 0, lrc |-> 0, edge |-> 0]
  /\ paAdc = [busy |-> FALSE, slow |-> FALSE, ch |-> 0, val |-> 0, int |-> FALSE, en |-> FALSE, late |-> paLate]
  /\ paChip \in {chip \in [{0, 1} -> IF pc = "off" THEN {"good"} ELSE {"good", "dead", "wrong"}] : \E k \in {0, 1} : chip[k] = "good"}

(* A pending interrupt is taken before the program goes on.                *)
PaQuiet == ~(paPwm.int /\ paPwm.en) /\ ~(paAdc.int /\ paAdc.en)
PaAt(pc) == paM.pc = pc /\ PaQuiet
PaEnds(ret) == paM' = [paM EXCEPT !.pc = "end", !.ret = ret]

(* The menus; adc_init_conversion_by_int takes what is pending before it   *)
(* resets the flag.                                                        *)
PaOpens ==
  /\ PaAt("idle") /\ UNCHANGED <<paPwm, paWire, paChip>>
  /\ \/ \E k \in {0, 1} \ paBusy : paBusy' = paBusy \cup {k} /\ paM' = [paM EXCEPT !.pc = "pwm", !.k = k] /\ UNCHANGED paAdc
     \/ \E int \in BOOLEAN :
          /\ 1 \notin paBusy /\ paBusy' = paBusy \cup {1} /\ paM' = [paM EXCEPT !.pc = "adc", !.k = 1, !.flag = 0]
          /\ paAdc' = [paAdc EXCEPT !.en = int, !.int = @ /\ ~int]
PaCloses ==
  /\ \/ PaAt("pwm") /\ UNCHANGED paAdc
     \/ PaAt("adc") /\ paAdc' = [paAdc EXCEPT !.en = FALSE]
  /\ paM' = [paM EXCEPT !.pc = "idle", !.flag = 0] /\ paBusy' = paBusy \ {paM.k} /\ UNCHANGED <<paPwm, paWire, paChip>>
PaBack ==
  /\ PaAt("end") /\ UNCHANGED <<paBusy, paPwm, paWire, paAdc, paChip>>
  /\ paM' = [PaIdle EXCEPT !.pc = IF paM.test = "capture" THEN "idle" ELSE IF paM.test = "adc" THEN "adc" ELSE "pwm",
                           !.k = paM.k, !.flag = paM.flag, !.tests = paM.tests]
PaBegins(from, m) == PaAt(from) /\ paM.tests > 0 /\ paM' = [m EXCEPT !.tests = paM.tests - 1] /\ UNCHANGED paChip
-----------------------------------------------------------------------------
(* The timer mode: periods of a second.                                    *)
socle_pwmt_timer_mode_test_init ==
  /\ UNCHANGED <<paBusy, paWire, paAdc>>
  /\ \E single \in BOOLEAN :
       /\ PaBegins("pwm", [paM EXCEPT !.pc = "wait", !.test = IF single THEN "single" ELSE "periodical", !.flag = 0, !.count = 0, !.wait = 3])
       /\ paPwm' = [int |-> FALSE, en |-> TRUE, single |-> single, fired |-> FALSE, past |-> FALSE]
(* In the single counter mode the counter stays at its end, and interrupts *)
(* again, until it is set beyond it.                                       *)
socle_pwm_timer_isr ==
  /\ paPwm.int /\ paPwm.en /\ UNCHANGED <<paBusy, paWire, paAdc, paChip>>
  /\ paM' = [paM EXCEPT !.flag = 1, !.count = @ + 1]
  /\ LET past == paPwm.past \/ paM.count + 1 >= 5
     IN paPwm' = [paPwm EXCEPT !.past = past, !.int = paPwm.single /\ ~past /\ paChip[paM.k] = "good"]
PaSecond ==
  /\ (PaAt("wait") \/ PaAt("again")) /\ paM.flag = 0 /\ paM.wait > 0
  /\ paM' = [paM EXCEPT !.wait = @ - 1] /\ UNCHANGED <<paBusy, paWire, paAdc, paChip>>
  /\ LET fires == \/ paChip[paM.k] # "dead" /\ ~paPwm.fired
                  \/ paChip[paM.k] = "good" /\ ~paPwm.single
     IN paPwm' = [paPwm EXCEPT !.int = @ \/ fires, !.fired = @ \/ fires]
socle_pwmt_timer_mode_test_release == paPwm' = [paPwm EXCEPT !.en = FALSE]
PaHit ==
  /\ (PaAt("wait") \/ PaAt("again")) /\ paM.flag = 1 /\ UNCHANGED <<paBusy, paPwm, paWire, paAdc, paChip>>
  /\ paM' = [paM EXCEPT !.flag = 0, !.wait = 3, !.pc = IF paM.pc = "wait" /\ paM.test = "periodical" THEN "again" ELSE "check"]
PaTimeout ==
  /\ (PaAt("wait") \/ PaAt("again")) /\ paM.flag = 0 /\ paM.wait = 0
  /\ PaEnds(-1) /\ socle_pwmt_timer_mode_test_release /\ UNCHANGED <<paBusy, paWire, paAdc, paChip>>
PaChecks ==
  /\ PaAt("check") /\ socle_pwmt_timer_mode_test_release /\ UNCHANGED <<paBusy, paWire, paAdc, paChip>>
  /\ PaEnds(IF (paM.test = "single" /\ paM.count < 5) \/ (paM.test = "periodical" /\ paM.count # 2) THEN -1 ELSE 0)
-----------------------------------------------------------------------------
(* The capture mode: a signal of the timer k, of lrc_tx units of which     *)
(* hrc_tx are high, measured by the other.                                 *)
PaPeriod == IF paM.duty = 50 THEN 2 ELSE 4
PaHigh == (PaPeriod * paM.duty) \div 100 + (IF paChip[paM.k] = "wrong" THEN 1 ELSE 0)
PaSignal == paChip[paM.k] # "dead" /\ paChip[1 - paM.k] # "dead" /\ PaHigh < PaPeriod
PaRises(t) == (t + paWire.phase) % PaPeriod = 0
PaFalls(t) == (t + paWire.phase) % PaPeriod = PaHigh
PaEdge ==
  /\ paM.pc \in {"hrc", "lrc"} /\ PaSignal /\ paWire.edge = 0 /\ UNCHANGED <<paM, paBusy, paPwm, paAdc, paChip>>
  /\ \E t \in paWire.t + 1 .. paWire.t + PaPeriod :
       /\ PaRises(t) \/ PaFalls(t)
       /\ \A u \in paWire.t + 1 .. t - 1 : ~PaRises(u) /\ ~PaFalls(u)
       /\ paWire' = [paWire EXCEPT !.t = t, !.edge = 4, !.hrc = IF PaRises(t) THEN t ELSE @, !.lrc = IF PaRises(t) THEN @ ELSE t]
socle_pwmt_capture_mode_test ==
  /\ paBusy = {} /\ paBusy' = {0, 1} /\ UNCHANGED <<paPwm, paAdc>>
  /\ \E k \in {0, 1}, duty \in {75, 50, 25} :
       PaBegins("idle", [paM EXCEPT !.pc = "hrc", !.test = "capture", !.k = k, !.duty = duty, !.was = <<0, 0>>])
  /\ \E phase \in 0 .. 3 : paWire' = [t |-> 0, phase |-> phase, hrc |-> 0, lrc |-> 0, edge |-> 0]
PaReadsHrc ==
  /\ PaAt("hrc") /\ paM' = [paM EXCEPT !.pc = "lrc", !.hrc = paWire.hrc]
  /\ paWire' = [paWire EXCEPT !.edge = IF @ > 0 THEN @ - 1 ELSE 0] /\ UNCHANGED <<paBusy, paPwm, paAdc, paChip>>
(* Mutant of PaWhole: the first value counts as one.                       *)
PaWholeOrFirst(was, now) == \/ now[1] # was[1] /\ now[2] = was[2]
                            \/ now[1] = was[1] /\ now[2] # was[2]
PaWhole(was, now) == \/ now[1] # was[1] /\ was[1] # 0 /\ now[2] = was[2]
                     \/ now[1] = was[1] /\ now[2] # was[2] /\ was[2] # 0
current_sense_calc(was, now) ==
  IF now[1] = was[1] THEN ((now[2] - now[1]) * 10000) \div (now[2] - was[2])
  ELSE ((now[2] - was[1]) * 10000) \div (now[1] - was[1])
PaMeasured(duty) == PaEnds(IF duty = paM.duty THEN 0 ELSE -1) /\ paBusy' = paBusy \ {0, 1}
socle_pwm_capture_duty_pull ==
  /\ PaAt("lrc") /\ paWire' = [paWire EXCEPT !.edge = IF @ > 0 THEN @ - 1 ELSE 0] /\ UNCHANGED <<paPwm, paAdc, paChip>>
  /\ LET now == <<paM.hrc, paWire.lrc>>
     IN IF PaWhole(paM.was, now) THEN PaMeasured(current_sense_calc(paM.was, now) \div 100)
        ELSE paM' = [paM EXCEPT !.pc = "hrc", !.was = now] /\ UNCHANGED paBusy
PaNoSignal == PaAt("hrc") /\ ~PaSignal /\ PaMeasured(0) /\ UNCHANGED <<paPwm, paWire, paAdc, paChip>>
-----------------------------------------------------------------------------
(* The converter, with the PWM timer 1 at 100, 50 and 25 per cent on its   *)
(* channels, each a fifth lower than the one before.                       *)
SUPT_CH == 5
PaVoltage(ch) ==
  LET duty == [good |-> paM.duty, dead |-> 0, wrong |-> 100][paChip[1]] IN (4 * duty * (SUPT_CH - ch)) \div SUPT_CH
PaConverts ==
  /\ paAdc.busy /\ UNCHANGED <<paM, paBusy, paPwm, paWire, paChip>>
  /\ paAdc' = [paAdc EXCEPT !.busy = FALSE, !.val = PaVoltage(paAdc.ch), !.int = TRUE]
adc_conversion_isr ==
  /\ paAdc.int /\ paAdc.en /\ paAdc' = [paAdc EXCEPT !.int = FALSE]
  /\ paM' = [paM EXCEPT !.flag = 1] /\ UNCHANGED <<paBusy, paPwm, paWire, paChip>>
socle_adc_ch_test_w_pwmt ==
  /\ UNCHANGED <<paBusy, paPwm, paWire, paAdc>>
  /\ PaBegins("adc", [paM EXCEPT !.pc = "start", !.test = "adc", !.duty = 100, !.ch = 0, !.sum = 0])
socle_adc_read ==
  /\ PaAt("start") /\ paM' = [paM EXCEPT !.pc = "conv"] /\ UNCHANGED <<paBusy, paPwm, paWire, paChip>>
  /\ \E slow \in BOOLEAN :
       /\ slow => paAdc.late > 0
       /\ paAdc' = [paAdc EXCEPT !.busy = TRUE, !.slow = slow, !.ch = paM.ch, !.late = IF slow THEN @ - 1 ELSE @]
adc_wait_for_conversion ==
  /\ PaAt("conv") /\ UNCHANGED <<paBusy, paPwm, paWire, paAdc, paChip>>
  /\ IF paAdc.en THEN paM.flag = 1 ELSE ~paAdc.busy
  /\ paM' = [paM EXCEPT !.pc = "read", !.flag = 0]
(* socle_adc_ch_test_sub, of the channel just read; -1 / 2 is 0.           *)
PaHalf(v) == IF v < 0 THEN 0 ELSE v \div 2
PaDuty(v, ret) ==
  IF paM.duty = 25 \/ PaHalf(v) = 0 THEN PaEnds(IF PaHalf(v) = 0 /\ paM.duty # 25 THEN -1 ELSE ret)
  ELSE paM' = [paM EXCEPT !.pc = "start", !.duty = @ \div 2, !.v = PaHalf(v), !.ch = 0, !.sum = 0, !.ret = ret]
PaBetween(sum, mid) == sum # 0 /\ sum <= mid + SUPT_CH * 2 /\ sum >= mid - SUPT_CH * 2
socle_adc_ch_test_sub(val) ==
  IF paM.duty = 100 THEN PaDuty(val, 0)
  ELSE IF val = -1 THEN PaDuty(paM.v, -1)
  ELSE IF paM.ch < SUPT_CH - 1 THEN paM' = [paM EXCEPT !.pc = "start", !.ch = @ + 1, !.sum = @ + val]
  ELSE PaDuty(paM.v, IF PaBetween(paM.sum + val, (paM.v * (SUPT_CH + 1)) \div 2) THEN paM.ret ELSE -1)
PaReads ==
  /\ PaAt("read") /\ (paAdc.busy => paAdc.slow)
  /\ socle_adc_ch_test_sub(paAdc.val) /\ UNCHANGED <<paBusy, paPwm, paWire, paAdc, paChip>>
PaLate ==
  /\ PaAt("conv") /\ paAdc.busy /\ paAdc.slow /\ (paAdc.en => paM.flag = 0)
  /\ socle_adc_ch_test_sub(-1) /\ UNCHANGED <<paBusy, paPwm, paWire, paAdc, paChip>>

PaStep == \/ PaOpens \/ PaCloses \/ PaBack \/ socle_pwmt_timer_mode_test_init \/ socle_pwm_timer_isr \/ PaSecond \/ PaHit \/ PaTimeout
          \/ PaChecks \/ PaEdge \/ socle_pwmt_capture_mode_test \/ PaReadsHrc \/ socle_pwm_capture_duty_pull \/ PaNoSignal
          \/ PaConverts \/ adc_conversion_isr \/ socle_adc_ch_test_w_pwmt \/ socle_adc_read \/ adc_wait_for_conversion \/ PaReads \/ PaLate
PaSpec == PaStart("idle") /\ [][PaStep]_paVars
-----------------------------------------------------------------------------
(* A timer passes just when it works, its signal when the two work, though *)
(* the pair that measures it is read one after the other; the converter's  *)
(* test passes only with a signal that follows the duty cycle, and always  *)
(* then unless a conversion of the session was late.                       *)
PwmRight ==
  /\ paM.pc = "end" =>
       /\ paM.test \in {"periodical", "single"} => (paM.ret = 0 <=> paChip[paM.k] = "good")
       /\ paM.test = "capture" => (paM.ret = 0 <=> paChip[paM.k] = "good" /\ paChip[1 - paM.k] # "dead")
       /\ paM.test = "adc" => /\ paM.ret = 0 => paChip[1] = "good"
                              /\ paChip[1] = "good" /\ paAdc.late = paLate => paM.ret = 0
  /\ paM.pc = "idle" => paBusy = {}
=============================================================================
