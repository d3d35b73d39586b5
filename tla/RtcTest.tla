------------------------------- MODULE RtcTest -------------------------------
(***************************************************************************)
(* The alarm tests and the menu of src/RTC/rtc-ctrl.c.                     *)
(*                                                                         *)
(* A test clears the pending alarm, sets the clock to 0, sets the alarm,   *)
(* requests its interrupt, sets the clock to shortly before, and waits.    *)
(* The clock, which counts sixteenths of a second and sets                 *)
(* SOCLE_RTC_CTRL_ALRM when it comes to match all fields that are          *)
(* compared, is external.  Between tests only its sixteenths are followed. *)
(* The flags of an alarm register are kept apart from its fields.  rtWait  *)
(* is the bound of socle_wait_for_int in sixteenths, rtEarly bounds those  *)
(* that pass before the wait, rtTests the tests of a session.              *)
(***************************************************************************)
EXTENDS Integers, TLC

CONSTANTS rtWait, rtEarly, rtTests
ASSUME RtAssumption == {rtWait, rtEarly, rtTests} \subseteq Nat

VARIABLES
  rtM,    \* the test: where it is, its name, hit, verdict, sixteenths and tests
          \* left; has the old alarm come after it was cleared
  rtClk,  \* SOCLE_RTC_TIME and DATE; is it enabled, and does its crystal run
  rtAlm,  \* SOCLE_RTC_TALRM and DALRM with their flags; SOCLE_RTC_CTRL_ALRM
  rtIn    \* the alarm as entered

rtVars == <<rtM, rtClk, rtAlm, rtIn>>

RtTm(dow, hr, min, sec, sos) == [dow |-> dow, hr |-> hr, min |-> min, sec |-> sec, sos |-> sos]
RtDt(cent, yr, mth, day) == [cent |-> cent, yr |-> yr, mth |-> mth, day |-> day]
RtZero == [tm |-> RtTm(0, 0, 0, 0, 0), dt |-> RtDt(0, 0, 0, 0)]

RtStart(pc) ==
  /\ rtM = [pc |-> pc, test |-> "none", hit |-> 0, err |-> 0, left |-> 0, tests |-> rtTests, old |-> FALSE]
  /\ \E runs \in (IF pc = "off" THEN {FALSE} ELSE BOOLEAN) : rtClk = [time |-> 0, date |-> 0, on |-> FALSE, runs |-> runs]
  /\ rtAlm = [time |-> 0, date |-> 0, tf |-> {}, df |-> {}, hit |-> FALSE] /\ rtIn = RtZero
-----------------------------------------------------------------------------
(* The registers hold decimal digits.                                      *)
RtTens(n, at, units) == (n \div 10) * 2^at + (n % 10) * 2^units
rtc_time_to_u32(tm) == tm.dow * 2^24 + RtTens(tm.hr, 22, 18) + RtTens(tm.min, 15, 11) + RtTens(tm.sec, 8, 4) + tm.sos
rtc_date_to_u32(dt) == RtTens(dt.cent, 23, 19) + RtTens(dt.yr, 15, 11) + RtTens(dt.mth, 10, 6) + RtTens(dt.day, 4, 0)
RtBits(u, at, n) == (u \div 2^at) % 2^n
rtc_u32_to_time(u) ==
  RtTm(RtBits(u, 24, 3), 10 * RtBits(u, 22, 2) + RtBits(u, 18, 4), 10 * RtBits(u, 15, 3) + RtBits(u, 11, 4),
       10 * RtBits(u, 8, 3) + RtBits(u, 4, 4), RtBits(u, 0, 4))
rtc_u32_to_date(u) ==
  RtDt(10 * RtBits(u, 23, 4) + RtBits(u, 19, 4), 10 * RtBits(u, 15, 4) + RtBits(u, 11, 4),
       10 * RtBits(u, 10, 1) + RtBits(u, 6, 4), 10 * RtBits(u, 4, 2) + RtBits(u, 0, 4))

(* Of each test: the alarm, the clock, and what is compared.  That of all  *)
(* fields gives the two sets of flags in the wrong order: those of         *)
(* SOCLE_RTC_DALRM are bits 27-30, which in SOCLE_RTC_TALRM are            *)
(* sixteenths, second, minute and hour.                                    *)
RtEve == RtDt(21, 6, 12, 31)
RtAlarm(tm, dt, ctm, cdt, tf, df) == [alarm |-> [tm |-> tm, dt |-> dt], clock |-> [tm |-> ctm, dt |-> cdt], tf |-> tf, df |-> df]
RtMidnight(from, to, tf, df) == RtAlarm(RtTm(4, 0, 0, 1, 1), to, RtTm(3, 23, 59, 56, 0), from, tf, df)
RtAll == "rtc_all_alarm_test" :>
  RtAlarm(RtTm(3, 17, 58, 15, 10), RtEve, RtTm(3, 17, 58, 10, 2), RtEve, {"sos", "sec", "min", "hr"}, {"day", "mth", "yr", "cent"})
RtSeconds ==
  [rtc_sixteen_of_second_test |-> RtAlarm(RtTm(3, 17, 58, 59, 15), RtEve, RtTm(3, 17, 58, 59, 0), RtEve, {"sos"}, {}),
   rtc_second_test |-> RtAlarm(RtTm(3, 17, 58, 59, 1), RtEve, RtTm(3, 17, 58, 54, 0), RtEve, {"sec"}, {})]
RtHours ==
  [rtc_minute_test |-> RtAlarm(RtTm(3, 17, 59, 0, 1), RtEve, RtTm(3, 17, 58, 55, 0), RtEve, {"min"}, {}),
   rtc_hour_test |-> RtAlarm(RtTm(3, 18, 0, 1, 1), RtEve, RtTm(3, 17, 59, 56, 0), RtEve, {"hr"}, {})]
RtDays ==
  [rtc_day_of_week_test |-> RtMidnight(RtDt(21, 6, 12, 20), RtDt(21, 6, 12, 21), {"dow"}, {}),
   rtc_day_test |-> RtMidnight(RtDt(21, 6, 12, 20), RtDt(21, 6, 12, 21), {}, {"day"})]
RtMonths ==
  [rtc_month_test |-> RtMidnight(RtEve, RtDt(21, 7, 1, 1), {}, {"mth"}),
   rtc_year_test |-> RtMidnight(RtEve, RtDt(21, 7, 1, 1), {}, {"yr"}),
   rtc_cenury_test |-> RtMidnight(RtDt(21, 99, 12, 31), RtDt(22, 0, 1, 1), {}, {"cent"})]
RtTests == RtAll @@ RtSeconds @@ RtHours @@ RtDays @@ RtMonths

(* The clock: at midnight, on the days the tests set, the date goes on.    *)
RtCompared(a) == [tm |-> [f \in a.tf |-> rtc_u32_to_time(a.time)[f]], dt |-> [f \in a.df |-> rtc_u32_to_date(a.date)[f]]]
RtMatches(c, a) ==
  /\ a.tf \cup a.df # {}
  /\ RtCompared([a EXCEPT !.time = c.time, !.date = c.date]) = RtCompared(a)
RtDay(d) ==
  IF d.day # 31 THEN [d EXCEPT !.day = @ + 1]
  ELSE IF d.yr # 99 THEN RtDt(d.cent, d.yr + 1, 1, 1) ELSE RtDt(d.cent + 1, 0, 1, 1)
RtSixteenth(c) ==
  LET t == rtc_u32_to_time(c.time)
      n == 16 * (t.sec + 60 * (t.min + 60 * t.hr)) + t.sos + 1
      s == (n \div 16) % 86400
      midnight == n = 16 * 86400
      tm == RtTm(IF midnight THEN (t.dow + 1) % 7 ELSE t.dow, s \div 3600, (s \div 60) % 60, s % 60, n % 16)
  IN [c EXCEPT !.time = rtc_time_to_u32(tm),
               !.date = IF midnight THEN rtc_date_to_u32(RtDay(rtc_u32_to_date(@))) ELSE @]
(* The clock or the alarm is changed.                                      *)
RtBecomes(c, a, m) ==
  LET comes == RtMatches(c, a) /\ ~RtMatches(rtClk, rtAlm)
  IN /\ rtClk' = c /\ rtAlm' = [a EXCEPT !.hit = @ \/ comes]
     /\ rtM' = [m EXCEPT !.old = @ \/ (comes /\ rtM.pc \in {"reset", "zero"})]
-----------------------------------------------------------------------------
(* Mutant of RtAlarmOff: the pending alarm is left.                        *)
RtAlarmStays(a) == a
RtAlarmOff(a) == [a EXCEPT !.hit = FALSE]
RtSet(c, tm, dt) == [c EXCEPT !.time = rtc_time_to_u32(tm), !.date = rtc_date_to_u32(dt)]
RtSetAlarm(in, flags) ==
  [rtAlm EXCEPT !.time = rtc_time_to_u32(in.tm), !.date = rtc_date_to_u32(in.dt), !.tf = flags.tf, !.df = flags.df]

RTCTesting ==
  \/ rtM.pc = "idle" /\ rtM.tests > 0 /\ rtM' = [rtM EXCEPT !.pc = "menu"] /\ rtClk' = [rtClk EXCEPT !.on = TRUE] /\ UNCHANGED <<rtAlm, rtIn>>
  \/ rtM.pc = "menu" /\ rtM' = [rtM EXCEPT !.pc = "idle"] /\ rtClk' = [rtClk EXCEPT !.on = FALSE] /\ UNCHANGED <<rtAlm, rtIn>>
rtc_sub_alarm_test ==
  /\ rtM.pc = "menu" /\ rtM.tests > 0 /\ rtAlm' = RtAlarmOff(rtAlm) /\ UNCHANGED <<rtClk, rtIn>>
  /\ \E test \in DOMAIN RtTests :
       rtM' = [pc |-> "reset", test |-> test, hit |-> 0, err |-> 0, left |-> rtEarly, tests |-> rtM.tests - 1, old |-> FALSE]
rtc_reset ==
  /\ rtM.pc = "reset" /\ UNCHANGED rtIn
  /\ RtBecomes(RtSet(rtClk, RtZero.tm, RtZero.dt), rtAlm, [rtM EXCEPT !.pc = "zero"])
RtSetsAlarm ==
  /\ rtM.pc = "zero" /\ rtIn' = RtTests[rtM.test].alarm
  /\ RtBecomes(rtClk, RtSetAlarm(RtTests[rtM.test].alarm, RtTests[rtM.test]), [rtM EXCEPT !.pc = "irq"])
RtSetsClock ==
  /\ rtM.pc = "irq" /\ UNCHANGED rtIn
  /\ RtBecomes(RtSet(rtClk, RtTests[rtM.test].clock.tm, RtTests[rtM.test].clock.dt), rtAlm, [rtM EXCEPT !.pc = "wait", !.left = rtWait])
rtc_isr_alarm_hit ==
  /\ rtM.pc \in {"irq", "wait", "waits"} /\ rtAlm.hit /\ UNCHANGED <<rtClk, rtIn>>
  /\ rtAlm' = RtAlarmOff(rtAlm) /\ rtM' = [rtM EXCEPT !.hit = 1]
RtWaited ==
  /\ rtM.pc = "wait" /\ (rtM.hit = 1 \/ rtM.left = 0) /\ UNCHANGED <<rtClk, rtAlm, rtIn>>
  /\ rtM' = [rtM EXCEPT !.pc = "end", !.err = IF rtM.hit = 1 THEN 0 ELSE -1]
RtBackInMenu ==
  /\ rtM.pc = "end" /\ UNCHANGED <<rtClk, rtAlm, rtIn>>
  /\ rtM' = [rtM EXCEPT !.pc = "menu", !.test = "none", !.hit = 0, !.err = 0, !.left = 0, !.old = FALSE]

(* The items by which the user reads the alarm ...                         *)
rtc_get_time_alarm(a) == rtc_u32_to_time(a.time)
rtc_get_date_alarm(a) == rtc_u32_to_date(a.date)
RtShown(a) == [tm |-> rtc_get_time_alarm(a), dt |-> rtc_get_date_alarm(a)]
(* ... and those by which the user sets the clock and the alarm, or  *)
(* waits for it, which has no bound.                                       *)
RtHandAlarms == [tm : {RtTm(1, 17, 30, 40, 0), RtZero.tm}, dt : {RtDt(21, 6, 5, 23)}]
rtc_set_time_test ==
  /\ rtM.pc = "menu" /\ rtM.tests > 0 /\ UNCHANGED rtIn
  /\ RtBecomes(RtSet(rtClk, RtTm(1, 17, 30, 40, 0), rtc_u32_to_date(rtClk.date)), rtAlm, rtM)
rtc_set_date_test ==
  /\ rtM.pc = "menu" /\ rtM.tests > 0 /\ UNCHANGED rtIn
  /\ RtBecomes(RtSet(rtClk, rtc_u32_to_time(rtClk.time), RtDt(21, 6, 5, 23)), rtAlm, rtM)
rtc_set_time_alarm_test ==
  /\ rtM.pc = "menu" /\ rtM.tests > 0
  /\ \E hand \in RtHandAlarms, tf \in {{"min"}, {"sos", "sec"}} :
       LET in == [rtIn EXCEPT !.tm = hand.tm]
       IN rtIn' = in /\ RtBecomes(rtClk, RtSetAlarm(in, [tf |-> tf, df |-> rtAlm.df]), rtM)
rtc_set_date_alarm_test ==
  /\ rtM.pc = "menu" /\ rtM.tests > 0
  /\ \E hand \in RtHandAlarms, df \in {{}, {"day"}} :
       LET in == [rtIn EXCEPT !.dt = hand.dt]
       IN rtIn' = in /\ RtBecomes(rtClk, RtSetAlarm(in, [tf |-> rtAlm.tf, df |-> df]), rtM)
rtc_wait_for_alarm_test ==
  /\ UNCHANGED <<rtClk, rtAlm, rtIn>>
  /\ \/ rtM.pc = "menu" /\ rtM.tests > 0 /\ rtM' = [rtM EXCEPT !.pc = "waits", !.hit = 0]
     \/ rtM.pc = "waits" /\ rtM.hit = 1 /\ rtM' = [rtM EXCEPT !.pc = "menu", !.hit = 0]
-----------------------------------------------------------------------------
(* A sixteenth passes; interrupts, and what waits for them, are faster.    *)
RtTick ==
  /\ rtM.pc \in {"reset", "zero", "irq", "wait"} /\ rtM.left > 0 /\ rtM.hit = 0 /\ UNCHANGED rtIn
  /\ ~(rtAlm.hit /\ rtM.pc \in {"irq", "wait"})
  /\ RtBecomes(IF rtClk.runs THEN RtSixteenth(rtClk) ELSE rtClk, rtAlm, [rtM EXCEPT !.left = @ - 1])
(* In the menu an alarm can come again and again, if the time sets it.     *)
RtLater ==
  /\ rtM.pc \in {"menu", "waits"} /\ rtM.tests > 0 /\ rtClk.runs /\ UNCHANGED <<rtM, rtIn>>
  /\ \E sos \in {0, 14} : rtClk' = [rtClk EXCEPT !.time = rtc_time_to_u32([rtc_u32_to_time(@) EXCEPT !.sos = sos])]
  /\ rtAlm' = [rtAlm EXCEPT !.hit = @ \/ (rtAlm.tf # {} /\ rtAlm.df = {})]

RtStep == \/ RTCTesting \/ rtc_sub_alarm_test \/ rtc_reset \/ RtSetsAlarm \/ RtSetsClock \/ rtc_isr_alarm_hit
          \/ RtWaited \/ RtBackInMenu \/ rtc_set_time_test \/ rtc_set_date_test \/ rtc_set_time_alarm_test
          \/ rtc_set_date_alarm_test \/ rtc_wait_for_alarm_test \/ RtTick \/ RtLater
RtSpec == RtStart("idle") /\ [][RtStep]_rtVars
-----------------------------------------------------------------------------
(* A test that passes has met its own alarm, the fields it compares being  *)
(* those of the clock, and one that fails has a clock that stands still,   *)
(* whatever alarm an earlier test or the user has left pending or set,     *)
(* unless that one comes again between the clearing of the pending one and *)
(* the setting of the new one (600-668).  And the alarm registers give     *)
(* back what was entered.                                                  *)
RtcRight ==
  /\ (rtM.pc = "end" /\ ~rtM.old =>
        IF rtM.err = 0 THEN RtMatches(rtClk, rtAlm) /\ rtIn = RtTests[rtM.test].alarm
        ELSE ~rtClk.runs)
  /\ RtShown(rtAlm) = rtIn
=============================================================================
