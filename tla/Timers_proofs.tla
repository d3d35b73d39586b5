---------------------------- MODULE Timers_proofs ----------------------------
(***************************************************************************)
(* Of the tests of the main menu, those of the timers, and those of the    *)
(* PWM timers and the converter: for each an invariant, which holds at the *)
(* start and which every step preserves.  TestBench_proofs draws the       *)
(* conclusions for the bench that runs one of them.                        *)
(***************************************************************************)
EXTENDS TimerTest, PwmAdcTest, TLAPS

-----------------------------------------------------------------------------
(* The timers.  Between tests they are off.  In a test, only its timers    *)
(* are on, chained or not as it says, and the last of them interrupts when *)
(* the seconds that are left to it (TrDue) have passed; a chain with a     *)
(* timer that stands still never gets there.                               *)
TrRuns == {"wait", "told", "again", "twice", "stop"}
TrTyped ==
  /\ trM \in [pc : {"off", "idle", "menu", "end"} \cup TrRuns, test : {"none", "free", "periodical", "chain"}, idx : 0 .. 2, chain : 0 .. 2,
              flag : {0, 1}, sec : Int, wait : Int, err : {0, -1}, age : Int, early : Int, tests : Int]
  /\ trMode \in 0 .. 2 /\ trIrq \in BOOLEAN
  /\ trTimer \in [0 .. 2 -> [on : BOOLEAN, per : BOOLEAN, n : 0 .. 2, int : BOOLEAN]]
  /\ trChip \in [dead : SUBSET (0 .. 2), wraps : SUBSET (0 .. 2)]
TrResting == trM.pc \notin TrRuns => \A k \in 0 .. 2 : trTimer[k] = TrOff
TrMine == IF trM.test = "chain" THEN 0 .. trM.idx ELSE {trM.idx}
TrAlive == \A k \in TrMine : k \notin trChip.dead
TrSetUp == trM.pc \in TrRuns =>
  /\ trM.test # "none" /\ trMode = trM.chain /\ trM.chain = (IF trM.test = "chain" THEN trM.idx ELSE 0)
  /\ trM.test = "chain" => trM.idx # 0
  /\ \A k \in 0 .. 2 : k \notin TrMine => trTimer[k] = TrOff
  /\ \A k \in TrMine : trTimer[k].on /\ trTimer[k].per = (trM.test = "periodical" \/ k # trM.idx) /\ (k \in trChip.dead => trTimer[k].n = 2)
  /\ \A k \in TrMine : k # trM.idx => ~trTimer[k].int /\ trTimer[k].n # 0
  /\ trM.early <= trEarly /\ (trM.pc = "wait" => trM.early = trEarly)
  /\ trM.pc \in {"again", "twice"} => trM.test # "chain"
  /\ trM.pc # "stop" => trM.err = 0
(* The timer that interrupts.                                              *)
TrLast == trTimer[trM.idx]
TrMore == TrLast.per \/ trM.idx \in trChip.wraps
TrPeriod == IF trM.test # "chain" THEN 2 ELSE IF trM.idx = 1 THEN 4 ELSE 8
TrDue ==
  IF trM.test # "chain" THEN TrLast.n
  ELSE IF trM.idx = 1 THEN 2 * (TrLast.n - 1) + trTimer[0].n
  ELSE 4 * (TrLast.n - 1) + 2 * (trTimer[1].n - 1) + trTimer[0].n
TrStill == trM.flag = 0 /\ ~TrLast.int
TrNever == trM.pc \in TrRuns /\ ~TrAlive => trM.pc \in {"wait", "stop"} /\ TrStill /\ (trM.pc = "stop" => trM.err = -1)
(* Until the first interrupt, and until the second.                        *)
TrFirst == trM.pc = "wait" /\ TrAlive =>
  /\ TrStill => TrLast.n # 0 /\ trM.age = TrPeriod - TrDue /\ trM.wait = (IF trM.test # "chain" THEN 5 ELSE 5 + 5 * trM.idx) - trM.age
  /\ ~TrStill => /\ TrLast.int <=> trM.flag = 0
                 /\ trM.age = TrPeriod /\ (TrMore => TrLast.n # 0 /\ TrDue = TrPeriod) /\ (~TrMore => TrLast.n = 0)
  /\ trM.sec = IF trM.flag = 1 THEN TrPeriod ELSE 0
TrTimes == trM.pc \in {"told", "again", "twice"} /\ TrAlive =>
  /\ TrMore => TrLast.n # 0
  /\ ~TrMore => TrLast.n = 0 /\ TrStill /\ trM.pc # "twice"
  /\ trM.early = trEarly /\ trM.pc = "told" => TrStill /\ trM.sec = trM.age /\ trM.sec = TrPeriod /\ (TrMore => TrDue = TrPeriod)
  /\ trM.early = trEarly /\ trM.pc = "twice" => TrStill /\ trM.sec = trM.age
  /\ trM.pc = "again" =>
       /\ TrMore /\ TrStill => trM.wait >= TrDue
       /\ trM.early = trEarly /\ TrStill /\ TrMore => trM.sec = 2 /\ trM.age = 4 - TrDue
       /\ trM.early = trEarly /\ ~TrStill => (TrLast.int <=> trM.flag = 0) /\ trM.age = 4 /\ trM.sec = IF trM.flag = 1 THEN 4 ELSE 2
TrVerdict == trM.pc = "stop" /\ TrAlive => (trM.err = 0 <=> TrGood)
TrInv == TrTyped /\ TrResting /\ TrSetUp /\ TrNever /\ TrFirst /\ TrTimes /\ TrVerdict /\ TimerRight

LEMMA TrSame ==
  ASSUME trTimer' = trTimer, trChip' = trChip, trM'.idx = trM.idx, trM'.test = trM.test
  PROVE  TrMine' = TrMine /\ TrAlive' = TrAlive /\ TrLast' = TrLast /\ TrMore' = TrMore /\ TrPeriod' = TrPeriod /\ TrDue' = TrDue /\ TrGood' = TrGood
<1>1. TrMine' = TrMine  BY DEF TrMine
<1>2. TrAlive' = TrAlive  BY <1>1 DEF TrAlive
<1>3. TrLast' = TrLast /\ TrPeriod' = TrPeriod  BY DEF TrLast, TrPeriod
<1>4. TrMore' = TrMore /\ TrDue' = TrDue  BY <1>3 DEF TrMore, TrDue
<1>5. TrGood' = TrGood  BY DEF TrGood
<1> QED  BY <1>1, <1>2, <1>3, <1>4, <1>5

(* The fields of the test and of its timers.                               *)
LEMMA TrFacts ==
  ASSUME TrInv
  PROVE  /\ trM.idx \in 0 .. 2 /\ trM.chain \in 0 .. 2 /\ trM.flag \in {0, 1} /\ trM.sec \in Int /\ trM.wait \in Int /\ trM.err \in {0, -1}
         /\ trM.age \in Int /\ trM.early \in Int /\ trM.tests \in Int /\ trM.test \in {"none", "free", "periodical", "chain"}
         /\ trMode \in 0 .. 2 /\ TrMine \subseteq 0 .. 2 /\ trM.idx \in TrMine
         /\ \A k \in 0 .. 2 : trTimer[k] \in [on : BOOLEAN, per : BOOLEAN, n : 0 .. 2, int : BOOLEAN]
         /\ TrLast.n \in 0 .. 2 /\ TrLast.int \in BOOLEAN /\ TrPeriod \in Int /\ TrDue \in Int /\ trEarly \in Int
<1>1. /\ trM.idx \in 0 .. 2 /\ trM.chain \in 0 .. 2 /\ trM.flag \in {0, 1} /\ trM.sec \in Int /\ trM.wait \in Int /\ trM.err \in {0, -1}
      /\ trM.age \in Int /\ trM.early \in Int /\ trM.tests \in Int /\ trM.test \in {"none", "free", "periodical", "chain"}
  BY DEF TrInv, TrTyped
<1>2. trMode \in 0 .. 2 /\ \A k \in 0 .. 2 : trTimer[k] \in [on : BOOLEAN, per : BOOLEAN, n : 0 .. 2, int : BOOLEAN]
  BY DEF TrInv, TrTyped
<1>3. TrMine \subseteq 0 .. 2 /\ trM.idx \in TrMine  BY <1>1 DEF TrMine
<1>4. TrLast.n \in 0 .. 2 /\ TrLast.int \in BOOLEAN  BY <1>1, <1>2 DEF TrLast
<1>5. TrPeriod \in Int  BY DEF TrPeriod
<1>6. TrDue \in Int
  <2>1. TrLast.n \in Int /\ trTimer[0].n \in Int /\ trTimer[1].n \in Int  BY <1>2, <1>4
  <2> QED  BY <2>1 DEF TrDue
<1>7. trEarly \in Int  BY TrAssumption
<1> QED  BY <1>1, <1>2, <1>3, <1>4, <1>5, <1>6, <1>7

(* A second, as the timer of the test sees it.                             *)
LEMMA TrPasses ==
  ASSUME TrInv, TrSecond
  PROVE  /\ trTimer' \in [0 .. 2 -> [on : BOOLEAN, per : BOOLEAN, n : 0 .. 2, int : BOOLEAN]]
         /\ \A k \in 0 .. 2 : k \notin TrMine => trTimer'[k] = TrOff
         /\ \A k \in TrMine : trTimer'[k].on /\ trTimer'[k].per = trTimer[k].per /\ (k \in trChip.dead => trTimer'[k].n = 2)
         /\ \A k \in TrMine : k # trM.idx => ~trTimer'[k].int /\ trTimer'[k].n # 0
<1>1. trM.pc \in TrRuns /\ trM.flag = 0 /\ \A k \in 0 .. 2 : ~trTimer[k].int  BY DEF TrSecond, TrRuns, TrQuiet
<1>2. trTimer' = [k \in 0 .. 2 |->
       IF ~TrClocked(k) THEN trTimer[k]
       ELSE [trTimer[k] EXCEPT !.n = IF @ > 1 THEN @ - 1 ELSE IF trTimer[k].per \/ k \in trChip.wraps THEN 2 ELSE 0,
                               !.int = @ \/ (TrExpires(k) /\ (trMode = 0 \/ k >= trMode))]]
  BY DEF TrSecond
<1>3. ASSUME NEW k \in 0 .. 2
      PROVE  /\ trTimer'[k] \in [on : BOOLEAN, per : BOOLEAN, n : 0 .. 2, int : BOOLEAN]
             /\ trTimer'[k].on = trTimer[k].on /\ trTimer'[k].per = trTimer[k].per
             /\ ~TrClocked(k) => trTimer'[k] = trTimer[k]
             /\ TrClocked(k) => /\ trTimer'[k].n = IF trTimer[k].n > 1 THEN trTimer[k].n - 1
                                                   ELSE IF trTimer[k].per \/ k \in trChip.wraps THEN 2 ELSE 0
                                /\ trTimer'[k].int = (TrExpires(k) /\ (trMode = 0 \/ k >= trMode))
  <2>1. trTimer[k] \in [on : BOOLEAN, per : BOOLEAN, n : 0 .. 2, int : BOOLEAN] /\ ~trTimer[k].int  BY <1>1, TrFacts
  <2>2. CASE ~TrClocked(k)
    <3>1. trTimer'[k] = trTimer[k]  BY <1>2, <2>2
    <3> QED  BY <2>1, <2>2, <3>1
  <2>3. CASE TrClocked(k)
    <3> DEFINE n == IF trTimer[k].n > 1 THEN trTimer[k].n - 1 ELSE IF trTimer[k].per \/ k \in trChip.wraps THEN 2 ELSE 0
               int == TrExpires(k) /\ (trMode = 0 \/ k >= trMode)
    <3>1. trTimer'[k] = [trTimer[k] EXCEPT !.n = n, !.int = trTimer[k].int \/ int]  BY <1>2, <2>3
    <3>2. n \in 0 .. 2 /\ int \in BOOLEAN  BY <2>1
    <3> HIDE DEF n, int
    <3>3. (trTimer[k].int \/ int) \in BOOLEAN  OBVIOUS
    <3>4. trTimer'[k] = [on |-> trTimer[k].on, per |-> trTimer[k].per, n |-> n, int |-> trTimer[k].int \/ int]  BY <2>1, <3>1
    <3>5. trTimer'[k].int = (trTimer[k].int \/ int)  BY <3>4
    <3>6. trTimer'[k].int = int
      <4>1. CASE int  BY <3>2, <3>5, <4>1
      <4>2. CASE ~int  BY <2>1, <3>2, <3>5, <4>2
      <4> QED  BY <4>1, <4>2
    <3>7. trTimer'[k] \in [on : BOOLEAN, per : BOOLEAN, n : 0 .. 2, int : BOOLEAN]  BY <2>1, <3>2, <3>3, <3>4
    <3> QED  BY <2>3, <3>4, <3>6, <3>7 DEF n, int
  <2> QED  BY <2>2, <2>3
<1>4. \A k \in 0 .. 2 : k \notin TrMine => trTimer'[k] = TrOff
  <2> SUFFICES ASSUME NEW k \in 0 .. 2, k \notin TrMine PROVE trTimer'[k] = TrOff
    OBVIOUS
  <2>1. trTimer[k] = TrOff  BY <1>1 DEF TrInv, TrSetUp
  <2>2. ~TrClocked(k)  BY <2>1 DEF TrClocked, TrCounts, TrOff
  <2> QED  BY <1>3, <2>1, <2>2
<1>5. \A k \in TrMine : trTimer'[k].on /\ trTimer'[k].per = trTimer[k].per /\ (k \in trChip.dead => trTimer'[k].n = 2)
  <2> SUFFICES ASSUME NEW k \in TrMine
               PROVE  trTimer'[k].on /\ trTimer'[k].per = trTimer[k].per /\ (k \in trChip.dead => trTimer'[k].n = 2)
    OBVIOUS
  <2>1. k \in 0 .. 2 /\ trTimer[k].on /\ (k \in trChip.dead => trTimer[k].n = 2)  BY <1>1, TrFacts DEF TrInv, TrSetUp
  <2>2. k \in trChip.dead => ~TrClocked(k)  BY DEF TrClocked, TrCounts
  <2> QED  BY <1>3, <2>1, <2>2
<1>6. \A k \in TrMine : k # trM.idx => ~trTimer'[k].int /\ trTimer'[k].n # 0
  <2> SUFFICES ASSUME NEW k \in TrMine, k # trM.idx PROVE ~trTimer'[k].int /\ trTimer'[k].n # 0
    OBVIOUS
  <2>1. k \in 0 .. 2 /\ trTimer[k].per /\ ~trTimer[k].int /\ trTimer[k].n # 0 /\ trTimer[k].n \in 0 .. 2
    BY <1>1, TrFacts DEF TrInv, TrSetUp
  <2>2. trM.test = "chain" /\ k < trM.idx /\ trMode = trM.idx /\ trM.idx # 0
    BY <1>1, TrFacts DEF TrMine, TrInv, TrSetUp
  <2>3. ~(trMode = 0 \/ k >= trMode)  BY <2>1, <2>2, TrFacts
  <2>4. CASE ~TrClocked(k)  BY <1>3, <2>1, <2>4
  <2>5. CASE TrClocked(k)
    <3>1. trTimer'[k].n # 0  BY <1>3, <2>1, <2>5
    <3>2. trTimer'[k].int = FALSE  BY <1>3, <2>1, <2>3, <2>5
    <3> QED  BY <3>1, <3>2
  <2> QED  BY <2>4, <2>5
<1>7. trTimer' \in [0 .. 2 -> [on : BOOLEAN, per : BOOLEAN, n : 0 .. 2, int : BOOLEAN]]
  <2>1. trTimer' = [k \in 0 .. 2 |-> trTimer'[k]]  BY <1>2
  <2> HIDE DEF TrSecond
  <2> QED  BY <1>3, <2>1
<1> QED  BY <1>4, <1>5, <1>6, <1>7

LEMMA TrComes ==
  ASSUME TrInv, TrSecond
  PROVE  /\ ~TrAlive => ~TrLast'.int
         /\ TrAlive /\ TrLast.n = 0 => TrLast' = TrLast
         /\ TrAlive /\ TrLast.n # 0 /\ TrDue > 1 => ~TrLast'.int /\ TrLast'.n # 0 /\ TrDue' = TrDue - 1
         /\ TrAlive /\ TrLast.n # 0 /\ ~(TrDue > 1) =>
              TrLast'.int /\ TrDue = 1 /\ (TrMore => TrLast'.n # 0 /\ TrDue' = TrPeriod) /\ (~TrMore => TrLast'.n = 0)
         /\ TrLast.n # 0 => TrDue >= 1 /\ TrDue <= TrPeriod
<1> DEFINE i == trM.idx
<1>1. trM.pc \in TrRuns /\ trM.flag = 0 /\ \A k \in 0 .. 2 : ~trTimer[k].int  BY DEF TrSecond, TrRuns, TrQuiet
<1>2. /\ i \in 0 .. 2 /\ trM'.idx = i /\ trM'.test = trM.test /\ trChip' = trChip /\ trMode \in 0 .. 2 /\ TrMine \subseteq 0 .. 2 /\ i \in TrMine
      /\ \A k \in 0 .. 2 : trTimer[k] \in [on : BOOLEAN, per : BOOLEAN, n : 0 .. 2, int : BOOLEAN]
  BY TrFacts DEF TrSecond, TrInv, TrTyped
<1>3. ASSUME NEW k \in TrMine
      PROVE  /\ TrCounts(k) <=> trTimer[k].n > 0 /\ k \notin trChip.dead
             /\ trTimer[k].on /\ trTimer[k].per = (trM.test = "periodical" \/ k # i) /\ (k # i => trTimer[k].n # 0)
  BY <1>1 DEF TrCounts, TrInv, TrSetUp
<1>4. ASSUME NEW k \in 0 .. 2
      PROVE  /\ ~TrClocked(k) => trTimer'[k] = trTimer[k]
             /\ TrClocked(k) => /\ trTimer'[k].n = IF trTimer[k].n > 1 THEN trTimer[k].n - 1
                                                   ELSE IF trTimer[k].per \/ k \in trChip.wraps THEN 2 ELSE 0
                                /\ trTimer'[k].int <=> TrExpires(k) /\ (trMode = 0 \/ k >= trMode)
  <2>1. trTimer[k] \in [on : BOOLEAN, per : BOOLEAN, n : 0 .. 2, int : BOOLEAN] /\ ~trTimer[k].int  BY <1>1, <1>2
  <2>2. trTimer'[k] = IF ~TrClocked(k) THEN trTimer[k]
       ELSE [trTimer[k] EXCEPT !.n = IF @ > 1 THEN @ - 1 ELSE IF trTimer[k].per \/ k \in trChip.wraps THEN 2 ELSE 0,
                               !.int = @ \/ (TrExpires(k) /\ (trMode = 0 \/ k >= trMode))]
    BY DEF TrSecond
  <2>3. CASE TrClocked(k)
    <3> DEFINE n == IF trTimer[k].n > 1 THEN trTimer[k].n - 1 ELSE IF trTimer[k].per \/ k \in trChip.wraps THEN 2 ELSE 0
               int == TrExpires(k) /\ (trMode = 0 \/ k >= trMode)
    <3>1. trTimer'[k] = [trTimer[k] EXCEPT !.n = n, !.int = trTimer[k].int \/ int]  BY <2>2, <2>3
    <3> HIDE DEF n, int
    <3>2. trTimer'[k].n = n /\ trTimer'[k].int = (trTimer[k].int \/ int)  BY <2>1, <3>1
    <3>3. trTimer'[k].int <=> int
      <4>1. CASE int  BY <3>2, <4>1
      <4>2. CASE ~int  BY <2>1, <3>2, <4>2
      <4> QED  BY <4>1, <4>2
    <3> QED  BY <2>3, <3>2, <3>3 DEF n, int
  <2> QED  BY <2>2, <2>3
<1>5. TrMore <=> trTimer[i].per \/ i \in trChip.wraps  BY DEF TrMore, TrLast
<1>6. TrLast = trTimer[i] /\ TrLast' = trTimer'[i]  BY <1>2 DEF TrLast
<1>7. CASE trM.test # "chain"
  <2>1. trMode = 0 /\ TrChained(i) = {} /\ TrMine = {i}  BY <1>1, <1>2, <1>7 DEF TrInv, TrSetUp, TrChained, TrMine
  <2>2. TrClocked(i) <=> TrCounts(i)  BY <2>1 DEF TrClocked
  <2>3. TrExpires(i) <=> TrCounts(i) /\ trTimer[i].n = 1  BY <2>2 DEF TrExpires, TrAtEnd
  <2>4. TrDue = trTimer[i].n /\ TrDue' = trTimer'[i].n /\ TrPeriod = 2  BY <1>2, <1>6, <1>7 DEF TrDue, TrPeriod
  <2>5. TrAlive <=> i \notin trChip.dead  BY <2>1 DEF TrAlive
  <2>6. TrCounts(i) <=> trTimer[i].n > 0 /\ i \notin trChip.dead  BY <1>2, <1>3
  <2>7. trTimer[i].n \in 0 .. 2 /\ ~trTimer[i].int  BY <1>1, <1>2
  <2>8. ~TrAlive => ~TrLast'.int  BY <1>2, <1>4, <1>6, <2>2, <2>5, <2>6, <2>7
  <2>9. TrAlive /\ TrLast.n = 0 => TrLast' = TrLast  BY <1>2, <1>4, <1>6, <2>2, <2>6
  <2>10. TrAlive /\ TrLast.n # 0 /\ TrDue > 1 => ~TrLast'.int /\ TrLast'.n # 0 /\ TrDue' = TrDue - 1
    BY <1>2, <1>4, <1>6, <2>2, <2>3, <2>4, <2>5, <2>6, <2>7
  <2>11. TrAlive /\ TrLast.n # 0 /\ ~(TrDue > 1) =>
           TrLast'.int /\ TrDue = 1 /\ (TrMore => TrLast'.n # 0 /\ TrDue' = TrPeriod) /\ (~TrMore => TrLast'.n = 0)
    BY <1>2, <1>4, <1>5, <1>6, <2>1, <2>2, <2>3, <2>4, <2>5, <2>6, <2>7
  <2>12. TrLast.n # 0 => TrDue >= 1 /\ TrDue <= TrPeriod  BY <1>6, <2>4, <2>7
  <2> QED  BY <2>8, <2>9, <2>10, <2>11, <2>12
<1>8. CASE trM.test = "chain" /\ i = 1
  <2>1. trMode = 1 /\ TrChained(0) = {} /\ TrChained(1) = {0} /\ 0 \in TrMine /\ 1 \in TrMine
    BY <1>1, <1>2, <1>8 DEF TrInv, TrSetUp, TrChained, TrMine
  <2>2. TrClocked(0) <=> TrCounts(0)  BY <2>1 DEF TrClocked
  <2>3. TrClocked(1) <=> TrCounts(1) /\ TrCounts(0) /\ trTimer[0].n = 1  BY <2>1 DEF TrClocked, TrAtEnd
  <2>4. TrExpires(1) <=> TrClocked(1) /\ trTimer[1].n = 1  BY <2>3 DEF TrExpires, TrAtEnd
  <2>5. TrDue = 2 * (trTimer[1].n - 1) + trTimer[0].n /\ TrDue' = 2 * (trTimer'[1].n - 1) + trTimer'[0].n /\ TrPeriod = 4
    BY <1>2, <1>6, <1>8 DEF TrDue, TrPeriod
  <2>6. TrAlive <=> 0 \notin trChip.dead /\ 1 \notin trChip.dead
    <3>1. TrMine = {0, 1}  BY <1>8 DEF TrMine
    <3> QED  BY <3>1 DEF TrAlive
  <2>7. trTimer[0].n \in 1 .. 2 /\ trTimer[1].n \in 0 .. 2 /\ trTimer[0].per /\ ~trTimer[1].int
    BY <1>1, <1>2, <1>3, <1>8, <2>1
  <2>8. (TrCounts(0) <=> 0 \notin trChip.dead) /\ (TrCounts(1) <=> trTimer[1].n > 0 /\ 1 \notin trChip.dead)  BY <1>3, <2>1, <2>7
  <2>9. /\ ~TrClocked(0) => trTimer'[0] = trTimer[0]
        /\ TrClocked(0) => trTimer'[0].n = IF trTimer[0].n > 1 THEN trTimer[0].n - 1 ELSE 2
    BY <1>4, <2>7
  <2>10. /\ ~TrClocked(1) => trTimer'[1] = trTimer[1]
         /\ TrClocked(1) => /\ trTimer'[1].n = IF trTimer[1].n > 1 THEN trTimer[1].n - 1 ELSE IF TrMore THEN 2 ELSE 0
                            /\ trTimer'[1].int <=> trTimer[1].n = 1
    BY <1>4, <1>5, <1>8, <2>1, <2>4
  <2>11. TrLast = trTimer[1] /\ TrLast' = trTimer'[1]  BY <1>6, <1>8
  <2>12. ~TrAlive => ~TrLast'.int  BY <2>3, <2>6, <2>7, <2>8, <2>10, <2>11
  <2>13. TrAlive /\ TrLast.n = 0 => TrLast' = TrLast  BY <2>3, <2>8, <2>10, <2>11
  <2>14. TrAlive /\ TrLast.n # 0 /\ TrDue > 1 => ~TrLast'.int /\ TrLast'.n # 0 /\ TrDue' = TrDue - 1
    BY <2>2, <2>3, <2>5, <2>6, <2>7, <2>8, <2>9, <2>10, <2>11
  <2>15. TrAlive /\ TrLast.n # 0 /\ ~(TrDue > 1) =>
           TrLast'.int /\ TrDue = 1 /\ (TrMore => TrLast'.n # 0 /\ TrDue' = TrPeriod) /\ (~TrMore => TrLast'.n = 0)
    BY <2>2, <2>3, <2>5, <2>6, <2>7, <2>8, <2>9, <2>10, <2>11
  <2>16. TrLast.n # 0 => TrDue >= 1 /\ TrDue <= TrPeriod  BY <2>5, <2>7, <2>11
  <2> QED  BY <2>12, <2>13, <2>14, <2>15, <2>16
<1>9. CASE trM.test = "chain" /\ i = 2
  <2>1. trMode = 2 /\ TrChained(0) = {} /\ TrChained(1) = {0} /\ TrChained(2) = {0, 1} /\ 0 \in TrMine /\ 1 \in TrMine /\ 2 \in TrMine
    BY <1>1, <1>2, <1>9 DEF TrInv, TrSetUp, TrChained, TrMine
  <2>2. TrClocked(0) <=> TrCounts(0)  BY <2>1 DEF TrClocked
  <2>3. TrClocked(1) <=> TrCounts(1) /\ TrCounts(0) /\ trTimer[0].n = 1  BY <2>1 DEF TrClocked, TrAtEnd
  <2>4. TrClocked(2) <=> TrCounts(2) /\ TrCounts(1) /\ trTimer[1].n = 1 /\ TrCounts(0) /\ trTimer[0].n = 1  BY <2>1 DEF TrClocked, TrAtEnd
  <2>5. TrExpires(2) <=> TrClocked(2) /\ trTimer[2].n = 1  BY <2>4 DEF TrExpires, TrAtEnd
  <2>6. /\ TrDue = 4 * (trTimer[2].n - 1) + 2 * (trTimer[1].n - 1) + trTimer[0].n
        /\ TrDue' = 4 * (trTimer'[2].n - 1) + 2 * (trTimer'[1].n - 1) + trTimer'[0].n
        /\ TrPeriod = 8
    BY <1>2, <1>6, <1>9 DEF TrDue, TrPeriod
  <2>7. TrAlive <=> 0 \notin trChip.dead /\ 1 \notin trChip.dead /\ 2 \notin trChip.dead
    <3>1. TrMine = {0, 1, 2}  BY <1>9 DEF TrMine
    <3> QED  BY <3>1 DEF TrAlive
  <2>8. trTimer[0].n \in 1 .. 2 /\ trTimer[1].n \in 1 .. 2 /\ trTimer[2].n \in 0 .. 2 /\ trTimer[0].per /\ trTimer[1].per /\ ~trTimer[2].int
    BY <1>1, <1>2, <1>3, <1>9, <2>1
  <2>9. /\ TrCounts(0) <=> 0 \notin trChip.dead
        /\ TrCounts(1) <=> 1 \notin trChip.dead
        /\ TrCounts(2) <=> trTimer[2].n > 0 /\ 2 \notin trChip.dead
    BY <1>3, <2>1, <2>8
  <2>10. /\ ~TrClocked(0) => trTimer'[0] = trTimer[0]
         /\ TrClocked(0) => trTimer'[0].n = IF trTimer[0].n > 1 THEN trTimer[0].n - 1 ELSE 2
    BY <1>4, <2>8
  <2>11. /\ ~TrClocked(1) => trTimer'[1] = trTimer[1]
         /\ TrClocked(1) => trTimer'[1].n = IF trTimer[1].n > 1 THEN trTimer[1].n - 1 ELSE 2
    BY <1>4, <2>8
  <2>12. /\ ~TrClocked(2) => trTimer'[2] = trTimer[2]
         /\ TrClocked(2) => /\ trTimer'[2].n = IF trTimer[2].n > 1 THEN trTimer[2].n - 1 ELSE IF TrMore THEN 2 ELSE 0
                            /\ trTimer'[2].int <=> trTimer[2].n = 1
    BY <1>4, <1>5, <1>9, <2>1, <2>5
  <2>13. TrLast = trTimer[2] /\ TrLast' = trTimer'[2]  BY <1>6, <1>9
  <2>14. ~TrAlive => ~TrLast'.int  BY <2>4, <2>7, <2>8, <2>9, <2>12, <2>13
  <2>15. TrAlive /\ TrLast.n = 0 => TrLast' = TrLast  BY <2>4, <2>9, <2>12, <2>13
  <2>16. TrAlive /\ TrLast.n # 0 /\ TrDue > 1 => ~TrLast'.int /\ TrLast'.n # 0 /\ TrDue' = TrDue - 1
    BY <2>2, <2>3, <2>4, <2>6, <2>7, <2>8, <2>9, <2>10, <2>11, <2>12, <2>13
  <2>17. TrAlive /\ TrLast.n # 0 /\ ~(TrDue > 1) =>
           TrLast'.int /\ TrDue = 1 /\ (TrMore => TrLast'.n # 0 /\ TrDue' = TrPeriod) /\ (~TrMore => TrLast'.n = 0)
    BY <2>2, <2>3, <2>4, <2>6, <2>7, <2>8, <2>9, <2>10, <2>11, <2>12, <2>13
  <2>18. TrLast.n # 0 => TrDue >= 1 /\ TrDue <= TrPeriod  BY <2>6, <2>8, <2>13
  <2> QED  BY <2>14, <2>15, <2>16, <2>17, <2>18
<1>10. trM.test = "chain" => i = 1 \/ i = 2  BY <1>1, <1>2 DEF TrInv, TrSetUp
<1> QED  BY <1>7, <1>8, <1>9, <1>10

LEMMA TrSecondStep == TrInv /\ TrSecond => TrInv'
<1> SUFFICES ASSUME TrInv, TrSecond PROVE TrInv'
  OBVIOUS
<1>1. /\ trM.pc \in TrRuns /\ trM.flag = 0 /\ \A k \in 0 .. 2 : ~trTimer[k].int
      /\ trMode' = trMode /\ trIrq' = trIrq /\ trChip' = trChip
  BY DEF TrSecond, TrRuns, TrQuiet
<1>2. \/ trM.pc \in {"wait", "again"} /\ trM' = [trM EXCEPT !.wait = @ - 1, !.age = @ + 1]
      \/ trM.pc \notin {"wait", "again"} /\ trM.early > 0 /\ trM' = [trM EXCEPT !.early = @ - 1, !.age = @ + 1]
  BY DEF TrSecond
<1>3. /\ trM'.pc = trM.pc /\ trM'.test = trM.test /\ trM'.idx = trM.idx /\ trM'.chain = trM.chain /\ trM'.flag = 0 /\ trM'.sec = trM.sec
      /\ trM'.err = trM.err /\ trM'.age = trM.age + 1
      /\ trM.pc \in {"wait", "again"} => trM'.wait = trM.wait - 1 /\ trM'.early = trM.early
      /\ trM.pc \notin {"wait", "again"} => trM'.early = trM.early - 1
  BY <1>1, <1>2 DEF TrInv, TrTyped
<1>4. /\ trTimer' \in [0 .. 2 -> [on : BOOLEAN, per : BOOLEAN, n : 0 .. 2, int : BOOLEAN]]
      /\ \A k \in 0 .. 2 : k \notin TrMine => trTimer'[k] = TrOff
      /\ \A k \in TrMine : trTimer'[k].on /\ trTimer'[k].per = trTimer[k].per /\ (k \in trChip.dead => trTimer'[k].n = 2)
      /\ \A k \in TrMine : k # trM.idx => ~trTimer'[k].int /\ trTimer'[k].n # 0
  BY TrPasses
<1>5. /\ ~TrAlive => ~TrLast'.int
      /\ TrAlive /\ TrLast.n = 0 => TrLast' = TrLast
      /\ TrAlive /\ TrLast.n # 0 /\ TrDue > 1 => ~TrLast'.int /\ TrLast'.n # 0 /\ TrDue' = TrDue - 1
      /\ TrAlive /\ TrLast.n # 0 /\ ~(TrDue > 1) =>
           TrLast'.int /\ TrDue = 1 /\ (TrMore => TrLast'.n # 0 /\ TrDue' = TrPeriod) /\ (~TrMore => TrLast'.n = 0)
  BY TrComes
<1>6. /\ trM.idx \in 0 .. 2 /\ trM.wait \in Int /\ trM.age \in Int /\ trM.early \in Int /\ trEarly \in Int /\ trM.sec \in Int
      /\ TrMine \subseteq 0 .. 2 /\ trM.idx \in TrMine /\ TrLast.n \in 0 .. 2 /\ TrPeriod \in Int /\ TrDue \in Int
  BY TrFacts
<1>7. TrMine' = TrMine /\ TrAlive' = TrAlive /\ TrPeriod' = TrPeriod /\ TrGood' = TrGood
  <2>1. TrMine' = TrMine  BY <1>3 DEF TrMine
  <2>2. TrAlive' = TrAlive  BY <1>1, <2>1 DEF TrAlive
  <2>3. TrPeriod' = TrPeriod  BY <1>3 DEF TrPeriod
  <2>4. TrGood' = TrGood  BY <1>1, <1>3 DEF TrGood
  <2> QED  BY <2>1, <2>2, <2>3, <2>4
<1>8. TrMore' = TrMore
  <2>1. TrLast'.per = TrLast.per  BY <1>3, <1>4, <1>6 DEF TrLast
  <2> QED  BY <1>1, <1>3, <2>1 DEF TrMore
<1>9. ~TrLast.int /\ TrStill /\ (TrStill' <=> ~TrLast'.int)  BY <1>1, <1>3, <1>6 DEF TrLast, TrStill
<1>10. TrTyped'
  <2>1. trM' \in [pc : {"off", "idle", "menu", "end"} \cup TrRuns, test : {"none", "free", "periodical", "chain"}, idx : 0 .. 2, chain : 0 .. 2,
                  flag : {0, 1}, sec : Int, wait : Int, err : {0, -1}, age : Int, early : Int, tests : Int]
    <3>1. trM.wait - 1 \in Int /\ trM.age + 1 \in Int /\ trM.early - 1 \in Int  BY <1>6
    <3>2. CASE trM.pc \in {"wait", "again"}
      <4>1. trM' = [trM EXCEPT !.wait = trM.wait - 1, !.age = trM.age + 1]  BY <1>2, <3>2
      <4> QED  BY <3>1, <4>1 DEF TrInv, TrTyped
    <3>3. CASE trM.pc \notin {"wait", "again"}
      <4>1. trM' = [trM EXCEPT !.early = trM.early - 1, !.age = trM.age + 1]  BY <1>2, <3>3
      <4> QED  BY <3>1, <4>1 DEF TrInv, TrTyped
    <3> QED  BY <3>2, <3>3
  <2> QED  BY <1>1, <1>4, <2>1 DEF TrInv, TrTyped
<1>11. TrResting'  BY <1>1, <1>3 DEF TrResting
<1>12. TrSetUp'
  <2>1. \A k \in TrMine : trTimer'[k].on /\ trTimer'[k].per = (trM.test = "periodical" \/ k # trM.idx)
    BY <1>1, <1>4 DEF TrInv, TrSetUp
  <2>2. trM'.early <= trEarly /\ (trM.pc = "wait" => trM'.early = trEarly)
    BY <1>1, <1>3, <1>6 DEF TrInv, TrSetUp
  <2> QED  BY <1>1, <1>3, <1>4, <1>7, <2>1, <2>2 DEF TrInv, TrSetUp
<1>13. TrNever'  BY <1>1, <1>3, <1>5, <1>7, <1>9 DEF TrInv, TrNever
<1>14. TrFirst'
  <2> SUFFICES ASSUME trM.pc = "wait", TrAlive
               PROVE  /\ TrStill' => TrLast'.n # 0 /\ trM'.age = TrPeriod - TrDue'
                                     /\ trM'.wait = (IF trM.test # "chain" THEN 5 ELSE 5 + 5 * trM.idx) - trM'.age
                      /\ ~TrStill' => /\ TrLast'.int <=> trM'.flag = 0
                                      /\ trM'.age = TrPeriod /\ (TrMore => TrLast'.n # 0 /\ TrDue' = TrPeriod) /\ (~TrMore => TrLast'.n = 0)
                      /\ trM'.sec = IF trM'.flag = 1 THEN TrPeriod ELSE 0
    BY <1>3, <1>7, <1>8 DEF TrFirst
  <2> DEFINE w == IF trM.test # "chain" THEN 5 ELSE 5 + 5 * trM.idx
  <2>1. TrLast.n # 0 /\ trM.age = TrPeriod - TrDue /\ trM.wait = w - trM.age /\ trM.sec = 0
    BY <1>1, <1>9 DEF TrInv, TrFirst
  <2>2. w \in Int  BY <1>6
  <2> HIDE DEF w
  <2>3. trM'.wait = w - trM'.age  BY <1>3, <1>6, <2>1, <2>2
  <2>4. trM'.sec = IF trM'.flag = 1 THEN TrPeriod ELSE 0  BY <1>3, <2>1
  <2>5. CASE TrDue > 1
    <3>1. TrStill' /\ TrLast'.n # 0 /\ TrDue' = TrDue - 1  BY <1>5, <1>9, <2>1, <2>5
    <3>2. trM'.age = TrPeriod - TrDue'  BY <1>3, <1>6, <2>1, <3>1
    <3> QED  BY <2>3, <2>4, <3>1, <3>2 DEF w
  <2>6. CASE ~(TrDue > 1)
    <3>1. TrLast'.int /\ ~TrStill' /\ TrDue = 1 /\ (TrMore => TrLast'.n # 0 /\ TrDue' = TrPeriod) /\ (~TrMore => TrLast'.n = 0)
      BY <1>5, <1>9, <2>1, <2>6
    <3>2. trM'.age = TrPeriod  BY <1>3, <1>6, <2>1, <3>1
    <3> QED  BY <1>3, <2>4, <3>1, <3>2
  <2> QED  BY <2>5, <2>6
<1>15. TrTimes'
  <2> SUFFICES ASSUME trM.pc \in {"told", "again", "twice"}, TrAlive PROVE TrTimes'
    BY <1>3, <1>7 DEF TrTimes
  <2>1. (TrMore => TrLast.n # 0) /\ (~TrMore => TrLast.n = 0 /\ trM.pc # "twice")  BY DEF TrInv, TrTimes
  <2>2. (TrMore => TrLast'.n # 0) /\ (~TrMore => TrLast'.n = 0 /\ TrStill')
    BY <1>5, <1>9, <2>1
  <2>3. CASE trM.pc # "again"
    <3>1. trM'.early # trEarly  BY <1>1, <1>3, <1>6, <2>3 DEF TrInv, TrSetUp
    <3> QED  BY <1>3, <1>8, <2>1, <2>2, <2>3, <3>1 DEF TrTimes
  <2>4. CASE trM.pc = "again"
    <3>1. TrMore => trM.wait >= TrDue /\ (trM.early = trEarly => trM.sec = 2 /\ trM.age = 4 - TrDue)
      BY <1>9, <2>4 DEF TrInv, TrTimes
    <3>2. TrPeriod = 2  BY <1>1, <2>4 DEF TrInv, TrSetUp, TrPeriod
    <3>3. TrMore /\ TrDue > 1 => TrStill' /\ trM'.wait >= TrDue' /\ (trM'.early = trEarly => trM'.sec = 2 /\ trM'.age = 4 - TrDue')
      BY <1>3, <1>5, <1>6, <1>9, <2>1, <2>4, <3>1
    <3>4. TrMore /\ ~(TrDue > 1) => ~TrStill' /\ TrLast'.int /\ (trM'.early = trEarly => trM'.sec = 2 /\ trM'.age = 4)
      BY <1>3, <1>5, <1>6, <1>9, <2>1, <2>4, <3>1
    <3>5. /\ TrMore /\ TrStill' => trM'.wait >= TrDue'
          /\ trM'.early = trEarly /\ TrStill' /\ TrMore => trM'.sec = 2 /\ trM'.age = 4 - TrDue'
          /\ trM'.early = trEarly /\ ~TrStill' => TrLast'.int /\ trM'.age = 4 /\ trM'.sec = 2
      BY <2>2, <3>3, <3>4
    <3> QED  BY <1>3, <1>8, <2>2, <2>4, <3>5 DEF TrTimes
  <2> QED  BY <2>3, <2>4
<1>16. TrVerdict'  BY <1>3, <1>7 DEF TrInv, TrVerdict
<1>17. TimerRight'
  <2>1. trM'.pc # "end"  BY <1>1, <1>3 DEF TrRuns
  <2>2. trM'.pc \in {"told", "twice"} => trM'.early # trEarly  BY <1>1, <1>3, <1>6 DEF TrInv, TrSetUp
  <2> QED  BY <2>1, <2>2 DEF TimerRight
<1> QED  BY <1>10, <1>11, <1>12, <1>13, <1>14, <1>15, <1>16, <1>17 DEF TrInv

LEMMA TrServes ==
  ASSUME TrInv, NEW k \in 0 .. 2, NEW sec, trTimer[k].int, sec = IF k = 0 \/ trM.chain # k THEN trM.sec + 2 ELSE 4 * k, TrHandler(k, sec)
  PROVE  TrInv'
<1>1. trM.pc \in TrRuns  BY DEF TrInv, TrResting, TrOff
<1>2. k = trM.idx /\ k \in TrMine
  <2>1. k \in TrMine  BY <1>1 DEF TrInv, TrSetUp, TrOff
  <2> QED  BY <1>1, <2>1 DEF TrInv, TrSetUp
<1>3. /\ trM.idx \in 0 .. 2 /\ trM.sec \in Int /\ trM.age \in Int /\ TrMine \subseteq 0 .. 2 /\ trM.test \in {"none", "free", "periodical", "chain"}
      /\ \A j \in 0 .. 2 : trTimer[j] \in [on : BOOLEAN, per : BOOLEAN, n : 0 .. 2, int : BOOLEAN]
      /\ trM.chain \in 0 .. 2
  BY TrFacts
<1>4. trMode' = trMode /\ trIrq' = trIrq /\ trChip' = trChip /\ trM' = [trM EXCEPT !.flag = 1, !.sec = sec]
      /\ trTimer' = [trTimer EXCEPT ![k].int = FALSE]
  BY DEF TrHandler, TrServed
<1>5. sec = (IF trM.test # "chain" THEN trM.sec + 2 ELSE TrPeriod) /\ sec \in Int
  <2>1. trM.chain = (IF trM.test = "chain" THEN trM.idx ELSE 0) /\ (trM.test = "chain" => trM.idx # 0)  BY <1>1 DEF TrInv, TrSetUp
  <2> QED  BY <1>2, <1>3, <2>1 DEF TrPeriod
<1>6. /\ trM'.pc = trM.pc /\ trM'.test = trM.test /\ trM'.idx = trM.idx /\ trM'.chain = trM.chain /\ trM'.flag = 1 /\ trM'.sec = sec
      /\ trM'.err = trM.err /\ trM'.age = trM.age /\ trM'.wait = trM.wait /\ trM'.early = trM.early
  BY <1>4 DEF TrInv, TrTyped
<1>7. trTimer' = [trTimer EXCEPT ![k] = [trTimer[k] EXCEPT !.int = FALSE]]  BY <1>4
<1>8. /\ trTimer' \in [0 .. 2 -> [on : BOOLEAN, per : BOOLEAN, n : 0 .. 2, int : BOOLEAN]]
      /\ \A j \in 0 .. 2 : j # k => trTimer'[j] = trTimer[j]
      /\ trTimer'[k] = [on |-> trTimer[k].on, per |-> trTimer[k].per, n |-> trTimer[k].n, int |-> FALSE]
  <2> DEFINE f == FALSE
             t == [trTimer[k] EXCEPT !.int = f]
  <2>0. f \in BOOLEAN /\ f = FALSE  OBVIOUS
  <2> HIDE DEF f
  <2>1. t = [on |-> trTimer[k].on, per |-> trTimer[k].per, n |-> trTimer[k].n, int |-> f]
    <3>1. trTimer[k] \in [on : BOOLEAN, per : BOOLEAN, n : 0 .. 2, int : BOOLEAN]  BY <1>3
    <3> QED  BY <3>1
  <2>2. t \in [on : BOOLEAN, per : BOOLEAN, n : 0 .. 2, int : BOOLEAN]  BY <1>3, <2>0, <2>1
  <2>3. trTimer' = [trTimer EXCEPT ![k] = t]  BY <1>7, <2>0
  <2> HIDE DEF t
  <2>4. trTimer \in [0 .. 2 -> [on : BOOLEAN, per : BOOLEAN, n : 0 .. 2, int : BOOLEAN]]  BY DEF TrInv, TrTyped
  <2> QED  BY <2>0, <2>1, <2>2, <2>3, <2>4
<1>9. \A j \in 0 .. 2 : trTimer'[j].n = trTimer[j].n /\ trTimer'[j].on = trTimer[j].on /\ trTimer'[j].per = trTimer[j].per  BY <1>8
<1>10. /\ TrMine' = TrMine /\ TrAlive' = TrAlive /\ TrPeriod' = TrPeriod /\ TrGood' = TrGood /\ TrMore' = TrMore /\ TrDue' = TrDue
       /\ TrLast'.n = TrLast.n /\ ~TrLast'.int /\ ~TrStill' /\ TrLast.int
  <2>1. TrMine' = TrMine  BY <1>6 DEF TrMine
  <2>2. TrAlive' = TrAlive  BY <1>4, <2>1 DEF TrAlive
  <2>3. TrPeriod' = TrPeriod /\ TrGood' = TrGood  BY <1>4, <1>6 DEF TrPeriod, TrGood
  <2>4. TrLast'.n = TrLast.n /\ TrLast'.per = TrLast.per /\ ~TrLast'.int /\ TrLast.int  BY <1>2, <1>6, <1>8, <1>9 DEF TrLast
  <2>5. TrMore' = TrMore  BY <1>4, <1>6, <2>4 DEF TrMore
  <2>6. TrDue' = TrDue  BY <1>6, <1>9, <2>4 DEF TrDue
  <2>7. ~TrStill'  BY <1>6 DEF TrStill
  <2> QED  BY <2>1, <2>2, <2>3, <2>4, <2>5, <2>6, <2>7
<1>11. TrTyped'
  <2>1. trM' \in [pc : {"off", "idle", "menu", "end"} \cup TrRuns, test : {"none", "free", "periodical", "chain"}, idx : 0 .. 2, chain : 0 .. 2,
                  flag : {0, 1}, sec : Int, wait : Int, err : {0, -1}, age : Int, early : Int, tests : Int]
    BY <1>4, <1>5 DEF TrInv, TrTyped
  <2> QED  BY <1>4, <1>8, <2>1 DEF TrInv, TrTyped
<1>12. TrResting'  BY <1>1, <1>6 DEF TrResting
<1>13. TrSetUp'
  <2>1. \A j \in 0 .. 2 : j \notin TrMine => trTimer'[j] = TrOff  BY <1>1, <1>2, <1>8 DEF TrInv, TrSetUp
  <2>2. \A j \in TrMine : trTimer'[j].on /\ trTimer'[j].per = (trM.test = "periodical" \/ j # trM.idx) /\ (j \in trChip.dead => trTimer'[j].n = 2)
    BY <1>1, <1>3, <1>9 DEF TrInv, TrSetUp
  <2>3. \A j \in TrMine : j # trM.idx => ~trTimer'[j].int /\ trTimer'[j].n # 0  BY <1>1, <1>2, <1>3, <1>8 DEF TrInv, TrSetUp
  <2> QED  BY <1>1, <1>4, <1>6, <1>10, <2>1, <2>2, <2>3 DEF TrInv, TrSetUp
<1>14. TrAlive  BY <1>1, <1>10 DEF TrInv, TrNever, TrStill
<1>15. TrNever'  BY <1>10, <1>14 DEF TrNever
<1>16. TrFirst'
  <2> SUFFICES ASSUME trM.pc = "wait" PROVE TrFirst'  BY <1>6 DEF TrFirst
  <2>1. /\ trM.flag = 0 /\ trM.sec = 0 /\ trM.age = TrPeriod
        /\ (TrMore => TrLast.n # 0 /\ TrDue = TrPeriod) /\ (~TrMore => TrLast.n = 0)
    BY <1>10, <1>14 DEF TrInv, TrFirst, TrStill
  <2>2. trM'.sec = TrPeriod  BY <1>5, <1>6, <2>1 DEF TrPeriod
  <2> QED  BY <1>6, <1>10, <2>1, <2>2 DEF TrFirst
<1>17. TrTimes'
  <2> SUFFICES ASSUME trM.pc \in {"told", "again", "twice"} PROVE TrTimes'  BY <1>6 DEF TrTimes
  <2>1. ~TrStill  BY <1>10 DEF TrStill
  <2>2. TrMore /\ TrLast.n # 0  BY <1>14, <2>1 DEF TrInv, TrTimes
  <2>3. trM.pc \in {"told", "twice"} => trM.early # trEarly  BY <1>14, <2>1 DEF TrInv, TrTimes
  <2>4. trM.pc = "again" /\ trM.early = trEarly => trM.age = 4 /\ trM'.sec = 4
    <3> SUFFICES ASSUME trM.pc = "again", trM.early = trEarly PROVE trM.age = 4 /\ trM'.sec = 4
      OBVIOUS
    <3>1. trM.age = 4 /\ trM.sec = 2  BY <1>10, <1>14, <2>1 DEF TrInv, TrTimes
    <3>2. trM.test # "chain"  BY <1>1 DEF TrInv, TrSetUp
    <3> QED  BY <1>5, <1>6, <3>1, <3>2
  <2> QED  BY <1>6, <1>10, <2>2, <2>3, <2>4 DEF TrTimes
<1>18. TrVerdict'  BY <1>6, <1>10 DEF TrInv, TrVerdict
<1>19. TimerRight'
  <2>1. trM'.pc # "end"  BY <1>1, <1>6 DEF TrRuns
  <2>2. trM.pc \in {"told", "twice"} => trM.early # trEarly  BY <1>10, <1>14 DEF TrInv, TrTimes, TrStill
  <2> QED  BY <1>6, <2>1, <2>2 DEF TimerRight
<1> QED  BY <1>11, <1>12, <1>13, <1>15, <1>16, <1>17, <1>18, <1>19 DEF TrInv

LEMMA TrServesAny == TrInv /\ (socle_timer_isr_0 \/ socle_timer_isr_1 \/ socle_timer_isr_2) => TrInv'
<1> SUFFICES ASSUME TrInv, socle_timer_isr_0 \/ socle_timer_isr_1 \/ socle_timer_isr_2 PROVE TrInv'
  OBVIOUS
<1>1. trM.chain \in 0 .. 2  BY TrFacts
<1>2. CASE socle_timer_isr_0
  <2> DEFINE k == 0
             sec == trM.sec + 2
  <2>1. TrHandler(k, sec)  BY <1>2 DEF socle_timer_isr_0
  <2>2. k \in 0 .. 2 /\ sec = IF k = 0 \/ trM.chain # k THEN trM.sec + 2 ELSE 4 * k  OBVIOUS
  <2> HIDE DEF k, sec
  <2>3. trTimer[k].int  BY <2>1 DEF TrHandler
  <2> QED  BY <2>1, <2>2, <2>3, TrServes
<1>3. CASE socle_timer_isr_1
  <2> DEFINE k == 1
             sec == IF trM.chain = 1 THEN 4 ELSE trM.sec + 2
  <2>1. TrHandler(k, sec)  BY <1>3 DEF socle_timer_isr_1
  <2>2. k \in 0 .. 2 /\ sec = IF k = 0 \/ trM.chain # k THEN trM.sec + 2 ELSE 4 * k  OBVIOUS
  <2> HIDE DEF k, sec
  <2>3. trTimer[k].int  BY <2>1 DEF TrHandler
  <2> QED  BY <2>1, <2>2, <2>3, TrServes
<1>4. CASE socle_timer_isr_2
  <2> DEFINE k == 2
             sec == IF trM.chain = 2 THEN 8 ELSE trM.sec + 2
  <2>1. TrHandler(k, sec)  BY <1>4 DEF socle_timer_isr_2
  <2>2. k \in 0 .. 2 /\ sec = IF k = 0 \/ trM.chain # k THEN trM.sec + 2 ELSE 4 * k  OBVIOUS
  <2> HIDE DEF k, sec
  <2>3. trTimer[k].int  BY <2>1 DEF TrHandler
  <2> QED  BY <2>1, <2>2, <2>3, TrServes
<1> QED  BY <1>2, <1>3, <1>4

LEMMA TrBegun ==
  ASSUME TrInv, trM.pc = "menu", NEW test \in {"free", "periodical", "chain"}, NEW idx \in 0 .. 2, NEW chain \in 0 .. 2, NEW wait \in Int,
         TrBegins(test, idx, chain, wait), trMode' = chain, chain = (IF test = "chain" THEN idx ELSE 0), test = "chain" => idx # 0,
         wait = (IF test # "chain" THEN 5 ELSE 5 + 5 * idx),
         trTimer' = [k \in 0 .. 2 |-> IF k = idx \/ (test = "chain" /\ k < idx) THEN TrLoaded(test = "periodical" \/ k # idx, 2) ELSE TrOff]
  PROVE  TrInv'
<1>1. /\ trM' = [trM EXCEPT !.pc = "wait", !.test = test, !.idx = idx, !.chain = chain, !.flag = 0, !.sec = 0, !.wait = wait,
                            !.err = 0, !.age = 0, !.early = trEarly, !.tests = trM.tests - 1]
      /\ trIrq' = trIrq /\ trChip' = trChip /\ trM.tests \in Int /\ trEarly \in Int
  BY TrFacts DEF TrBegins
<1>2. /\ trM'.pc = "wait" /\ trM'.test = test /\ trM'.idx = idx /\ trM'.chain = chain /\ trM'.flag = 0 /\ trM'.sec = 0 /\ trM'.wait = wait
      /\ trM'.err = 0 /\ trM'.age = 0 /\ trM'.early = trEarly /\ trM'.tests = trM.tests - 1
  BY <1>1 DEF TrInv, TrTyped
<1>13. trM' \in [pc : {"off", "idle", "menu", "end"} \cup TrRuns, test : {"none", "free", "periodical", "chain"}, idx : 0 .. 2, chain : 0 .. 2,
                  flag : {0, 1}, sec : Int, wait : Int, err : {0, -1}, age : Int, early : Int, tests : Int]
  <2>1. trM.tests - 1 \in Int /\ "wait" \in TrRuns  BY <1>1 DEF TrRuns
  <2>2. trM' = [pc |-> "wait", test |-> test, idx |-> idx, chain |-> chain, flag |-> 0, sec |-> 0,
                wait |-> wait, err |-> 0, age |-> 0, early |-> trEarly, tests |-> trM.tests - 1]
    BY <1>1 DEF TrInv, TrTyped
  <2>3. 0 \in {0, 1} /\ 0 \in {0, -1} /\ 0 \in Int /\ test \in {"none", "free", "periodical", "chain"}
        /\ "wait" \in {"off", "idle", "menu", "end"} \cup TrRuns
    BY <2>1
  <2> QED  BY <1>1, <2>1, <2>2, <2>3
<1>3. TrMine' = {k \in 0 .. 2 : k = idx \/ (test = "chain" /\ k < idx)}  BY <1>2 DEF TrMine
<1>4. /\ trTimer' \in [0 .. 2 -> [on : BOOLEAN, per : BOOLEAN, n : 0 .. 2, int : BOOLEAN]]
      /\ \A k \in 0 .. 2 : k \notin TrMine' => trTimer'[k] = TrOff
      /\ \A k \in TrMine' : trTimer'[k].on /\ trTimer'[k].n = 2 /\ ~trTimer'[k].int
      /\ \A k \in TrMine' : trTimer'[k].per = (trM'.test = "periodical" \/ k # trM'.idx)
  <2>1. \A k \in 0 .. 2 : TrLoaded(test = "periodical" \/ k # idx, 2) \in [on : BOOLEAN, per : BOOLEAN, n : 0 .. 2, int : BOOLEAN]
    BY DEF TrLoaded
  <2>2. TrOff \in [on : BOOLEAN, per : BOOLEAN, n : 0 .. 2, int : BOOLEAN]  BY DEF TrOff
  <2>3. \A k \in TrMine' : k \in 0 .. 2 /\ trTimer'[k] = TrLoaded(test = "periodical" \/ k # idx, 2)  BY <1>3
  <2>4. \A per \in BOOLEAN : TrLoaded(per, 2).on /\ TrLoaded(per, 2).per = per /\ TrLoaded(per, 2).n = 2 /\ ~TrLoaded(per, 2).int
    BY DEF TrLoaded
  <2>5. \A k \in TrMine' : trTimer'[k].on /\ trTimer'[k].n = 2 /\ ~trTimer'[k].int  BY <2>3, <2>4
  <2>6. \A k \in TrMine' : trTimer'[k].per = (trM'.test = "periodical" \/ k # trM'.idx)
    <3> SUFFICES ASSUME NEW k \in TrMine' PROVE trTimer'[k].per = (trM'.test = "periodical" \/ k # trM'.idx)
      OBVIOUS
    <3> DEFINE per == trM'.test = "periodical" \/ k # trM'.idx
    <3>1. trTimer'[k] = TrLoaded(per, 2) /\ per \in BOOLEAN  BY <1>2, <2>3
    <3> HIDE DEF per
    <3>2. trTimer'[k].per = per  BY <2>4, <3>1
    <3> QED  BY <3>2 DEF per
  <2> QED  BY <1>3, <2>1, <2>2, <2>5, <2>6
<1>5. idx \in TrMine' /\ (test = "chain" /\ idx = 1 => 0 \in TrMine') /\ (test = "chain" /\ idx = 2 => 0 \in TrMine' /\ 1 \in TrMine')  BY <1>3
<1>6. TrLast'.n = 2 /\ ~TrLast'.int /\ TrStill'  BY <1>2, <1>4, <1>5 DEF TrLast, TrStill
<1>7. TrDue' = TrPeriod' /\ TrPeriod' \in Int
  <2>1. CASE test # "chain"  BY <1>2, <1>6, <2>1 DEF TrDue, TrPeriod
  <2>2. CASE test = "chain" /\ idx = 1  BY <1>2, <1>4, <1>5, <1>6, <2>2 DEF TrDue, TrPeriod
  <2>3. CASE test = "chain" /\ idx = 2  BY <1>2, <1>4, <1>5, <1>6, <2>3 DEF TrDue, TrPeriod
  <2> QED  BY <2>1, <2>2, <2>3
<1>8. TrTyped'  BY <1>1, <1>4, <1>13 DEF TrInv, TrTyped
<1>9. TrResting' /\ TrTimes' /\ TrVerdict' /\ TimerRight'  BY <1>2 DEF TrResting, TrTimes, TrVerdict, TimerRight, TrRuns
<1>10. TrSetUp'
  <2>1. \A k \in TrMine' : trTimer'[k].n # 0  BY <1>4
  <2>2. trM'.test # "none" /\ trMode' = trM'.chain /\ trM'.chain = (IF trM'.test = "chain" THEN trM'.idx ELSE 0)
        /\ (trM'.test = "chain" => trM'.idx # 0)
    BY <1>2
  <2>3. trM'.early <= trEarly /\ trM'.early = trEarly /\ trM'.err = 0 /\ trM'.pc \notin {"again", "twice"}  BY <1>1, <1>2
  <2> QED  BY <1>4, <2>1, <2>2, <2>3 DEF TrSetUp
<1>11. TrNever'  BY <1>2, <1>6 DEF TrNever
<1>12. TrFirst'
  <2> DEFINE p == TrPeriod'
             d == TrDue'
  <2>0. d = p /\ p \in Int  BY <1>7
  <2> HIDE DEF p, d
  <2>3. p - d = 0 /\ wait - 0 = wait  BY <2>0
  <2>1. trM'.age = TrPeriod' - TrDue' /\ trM'.wait = wait - trM'.age  BY <1>2, <2>3 DEF p, d
  <2> QED  BY <1>2, <1>6, <2>1 DEF TrFirst
<1> QED  BY <1>8, <1>9, <1>10, <1>11, <1>12 DEF TrInv

LEMMA TrTests ==
  TrInv /\ (socle_timer_cnt_free_running \/ socle_timer_cnt_periodical \/ socle_timer_mode_1 \/ socle_timer_mode_2) => TrInv'
<1> SUFFICES ASSUME TrInv, socle_timer_cnt_free_running \/ socle_timer_cnt_periodical \/ socle_timer_mode_1 \/ socle_timer_mode_2 PROVE TrInv'
  OBVIOUS
<1>1. trM.pc = "menu"
  BY DEF socle_timer_cnt_free_running, socle_timer_cnt_periodical, socle_timer_mode_1, socle_timer_mode_2, TrBegins
<1>2. trTimer = [k \in 0 .. 2 |-> TrOff]
  <2>1. trTimer = [k \in 0 .. 2 |-> trTimer[k]]  BY DEF TrInv, TrTyped
  <2>2. \A k \in 0 .. 2 : trTimer[k] = TrOff  BY <1>1 DEF TrInv, TrResting, TrRuns
  <2> QED  BY <2>1, <2>2
<1> DEFINE Loads(test, idx) == [k \in 0 .. 2 |-> IF k = idx \/ (test = "chain" /\ k < idx) THEN TrLoaded(test = "periodical" \/ k # idx, 2) ELSE TrOff]
<1>3. CASE socle_timer_cnt_free_running
  <2>1. PICK i \in 0 .. 2 : TrBegins("free", i, 0, 5) /\ trMode' = 0 /\ trTimer' = [trTimer EXCEPT ![i] = TrLoaded(FALSE, 2)]
    BY <1>3 DEF socle_timer_cnt_free_running, TrModeOfOne
  <2>2. trTimer' = [k \in 0 .. 2 |-> IF k = i THEN TrLoaded(FALSE, 2) ELSE TrOff]  BY <1>2, <2>1
  <2>3. \A k \in 0 .. 2 : (k = i \/ ("free" = "chain" /\ k < i)) = (k = i) /\ (k = i => ("free" = "periodical" \/ k # i) = FALSE)  OBVIOUS
  <2>4. trTimer' = Loads("free", i)  BY <2>2, <2>3
  <2> DEFINE chain == 0
             wait == 5
             test == "free"
  <2>5. /\ chain \in 0 .. 2 /\ wait \in Int /\ test \in {"free", "periodical", "chain"} /\ chain = (IF test = "chain" THEN i ELSE 0)
        /\ wait = (IF test # "chain" THEN 5 ELSE 5 + 5 * i) /\ (test = "chain" => i # 0)
    OBVIOUS
  <2>6. TrBegins(test, i, chain, wait) /\ trMode' = chain /\ trTimer' = Loads(test, i)  BY <2>1, <2>4
  <2> HIDE DEF chain, wait, test
  <2> QED  BY <1>1, <2>5, <2>6, TrBegun
<1>4. CASE socle_timer_cnt_periodical
  <2>1. PICK i \in 0 .. 2 : TrBegins("periodical", i, 0, 5) /\ trMode' = 0 /\ trTimer' = [trTimer EXCEPT ![i] = TrLoaded(TRUE, 2)]
    BY <1>4 DEF socle_timer_cnt_periodical, TrModeOfOne
  <2>2. trTimer' = [k \in 0 .. 2 |-> IF k = i THEN TrLoaded(TRUE, 2) ELSE TrOff]  BY <1>2, <2>1
  <2>3. \A k \in 0 .. 2 : (k = i \/ ("periodical" = "chain" /\ k < i)) = (k = i) /\ (k = i => ("periodical" = "periodical" \/ k # i) = TRUE)  OBVIOUS
  <2>4. trTimer' = Loads("periodical", i)  BY <2>2, <2>3
  <2> DEFINE chain == 0
             wait == 5
             test == "periodical"
  <2>5. /\ chain \in 0 .. 2 /\ wait \in Int /\ test \in {"free", "periodical", "chain"} /\ chain = (IF test = "chain" THEN i ELSE 0)
        /\ wait = (IF test # "chain" THEN 5 ELSE 5 + 5 * i) /\ (test = "chain" => i # 0)
    OBVIOUS
  <2>6. TrBegins(test, i, chain, wait) /\ trMode' = chain /\ trTimer' = Loads(test, i)  BY <2>1, <2>4
  <2> HIDE DEF chain, wait, test
  <2> QED  BY <1>1, <2>5, <2>6, TrBegun
<1>5. CASE socle_timer_mode_1
  <2> DEFINE i == 1
             chain == 1
             wait == 10
             test == "chain"
  <2>1. TrBegins(test, i, chain, wait) /\ trMode' = chain /\ trTimer' = [trTimer EXCEPT ![0] = TrLoaded(TRUE, 2), ![1] = TrLoaded(FALSE, 2)]
    BY <1>5 DEF socle_timer_mode_1
  <2>2. trTimer' = [k \in 0 .. 2 |-> IF k = 0 THEN TrLoaded(TRUE, 2) ELSE IF k = 1 THEN TrLoaded(FALSE, 2) ELSE TrOff]
    <3> DEFINE a == TrLoaded(TRUE, 2)
               b == TrLoaded(FALSE, 2)
    <3>1. trTimer' = [trTimer EXCEPT ![0] = a, ![1] = b]  BY <2>1
    <3> HIDE DEF a, b
    <3> DEFINE g == [k \in 0 .. 2 |-> IF k = 0 THEN a ELSE TrOff]
    <3>2. [trTimer EXCEPT ![0] = a] = g  BY <1>2
    <3>3. trTimer' = [g EXCEPT ![1] = b]  BY <3>1, <3>2
    <3>4. \A k \in 0 .. 2 : g[k] = IF k = 0 THEN a ELSE TrOff  OBVIOUS
    <3>5. g = [k \in 0 .. 2 |-> g[k]]  OBVIOUS
    <3> HIDE DEF g
    <3>6. trTimer' = [k \in 0 .. 2 |-> IF k = 1 THEN b ELSE g[k]]  BY <3>3, <3>5
    <3>7. \A k \in 0 .. 2 : (IF k = 1 THEN b ELSE g[k]) = (IF k = 0 THEN a ELSE IF k = 1 THEN b ELSE TrOff)  BY <3>4
    <3> QED  BY <3>6, <3>7 DEF a, b
  <2>3. trTimer' = Loads(test, i)
    <3>1. \A k \in 0 .. 2 : /\ (k = 1 \/ ("chain" = "chain" /\ k < 1)) = (k = 0 \/ k = 1)
                           /\ (k = 0 => ("chain" = "periodical" \/ k # 1) = TRUE)
                           /\ (k = 1 => ("chain" = "periodical" \/ k # 1) = FALSE)
      OBVIOUS
    <3> QED  BY <2>2, <3>1
  <2>4. /\ chain \in 0 .. 2 /\ i \in 0 .. 2 /\ wait \in Int /\ test \in {"free", "periodical", "chain"} /\ chain = (IF test = "chain" THEN i ELSE 0)
        /\ wait = (IF test # "chain" THEN 5 ELSE 5 + 5 * i) /\ (test = "chain" => i # 0)
    OBVIOUS
  <2> HIDE DEF chain, wait, test, i
  <2> QED  BY <1>1, <2>1, <2>3, <2>4, TrBegun
<1>6. CASE socle_timer_mode_2
  <2> DEFINE i == 2
             chain == 2
             wait == 15
             test == "chain"
  <2>1. TrBegins(test, i, chain, wait) /\ trMode' = chain /\ trTimer' = [k \in 0 .. 2 |-> TrLoaded(k < 2, 2)]
    BY <1>6 DEF socle_timer_mode_2
  <2>3. trTimer' = Loads(test, i)
    <3>1. \A k \in 0 .. 2 : TrLoaded(k < 2, 2)
             = (IF k = 2 \/ ("chain" = "chain" /\ k < 2) THEN TrLoaded("chain" = "periodical" \/ k # 2, 2) ELSE TrOff)
      <4>1. \A k \in 0 .. 2 : (k < 2) = ("chain" = "periodical" \/ k # 2)  OBVIOUS
      <4>2. \A k \in 0 .. 2 : k = 2 \/ ("chain" = "chain" /\ k < 2)  OBVIOUS
      <4> QED  BY <4>1, <4>2
    <3> QED  BY <2>1, <3>1
  <2>4. /\ chain \in 0 .. 2 /\ i \in 0 .. 2 /\ wait \in Int /\ test \in {"free", "periodical", "chain"} /\ chain = (IF test = "chain" THEN i ELSE 0)
        /\ wait = (IF test # "chain" THEN 5 ELSE 5 + 5 * i) /\ (test = "chain" => i # 0)
    OBVIOUS
  <2> HIDE DEF chain, wait, test, i
  <2> QED  BY <1>1, <2>1, <2>3, <2>4, TrBegun
<1> QED  BY <1>3, <1>4, <1>5, <1>6

(* The waits, and what the program does with their answers.                *)
LEMMA TrWaits == TrInv /\ (TrHit \/ TrTold \/ TrTimeout) => TrInv'
<1> SUFFICES ASSUME TrInv, TrHit \/ TrTold \/ TrTimeout PROVE TrInv'
  OBVIOUS
<1>1. trMode' = trMode /\ trTimer' = trTimer /\ trIrq' = trIrq /\ trChip' = trChip  BY DEF TrHit, TrTold, TrTimeout
<1>2. /\ trM.idx \in 0 .. 2 /\ trM.wait \in Int /\ trM.age \in Int /\ trM.early \in Int /\ trEarly \in Int /\ trM.sec \in Int
      /\ TrMine \subseteq 0 .. 2 /\ trM.idx \in TrMine /\ TrLast.n \in 0 .. 2 /\ TrPeriod \in Int /\ TrDue \in Int /\ trM.flag \in {0, 1}
  BY TrFacts
<1>3. ASSUME trM'.idx = trM.idx, trM'.test = trM.test
      PROVE  TrMine' = TrMine /\ TrAlive' = TrAlive /\ TrLast' = TrLast /\ TrMore' = TrMore /\ TrPeriod' = TrPeriod /\ TrDue' = TrDue /\ TrGood' = TrGood
  BY <1>1, <1>3, TrSame
<1>4. ASSUME trM'.pc \in TrRuns, trM.pc \in TrRuns, trM'.idx = trM.idx, trM'.test = trM.test, trM'.chain = trM.chain, trM'.early = trM.early,
             trM'.pc # "wait", trM'.pc \in {"again", "twice"} => trM.test # "chain", trM'.pc # "stop" => trM'.err = 0,
             trM' \in [pc : {"off", "idle", "menu", "end"} \cup TrRuns, test : {"none", "free", "periodical", "chain"}, idx : 0 .. 2, chain : 0 .. 2,
                       flag : {0, 1}, sec : Int, wait : Int, err : {0, -1}, age : Int, early : Int, tests : Int]
      PROVE  TrTyped' /\ TrResting' /\ TrSetUp'
  <2>1. TrMine' = TrMine  BY <1>3, <1>4
  <2>2. TrTyped'  BY <1>1, <1>4 DEF TrInv, TrTyped
  <2>3. TrResting'  BY <1>4 DEF TrResting
  <2>4. TrSetUp'  BY <1>1, <1>4, <2>1 DEF TrInv, TrSetUp
  <2> QED  BY <2>2, <2>3, <2>4
<1>5. CASE TrHit
  <2> DEFINE pc == IF trM.pc = "again" THEN "twice" ELSE "told"
  <2>1. trM.pc \in {"wait", "again"} /\ trM.flag = 1 /\ trM' = [trM EXCEPT !.pc = pc, !.flag = 0]  BY <1>5 DEF TrHit
  <2>2. pc \in {"told", "twice"} /\ (pc = "twice" <=> trM.pc = "again") /\ pc \in TrRuns /\ trM.pc \in TrRuns /\ pc # "wait"  BY <2>1 DEF TrRuns
  <2> HIDE DEF pc
  <2>3. /\ trM'.pc = pc /\ trM'.idx = trM.idx /\ trM'.test = trM.test /\ trM'.chain = trM.chain /\ trM'.early = trM.early
        /\ trM'.flag = 0 /\ trM'.sec = trM.sec /\ trM'.age = trM.age /\ trM'.err = trM.err
        /\ trM' \in [pc : {"off", "idle", "menu", "end"} \cup TrRuns, test : {"none", "free", "periodical", "chain"}, idx : 0 .. 2, chain : 0 .. 2,
                     flag : {0, 1}, sec : Int, wait : Int, err : {0, -1}, age : Int, early : Int, tests : Int]
    <3>1. trM' = [pc |-> pc, test |-> trM.test, idx |-> trM.idx, chain |-> trM.chain, flag |-> 0, sec |-> trM.sec,
                  wait |-> trM.wait, err |-> trM.err, age |-> trM.age, early |-> trM.early, tests |-> trM.tests]
      <4>1. trM' = [trM EXCEPT !.pc = pc, !.flag = 0]  BY <2>1
      <4> QED  BY <4>1 DEF TrInv, TrTyped
    <3>2. 0 \in {0, 1} /\ pc \in {"off", "idle", "menu", "end"} \cup TrRuns  BY <2>2
    <3>3. trM' \in [pc : {"off", "idle", "menu", "end"} \cup TrRuns, test : {"none", "free", "periodical", "chain"}, idx : 0 .. 2, chain : 0 .. 2,
                     flag : {0, 1}, sec : Int, wait : Int, err : {0, -1}, age : Int, early : Int, tests : Int]
      BY <1>2, <3>1, <3>2, TrFacts
    <3> QED  BY <3>1, <3>3
  <2>4. TrTyped' /\ TrResting' /\ TrSetUp'
    <3>1. trM.err = 0 /\ (trM.pc = "again" => trM.test # "chain")  BY <2>1, <2>2 DEF TrInv, TrSetUp
    <3>2. /\ trM'.pc \in TrRuns /\ trM'.pc # "wait" /\ (trM'.pc \in {"again", "twice"} => trM.test # "chain")
          /\ (trM'.pc # "stop" => trM'.err = 0)
      BY <2>2, <2>3, <3>1
    <3> QED  BY <1>4, <2>2, <2>3, <3>2
  <2>5. TrAlive' = TrAlive /\ TrLast' = TrLast /\ TrMore' = TrMore /\ TrPeriod' = TrPeriod /\ TrDue' = TrDue  BY <1>3, <2>3
  <2>6. TrAlive /\ ~TrStill  BY <2>1, <2>2 DEF TrInv, TrNever, TrStill
  <2>7. TrNever' /\ TrFirst' /\ TrVerdict'  BY <2>2, <2>3, <2>5, <2>6 DEF TrNever, TrFirst, TrVerdict
  <2>8. CASE trM.pc = "wait"
    <3>1. /\ ~TrLast.int /\ trM.age = TrPeriod /\ (TrMore => TrLast.n # 0 /\ TrDue = TrPeriod) /\ (~TrMore => TrLast.n = 0)
          /\ trM.sec = TrPeriod
      BY <2>1, <2>6, <2>8 DEF TrInv, TrFirst
    <3>2. TrStill' /\ trM'.pc = "told" /\ trM'.sec = trM'.age /\ trM'.sec = TrPeriod  BY <2>2, <2>3, <2>5, <2>8, <3>1 DEF TrStill
    <3>3. TrTimes'  BY <2>5, <3>1, <3>2 DEF TrTimes
    <3>4. TimerRight'  BY <3>2 DEF TimerRight
    <3> QED  BY <2>4, <2>7, <3>3, <3>4 DEF TrInv
  <2>9. CASE trM.pc = "again"
    <3>1. /\ TrMore /\ TrLast.n # 0
          /\ trM.early = trEarly => ~TrLast.int /\ trM.age = 4 /\ trM.sec = 4
      BY <2>1, <2>6, <2>9 DEF TrInv, TrTimes
    <3>2. trM'.pc = "twice" /\ (trM'.early = trEarly => TrStill' /\ trM'.sec = trM'.age)  BY <2>2, <2>3, <2>5, <2>9, <3>1 DEF TrStill
    <3>3. TrTimes'  BY <2>5, <3>1, <3>2 DEF TrTimes
    <3>4. TimerRight'  BY <3>2 DEF TimerRight
    <3> QED  BY <2>4, <2>7, <3>3, <3>4 DEF TrInv
  <2> QED  BY <2>1, <2>8, <2>9
<1>6. CASE TrTold /\ trM.pc = "told" /\ trM.test # "chain"
  <2>1. trM' = [trM EXCEPT !.pc = "again", !.wait = 5]  BY <1>6 DEF TrTold
  <2>2. trM.pc \in TrRuns /\ "again" \in TrRuns  BY <1>6 DEF TrRuns
  <2>3. /\ trM'.pc = "again" /\ trM'.idx = trM.idx /\ trM'.test = trM.test /\ trM'.chain = trM.chain /\ trM'.early = trM.early
        /\ trM'.flag = trM.flag /\ trM'.sec = trM.sec /\ trM'.age = trM.age /\ trM'.err = trM.err /\ trM'.wait = 5
        /\ trM' \in [pc : {"off", "idle", "menu", "end"} \cup TrRuns, test : {"none", "free", "periodical", "chain"}, idx : 0 .. 2, chain : 0 .. 2,
                     flag : {0, 1}, sec : Int, wait : Int, err : {0, -1}, age : Int, early : Int, tests : Int]
    <3> DEFINE pc == "again"
               wait == 5
    <3>1. pc \in {"off", "idle", "menu", "end"} \cup TrRuns /\ wait \in Int /\ pc = "again" /\ wait = 5  BY <2>2
    <3>2. trM' = [trM EXCEPT !.pc = pc, !.wait = wait]  BY <2>1
    <3> HIDE DEF pc, wait
    <3>3. trM' = [pc |-> pc, test |-> trM.test, idx |-> trM.idx, chain |-> trM.chain, flag |-> trM.flag, sec |-> trM.sec,
                  wait |-> wait, err |-> trM.err, age |-> trM.age, early |-> trM.early, tests |-> trM.tests]
      BY <3>2 DEF TrInv, TrTyped
    <3>4. trM' \in [pc : {"off", "idle", "menu", "end"} \cup TrRuns, test : {"none", "free", "periodical", "chain"}, idx : 0 .. 2, chain : 0 .. 2,
                     flag : {0, 1}, sec : Int, wait : Int, err : {0, -1}, age : Int, early : Int, tests : Int]
      BY <3>1, <3>3, TrFacts
    <3> QED  BY <3>1, <3>3, <3>4
  <2>4. TrTyped' /\ TrResting' /\ TrSetUp'
    <3>1. trM.err = 0  BY <1>6, <2>2 DEF TrInv, TrSetUp
    <3>2. trM'.pc # "stop" => trM'.err = 0  BY <2>3, <3>1
    <3>3. trM'.pc \in {"again", "twice"} => trM.test # "chain"  BY <1>6
    <3>4. trM'.pc # "wait" /\ trM'.pc \in TrRuns  BY <2>2, <2>3
    <3> QED  BY <1>4, <2>2, <2>3, <3>2, <3>3, <3>4
  <2>5. TrAlive' = TrAlive /\ TrLast' = TrLast /\ TrMore' = TrMore /\ TrPeriod' = TrPeriod /\ TrDue' = TrDue  BY <1>3, <2>3
  <2>6. TrAlive  BY <1>6, <2>2 DEF TrInv, TrNever
  <2>7. TrNever' /\ TrFirst' /\ TrVerdict' /\ TimerRight'  BY <2>3, <2>5, <2>6 DEF TrNever, TrFirst, TrVerdict, TimerRight
  <2>8. TrStill' <=> TrStill  BY <2>3, <2>5 DEF TrStill
  <2>9. TrTimes'
    <3>1. /\ TrMore => TrLast.n # 0
          /\ ~TrMore => TrLast.n = 0 /\ TrStill
          /\ trM.early = trEarly => TrStill /\ trM.sec = trM.age /\ trM.sec = TrPeriod /\ (TrMore => TrDue = TrPeriod)
      BY <1>6, <2>6 DEF TrInv, TrTimes
    <3>2. TrPeriod = 2 /\ TrDue = TrLast.n  BY <1>6 DEF TrPeriod, TrDue
    <3>3. trM'.wait >= TrDue'  BY <1>2, <2>3, <2>5, <3>2
    <3>4. trM'.early = trEarly /\ TrMore => trM'.sec = 2 /\ trM'.age = 4 - TrDue'
      <4>1. 4 - 2 = 2  OBVIOUS
      <4> QED  BY <2>3, <2>5, <3>1, <3>2, <4>1
    <3>5. trM'.early = trEarly => TrStill'  BY <2>3, <2>8, <3>1
    <3> QED  BY <2>3, <2>5, <2>8, <3>1, <3>3, <3>4, <3>5 DEF TrTimes
  <2> QED  BY <2>4, <2>7, <2>9 DEF TrInv
<1>7. ASSUME NEW err \in {0, -1}, NEW wait \in Int, trM.pc \in TrRuns, trM' = [trM EXCEPT !.pc = "stop", !.wait = wait, !.err = err],
             ~TrAlive => TrStill /\ err = -1, TrAlive => (err = 0 <=> TrGood)
      PROVE  TrInv'
  <2>1. "stop" \in TrRuns /\ "stop" # "wait"  BY DEF TrRuns
  <2>2. /\ trM'.pc = "stop" /\ trM'.idx = trM.idx /\ trM'.test = trM.test /\ trM'.chain = trM.chain /\ trM'.early = trM.early
        /\ trM'.flag = trM.flag /\ trM'.err = err
        /\ trM' \in [pc : {"off", "idle", "menu", "end"} \cup TrRuns, test : {"none", "free", "periodical", "chain"}, idx : 0 .. 2, chain : 0 .. 2,
                     flag : {0, 1}, sec : Int, wait : Int, err : {0, -1}, age : Int, early : Int, tests : Int]
    BY <1>7, <2>1 DEF TrInv, TrTyped
  <2>3. TrTyped' /\ TrResting' /\ TrSetUp'
    <3>1. /\ trM'.pc \in TrRuns /\ trM'.pc # "wait" /\ (trM'.pc \in {"again", "twice"} => trM.test # "chain")
          /\ (trM'.pc # "stop" => trM'.err = 0)
      BY <2>1, <2>2
    <3> QED  BY <1>4, <1>7, <2>2, <3>1
  <2>4. TrAlive' = TrAlive /\ TrLast' = TrLast /\ TrGood' = TrGood  BY <1>3, <2>2
  <2>5. TrStill' <=> TrStill  BY <2>2, <2>4 DEF TrStill
  <2>6. TrNever'  BY <1>7, <2>2, <2>4, <2>5 DEF TrNever
  <2>7. TrFirst' /\ TrTimes' /\ TimerRight'  BY <2>2 DEF TrFirst, TrTimes, TimerRight
  <2>8. TrVerdict'  BY <1>7, <2>2, <2>4 DEF TrVerdict
  <2> QED  BY <2>3, <2>6, <2>7, <2>8 DEF TrInv
<1>8. trM.pc \in TrRuns => trM.err \in {0, -1} /\ trM.test \in {"free", "periodical", "chain"} /\ (trM.pc # "stop" => trM.err = 0)
  BY TrFacts DEF TrInv, TrSetUp
<1>9. CASE TrTold /\ trM.pc = "told" /\ trM.test = "chain"
  <2>1. trM.pc \in TrRuns /\ trM.err = 0  BY <1>8, <1>9 DEF TrRuns
  <2> DEFINE err == 0
             wait == 5
  <2>2. trM' = [trM EXCEPT !.pc = "stop", !.wait = wait, !.err = err]
    <3>1. trM' = [trM EXCEPT !.pc = "stop", !.wait = 5]  BY <1>9 DEF TrTold
    <3> QED  BY <2>1, <3>1 DEF TrInv, TrTyped
  <2>3. err \in {0, -1} /\ wait \in Int /\ err = 0  OBVIOUS
  <2> HIDE DEF err, wait
  <2>4. TrAlive  BY <1>9, <2>1 DEF TrInv, TrNever
  <2>5. TrGood  BY <1>9, <2>4 DEF TrGood, TrAlive, TrMine
  <2> QED  BY <1>7, <2>1, <2>2, <2>3, <2>4, <2>5
<1>10. CASE TrTold /\ trM.pc = "twice"
  <2> DEFINE err == IF trM.test = "free" THEN -1 ELSE 0
             wait == trM.wait
  <2>1. trM.pc \in TrRuns  BY <1>10 DEF TrRuns
  <2>2. trM' = [trM EXCEPT !.pc = "stop", !.wait = wait, !.err = err]
    <3>1. trM' = [trM EXCEPT !.pc = "stop", !.err = err]  BY <1>10 DEF TrTold
    <3> HIDE DEF err
    <3> QED  BY <3>1 DEF TrInv, TrTyped
  <2>3. err \in {0, -1} /\ wait \in Int /\ (err = 0 <=> trM.test # "free")  BY <1>2
  <2> HIDE DEF err, wait
  <2>4. TrAlive  BY <1>10, <2>1 DEF TrInv, TrNever
  <2>5. TrMore /\ trM.test # "chain"  BY <1>10, <2>1, <2>4 DEF TrInv, TrTimes, TrSetUp
  <2>6. trM.idx \notin trChip.dead /\ (trM.test = "free" => trM.idx \in trChip.wraps)
    <3>1. trTimer[trM.idx].per = (trM.test = "periodical" \/ trM.idx # trM.idx)  BY <1>2, <2>1 DEF TrInv, TrSetUp
    <3> QED  BY <1>2, <2>4, <2>5, <3>1 DEF TrAlive, TrMore, TrLast
  <2>7. err = 0 <=> TrGood  BY <2>3, <2>5, <2>6 DEF TrGood
  <2> QED  BY <1>7, <2>1, <2>2, <2>3, <2>4, <2>7
<1>11. CASE TrTimeout
  <2> DEFINE err == IF trM.pc = "again" /\ trM.test = "free" THEN 0 ELSE -1
             wait == trM.wait
  <2>1. trM.pc \in TrRuns /\ trM.pc \in {"wait", "again"} /\ trM.flag = 0 /\ trM.wait = 0 /\ \A k \in 0 .. 2 : ~trTimer[k].int
    BY <1>11 DEF TrRuns, TrTimeout, TrQuiet
  <2>2. trM' = [trM EXCEPT !.pc = "stop", !.wait = wait, !.err = err]
    <3>1. trM' = [trM EXCEPT !.pc = "stop", !.err = err]  BY <1>11 DEF TrTimeout
    <3> HIDE DEF err
    <3> QED  BY <3>1 DEF TrInv, TrTyped
  <2>3. err \in {0, -1} /\ wait \in Int /\ (err = 0 <=> trM.pc = "again" /\ trM.test = "free")  BY <1>2
  <2> HIDE DEF err, wait
  <2>4. TrStill  BY <1>2, <2>1 DEF TrStill, TrLast
  <2>5. TrAlive => trM.pc = "again" /\ ~TrMore
    <3> SUFFICES ASSUME TrAlive PROVE trM.pc = "again" /\ ~TrMore
      OBVIOUS
    <3>1. trTimer[0].n \in 0 .. 2 /\ trTimer[1].n \in 0 .. 2  BY TrFacts
    <3>2. TrLast.n # 0 => TrDue >= 1 /\ TrDue <= TrPeriod
      <4>1. trM.test = "chain" => trM.idx \in {1, 2}  BY <1>2, <2>1 DEF TrInv, TrSetUp
      <4>2. trM.test = "chain" => trTimer[0].n # 0 /\ (trM.idx = 2 => trTimer[1].n # 0)
        <5>1. trM.test = "chain" => 0 \in TrMine /\ (trM.idx = 2 => 1 \in TrMine)  BY <4>1 DEF TrMine
        <5>2. trM.test = "chain" => trM.idx # 0 /\ (trM.idx = 2 => trM.idx # 1)  BY <4>1
        <5> QED  BY <2>1, <5>1, <5>2 DEF TrInv, TrSetUp
      <4>3. CASE trM.test # "chain"  BY <1>2, <4>3 DEF TrDue, TrPeriod
      <4>4. CASE trM.test = "chain" /\ trM.idx = 1  BY <1>2, <3>1, <4>2, <4>4 DEF TrDue, TrPeriod
      <4>5. CASE trM.test = "chain" /\ trM.idx = 2  BY <1>2, <3>1, <4>2, <4>5 DEF TrDue, TrPeriod
      <4> QED  BY <4>1, <4>3, <4>4, <4>5
    <3>3. trM.pc # "wait"
      <4> SUFFICES ASSUME trM.pc = "wait" PROVE FALSE
        OBVIOUS
      <4> DEFINE w == IF trM.test # "chain" THEN 5 ELSE 5 + 5 * trM.idx
      <4>1. TrLast.n # 0 /\ trM.age = TrPeriod - TrDue /\ trM.wait = w - trM.age  BY <2>4 DEF TrInv, TrFirst
      <4>2. trM.test = "chain" => trM.idx \in {1, 2}  BY <1>2, <2>1 DEF TrInv, TrSetUp
      <4>3. w \in Int /\ w >= TrPeriod  BY <1>2, <4>2 DEF TrPeriod
      <4> HIDE DEF w
      <4> QED  BY <1>2, <2>1, <3>2, <4>1, <4>3
    <3>4. trM.pc = "again"  BY <2>1, <3>3
    <3>5. TrMore => TrLast.n # 0 /\ trM.wait >= TrDue  BY <2>4, <3>4 DEF TrInv, TrTimes
    <3> QED  BY <1>2, <2>1, <3>2, <3>4, <3>5
  <2>6. ~TrAlive => trM.pc # "again"  BY <2>1 DEF TrInv, TrNever
  <2>7. TrAlive => (err = 0 <=> TrGood)
    <3> SUFFICES ASSUME TrAlive PROVE err = 0 <=> TrGood
      OBVIOUS
    <3>1. trTimer[trM.idx].per = (trM.test = "periodical" \/ trM.idx # trM.idx) /\ trM.test # "chain"
      BY <1>2, <2>1, <2>5 DEF TrInv, TrSetUp
    <3>2. trM.test # "periodical"  BY <2>5, <3>1 DEF TrMore, TrLast
    <3>3. trM.test = "free"  BY <1>8, <2>1, <3>1, <3>2
    <3>4. trM.idx \notin trChip.dead /\ trM.idx \notin trChip.wraps  BY <1>2, <2>5 DEF TrAlive, TrMore
    <3>5. TrGood  BY <3>1, <3>4 DEF TrGood
    <3> QED  BY <2>3, <2>5, <3>3, <3>5
  <2>8. ~TrAlive => TrStill /\ err = -1  BY <2>3, <2>4, <2>6
  <2> QED  BY <1>7, <2>1, <2>2, <2>3, <2>7, <2>8
<1> QED  BY <1>5, <1>6, <1>9, <1>10, <1>11 DEF TrTold

(* The menu of the tests: it is entered with all timers off.               *)
LEMMA TrShuts == TrInv /\ TIMERTesting => TrInv'
<1> SUFFICES ASSUME TrInv, TIMERTesting PROVE TrInv'
  OBVIOUS
<1> DEFINE pc == trM'.pc
<1>1. /\ trMode' = trMode /\ trChip' = trChip /\ pc \in {"idle", "menu"} /\ trM' = [trM EXCEPT !.pc = pc]
      /\ trIrq' \in BOOLEAN /\ \A k \in 0 .. 2 : trTimer'[k] = TrOff
  <2>1. CASE trM.pc = "idle" /\ trM' = [trM EXCEPT !.pc = "menu"] /\ trTimer' = [k \in 0 .. 2 |-> TrOff] /\ trIrq' = TRUE
    BY <2>1 DEF TIMERTesting, TrInv, TrTyped
  <2>2. CASE trM.pc = "menu" /\ trM' = [trM EXCEPT !.pc = "idle"] /\ trIrq' = FALSE /\ trTimer' = trTimer
    <3>1. \A k \in 0 .. 2 : trTimer[k] = TrOff  BY <2>2 DEF TrInv, TrResting, TrRuns
    <3> QED  BY <2>2, <3>1 DEF TIMERTesting, TrInv, TrTyped
  <2> QED  BY <2>1, <2>2 DEF TIMERTesting
<1>2. trTimer' \in [0 .. 2 -> [on : BOOLEAN, per : BOOLEAN, n : 0 .. 2, int : BOOLEAN]]
  <2>1. trTimer' = [k \in 0 .. 2 |-> trTimer'[k]]
    <3>1. CASE trTimer' = [k \in 0 .. 2 |-> TrOff]  BY <3>1
    <3>2. CASE trTimer' = trTimer  BY <3>2 DEF TrInv, TrTyped
    <3> QED  BY <3>1, <3>2 DEF TIMERTesting
  <2>2. TrOff \in [on : BOOLEAN, per : BOOLEAN, n : 0 .. 2, int : BOOLEAN]  BY DEF TrOff
  <2> QED  BY <1>1, <2>1, <2>2
<1> HIDE DEF pc
<1>3. trM' \in [pc : {"off", "idle", "menu", "end"} \cup TrRuns, test : {"none", "free", "periodical", "chain"}, idx : 0 .. 2, chain : 0 .. 2,
              flag : {0, 1}, sec : Int, wait : Int, err : {0, -1}, age : Int, early : Int, tests : Int]
  <2>1. trM' = [pc |-> pc, test |-> trM.test, idx |-> trM.idx, chain |-> trM.chain, flag |-> trM.flag, sec |-> trM.sec,
                wait |-> trM.wait, err |-> trM.err, age |-> trM.age, early |-> trM.early, tests |-> trM.tests]
    BY <1>1 DEF TrInv, TrTyped
  <2>2. pc \in {"off", "idle", "menu", "end"} \cup TrRuns  BY <1>1
  <2> QED  BY <2>1, <2>2, TrFacts
<1>4. TrTyped'  BY <1>1, <1>2, <1>3 DEF TrInv, TrTyped
<1>5. trM'.pc = pc /\ pc \notin TrRuns /\ pc # "end"  BY <1>1 DEF TrRuns, pc
<1>6. TrResting' /\ TrSetUp' /\ TrNever'  BY <1>1, <1>5 DEF TrResting, TrSetUp, TrNever
<1>7. TrFirst' /\ TrTimes' /\ TrVerdict' /\ TimerRight'  BY <1>5 DEF TrRuns, TrFirst, TrTimes, TrVerdict, TimerRight
<1> QED  BY <1>4, <1>6, <1>7 DEF TrInv

(* A test stops its timers, and then no timer is on.                       *)
LEMMA TrShut == TrInv /\ TrStops => TrInv'
<1> SUFFICES ASSUME TrInv, TrStops PROVE TrInv'
  OBVIOUS
<1> DEFINE pc == "end"
<1>1. /\ trM.pc = "stop" /\ trM' = [trM EXCEPT !.pc = pc] /\ trMode' = trMode /\ trIrq' = trIrq /\ trChip' = trChip
      /\ trTimer' = [k \in 0 .. 2 |-> IF k = trM.idx \/ (trM.test = "chain" /\ k < trM.idx) THEN TrOff ELSE trTimer[k]]
  BY DEF TrStops
<1>2. pc \in {"off", "idle", "menu", "end"} \cup TrRuns /\ pc \notin TrRuns /\ trM.pc \in TrRuns  BY <1>1 DEF TrRuns
<1> HIDE DEF pc
<1>3. trM' = [pc |-> pc, test |-> trM.test, idx |-> trM.idx, chain |-> trM.chain, flag |-> trM.flag, sec |-> trM.sec,
              wait |-> trM.wait, err |-> trM.err, age |-> trM.age, early |-> trM.early, tests |-> trM.tests]
  BY <1>1 DEF TrInv, TrTyped
<1>4. trM' \in [pc : {"off", "idle", "menu", "end"} \cup TrRuns, test : {"none", "free", "periodical", "chain"}, idx : 0 .. 2, chain : 0 .. 2,
              flag : {0, 1}, sec : Int, wait : Int, err : {0, -1}, age : Int, early : Int, tests : Int]
  BY <1>2, <1>3, TrFacts
<1>5. \A k \in 0 .. 2 : trTimer'[k] = TrOff
  <2> SUFFICES ASSUME NEW k \in 0 .. 2 PROVE trTimer'[k] = TrOff
    OBVIOUS
  <2>1. CASE k \in TrMine
    <3>1. k = trM.idx \/ (trM.test = "chain" /\ k < trM.idx)  BY <2>1, TrFacts DEF TrMine
    <3> QED  BY <1>1, <3>1
  <2>2. CASE k \notin TrMine
    <3>1. trTimer[k] = TrOff  BY <1>2, <2>2 DEF TrInv, TrSetUp
    <3> QED  BY <1>1, <3>1
  <2> QED  BY <2>1, <2>2
<1>6. TrTyped'
  <2>1. TrOff \in [on : BOOLEAN, per : BOOLEAN, n : 0 .. 2, int : BOOLEAN]  BY DEF TrOff
  <2>2. trTimer' = [k \in 0 .. 2 |-> trTimer'[k]]  BY <1>1
  <2>3. trTimer' \in [0 .. 2 -> [on : BOOLEAN, per : BOOLEAN, n : 0 .. 2, int : BOOLEAN]]  BY <1>5, <2>1, <2>2
  <2> QED  BY <1>1, <1>4, <2>3 DEF TrInv, TrTyped
<1>7. trM'.pc = pc /\ trM'.test = trM.test /\ trM'.idx = trM.idx /\ trM'.err = trM.err /\ trM.err \in {0, -1}  BY <1>3, TrFacts
<1>8. TrResting' /\ TrSetUp' /\ TrNever'  BY <1>2, <1>5, <1>7 DEF TrResting, TrSetUp, TrNever
<1>9. TrFirst' /\ TrTimes' /\ TrVerdict' /\ (trM'.pc # "told" /\ trM'.pc # "twice")
  BY <1>7 DEF pc, TrFirst, TrTimes, TrVerdict
<1>10. trM.err = 0 <=> TrGood
  <2>1. CASE TrAlive  BY <1>1, <2>1 DEF TrInv, TrVerdict
  <2>2. CASE ~TrAlive
    <3>1. trM.err = -1  BY <1>1, <1>2, <2>2 DEF TrInv, TrNever
    <3>2. ~TrGood  BY <2>2 DEF TrGood, TrAlive, TrMine
    <3> QED  BY <3>1, <3>2
  <2> QED  BY <2>1, <2>2
<1>11. TimerRight'
  <2>1. TrGood' = TrGood  BY <1>1, <1>7 DEF TrGood
  <2> QED  BY <1>7, <1>9, <1>10, <2>1 DEF TimerRight
<1> QED  BY <1>6, <1>8, <1>9, <1>11 DEF TrInv

(* Between tests only the chain mode and the tests that are left are kept. *)
LEMMA TrRests ==
  ASSUME NEW pc \in {"off", "idle", "menu"}, NEW chain \in 0 .. 2, NEW tests \in Int
  PROVE  [pc |-> pc, test |-> "none", idx |-> 0, chain |-> chain, flag |-> 0, sec |-> 0, wait |-> 0, err |-> 0,
          age |-> 0, early |-> 0, tests |-> tests] \in [pc : {"off", "idle", "menu", "end"} \cup TrRuns, test : {"none", "free", "periodical", "chain"}, idx : 0 .. 2, chain : 0 .. 2,
              flag : {0, 1}, sec : Int, wait : Int, err : {0, -1}, age : Int, early : Int, tests : Int]
<1> DEFINE none == "none"
           zero == 0
<1>1. zero \in 0 .. 2 /\ zero \in {0, 1} /\ zero \in Int /\ zero \in {0, -1} /\ none \in {"none", "free", "periodical", "chain"}  OBVIOUS
<1>2. pc \in {"off", "idle", "menu", "end"} \cup TrRuns  OBVIOUS
<1> HIDE DEF none, zero
<1>3. [pc |-> pc, test |-> none, idx |-> zero, chain |-> chain, flag |-> zero, sec |-> zero, wait |-> zero, err |-> zero,
       age |-> zero, early |-> zero, tests |-> tests] \in [pc : {"off", "idle", "menu", "end"} \cup TrRuns, test : {"none", "free", "periodical", "chain"}, idx : 0 .. 2, chain : 0 .. 2,
              flag : {0, 1}, sec : Int, wait : Int, err : {0, -1}, age : Int, early : Int, tests : Int]
  BY <1>1, <1>2
<1> QED  BY <1>3 DEF none, zero

LEMMA TrReturns == TrInv /\ TrBack => TrInv'
<1> SUFFICES ASSUME TrInv, TrBack PROVE TrInv'
  OBVIOUS
<1> DEFINE pc == "menu"
           chain == trM.chain
           tests == trM.tests
<1>1. /\ trM.pc = "end" /\ trMode' = trMode /\ trTimer' = trTimer /\ trIrq' = trIrq /\ trChip' = trChip
      /\ trM' = [pc |-> pc, test |-> "none", idx |-> 0, chain |-> chain, flag |-> 0, sec |-> 0, wait |-> 0, err |-> 0,
                 age |-> 0, early |-> 0, tests |-> tests]
  BY DEF TrBack, TrIdle
<1>2. pc \in {"off", "idle", "menu"} /\ chain \in 0 .. 2 /\ tests \in Int  BY TrFacts
<1>3. \A k \in 0 .. 2 : trTimer'[k] = TrOff  BY <1>1 DEF TrInv, TrResting, TrRuns
<1> HIDE DEF pc, chain, tests
<1>4. TrTyped'
  <2>1. trM' \in [pc : {"off", "idle", "menu", "end"} \cup TrRuns, test : {"none", "free", "periodical", "chain"}, idx : 0 .. 2, chain : 0 .. 2,
              flag : {0, 1}, sec : Int, wait : Int, err : {0, -1}, age : Int, early : Int, tests : Int]
    BY <1>1, <1>2, TrRests
  <2> QED  BY <1>1, <2>1 DEF TrInv, TrTyped
<1>5. trM'.pc = pc /\ trM'.pc \notin TrRuns /\ trM'.pc # "end"  BY <1>1, <1>2 DEF TrRuns
<1>6. TrResting' /\ TrSetUp' /\ TrNever'  BY <1>3, <1>5 DEF TrResting, TrSetUp, TrNever
<1>7. TrFirst' /\ TrTimes' /\ TrVerdict' /\ TimerRight'  BY <1>5 DEF TrRuns, TrFirst, TrTimes, TrVerdict, TimerRight
<1> QED  BY <1>4, <1>6, <1>7 DEF TrInv

LEMMA TrStarting == TrStart("idle") \/ TrStart("off") => TrInv
<1> SUFFICES ASSUME NEW pc \in {"idle", "off"}, TrStart(pc) PROVE TrInv
  OBVIOUS
<1> DEFINE chain == 0
           tests == trTests
<1>1. trM = [pc |-> pc, test |-> "none", idx |-> 0, chain |-> chain, flag |-> 0, sec |-> 0, wait |-> 0, err |-> 0,
             age |-> 0, early |-> 0, tests |-> tests]
  BY DEF TrStart, TrIdle
<1>2. pc \in {"off", "idle", "menu"} /\ chain \in 0 .. 2 /\ tests \in Int  BY TrAssumption
<1>3. TrOff \in [on : BOOLEAN, per : BOOLEAN, n : 0 .. 2, int : BOOLEAN]  BY DEF TrOff
<1>4. /\ trMode \in 0 .. 2 /\ trIrq \in BOOLEAN /\ \A k \in 0 .. 2 : trTimer[k] = TrOff
      /\ trTimer \in [0 .. 2 -> [on : BOOLEAN, per : BOOLEAN, n : 0 .. 2, int : BOOLEAN]]
  <2>1. trTimer = [k \in 0 .. 2 |-> TrOff] /\ trMode = 0 /\ trIrq = FALSE  BY DEF TrStart
  <2>2. \A k \in 0 .. 2 : trTimer[k] = TrOff  BY <2>1
  <2>3. trTimer \in [0 .. 2 -> [on : BOOLEAN, per : BOOLEAN, n : 0 .. 2, int : BOOLEAN]]
    <3> DEFINE S == [on : BOOLEAN, per : BOOLEAN, n : 0 .. 2, int : BOOLEAN]
    <3>1. TrOff \in S  BY <1>3
    <3> HIDE DEF S
    <3>2. trTimer \in [0 .. 2 -> S]  BY <2>1, <3>1
    <3> QED  BY <3>2 DEF S
  <2>4. trMode \in 0 .. 2  BY <2>1
  <2>5. trIrq \in BOOLEAN  BY <2>1
  <2> QED  BY <2>2, <2>3, <2>4, <2>5
<1>5. trChip \in [dead : SUBSET (0 .. 2), wraps : SUBSET (0 .. 2)]
  <2>1. (IF pc = "off" THEN {{}} ELSE SUBSET {0, 1, 2}) \subseteq SUBSET (0 .. 2)  OBVIOUS
  <2>2. PICK dead \in SUBSET (0 .. 2), wraps \in SUBSET (0 .. 2) : trChip = [dead |-> dead, wraps |-> wraps]
    BY <2>1 DEF TrStart
  <2> QED  BY <2>2
<1> HIDE DEF chain, tests
<1>6. trM \in [pc : {"off", "idle", "menu", "end"} \cup TrRuns, test : {"none", "free", "periodical", "chain"}, idx : 0 .. 2, chain : 0 .. 2,
              flag : {0, 1}, sec : Int, wait : Int, err : {0, -1}, age : Int, early : Int, tests : Int]
  BY <1>1, <1>2, TrRests
<1>7. TrTyped  BY <1>4, <1>5, <1>6 DEF TrTyped
<1>8. trM.pc = pc /\ trM.pc \notin TrRuns /\ trM.pc # "end"  BY <1>1 DEF TrRuns
<1>9. TrResting /\ TrSetUp /\ TrNever  BY <1>4, <1>8 DEF TrResting, TrSetUp, TrNever
<1>10. TrFirst /\ TrTimes /\ TrVerdict /\ TimerRight  BY <1>8 DEF TrRuns, TrFirst, TrTimes, TrVerdict, TimerRight
<1> QED  BY <1>7, <1>9, <1>10 DEF TrInv

LEMMA TrStutters == TrInv /\ UNCHANGED trVars => TrInv'
<1> SUFFICES ASSUME TrInv, UNCHANGED trVars PROVE TrInv'
  OBVIOUS
<1>1. trM' = trM /\ trMode' = trMode /\ trTimer' = trTimer /\ trIrq' = trIrq /\ trChip' = trChip  BY DEF trVars
<1>2. TrMine' = TrMine /\ TrAlive' = TrAlive /\ TrLast' = TrLast /\ TrMore' = TrMore /\ TrPeriod' = TrPeriod /\ TrDue' = TrDue /\ TrGood' = TrGood
  BY <1>1, TrSame
<1>3. TrTyped' /\ TrResting'  BY <1>1 DEF TrInv, TrTyped, TrResting
<1>4. TrSetUp'  BY <1>1, <1>2 DEF TrInv, TrSetUp
<1>5. TrStill' <=> TrStill  BY <1>1, <1>2 DEF TrStill
<1>6. TrNever'  BY <1>1, <1>2, <1>5 DEF TrInv, TrNever
<1>7. TrFirst'  BY <1>1, <1>2, <1>5 DEF TrInv, TrFirst
<1>8. TrTimes'  BY <1>1, <1>2, <1>5 DEF TrInv, TrTimes
<1>9. TrVerdict' /\ TimerRight'  BY <1>1, <1>2 DEF TrInv, TrVerdict, TimerRight
<1> QED  BY <1>3, <1>4, <1>6, <1>7, <1>8, <1>9 DEF TrInv

LEMMA TrNextStep == TrInv /\ [TrStep]_trVars => TrInv'
BY TrShuts, TrTests, TrServesAny, TrWaits, TrShut, TrReturns, TrServesAny, TrSecondStep, TrStutters DEF TrStep

LEMMA TrInvRight == TrInv => TimerRight
BY DEF TrInv

-----------------------------------------------------------------------------
(* The PWM timers and the converter.  What runs has its structures, and    *)
(* the interrupts are enabled only for whom waits for them.                *)
PaTiming == {"wait", "again", "check"}
PaConverting == {"start", "conv", "read"}
PaPc == {"off", "idle", "pwm", "adc", "end", "hrc", "lrc"} \cup PaTiming \cup PaConverting
PaMachines ==
  [pc : PaPc, test : {"none", "single", "periodical", "capture", "adc"}, k : {0, 1}, flag : {0, 1}, count : Int, wait : Int,
   duty : {0, 25, 50, 75, 100}, hrc : Int, was : Int \X Int, ch : 0 .. 4, v : Int, sum : Int, ret : {0, -1}, tests : Int]
PaTyped ==
  /\ paM \in PaMachines /\ paBusy \subseteq {0, 1}
  /\ paPwm \in [int : BOOLEAN, en : BOOLEAN, single : BOOLEAN, fired : BOOLEAN, past : BOOLEAN]
  /\ paWire \in [t : Int, phase : 0 .. 3, hrc : Int, lrc : Int, edge : 0 .. 4]
  /\ paAdc \in [busy : BOOLEAN, slow : BOOLEAN, ch : 0 .. 4, val : Int, int : BOOLEAN, en : BOOLEAN, late : Int]
  /\ paChip \in [{0, 1} -> {"good", "dead", "wrong"}]
PaPlace ==
  /\ paM.pc \in {"off", "idle"} => paBusy = {}
  /\ paM.pc \in {"pwm", "adc"} \cup PaTiming \cup PaConverting => paBusy = {paM.k}
  /\ paM.pc = "adc" => paM.k = 1
  /\ paM.pc \in PaTiming => paM.test \in {"single", "periodical"}
  /\ paM.pc \in PaConverting => paM.test = "adc" /\ paM.k = 1
  /\ paM.pc \in {"hrc", "lrc"} => paM.test = "capture" /\ paBusy = {0, 1}
  /\ paM.pc = "end" => /\ paM.test # "none" /\ paBusy = (IF paM.test = "capture" THEN {} ELSE {paM.k})
                       /\ paM.test = "adc" => paM.k = 1
  /\ paPwm.en <=> paM.pc \in PaTiming
  /\ paAdc.en => paM.pc \in {"adc"} \cup PaConverting \/ (paM.pc = "end" /\ paM.test = "adc")
(* A timer that works comes again and again, a wrong one once.             *)
PaTimer == paM.pc \in PaTiming =>
  /\ paPwm.single <=> paM.test = "single"
  /\ paM.pc = "again" => ~paPwm.single
  /\ paM.pc # "check" /\ paM.flag = 0 => paM.count = IF paM.pc = "again" THEN 1 ELSE 0
  /\ paM.pc # "check" /\ paM.flag = 1 /\ ~(paPwm.single /\ paChip[paM.k] = "good") => paM.count = (IF paM.pc = "again" THEN 2 ELSE 1) /\ ~paPwm.int
  /\ paM.pc = "check" => ~paPwm.int
  /\ paChip[paM.k] = "good" =>
       /\ paM.pc # "check" /\ paM.flag = 0 /\ ~paPwm.int => paM.wait = 3 /\ (paPwm.single => ~paPwm.fired)
       /\ ~paPwm.single /\ paM.pc = "check" => paM.count = 2
       /\ paPwm.single => /\ paM.count <= 5 /\ (paPwm.past <=> paM.count = 5)
                          /\ paM.pc = "wait" /\ paM.flag = 1 => (paPwm.int <=> paM.count # 5)
                          /\ paM.pc = "check" => paM.count = 5
  /\ paChip[paM.k] = "dead" => paM.pc = "wait" /\ paM.flag = 0 /\ ~paPwm.int
  /\ paChip[paM.k] = "wrong" =>
       /\ paM.flag = 1 \/ paM.pc # "wait" \/ paPwm.int => paPwm.fired
       /\ paM.pc = "again" => paM.flag = 0 /\ ~paPwm.int
       /\ paM.pc = "check" => paPwm.single /\ paM.count = 1
(* The signal of a timer, and the values that have been read of it.        *)
PaH(hm) == IF paWire.t = paWire.hrc THEN hm = 0 \/ (hm = paWire.hrc - PaPeriod /\ paWire.lrc = hm + PaHigh) ELSE hm = paWire.hrc
PaL(lm) == IF paWire.t = paWire.hrc THEN lm = paWire.lrc ELSE lm = 0 \/ (lm = paWire.lrc - PaPeriod /\ paWire.hrc = paWire.lrc - PaHigh)
PaSignals == paM.pc \in {"hrc", "lrc"} =>
  /\ paM.duty \in {25, 50, 75} /\ paWire.hrc >= 0 /\ paWire.lrc >= 0
  /\ paWire.t = 0 => paWire.hrc = 0 /\ paWire.lrc = 0 /\ paWire.edge = 0
  /\ paWire.t # 0 => /\ paWire.t > 0 /\ PaSignal
                     /\ \/ /\ paWire.t = paWire.hrc /\ PaRises(paWire.t) /\ paWire.lrc < paWire.hrc
                           /\ paWire.lrc = 0 \/ paWire.lrc = paWire.hrc - (PaPeriod - PaHigh)
                        \/ /\ paWire.t = paWire.lrc /\ PaFalls(paWire.t) /\ paWire.hrc < paWire.lrc
                           /\ paWire.hrc = 0 \/ paWire.hrc = paWire.lrc - PaHigh
PaRead ==
  /\ paM.pc = "hrc" => /\ paWire.edge = 4 => PaH(paM.was[1]) /\ PaL(paM.was[2])
                       /\ paWire.edge = 3 => PaH(paM.was[1]) /\ paM.was[2] = paWire.lrc
                       /\ paWire.edge <= 2 => paM.was[1] = paWire.hrc /\ paM.was[2] = paWire.lrc
  /\ paM.pc = "lrc" => /\ paWire.edge >= 3 => PaH(paM.was[1]) /\ PaL(paM.was[2])
                       /\ paWire.edge = 2 => PaH(paM.was[1]) /\ paM.was[2] = paWire.lrc
                       /\ paWire.edge <= 1 => paM.was[1] = paWire.hrc /\ paM.was[2] = paWire.lrc
                       /\ paM.hrc = IF paWire.edge = 4 THEN paM.was[1] ELSE paWire.hrc
(* The converter: what it has told, and what has been made of it.          *)
PaConverter ==
  /\ paAdc.late <= paLate /\ (paAdc.slow => paAdc.late < paLate)
  /\ paAdc.late = paLate /\ paM.pc \notin {"conv", "read"} => ~paAdc.busy
  /\ paM.pc \in PaConverting => paM.duty \in {100, 50, 25} /\ (paM.duty = 100 => paM.ch = 0)
  /\ paM.pc \in {"conv", "read"} => paAdc.ch = paM.ch
  /\ paChip[1] = "dead" => paAdc.val = 0 /\ (paM.pc \in PaConverting => paM.duty = 100)
  /\ paChip[1] = "wrong" => paAdc.val \in {0, 80, 160, 240, 320, 400}
PaWrong == paChip[1] = "wrong" /\ paM.pc \in PaConverting =>
  /\ paM.duty = 50 => /\ paM.v \in {40, 80, 120, 160, 200} /\ paAdc.ch <= paM.ch
                      /\ paM.ch = 0 => paM.sum = 0 /\ paAdc.val >= 2 * paM.v
                      /\ paM.ch = 1 => paM.sum >= 2 * paM.v /\ (paAdc.val >= 2 * paM.v \/ paAdc.val >= 320)
                      /\ paM.ch >= 2 => paM.sum > 3 * paM.v + 10
  /\ paM.duty = 25 => paM.ret = -1
PaGood == paChip[1] = "good" /\ paAdc.late = paLate /\ paM.pc \in PaConverting =>
  /\ paM.pc # "start" /\ ~paAdc.busy => paAdc.val = (4 * paM.duty * (5 - paM.ch)) \div 5
  /\ paM.duty # 100 => /\ paM.v = 4 * paM.duty /\ paM.ret = 0
                       /\ paM.sum = (2 * paM.duty * paM.ch * (11 - paM.ch)) \div 5
PaInv == PaTyped /\ PaPlace /\ PaTimer /\ PaSignals /\ PaRead /\ PaConverter /\ PaWrong /\ PaGood /\ PwmRight

LEMMA PaFacts ==
  ASSUME PaTyped
  PROVE  /\ paM.pc \in PaPc /\ paM.test \in {"none", "single", "periodical", "capture", "adc"} /\ paM.k \in {0, 1} /\ paM.flag \in {0, 1}
         /\ paM.count \in Int /\ paM.wait \in Int /\ paM.duty \in {0, 25, 50, 75, 100} /\ paM.hrc \in Int /\ paM.was \in Int \X Int
         /\ paM.ch \in 0 .. 4 /\ paM.v \in Int /\ paM.sum \in Int /\ paM.ret \in {0, -1} /\ paM.tests \in Int
         /\ paM = [pc |-> paM.pc, test |-> paM.test, k |-> paM.k, flag |-> paM.flag, count |-> paM.count, wait |-> paM.wait,
                   duty |-> paM.duty, hrc |-> paM.hrc, was |-> paM.was, ch |-> paM.ch, v |-> paM.v, sum |-> paM.sum,
                   ret |-> paM.ret, tests |-> paM.tests]
BY DEF PaTyped, PaMachines

(* The structures, as records.                                             *)
LEMMA PaParts ==
  ASSUME PaTyped
  PROVE  /\ paPwm.int \in BOOLEAN /\ paPwm.en \in BOOLEAN /\ paPwm.single \in BOOLEAN /\ paPwm.fired \in BOOLEAN /\ paPwm.past \in BOOLEAN
         /\ paWire.t \in Int /\ paWire.phase \in 0 .. 3 /\ paWire.hrc \in Int /\ paWire.lrc \in Int /\ paWire.edge \in 0 .. 4
         /\ paAdc.busy \in BOOLEAN /\ paAdc.slow \in BOOLEAN /\ paAdc.ch \in 0 .. 4 /\ paAdc.val \in Int /\ paAdc.int \in BOOLEAN
         /\ paAdc.en \in BOOLEAN /\ paAdc.late \in Int
         /\ paChip[0] \in {"good", "dead", "wrong"} /\ paChip[1] \in {"good", "dead", "wrong"} /\ paLate \in Int
<1>1. /\ paPwm.int \in BOOLEAN /\ paPwm.en \in BOOLEAN /\ paPwm.single \in BOOLEAN /\ paPwm.fired \in BOOLEAN /\ paPwm.past \in BOOLEAN
  BY DEF PaTyped
<1>2. paWire.t \in Int /\ paWire.phase \in 0 .. 3 /\ paWire.hrc \in Int /\ paWire.lrc \in Int /\ paWire.edge \in 0 .. 4  BY DEF PaTyped
<1>3. /\ paAdc.busy \in BOOLEAN /\ paAdc.slow \in BOOLEAN /\ paAdc.ch \in 0 .. 4 /\ paAdc.val \in Int /\ paAdc.int \in BOOLEAN
      /\ paAdc.en \in BOOLEAN /\ paAdc.late \in Int
  BY DEF PaTyped
<1>4. paChip[0] \in {"good", "dead", "wrong"} /\ paChip[1] \in {"good", "dead", "wrong"}  BY DEF PaTyped
<1>5. paLate \in Int  BY PaAssumption
<1> QED  BY <1>1, <1>2, <1>3, <1>4, <1>5

(* Where no test runs, little has to hold.                                 *)
LEMMA PaRests ==
  ASSUME paM'.pc \in {"off", "idle", "pwm", "adc", "end"}, PaTyped', PaPlace', PaConverter', PwmRight'
  PROVE  PaInv'
<1>1. paM'.pc \notin PaTiming /\ paM'.pc \notin PaConverting /\ paM'.pc \notin {"hrc", "lrc"}  BY DEF PaTiming, PaConverting
<1>2. PaTimer' /\ PaSignals' /\ PaRead' /\ PaWrong' /\ PaGood'  BY <1>1 DEF PaTimer, PaSignals, PaRead, PaWrong, PaGood
<1> QED  BY <1>2 DEF PaInv

LEMMA PaOpening == PaInv /\ PaOpens => PaInv'
<1> SUFFICES ASSUME PaInv, PaOpens PROVE PaInv'
  OBVIOUS
<1>1. PICK pc \in {"pwm", "adc"}, k \in {0, 1}, flag \in {0, 1}, en \in BOOLEAN, int \in BOOLEAN :
        /\ paM.pc = "idle" /\ paM' = [paM EXCEPT !.pc = pc, !.k = k, !.flag = flag] /\ (pc = "adc" => k = 1)
        /\ paBusy' = paBusy \cup {k} /\ paPwm' = paPwm /\ paWire' = paWire /\ paChip' = paChip
        /\ paAdc' = [paAdc EXCEPT !.en = en, !.int = int] /\ (en => pc = "adc")
  <2>1. CASE \E k \in {0, 1} \ paBusy : paBusy' = paBusy \cup {k} /\ paM' = [paM EXCEPT !.pc = "pwm", !.k = k] /\ paAdc' = paAdc
    <3>1. PICK k \in {0, 1} : paBusy' = paBusy \cup {k} /\ paM' = [paM EXCEPT !.pc = "pwm", !.k = k]  BY <2>1
    <3>2. paM.flag \in {0, 1} /\ paAdc.en \in BOOLEAN /\ paAdc.int \in BOOLEAN  BY PaFacts, PaParts DEF PaInv
    <3>3. paM' = [paM EXCEPT !.pc = "pwm", !.k = k, !.flag = paM.flag]  BY <3>1 DEF PaInv, PaTyped, PaMachines
    <3>4. paAdc' = [paAdc EXCEPT !.en = paAdc.en, !.int = paAdc.int]  BY <2>1 DEF PaInv, PaTyped
    <3>5. ~paAdc.en
      <4>1. paM.pc = "idle"  BY DEF PaOpens, PaAt
      <4> QED  BY <4>1 DEF PaInv, PaPlace, PaConverting
    <3>6. paM.pc = "idle" /\ paPwm' = paPwm /\ paWire' = paWire /\ paChip' = paChip  BY DEF PaOpens, PaAt
    <3> DEFINE pc == "pwm"
    <3>7. pc \in {"pwm", "adc"} /\ pc # "adc" /\ paM' = [paM EXCEPT !.pc = pc, !.k = k, !.flag = paM.flag]  BY <3>3
    <3> HIDE DEF pc
    <3> QED  BY <3>1, <3>2, <3>4, <3>5, <3>6, <3>7
  <2>2. CASE \E int \in BOOLEAN :
          /\ 1 \notin paBusy /\ paBusy' = paBusy \cup {1} /\ paM' = [paM EXCEPT !.pc = "adc", !.k = 1, !.flag = 0]
          /\ paAdc' = [paAdc EXCEPT !.en = int, !.int = @ /\ ~int]
    <3>1. PICK en \in BOOLEAN : /\ paBusy' = paBusy \cup {1} /\ paM' = [paM EXCEPT !.pc = "adc", !.k = 1, !.flag = 0]
                                /\ paAdc' = [paAdc EXCEPT !.en = en, !.int = @ /\ ~en]
      BY <2>2
    <3> DEFINE int == paAdc.int /\ ~en
               pc == "adc"
               k == 1
               flag == 0
    <3>2. int \in BOOLEAN /\ pc \in {"pwm", "adc"} /\ k \in {0, 1} /\ flag \in {0, 1} /\ k = 1 /\ pc = "adc"  OBVIOUS
    <3>3. paBusy' = paBusy \cup {k} /\ paM' = [paM EXCEPT !.pc = pc, !.k = k, !.flag = flag] /\ paAdc' = [paAdc EXCEPT !.en = en, !.int = int]
      BY <3>1
    <3>4. paM.pc = "idle" /\ paPwm' = paPwm /\ paWire' = paWire /\ paChip' = paChip  BY DEF PaOpens, PaAt
    <3> HIDE DEF int, pc, k, flag
    <3> QED  BY <3>2, <3>3, <3>4
  <2> QED  BY <2>1, <2>2 DEF PaOpens
<1>2. paM' = [pc |-> pc, test |-> paM.test, k |-> k, flag |-> flag, count |-> paM.count, wait |-> paM.wait,
              duty |-> paM.duty, hrc |-> paM.hrc, was |-> paM.was, ch |-> paM.ch, v |-> paM.v, sum |-> paM.sum,
              ret |-> paM.ret, tests |-> paM.tests]
  BY <1>1 DEF PaInv, PaTyped, PaMachines
<1>3. paAdc' = [busy |-> paAdc.busy, slow |-> paAdc.slow, ch |-> paAdc.ch, val |-> paAdc.val, int |-> int, en |-> en, late |-> paAdc.late]
  BY <1>1 DEF PaInv, PaTyped
<1>4. paM' \in PaMachines
  <2>1. pc \in PaPc  BY DEF PaPc
  <2> QED  BY <1>2, <2>1, PaFacts DEF PaInv, PaMachines
<1>5. PaTyped'
  <2>1. paAdc' \in [busy : BOOLEAN, slow : BOOLEAN, ch : 0 .. 4, val : Int, int : BOOLEAN, en : BOOLEAN, late : Int]
    BY <1>3, PaParts DEF PaInv
  <2>2. paBusy' \subseteq {0, 1}  BY <1>1 DEF PaInv, PaTyped
  <2> QED  BY <1>1, <1>4, <2>1, <2>2 DEF PaInv, PaTyped
<1>6. paM'.pc = pc /\ paM'.k = k  BY <1>2
<1>7. PaPlace'
  <2>1. paBusy' = {k}  BY <1>1 DEF PaInv, PaPlace
  <2>2. paPwm.en <=> FALSE  BY <1>1 DEF PaInv, PaPlace, PaTiming
  <2>3. paPwm'.en <=> FALSE  BY <1>1, <2>2
  <2>4. paAdc'.en => pc = "adc"  BY <1>1, <1>3
  <2> QED  BY <1>1, <1>6, <2>1, <2>3, <2>4 DEF PaPlace, PaTiming, PaConverting
<1>8. PaConverter'
  BY <1>1, <1>3, <1>6 DEF PaInv, PaConverter, PaConverting
<1>9. PwmRight'  BY <1>6 DEF PwmRight
<1> QED  BY <1>5, <1>6, <1>7, <1>8, <1>9, PaRests

LEMMA PaClosing == PaInv /\ PaCloses => PaInv'
<1> SUFFICES ASSUME PaInv, PaCloses PROVE PaInv'
  OBVIOUS
<1> DEFINE pc == "idle"
           flag == 0
<1>1. PICK en \in BOOLEAN :
        /\ paM.pc \in {"pwm", "adc"} /\ paM' = [paM EXCEPT !.pc = pc, !.flag = flag] /\ paBusy' = paBusy \ {paM.k}
        /\ paPwm' = paPwm /\ paWire' = paWire /\ paChip' = paChip /\ paAdc' = [paAdc EXCEPT !.en = en] /\ ~en
  <2>1. CASE paM.pc = "pwm" /\ paAdc' = paAdc
    <3>1. paAdc.en \in BOOLEAN /\ paAdc' = [paAdc EXCEPT !.en = paAdc.en]  BY <2>1, PaParts DEF PaInv, PaTyped
    <3>2. ~paAdc.en  BY <2>1 DEF PaInv, PaPlace, PaConverting
    <3> QED  BY <2>1, <3>1, <3>2 DEF PaCloses
  <2>2. CASE paM.pc = "adc" /\ paAdc' = [paAdc EXCEPT !.en = FALSE]  BY <2>2 DEF PaCloses
  <2> QED  BY <2>1, <2>2 DEF PaCloses, PaAt
<1>2. pc \in PaPc /\ flag \in {0, 1} /\ pc = "idle"  BY DEF PaPc
<1> HIDE DEF pc, flag
<1>3. paM' = [pc |-> pc, test |-> paM.test, k |-> paM.k, flag |-> flag, count |-> paM.count, wait |-> paM.wait,
              duty |-> paM.duty, hrc |-> paM.hrc, was |-> paM.was, ch |-> paM.ch, v |-> paM.v, sum |-> paM.sum,
              ret |-> paM.ret, tests |-> paM.tests]
  BY <1>1 DEF PaInv, PaTyped, PaMachines
<1>4. paAdc' = [busy |-> paAdc.busy, slow |-> paAdc.slow, ch |-> paAdc.ch, val |-> paAdc.val, int |-> paAdc.int, en |-> en, late |-> paAdc.late]
  BY <1>1 DEF PaInv, PaTyped
<1>5. PaTyped'
  <2>1. paAdc' \in [busy : BOOLEAN, slow : BOOLEAN, ch : 0 .. 4, val : Int, int : BOOLEAN, en : BOOLEAN, late : Int]
    BY <1>4, PaParts DEF PaInv
  <2>2. paBusy' \subseteq {0, 1}  BY <1>1 DEF PaInv, PaTyped
  <2>3. paM' \in PaMachines  BY <1>2, <1>3, PaFacts DEF PaInv, PaMachines
  <2> QED  BY <1>1, <2>1, <2>2, <2>3 DEF PaInv, PaTyped
<1>6. paM'.pc = "idle"  BY <1>2, <1>3
<1>7. paBusy' = {}  BY <1>1 DEF PaInv, PaPlace
<1>8. PaPlace'
  <2>1. paPwm.en <=> FALSE  BY <1>1 DEF PaInv, PaPlace, PaTiming
  <2>2. (paPwm'.en <=> FALSE) /\ ~paAdc'.en  BY <1>1, <1>4, <2>1
  <2> QED  BY <1>6, <1>7, <2>2 DEF PaPlace, PaTiming, PaConverting
<1>9. PaConverter'  BY <1>1, <1>4, <1>6 DEF PaInv, PaConverter, PaConverting
<1>10. PwmRight'  BY <1>6, <1>7 DEF PwmRight
<1> QED  BY <1>5, <1>6, <1>8, <1>9, <1>10, PaRests

LEMMA PaReturns == PaInv /\ PaBack => PaInv'
<1> SUFFICES ASSUME PaInv, PaBack PROVE PaInv'
  OBVIOUS
<1> DEFINE pc == IF paM.test = "capture" THEN "idle" ELSE IF paM.test = "adc" THEN "adc" ELSE "pwm"
           none == "none"
           zero == 0
<1>1. /\ paM.pc = "end" /\ paBusy' = paBusy /\ paPwm' = paPwm /\ paWire' = paWire /\ paChip' = paChip /\ paAdc' = paAdc
      /\ paM' = [pc |-> pc, test |-> none, k |-> paM.k, flag |-> paM.flag, count |-> zero, wait |-> zero, duty |-> zero, hrc |-> zero,
                 was |-> <<0, 0>>, ch |-> zero, v |-> zero, sum |-> zero, ret |-> zero, tests |-> paM.tests]
  BY DEF PaBack, PaAt, PaIdle
<1>2. /\ pc \in {"idle", "adc", "pwm"} /\ (pc = "idle" <=> paM.test = "capture") /\ (pc = "adc" <=> paM.test = "adc")
      /\ none \in {"none", "single", "periodical", "capture", "adc"} /\ <<0, 0>> \in Int \X Int
      /\ zero \in Int /\ zero \in {0, 25, 50, 75, 100} /\ zero \in 0 .. 4 /\ zero \in {0, -1}
  OBVIOUS
<1> HIDE DEF pc, none, zero
<1>3. PaTyped'
  <2>1. pc \in PaPc  BY <1>2 DEF PaPc
  <2>2. paM' \in PaMachines  BY <1>1, <1>2, <2>1, PaFacts DEF PaInv, PaMachines
  <2> QED  BY <1>1, <2>2 DEF PaInv, PaTyped
<1>4. paM'.pc = pc /\ paM'.k = paM.k  BY <1>1
<1>5. paBusy' = (IF pc = "idle" THEN {} ELSE {paM.k})  BY <1>1, <1>2 DEF PaInv, PaPlace
<1>6. PaPlace'
  <2>1. paPwm.en <=> FALSE  BY <1>1 DEF PaInv, PaPlace, PaTiming
  <2>2. paPwm'.en <=> FALSE  BY <1>1, <2>1
  <2>3. (paAdc.en => pc = "adc") /\ (pc = "adc" => paM.k = 1)  BY <1>1, <1>2 DEF PaInv, PaPlace, PaConverting
  <2> QED  BY <1>1, <1>2, <1>4, <1>5, <2>2, <2>3 DEF PaPlace, PaTiming, PaConverting
<1>7. PaConverter'  BY <1>1, <1>2, <1>4 DEF PaInv, PaConverter, PaConverting
<1>8. PwmRight'  BY <1>2, <1>4, <1>5 DEF PwmRight
<1> QED  BY <1>2, <1>3, <1>4, <1>6, <1>7, <1>8, PaRests

LEMMA PaStarting == PaStart("idle") \/ PaStart("off") => PaInv
<1> SUFFICES ASSUME NEW pc \in {"idle", "off"}, PaStart(pc) PROVE PaInv
  OBVIOUS
<1> DEFINE none == "none"
           zero == 0
           tests == paTests
<1>1. /\ paM = [pc |-> pc, test |-> none, k |-> zero, flag |-> zero, count |-> zero, wait |-> zero, duty |-> zero, hrc |-> zero,
                was |-> <<0, 0>>, ch |-> zero, v |-> zero, sum |-> zero, ret |-> zero, tests |-> tests]
      /\ paBusy = {} /\ paPwm = [int |-> FALSE, en |-> FALSE, single |-> FALSE, fired |-> FALSE, past |-> FALSE]
      /\ paWire = [t |-> zero, phase |-> zero, hrc |-> zero, lrc |-> zero, edge |-> zero]
      /\ paAdc = [busy |-> FALSE, slow |-> FALSE, ch |-> zero, val |-> zero, int |-> FALSE, en |-> FALSE, late |-> paLate]
      /\ paChip \in [{0, 1} -> {"good", "dead", "wrong"}]
  <2>1. /\ paM = [pc |-> pc, test |-> none, k |-> zero, flag |-> zero, count |-> zero, wait |-> zero, duty |-> zero, hrc |-> zero,
                was |-> <<0, 0>>, ch |-> zero, v |-> zero, sum |-> zero, ret |-> zero, tests |-> tests]
        /\ paBusy = {} /\ paPwm = [int |-> FALSE, en |-> FALSE, single |-> FALSE, fired |-> FALSE, past |-> FALSE]
        /\ paWire = [t |-> zero, phase |-> zero, hrc |-> zero, lrc |-> zero, edge |-> zero]
        /\ paAdc = [busy |-> FALSE, slow |-> FALSE, ch |-> zero, val |-> zero, int |-> FALSE, en |-> FALSE, late |-> paLate]
    BY DEF PaStart, PaIdle
  <2>2. paChip \in [{0, 1} -> {"good", "dead", "wrong"}]
    <3>1. paChip \in [{0, 1} -> IF pc = "off" THEN {"good"} ELSE {"good", "dead", "wrong"}]  BY DEF PaStart
    <3>2. CASE pc = "off"
      <4>1. paChip \in [{0, 1} -> {"good"}]  BY <3>1, <3>2
      <4> QED  BY <4>1
    <3>3. CASE pc # "off"  BY <3>1, <3>3
    <3> QED  BY <3>2, <3>3
  <2> QED  BY <2>1, <2>2
<1>2. /\ none \in {"none", "single", "periodical", "capture", "adc"} /\ <<0, 0>> \in Int \X Int /\ tests \in Int /\ paLate \in Int
      /\ zero \in Int /\ zero \in {0, 25, 50, 75, 100} /\ zero \in 0 .. 4 /\ zero \in {0, -1} /\ zero \in {0, 1} /\ zero \in 0 .. 3 /\ zero = 0
  BY PaAssumption
<1> HIDE DEF none, zero, tests
<1>3. pc \in PaPc /\ pc \notin PaTiming /\ pc \notin PaConverting /\ pc \notin {"hrc", "lrc", "end", "conv", "read", "pwm", "adc"}
  BY DEF PaPc, PaTiming, PaConverting
<1>4. PaTyped
  <2>1. paM \in PaMachines  BY <1>1, <1>2, <1>3 DEF PaMachines
  <2>2. paPwm \in [int : BOOLEAN, en : BOOLEAN, single : BOOLEAN, fired : BOOLEAN, past : BOOLEAN]  BY <1>1
  <2>3. paWire \in [t : Int, phase : 0 .. 3, hrc : Int, lrc : Int, edge : 0 .. 4]  BY <1>1, <1>2
  <2>4. paAdc \in [busy : BOOLEAN, slow : BOOLEAN, ch : 0 .. 4, val : Int, int : BOOLEAN, en : BOOLEAN, late : Int]  BY <1>1, <1>2
  <2> QED  BY <1>1, <2>1, <2>2, <2>3, <2>4 DEF PaTyped
<1>5. paM.pc = pc  BY <1>1
<1>6. /\ ~paPwm.en /\ ~paAdc.en /\ ~paAdc.busy /\ ~paAdc.slow /\ paAdc.late = paLate /\ paAdc.val = 0  BY <1>1, <1>2
<1>7. PaPlace
  <2>1. paPwm.en <=> FALSE  BY <1>1
  <2> QED  BY <1>1, <1>3, <1>5, <1>6, <2>1 DEF PaPlace
<1>8. PaTimer /\ PaSignals /\ PaRead /\ PaWrong /\ PaGood  BY <1>3, <1>5 DEF PaTimer, PaSignals, PaRead, PaWrong, PaGood
<1>9. PaConverter  BY <1>2, <1>3, <1>5, <1>6 DEF PaConverter
<1>10. PwmRight  BY <1>1, <1>3, <1>5 DEF PwmRight
<1> QED  BY <1>4, <1>7, <1>8, <1>9, <1>10 DEF PaInv

(* The timers.                                                             *)
LEMMA PaTimes ==
  ASSUME paM'.pc \in PaTiming, PaTyped', PaPlace', PaTimer', PaConverter'
  PROVE  PaInv'
<1>1. paM'.pc \notin {"idle", "end"} /\ paM'.pc \notin PaConverting /\ paM'.pc \notin {"hrc", "lrc"}  BY DEF PaTiming, PaConverting
<1>2. PaSignals' /\ PaRead' /\ PaWrong' /\ PaGood' /\ PwmRight'  BY <1>1 DEF PaSignals, PaRead, PaWrong, PaGood, PwmRight
<1> QED  BY <1>2 DEF PaInv

LEMMA PaConverterKept ==
  ASSUME PaConverter, paAdc' = paAdc, paChip' = paChip, paM'.pc \notin PaConverting, paM.pc \notin {"conv", "read"}
  PROVE  PaConverter'
BY DEF PaConverter, PaConverting

LEMMA PaTimerBegins == PaInv /\ socle_pwmt_timer_mode_test_init => PaInv'
<1> SUFFICES ASSUME PaInv, socle_pwmt_timer_mode_test_init PROVE PaInv'
  OBVIOUS
<1>1. PICK single \in BOOLEAN :
        /\ paM.pc = "pwm" /\ paBusy' = paBusy /\ paWire' = paWire /\ paAdc' = paAdc /\ paChip' = paChip
        /\ paM' = [[paM EXCEPT !.pc = "wait", !.test = IF single THEN "single" ELSE "periodical", !.flag = 0, !.count = 0, !.wait = 3]
                     EXCEPT !.tests = paM.tests - 1]
        /\ paPwm' = [int |-> FALSE, en |-> TRUE, single |-> single, fired |-> FALSE, past |-> FALSE]
  BY DEF socle_pwmt_timer_mode_test_init, PaBegins, PaAt
<1> DEFINE test == IF single THEN "single" ELSE "periodical"
           pc == "wait"
           zero == 0
           wait == 3
           tests == paM.tests - 1
<1>2. /\ test \in {"single", "periodical"} /\ (single <=> test = "single") /\ pc = "wait" /\ zero = 0 /\ wait = 3
      /\ zero \in Int /\ zero \in {0, 1} /\ wait \in Int
  OBVIOUS
<1>3. paM' = [[paM EXCEPT !.pc = pc, !.test = test, !.flag = zero, !.count = zero, !.wait = wait] EXCEPT !.tests = tests]  BY <1>1
<1>4. tests \in Int  BY PaFacts DEF PaInv
<1>5. pc \in PaPc /\ pc \in PaTiming /\ pc \notin PaConverting /\ pc \notin {"off", "idle", "pwm", "adc", "hrc", "lrc", "end"}
  BY DEF PaPc, PaTiming, PaConverting
<1> HIDE DEF test, pc, zero, wait, tests
<1>6. paM' = [pc |-> pc, test |-> test, k |-> paM.k, flag |-> zero, count |-> zero, wait |-> wait,
              duty |-> paM.duty, hrc |-> paM.hrc, was |-> paM.was, ch |-> paM.ch, v |-> paM.v, sum |-> paM.sum,
              ret |-> paM.ret, tests |-> tests]
  BY <1>3 DEF PaInv, PaTyped, PaMachines
<1>7. PaTyped'
  <2>1. paM' \in PaMachines  BY <1>2, <1>4, <1>5, <1>6, PaFacts DEF PaInv, PaMachines
  <2>2. paPwm' \in [int : BOOLEAN, en : BOOLEAN, single : BOOLEAN, fired : BOOLEAN, past : BOOLEAN]  BY <1>1
  <2> QED  BY <1>1, <2>1, <2>2 DEF PaInv, PaTyped
<1>8. paM'.pc = "wait" /\ paM'.test = test /\ paM'.k = paM.k /\ paM'.flag = 0 /\ paM'.count = 0 /\ paM'.wait = 3  BY <1>2, <1>6
<1>9. PaPlace'
  <2>1. paBusy = {paM.k} /\ ~paAdc.en  BY <1>1 DEF PaInv, PaPlace, PaConverting
  <2>2. paPwm'.en <=> TRUE  BY <1>1
  <2>3. paM'.pc \in PaTiming  BY <1>8 DEF PaTiming
  <2> QED  BY <1>1, <1>2, <1>8, <2>1, <2>2, <2>3 DEF PaPlace, PaTiming, PaConverting
<1>10. PaTimer'
  <2>1. ~paPwm'.int /\ ~paPwm'.fired /\ ~paPwm'.past  BY <1>1
  <2>2. paPwm'.single <=> paM'.test = "single"
    <3>1. paPwm'.single = single  BY <1>1
    <3> QED  BY <1>2, <1>8, <3>1
  <2>3. paPwm'.past <=> paM'.count = 5
    <3>1. paM'.count # 5  BY <1>8
    <3> QED  BY <2>1, <3>1
  <2> QED  BY <1>8, <2>1, <2>2, <2>3 DEF PaTimer
<1>11. PaConverter'  BY <1>1, <1>5, <1>8, <1>2, PaConverterKept DEF PaInv
<1>12. paM'.pc \in PaTiming  BY <1>8 DEF PaTiming
<1> QED  BY <1>7, <1>9, <1>10, <1>11, <1>12, PaTimes

(* The steps of a timer test that is under way.                            *)
LEMMA PaTimed ==
  ASSUME PaInv, paM.pc \in PaTiming, paBusy' = paBusy, paWire' = paWire, paAdc' = paAdc, paChip' = paChip,
         NEW pc \in PaTiming, NEW flag \in {0, 1}, NEW count \in Int, NEW wait \in Int,
         paM' = [paM EXCEPT !.pc = pc, !.flag = flag, !.count = count, !.wait = wait],
         NEW int \in BOOLEAN, NEW fired \in BOOLEAN, NEW past \in BOOLEAN,
         paPwm' = [paPwm EXCEPT !.int = int, !.fired = fired, !.past = past],
         PaTimer'
  PROVE  PaInv'
<1>1. paM' = [pc |-> pc, test |-> paM.test, k |-> paM.k, flag |-> flag, count |-> count, wait |-> wait,
              duty |-> paM.duty, hrc |-> paM.hrc, was |-> paM.was, ch |-> paM.ch, v |-> paM.v, sum |-> paM.sum,
              ret |-> paM.ret, tests |-> paM.tests]
  BY DEF PaInv, PaTyped, PaMachines
<1>2. paPwm' = [int |-> int, en |-> paPwm.en, single |-> paPwm.single, fired |-> fired, past |-> past]  BY DEF PaInv, PaTyped
<1>3. paPwm.en \in BOOLEAN /\ paPwm.single \in BOOLEAN  BY PaParts DEF PaInv
<1>4. pc \in PaPc  BY DEF PaPc
<1>5. PaTyped'
  <2>1. paM' \in PaMachines  BY <1>1, <1>4, PaFacts DEF PaInv, PaMachines
  <2>2. paPwm' \in [int : BOOLEAN, en : BOOLEAN, single : BOOLEAN, fired : BOOLEAN, past : BOOLEAN]  BY <1>2, <1>3
  <2> QED  BY <2>1, <2>2 DEF PaInv, PaTyped
<1>6. paM'.pc = pc /\ paM'.test = paM.test /\ paM'.k = paM.k  BY <1>1
<1>7. PaPlace'
  <2>1. paBusy = {paM.k} /\ ~paAdc.en /\ paM.test \in {"single", "periodical"}  BY DEF PaInv, PaPlace, PaTiming, PaConverting
  <2>2. paPwm.en <=> TRUE  BY DEF PaInv, PaPlace
  <2>3. paPwm'.en <=> TRUE  BY <1>2, <2>2
  <2> QED  BY <1>6, <2>1, <2>3 DEF PaPlace, PaTiming, PaConverting
<1>8. PaConverter'
  <2>1. pc \notin PaConverting /\ paM.pc \notin {"conv", "read"}  BY DEF PaTiming, PaConverting
  <2> QED  BY <1>6, <2>1, PaConverterKept DEF PaInv
<1> QED  BY <1>5, <1>6, <1>7, <1>8, PaTimes

LEMMA PaInterrupts == PaInv /\ socle_pwm_timer_isr => PaInv'
<1> SUFFICES ASSUME PaInv, socle_pwm_timer_isr PROVE PaInv'
  OBVIOUS
<1> DEFINE pc == paM.pc
           flag == 1
           count == paM.count + 1
           wait == paM.wait
           past == paPwm.past \/ paM.count + 1 >= 5
           int == paPwm.single /\ ~past /\ paChip[paM.k] = "good"
           fired == paPwm.fired
<1>1. /\ paPwm.int /\ paPwm.en /\ paBusy' = paBusy /\ paWire' = paWire /\ paAdc' = paAdc /\ paChip' = paChip
      /\ paM' = [paM EXCEPT !.flag = flag, !.count = count] /\ paPwm' = [paPwm EXCEPT !.past = past, !.int = int]
  BY DEF socle_pwm_timer_isr
<1>2. pc \in PaTiming /\ wait \in Int /\ flag \in {0, 1} /\ flag = 1 /\ count \in Int /\ count = paM.count + 1 /\ past \in BOOLEAN /\ fired \in BOOLEAN
  BY <1>1, PaFacts, PaParts DEF PaInv, PaPlace
<1>3. (past <=> paPwm.past \/ count >= 5) /\ (int <=> paPwm.single /\ ~past /\ paChip[paM.k] = "good") /\ int \in BOOLEAN  BY PaParts DEF PaInv
<1> HIDE DEF flag, count, past, int
<1>4. paM' = [paM EXCEPT !.pc = pc, !.flag = flag, !.count = count, !.wait = wait]
  BY <1>1 DEF PaInv, PaTyped, PaMachines
<1>5. paPwm' = [paPwm EXCEPT !.int = int, !.fired = fired, !.past = past]  BY <1>1 DEF PaInv, PaTyped
<1> HIDE DEF wait, fired, pc
<1>6. /\ paM'.pc = pc /\ paM'.test = paM.test /\ paM'.k = paM.k /\ paM'.flag = 1 /\ paM'.count = paM.count + 1 /\ paM'.wait = wait
  BY <1>2, <1>4 DEF PaInv, PaTyped, PaMachines
<1>7. paPwm'.int = int /\ paPwm'.single = paPwm.single /\ paPwm'.past = past /\ paPwm'.fired = paPwm.fired
  BY <1>5 DEF PaInv, PaTyped, fired
<1>8. paM.pc = pc /\ paM.k \in {0, 1} /\ paM.count \in Int /\ paM.flag \in {0, 1}  BY PaFacts DEF pc, PaInv
<1>9. pc # "check"  BY <1>1, <1>2, <1>8 DEF PaInv, PaTimer
<1>10. (paPwm'.int <=> int) /\ (paPwm'.single <=> paPwm.single) /\ (paPwm'.past <=> past) /\ (paPwm'.fired <=> paPwm.fired)
  BY <1>7
<1>11. PaTimer'
  <2>1. paPwm'.single <=> paM'.test = "single"  BY <1>2, <1>6, <1>8, <1>10 DEF PaInv, PaTimer
  <2>2. paM'.pc = "again" => ~paPwm'.single  BY <1>2, <1>6, <1>8, <1>10 DEF PaInv, PaTimer
  <2>3. CASE paPwm.single /\ paChip[paM.k] = "good"
    <3>1. paM.count <= 5 /\ (paPwm.past <=> paM.count = 5) /\ pc = "wait" /\ paM.count # 5
      <4>1. paM.pc \in PaTiming /\ paM.pc # "check" /\ paM.pc # "again"  BY <1>2, <1>8, <1>9, <2>3 DEF PaInv, PaTimer
      <4>2. paM.pc = "wait"  BY <4>1 DEF PaTiming
      <4>3. paM.count <= 5 /\ (paPwm.past <=> paM.count = 5)  BY <2>3, <4>1 DEF PaInv, PaTimer
      <4>4. paM.flag = 0 => paM.count = 0  BY <4>1, <4>2 DEF PaInv, PaTimer
      <4>5. paM.flag = 1 => paM.count # 5  BY <1>1, <2>3, <4>1, <4>2 DEF PaInv, PaTimer
      <4> QED  BY <1>8, <4>2, <4>3, <4>4, <4>5
    <3>2. paM'.count <= 5 /\ (past <=> paM'.count = 5) /\ (int <=> paM'.count # 5)  BY <1>2, <1>3, <1>6, <1>8, <2>3, <3>1
    <3> QED  BY <1>1, <1>6, <1>8, <1>10, <2>1, <2>2, <2>3, <3>1, <3>2 DEF PaTimer
  <2>4. CASE ~(paPwm.single /\ paChip[paM.k] = "good")
    <3>1. ~int  BY <1>3, <2>4
    <3>2. paM.flag = 0 /\ paM.count = IF pc = "again" THEN 1 ELSE 0  BY <1>1, <1>2, <1>8, <1>9, <2>4 DEF PaInv, PaTimer
    <3>3. paM'.count = IF pc = "again" THEN 2 ELSE 1  BY <1>6, <3>2
    <3>4. paChip[paM.k] # "dead"  BY <1>1, <1>2, <1>8 DEF PaInv, PaTimer
    <3>5. paChip[paM.k] = "wrong" => paPwm.fired /\ pc # "again"  BY <1>1, <1>2, <1>8 DEF PaInv, PaTimer
    <3> QED  BY <1>1, <1>6, <1>8, <1>9, <1>10, <2>1, <2>2, <2>4, <3>1, <3>3, <3>4, <3>5 DEF PaTimer
  <2> QED  BY <2>3, <2>4
<1>12. paM.pc \in PaTiming  BY <1>2, <1>8
<1>13. paBusy' = paBusy /\ paWire' = paWire /\ paAdc' = paAdc /\ paChip' = paChip  BY <1>1
<1> QED  BY <1>2, <1>3, <1>4, <1>5, <1>11, <1>12, <1>13, PaTimed

LEMMA PaGoesOn == PaInv /\ PaSecond => PaInv'
<1> SUFFICES ASSUME PaInv, PaSecond PROVE PaInv'
  OBVIOUS
<1> DEFINE fires == \/ paChip[paM.k] # "dead" /\ ~paPwm.fired
                    \/ paChip[paM.k] = "good" /\ ~paPwm.single
           pc == paM.pc
           flag == paM.flag
           count == paM.count
           wait == paM.wait - 1
           past == paPwm.past
           int == paPwm.int \/ fires
           fired == paPwm.fired \/ fires
<1>1. /\ pc \in {"wait", "again"} /\ paPwm.en /\ ~paPwm.int /\ flag = 0 /\ paBusy' = paBusy /\ paWire' = paWire /\ paAdc' = paAdc /\ paChip' = paChip
      /\ paM' = [paM EXCEPT !.wait = wait] /\ paPwm' = [paPwm EXCEPT !.int = int, !.fired = fired]
  <2>1. /\ pc \in {"wait", "again"} /\ ~(paPwm.int /\ paPwm.en) /\ flag = 0 /\ paBusy' = paBusy /\ paWire' = paWire /\ paAdc' = paAdc /\ paChip' = paChip
        /\ paM' = [paM EXCEPT !.wait = wait] /\ paPwm' = [paPwm EXCEPT !.int = int, !.fired = fired]
    BY DEF PaSecond, PaAt, PaQuiet
  <2>2. paPwm.en  BY <2>1 DEF PaInv, PaPlace, PaTiming
  <2> QED  BY <2>1, <2>2
<1>2. pc \in PaTiming /\ wait \in Int /\ flag \in {0, 1} /\ count \in Int /\ past \in BOOLEAN /\ fired \in BOOLEAN /\ int \in BOOLEAN
  BY <1>1, PaFacts, PaParts DEF PaInv, PaTiming
<1>3. (int <=> fires) /\ (fired <=> paPwm.fired \/ fires)  BY <1>1
<1> HIDE DEF int, fired, wait, fires
<1>4. paM' = [paM EXCEPT !.pc = pc, !.flag = flag, !.count = count, !.wait = wait]  BY <1>1 DEF PaInv, PaTyped, PaMachines
<1>5. paPwm' = [paPwm EXCEPT !.int = int, !.fired = fired, !.past = past]  BY <1>1 DEF PaInv, PaTyped
<1>6. paM'.pc = paM.pc /\ paM'.test = paM.test /\ paM'.k = paM.k /\ paM'.flag = 0 /\ paM'.count = paM.count
  BY <1>1, <1>4 DEF PaInv, PaTyped, PaMachines
<1>7. paPwm'.int = int /\ paPwm'.single = paPwm.single /\ paPwm'.past = paPwm.past /\ paPwm'.fired = fired
  BY <1>5 DEF PaInv, PaTyped
<1>8. (paPwm'.int <=> fires) /\ (paPwm'.single <=> paPwm.single) /\ (paPwm'.past <=> paPwm.past) /\ (paPwm'.fired <=> paPwm.fired \/ fires)
  BY <1>3, <1>7
<1>9. PaTimer'
  <2>1. paM.pc \in PaTiming /\ paM.pc # "check" /\ paM.flag = 0  BY <1>1, <1>2
  <2>2. /\ paPwm.single <=> paM.test = "single"
        /\ paM.pc = "again" => ~paPwm.single
        /\ paM.count = IF paM.pc = "again" THEN 1 ELSE 0
        /\ paChip[paM.k] = "good" /\ paPwm.single => paM.count <= 5 /\ (paPwm.past <=> paM.count = 5)
    BY <2>1 DEF PaInv, PaTimer
  <2>3. paChip[paM.k] = "dead" => paM.pc = "wait" /\ ~fires  BY <2>1 DEF PaInv, PaTimer, fires
  <2>4. paChip[paM.k] = "wrong" => /\ (fires <=> ~paPwm.fired)
                                   /\ paM.pc = "again" => paPwm.fired
    BY <2>1 DEF PaInv, PaTimer, fires
  <2>5. paChip[paM.k] = "good" => fires
    <3>1. paChip[paM.k] = "good" /\ paPwm.single => ~paPwm.fired
      BY <1>1, <2>1 DEF PaInv, PaTimer
    <3> QED  BY <3>1 DEF fires
  <2> QED  BY <1>1, <1>6, <1>8, <2>1, <2>2, <2>3, <2>4, <2>5 DEF PaTimer
<1>10. paM.pc \in PaTiming  BY <1>2
<1>11. paBusy' = paBusy /\ paWire' = paWire /\ paAdc' = paAdc /\ paChip' = paChip  BY <1>1
<1> HIDE DEF pc, flag, count, past
<1> QED  BY <1>2, <1>4, <1>5, <1>9, <1>10, <1>11, PaTimed

LEMMA PaHits == PaInv /\ PaHit => PaInv'
<1> SUFFICES ASSUME PaInv, PaHit PROVE PaInv'
  OBVIOUS
<1> DEFINE pc == IF paM.pc = "wait" /\ paM.test = "periodical" THEN "again" ELSE "check"
           flag == 0
           count == paM.count
           wait == 3
<1>1. /\ paM.pc \in {"wait", "again"} /\ ~(paPwm.int /\ paPwm.en) /\ paM.flag = 1 /\ paBusy' = paBusy /\ paWire' = paWire /\ paAdc' = paAdc
      /\ paChip' = paChip /\ paM' = [paM EXCEPT !.flag = flag, !.wait = wait, !.pc = pc] /\ paPwm' = paPwm
  BY DEF PaHit, PaAt, PaQuiet
<1>2. pc \in PaTiming /\ wait \in Int /\ flag \in {0, 1} /\ count \in Int /\ flag = 0 /\ wait = 3  BY <1>1, PaFacts DEF PaInv, PaTiming
<1>3. (pc = "again" <=> paM.pc = "wait" /\ paM.test = "periodical") /\ pc \in {"again", "check"}  OBVIOUS
<1> HIDE DEF pc, flag, wait
<1>4. paM' = [paM EXCEPT !.pc = pc, !.flag = flag, !.count = count, !.wait = wait]  BY <1>1 DEF PaInv, PaTyped, PaMachines
<1> DEFINE int == paPwm.int
           fired == paPwm.fired
           past == paPwm.past
<1>5. paPwm' = [paPwm EXCEPT !.int = int, !.fired = fired, !.past = past]  BY <1>1 DEF PaInv, PaTyped
<1>6. int \in BOOLEAN /\ fired \in BOOLEAN /\ past \in BOOLEAN  BY PaParts DEF PaInv
<1>7. paM'.pc = pc /\ paM'.test = paM.test /\ paM'.k = paM.k /\ paM'.flag = 0 /\ paM'.count = paM.count /\ paM'.wait = 3
  BY <1>2, <1>4 DEF PaInv, PaTyped, PaMachines
<1>8. paBusy' = paBusy /\ paWire' = paWire /\ paAdc' = paAdc /\ paChip' = paChip /\ paPwm' = paPwm  BY <1>1
<1>9. paM.pc \in PaTiming /\ paM.pc # "check"  BY <1>1 DEF PaTiming
<1>10. ~paPwm.int  BY <1>1, <1>9 DEF PaInv, PaPlace
<1>11. PaTimer'
  <2>1. /\ paPwm.single <=> paM.test = "single"
        /\ paM.pc = "again" => ~paPwm.single
        /\ paM.test \in {"single", "periodical"}
    BY <1>9 DEF PaInv, PaTimer, PaPlace
  <2>2. CASE paPwm.single
    <3>1. paM.pc = "wait" /\ pc = "check"  BY <1>1, <1>3, <2>1, <2>2
    <3>2. paChip[paM.k] # "dead"  BY <1>1, <1>9 DEF PaInv, PaTimer
    <3>3. paChip[paM.k] = "good" => paM.count = 5 /\ paPwm.past  BY <1>1, <1>9, <1>10, <2>2, <3>1 DEF PaInv, PaTimer
    <3>4. paChip[paM.k] = "wrong" => paM.count = 1 /\ paPwm.fired  BY <1>1, <1>9, <2>2, <3>1 DEF PaInv, PaTimer
    <3> QED  BY <1>7, <1>8, <1>10, <2>1, <2>2, <3>1, <3>2, <3>3, <3>4 DEF PaTimer
  <2>3. CASE ~paPwm.single
    <3>1. paChip[paM.k] # "dead"  BY <1>1, <1>9 DEF PaInv, PaTimer
    <3>2. paM.count = IF paM.pc = "again" THEN 2 ELSE 1  BY <1>1, <1>9, <2>3 DEF PaInv, PaTimer
    <3>3. paChip[paM.k] = "wrong" => paPwm.fired /\ paM.pc = "wait"  BY <1>1, <1>9 DEF PaInv, PaTimer
    <3>4. pc = (IF paM.pc = "wait" THEN "again" ELSE "check")  BY <1>3, <2>1, <2>3
    <3> QED  BY <1>1, <1>7, <1>8, <1>10, <2>1, <2>3, <3>1, <3>2, <3>3, <3>4 DEF PaTimer
  <2> QED  BY <2>2, <2>3
<1> HIDE DEF count, int, fired, past
<1>12. count \in Int  BY <1>2
<1> QED  BY <1>2, <1>4, <1>5, <1>6, <1>8, <1>9, <1>11, <1>12, PaTimed

(* A timer test ends.                                                      *)
LEMMA PaTimeEnds ==
  ASSUME PaInv, paM.pc \in PaTiming, paBusy' = paBusy, paWire' = paWire, paAdc' = paAdc, paChip' = paChip,
         NEW ret \in {0, -1}, paM' = [paM EXCEPT !.pc = "end", !.ret = ret], paPwm' = [paPwm EXCEPT !.en = FALSE],
         ret = 0 <=> paChip[paM.k] = "good"
  PROVE  PaInv'
<1> DEFINE pc == "end"
<1>1. paM' = [pc |-> pc, test |-> paM.test, k |-> paM.k, flag |-> paM.flag, count |-> paM.count, wait |-> paM.wait,
              duty |-> paM.duty, hrc |-> paM.hrc, was |-> paM.was, ch |-> paM.ch, v |-> paM.v, sum |-> paM.sum,
              ret |-> ret, tests |-> paM.tests]
  BY DEF PaInv, PaTyped, PaMachines
<1>2. paPwm' = [int |-> paPwm.int, en |-> FALSE, single |-> paPwm.single, fired |-> paPwm.fired, past |-> paPwm.past]  BY DEF PaInv, PaTyped
<1>3. pc \in PaPc /\ pc = "end"  BY DEF PaPc
<1> HIDE DEF pc
<1>4. PaTyped'
  <2>1. paM' \in PaMachines  BY <1>1, <1>3, PaFacts DEF PaInv, PaMachines
  <2>2. paPwm' \in [int : BOOLEAN, en : BOOLEAN, single : BOOLEAN, fired : BOOLEAN, past : BOOLEAN]  BY <1>2, PaParts DEF PaInv
  <2> QED  BY <2>1, <2>2 DEF PaInv, PaTyped
<1>5. paM'.pc = "end" /\ paM'.test = paM.test /\ paM'.k = paM.k /\ paM'.ret = ret  BY <1>1, <1>3
<1>6. paBusy = {paM.k} /\ ~paAdc.en /\ paM.test \in {"single", "periodical"}  BY DEF PaInv, PaPlace, PaTiming, PaConverting
<1>7. PaPlace'
  <2>1. paPwm'.en <=> FALSE  BY <1>2
  <2> QED  BY <1>5, <1>6, <2>1 DEF PaPlace, PaTiming, PaConverting
<1>8. PaConverter'
  <2>1. paM'.pc \notin PaConverting /\ paM.pc \notin {"conv", "read"}  BY <1>5 DEF PaTiming, PaConverting
  <2> QED  BY <2>1, PaConverterKept DEF PaInv
<1>9. PwmRight'  BY <1>5, <1>6 DEF PwmRight
<1> QED  BY <1>4, <1>5, <1>7, <1>8, <1>9, PaRests

LEMMA PaTimesOut == PaInv /\ PaTimeout => PaInv'
<1> SUFFICES ASSUME PaInv, PaTimeout PROVE PaInv'
  OBVIOUS
<1> DEFINE ret == -1
<1>1. /\ paM.pc \in {"wait", "again"} /\ ~(paPwm.int /\ paPwm.en) /\ paM.flag = 0 /\ paM.wait = 0 /\ paBusy' = paBusy /\ paWire' = paWire
      /\ paAdc' = paAdc /\ paChip' = paChip /\ paM' = [paM EXCEPT !.pc = "end", !.ret = ret] /\ paPwm' = [paPwm EXCEPT !.en = FALSE]
  BY DEF PaTimeout, PaAt, PaQuiet, PaEnds, socle_pwmt_timer_mode_test_release
<1>2. paM.pc \in PaTiming /\ paM.pc # "check"  BY <1>1 DEF PaTiming
<1>3. ~paPwm.int  BY <1>1, <1>2 DEF PaInv, PaPlace
<1>4. paChip[paM.k] # "good"
  <2>1. paChip[paM.k] = "good" => paM.wait = 3  BY <1>1, <1>2, <1>3 DEF PaInv, PaTimer
  <2> QED  BY <1>1, <2>1
<1>5. ret \in {0, -1} /\ ret # 0  OBVIOUS
<1> HIDE DEF ret
<1> QED  BY <1>1, <1>2, <1>4, <1>5, PaTimeEnds

LEMMA PaCounts == PaInv /\ PaChecks => PaInv'
<1> SUFFICES ASSUME PaInv, PaChecks PROVE PaInv'
  OBVIOUS
<1> DEFINE ret == IF (paM.test = "single" /\ paM.count < 5) \/ (paM.test = "periodical" /\ paM.count # 2) THEN -1 ELSE 0
<1>1. /\ paM.pc = "check" /\ paBusy' = paBusy /\ paWire' = paWire
      /\ paAdc' = paAdc /\ paChip' = paChip /\ paM' = [paM EXCEPT !.pc = "end", !.ret = ret] /\ paPwm' = [paPwm EXCEPT !.en = FALSE]
  BY DEF PaChecks, PaAt, PaEnds, socle_pwmt_timer_mode_test_release
<1>2. paM.pc \in PaTiming  BY <1>1 DEF PaTiming
<1>3. ret \in {0, -1} /\ (ret = 0 <=> ~((paM.test = "single" /\ paM.count < 5) \/ (paM.test = "periodical" /\ paM.count # 2)))  OBVIOUS
<1> HIDE DEF ret
<1>4. paM.test \in {"single", "periodical"} /\ (paPwm.single <=> paM.test = "single")  BY <1>2 DEF PaInv, PaPlace, PaTimer
<1>5. /\ paChip[paM.k] = "good" => paM.count = IF paM.test = "single" THEN 5 ELSE 2
      /\ paChip[paM.k] = "wrong" => paM.test = "single" /\ paM.count = 1
      /\ paChip[paM.k] # "dead"
  BY <1>1, <1>2, <1>4 DEF PaInv, PaTimer
<1>6. paChip[paM.k] \in {"good", "dead", "wrong"}  BY PaFacts, PaParts DEF PaInv
<1>7. ret = 0 <=> paChip[paM.k] = "good"  BY <1>3, <1>4, <1>5, <1>6
<1> QED  BY <1>1, <1>2, <1>3, <1>7, PaTimeEnds

(* The signal.  After an edge comes the other one, in its time.            *)
LEMMA PaShapes ==
  ASSUME PaTyped, paM.duty \in {25, 50, 75}
  PROVE  /\ PaPeriod \in {2, 4} /\ PaHigh \in 1 .. 4
         /\ paChip[paM.k] # "wrong" => PaHigh < PaPeriod /\ ((PaHigh * 10000) \div PaPeriod) \div 100 = paM.duty
         /\ paChip[paM.k] = "wrong" /\ PaHigh < PaPeriod => ((PaHigh * 10000) \div PaPeriod) \div 100 # paM.duty
<1>1. CASE paM.duty = 25
  <2>1. PaPeriod = 4 /\ PaHigh = IF paChip[paM.k] = "wrong" THEN 2 ELSE 1  BY <1>1 DEF PaPeriod, PaHigh
  <2> QED  BY <1>1, <2>1
<1>2. CASE paM.duty = 50
  <2>1. PaPeriod = 2 /\ PaHigh = IF paChip[paM.k] = "wrong" THEN 2 ELSE 1  BY <1>2 DEF PaPeriod, PaHigh
  <2> QED  BY <1>2, <2>1
<1>3. CASE paM.duty = 75
  <2>1. PaPeriod = 4 /\ PaHigh = IF paChip[paM.k] = "wrong" THEN 4 ELSE 3  BY <1>3 DEF PaPeriod, PaHigh
  <2> QED  BY <1>3, <2>1
<1> QED  BY <1>1, <1>2, <1>3

LEMMA PaNextMod ==
  ASSUME NEW s \in Nat, NEW phase \in 0 .. 3
  PROVE  LET r == (s + phase) % 4
         IN /\ (s + 1 + phase) % 4 = IF r = 3 THEN 0 ELSE r + 1
            /\ (s + 2 + phase) % 4 = IF r >= 2 THEN r - 2 ELSE r + 2
            /\ (s + 3 + phase) % 4 = IF r >= 1 THEN r - 1 ELSE 3
<1> DEFINE r == (s + phase) % 4
           q == (s + phase) \div 4
<1>1. s + phase = 4 * q + r /\ q \in Int /\ r \in 0 .. 3  OBVIOUS
<1>2. (s + 1 + phase) % 4 = IF r = 3 THEN 0 ELSE r + 1  BY <1>1
<1>3. (s + 2 + phase) % 4 = IF r >= 2 THEN r - 2 ELSE r + 2  BY <1>1
<1>4. (s + 3 + phase) % 4 = IF r >= 1 THEN r - 1 ELSE 3  BY <1>1
<1> QED  BY <1>2, <1>3, <1>4

PaFirst(p, h, phase, s, t) ==
  /\ p \in {2, 4} /\ h \in 1 .. 3 /\ h < p /\ phase \in 0 .. 3 /\ s \in Nat /\ t \in s + 1 .. s + p
  /\ (t + phase) % p = 0 \/ (t + phase) % p = h
  /\ \A u \in s + 1 .. t - 1 : (u + phase) % p # 0 /\ (u + phase) % p # h
LEMMA PaNextEdge ==
  \A p, h, phase, s, t : PaFirst(p, h, phase, s, t) =>
    /\ (s + phase) % p = 0 => t = s + h /\ (t + phase) % p = h
    /\ (s + phase) % p = h => t = s + (p - h) /\ (t + phase) % p = 0
<1> SUFFICES ASSUME NEW p, NEW h, NEW phase, NEW s, NEW t, PaFirst(p, h, phase, s, t)
             PROVE  /\ (s + phase) % p = 0 => t = s + h /\ (t + phase) % p = h
                    /\ (s + phase) % p = h => t = s + (p - h) /\ (t + phase) % p = 0
  OBVIOUS
<1> p \in {2, 4} /\ h \in 1 .. 3 /\ h < p /\ phase \in 0 .. 3 /\ s \in Nat /\ t \in s + 1 .. s + p  BY DEF PaFirst
<1> (t + phase) % p = 0 \/ (t + phase) % p = h  BY DEF PaFirst
<1> \A u \in s + 1 .. t - 1 : (u + phase) % p # 0 /\ (u + phase) % p # h  BY DEF PaFirst
<1>1. CASE p = 2
  <2>1. h = 1  BY <1>1
  <2>2. t > s + 1 => s + 1 \in s + 1 .. t - 1  OBVIOUS
  <2> QED  BY <1>1, <2>1, <2>2
<1>2. CASE p = 4
  <2>1. \A d \in 1 .. 3 : t > s + d => s + d \in s + 1 .. t - 1  OBVIOUS
  <2>2. \A d \in 1 .. 4 : t = s + d \/ t > s + d \/ t < s + d  OBVIOUS
  <2>3. t = s + 1 \/ t = s + 2 \/ t = s + 3 \/ t = s + 4  BY <1>2
  <2>4. CASE h = 1  BY <1>2, <2>1, <2>3, <2>4
  <2>5. CASE h = 2
    <3> DEFINE r == (s + phase) % 4
    <3>1. /\ (s + 1 + phase) % 4 = IF r = 3 THEN 0 ELSE r + 1
          /\ (s + 2 + phase) % 4 = IF r >= 2 THEN r - 2 ELSE r + 2
          /\ (s + 3 + phase) % 4 = IF r >= 1 THEN r - 1 ELSE 3
      BY PaNextMod
    <3>2. t = s + 4 => (s + 2 + phase) % 4 # 0 /\ (s + 2 + phase) % 4 # 2
      <4> DEFINE u == s + 2
      <4>1. t = s + 4 => u \in s + 1 .. t - 1  BY <2>1
      <4> HIDE DEF u
      <4>2. t = s + 4 => (u + phase) % p # 0 /\ (u + phase) % p # h  BY <4>1
      <4>3. t = s + 4 => (u + phase) % 4 # 0 /\ (u + phase) % 4 # 2  BY <1>2, <2>5, <4>2
      <4> QED  BY <4>3 DEF u
    <3>3. /\ t = s + 1 => (s + 1 + phase) % 4 = 0 \/ (s + 1 + phase) % 4 = 2
          /\ t = s + 3 => (s + 3 + phase) % 4 = 0 \/ (s + 3 + phase) % 4 = 2
      BY <1>2, <2>5
    <3>4. r = 0 \/ r = 2 => t = s + 2
      <4> HIDE DEF r
      <4> QED  BY <2>3, <3>1, <3>2, <3>3
    <3>5. r = 0 \/ r = 2 => (s + 2 + phase) % 4 = IF r = 0 THEN 2 ELSE 0  BY <3>1
    <3> QED  BY <1>2, <2>5, <3>4, <3>5
  <2>6. CASE h = 3  BY <1>2, <2>1, <2>3, <2>6
  <2> QED  BY <2>4, <2>5, <2>6
<1> QED  BY <1>1, <1>2

LEMMA PaSignalKept ==
  ASSUME paM'.duty = paM.duty, paM'.k = paM.k, paChip' = paChip
  PROVE  PaPeriod' = PaPeriod /\ PaHigh' = PaHigh /\ PaSignal' = PaSignal
<1>1. PaPeriod' = PaPeriod  BY DEF PaPeriod
<1>2. PaHigh' = PaHigh  BY <1>1 DEF PaHigh
<1> QED  BY <1>1, <1>2 DEF PaSignal

LEMMA PaCaptures ==
  ASSUME paM'.pc \in {"hrc", "lrc"}, PaTyped', PaPlace', PaSignals', PaRead', PaConverter'
  PROVE  PaInv'
<1>1. paM'.pc \notin {"idle", "end"} /\ paM'.pc \notin PaConverting /\ paM'.pc \notin PaTiming  BY DEF PaTiming, PaConverting
<1>2. PaTimer' /\ PaWrong' /\ PaGood' /\ PwmRight'  BY <1>1 DEF PaTimer, PaWrong, PaGood, PwmRight
<1> QED  BY <1>2 DEF PaInv

LEMMA PaCaptureBegins == PaInv /\ socle_pwmt_capture_mode_test => PaInv'
<1> SUFFICES ASSUME PaInv, socle_pwmt_capture_mode_test PROVE PaInv'
  OBVIOUS
<1> DEFINE pc == "hrc"
           test == "capture"
           was == <<0, 0>>
           tests == paM.tests - 1
           zero == 0
<1>1. PICK k \in {0, 1}, duty \in {75, 50, 25} :
        /\ paM.pc = "idle" /\ paBusy' = {0, 1} /\ paPwm' = paPwm /\ paAdc' = paAdc /\ paChip' = paChip
        /\ paM' = [[paM EXCEPT !.pc = pc, !.test = test, !.k = k, !.duty = duty, !.was = was] EXCEPT !.tests = tests]
  BY DEF socle_pwmt_capture_mode_test, PaBegins, PaAt
<1>2. PICK phase \in 0 .. 3 : paWire' = [t |-> zero, phase |-> phase, hrc |-> zero, lrc |-> zero, edge |-> zero]
  BY DEF socle_pwmt_capture_mode_test
<1>3. /\ pc \in PaPc /\ test \in {"none", "single", "periodical", "capture", "adc"} /\ was \in Int \X Int /\ zero \in Int /\ zero \in 0 .. 4
      /\ pc = "hrc" /\ test = "capture" /\ was[1] = 0 /\ was[2] = 0 /\ zero = 0
  BY DEF PaPc
<1>4. tests \in Int  BY PaFacts DEF PaInv
<1> HIDE DEF pc, test, was, tests, zero
<1>5. paM' = [pc |-> pc, test |-> test, k |-> k, flag |-> paM.flag, count |-> paM.count, wait |-> paM.wait,
              duty |-> duty, hrc |-> paM.hrc, was |-> was, ch |-> paM.ch, v |-> paM.v, sum |-> paM.sum,
              ret |-> paM.ret, tests |-> tests]
  BY <1>1 DEF PaInv, PaTyped, PaMachines
<1>6. PaTyped'
  <2>1. paM' \in PaMachines  BY <1>3, <1>4, <1>5, PaFacts DEF PaInv, PaMachines
  <2>2. paWire' \in [t : Int, phase : 0 .. 3, hrc : Int, lrc : Int, edge : 0 .. 4]  BY <1>2, <1>3
  <2> QED  BY <1>1, <2>1, <2>2 DEF PaInv, PaTyped
<1>7. paM'.pc = "hrc" /\ paM'.test = "capture" /\ paM'.duty = duty /\ paM'.was[1] = 0 /\ paM'.was[2] = 0  BY <1>3, <1>5
<1>8. PaPlace'
  <2>1. ~paAdc.en  BY <1>1 DEF PaInv, PaPlace, PaConverting
  <2>2. paPwm.en <=> FALSE  BY <1>1 DEF PaInv, PaPlace, PaTiming
  <2> QED  BY <1>1, <1>7, <2>1, <2>2 DEF PaPlace, PaTiming, PaConverting
<1>9. paWire'.t = 0 /\ paWire'.hrc = 0 /\ paWire'.lrc = 0 /\ paWire'.edge = 0  BY <1>2, <1>3
<1>10. PaSignals' /\ PaRead'  BY <1>7, <1>9 DEF PaSignals, PaRead
<1>11. PaConverter'
  <2>1. paM'.pc \notin PaConverting /\ paM.pc \notin {"conv", "read"}  BY <1>1, <1>7 DEF PaConverting
  <2> QED  BY <1>1, <2>1, PaConverterKept DEF PaInv
<1> QED  BY <1>6, <1>7, <1>8, <1>10, <1>11, PaCaptures

(* A step of the measurement.                                              *)
LEMMA PaCapturing ==
  ASSUME PaInv, paM.pc \in {"hrc", "lrc"}, paBusy' = paBusy, paPwm' = paPwm, paAdc' = paAdc, paChip' = paChip,
         NEW pc \in {"hrc", "lrc"}, NEW hrc \in Int, NEW was \in Int \X Int, paM' = [paM EXCEPT !.pc = pc, !.hrc = hrc, !.was = was],
         paWire' \in [t : Int, phase : 0 .. 3, hrc : Int, lrc : Int, edge : 0 .. 4], PaSignals', PaRead'
  PROVE  PaInv'
<1>1. paM' = [pc |-> pc, test |-> paM.test, k |-> paM.k, flag |-> paM.flag, count |-> paM.count, wait |-> paM.wait,
              duty |-> paM.duty, hrc |-> hrc, was |-> was, ch |-> paM.ch, v |-> paM.v, sum |-> paM.sum,
              ret |-> paM.ret, tests |-> paM.tests]
  BY DEF PaInv, PaTyped, PaMachines
<1>2. pc \in PaPc  BY DEF PaPc
<1>3. PaTyped'
  <2>1. paM' \in PaMachines  BY <1>1, <1>2, PaFacts DEF PaInv, PaMachines
  <2> QED  BY <2>1 DEF PaInv, PaTyped
<1>4. paM'.pc = pc /\ paM'.test = paM.test  BY <1>1
<1>5. PaPlace'
  <2>1. ~paAdc.en /\ paM.test = "capture" /\ paBusy = {0, 1}  BY DEF PaInv, PaPlace, PaConverting
  <2>2. paPwm.en <=> FALSE  BY DEF PaInv, PaPlace, PaTiming
  <2> QED  BY <1>4, <2>1, <2>2 DEF PaPlace, PaTiming, PaConverting
<1>6. PaConverter'
  <2>1. paM'.pc \notin PaConverting /\ paM.pc \notin {"conv", "read"}  BY <1>4 DEF PaConverting
  <2> QED  BY <2>1, PaConverterKept DEF PaInv
<1> QED  BY <1>3, <1>4, <1>5, <1>6, PaCaptures

LEMMA PaMeasures ==
  ASSUME PaInv, paM.pc \in {"hrc", "lrc"}, paBusy' = paBusy \ {0, 1}, paPwm' = paPwm, paAdc' = paAdc, paChip' = paChip,
         NEW ret \in {0, -1}, paM' = [paM EXCEPT !.pc = "end", !.ret = ret],
         paWire' \in [t : Int, phase : 0 .. 3, hrc : Int, lrc : Int, edge : 0 .. 4],
         ret = 0 <=> paChip[paM.k] = "good" /\ paChip[1 - paM.k] # "dead"
  PROVE  PaInv'
<1> DEFINE pc == "end"
<1>1. paM' = [pc |-> pc, test |-> paM.test, k |-> paM.k, flag |-> paM.flag, count |-> paM.count, wait |-> paM.wait,
              duty |-> paM.duty, hrc |-> paM.hrc, was |-> paM.was, ch |-> paM.ch, v |-> paM.v, sum |-> paM.sum,
              ret |-> ret, tests |-> paM.tests]
  BY DEF PaInv, PaTyped, PaMachines
<1>2. pc \in PaPc /\ pc = "end"  BY DEF PaPc
<1> HIDE DEF pc
<1>3. PaTyped'
  <2>1. paM' \in PaMachines  BY <1>1, <1>2, PaFacts DEF PaInv, PaMachines
  <2> QED  BY <2>1 DEF PaInv, PaTyped
<1>4. paM'.pc = "end" /\ paM'.test = paM.test /\ paM'.k = paM.k /\ paM'.ret = ret  BY <1>1, <1>2
<1>5. paM.test = "capture" /\ ~paAdc.en  BY DEF PaInv, PaPlace, PaConverting
<1>6. PaPlace'
  <2>1. paPwm.en <=> FALSE  BY DEF PaInv, PaPlace, PaTiming
  <2>2. paBusy' = {}  BY DEF PaInv, PaPlace
  <2> QED  BY <1>4, <1>5, <2>1, <2>2 DEF PaPlace, PaTiming, PaConverting
<1>7. PaConverter'
  <2>1. paM'.pc \notin PaConverting /\ paM.pc \notin {"conv", "read"}  BY <1>4 DEF PaConverting
  <2> QED  BY <2>1, PaConverterKept DEF PaInv
<1>8. PwmRight'  BY <1>4, <1>5 DEF PwmRight
<1> QED  BY <1>3, <1>4, <1>6, <1>7, <1>8, PaRests

LEMMA PaEdges == PaInv /\ PaEdge => PaInv'
<1> SUFFICES ASSUME PaInv, PaEdge PROVE PaInv'
  OBVIOUS
<1> DEFINE s == paWire.t
           p == PaPeriod
           h == PaHigh
           phase == paWire.phase
           Rises(u) == (u + phase) % p = 0
           Falls(u) == (u + phase) % p = h
<1>1. /\ paM.pc \in {"hrc", "lrc"} /\ PaSignal /\ paWire.edge = 0 /\ paM' = paM /\ paBusy' = paBusy /\ paPwm' = paPwm
      /\ paAdc' = paAdc /\ paChip' = paChip
  BY DEF PaEdge
<1>2. PICK t \in s + 1 .. s + p :
        /\ Rises(t) \/ Falls(t)
        /\ \A u \in s + 1 .. t - 1 : ~Rises(u) /\ ~Falls(u)
        /\ paWire' = [paWire EXCEPT !.t = t, !.edge = 4, !.hrc = IF Rises(t) THEN t ELSE paWire.hrc, !.lrc = IF Rises(t) THEN paWire.lrc ELSE t]
  BY DEF PaEdge, PaRises, PaFalls
<1> DEFINE hrc == IF Rises(t) THEN t ELSE paWire.hrc
           lrc == IF Rises(t) THEN paWire.lrc ELSE t
<1>3. /\ paM.duty \in {25, 50, 75} /\ paWire.hrc >= 0 /\ paWire.lrc >= 0
      /\ s = 0 => paWire.hrc = 0 /\ paWire.lrc = 0
      /\ s # 0 => /\ s > 0
                  /\ \/ s = paWire.hrc /\ Rises(s) /\ paWire.lrc < paWire.hrc /\ (paWire.lrc = 0 \/ paWire.lrc = paWire.hrc - (p - h))
                     \/ s = paWire.lrc /\ Falls(s) /\ paWire.hrc < paWire.lrc /\ (paWire.hrc = 0 \/ paWire.hrc = paWire.lrc - h)
  BY <1>1 DEF PaInv, PaSignals, PaRises, PaFalls
<1>4. p \in {2, 4} /\ h \in 1 .. 3 /\ h < p
  <2>1. p \in {2, 4} /\ h \in 1 .. 4  BY <1>3, PaShapes DEF PaInv
  <2>2. h < p  BY <1>1 DEF PaSignal
  <2> QED  BY <2>1, <2>2
<1>5. phase \in 0 .. 3 /\ s \in Nat /\ paWire.hrc \in Int /\ paWire.lrc \in Int /\ t \in Int /\ t > s /\ t > 0
  <2>1. phase \in 0 .. 3 /\ s \in Int /\ paWire.hrc \in Int /\ paWire.lrc \in Int  BY PaParts DEF PaInv
  <2>2. s >= 0  BY <1>3
  <2>3. t \in Int /\ t > s  BY <1>4, <2>1
  <2> QED  BY <2>1, <2>2, <2>3
<1>6. ~(Rises(t) /\ Falls(t))  BY <1>4
<1>7. /\ Rises(s) => t = s + h /\ Falls(t)
      /\ Falls(s) => t = s + (p - h) /\ Rises(t)
  <2>1. (t + phase) % p = 0 \/ (t + phase) % p = h  BY <1>2
  <2>2. \A u \in s + 1 .. t - 1 : (u + phase) % p # 0 /\ (u + phase) % p # h  BY <1>2
  <2>3. t \in s + 1 .. s + p  BY <1>2
  <2> HIDE DEF p, h, phase, s
  <2>4. p \in {2, 4} /\ h \in 1 .. 3 /\ h < p /\ phase \in 0 .. 3 /\ s \in Nat  BY <1>4, <1>5
  <2>5. PaFirst(p, h, phase, s, t)  BY <2>1, <2>2, <2>3, <2>4 DEF PaFirst
  <2>6. /\ (s + phase) % p = 0 => t = s + h /\ (t + phase) % p = h
        /\ (s + phase) % p = h => t = s + (p - h) /\ (t + phase) % p = 0
    BY <2>5, PaNextEdge
  <2> QED  BY <2>6
<1>8. paWire' = [t |-> t, phase |-> phase, hrc |-> hrc, lrc |-> lrc, edge |-> 4]  BY <1>2 DEF PaInv, PaTyped
<1>9. hrc \in Int /\ lrc \in Int  BY <1>5
<1>10. /\ paWire' \in [t : Int, phase : 0 .. 3, hrc : Int, lrc : Int, edge : 0 .. 4]
       /\ paWire'.t = t /\ paWire'.hrc = hrc /\ paWire'.lrc = lrc /\ paWire'.edge = 4 /\ paWire'.phase = phase
  <2> HIDE DEF hrc, lrc, phase
  <2>1. 4 \in 0 .. 4  OBVIOUS
  <2> QED  BY <1>5, <1>8, <1>9, <2>1
<1>11. PaPeriod' = p /\ PaHigh' = h /\ PaSignal'  BY <1>1, PaSignalKept
<1>12. (PaRises(paWire.t)' <=> Rises(t)) /\ (PaFalls(paWire.t)' <=> Falls(t))  BY <1>10, <1>11 DEF PaRises, PaFalls
<1> HIDE DEF p, h, phase, Rises, Falls
<1>13. PaSignals'
  <2>1. paWire'.hrc >= 0 /\ paWire'.lrc >= 0 /\ paWire'.t # 0 /\ paWire'.t > 0  BY <1>3, <1>5, <1>10
  <2>2. CASE Rises(t)
    <3>1. paWire'.t = paWire'.hrc /\ paWire'.lrc = paWire.lrc /\ PaRises(paWire.t)'  BY <1>10, <1>12, <2>2
    <3>2. ~(s # 0 /\ s = paWire.hrc /\ Rises(s))  BY <1>6, <1>7, <2>2
    <3>3. paWire.lrc <= s  BY <1>3, <1>5, <3>2
    <3>4. paWire.lrc < t  BY <1>5, <3>3
    <3>5. paWire.lrc = 0 \/ paWire.lrc = t - (p - h)  BY <1>3, <1>4, <1>5, <1>7, <3>2
    <3> QED  BY <1>1, <1>3, <1>10, <1>11, <2>1, <2>2, <3>1, <3>4, <3>5 DEF PaSignals
  <2>3. CASE ~Rises(t)
    <3>1. paWire'.t = paWire'.lrc /\ paWire'.hrc = paWire.hrc /\ PaFalls(paWire.t)'  BY <1>2, <1>10, <1>12, <2>3
    <3>2. ~(s # 0 /\ s = paWire.lrc /\ Falls(s))  BY <1>7, <2>3
    <3>3. paWire.hrc <= s  BY <1>3, <1>5, <3>2
    <3>4. paWire.hrc < t  BY <1>5, <3>3
    <3>5. paWire.hrc = 0 \/ paWire.hrc = t - h  BY <1>3, <1>4, <1>5, <1>7, <3>2
    <3> QED  BY <1>1, <1>3, <1>10, <1>11, <2>1, <2>3, <3>1, <3>4, <3>5 DEF PaSignals
  <2> QED  BY <2>2, <2>3
<1>15. paM.was[1] = paWire.hrc /\ paM.was[2] = paWire.lrc /\ (paM.pc = "lrc" => paM.hrc = paWire.hrc)
  <2>1. paWire.edge <= 2 /\ paWire.edge <= 1 /\ paWire.edge # 4  BY <1>1
  <2> QED  BY <1>1, <2>1 DEF PaInv, PaRead
<1>16. PaRead'
  <2> DEFINE hm == paWire.hrc
             lm == paWire.lrc
  <2>1. /\ IF t = hrc THEN hm = 0 \/ (hm = hrc - p /\ lrc = hm + h) ELSE hm = hrc
        /\ IF t = hrc THEN lm = lrc ELSE lm = 0 \/ (lm = lrc - p /\ hrc = lrc - h)
    <3>1. CASE Rises(t)
      <4>1. ~(s # 0 /\ s = paWire.hrc /\ Rises(s))  BY <1>6, <1>7, <3>1
      <4>2. hm = 0 \/ (hm = t - p /\ lm = hm + h)  BY <1>3, <1>4, <1>5, <1>7, <4>1
      <4> QED  BY <3>1, <4>2
    <3>2. CASE ~Rises(t)
      <4>1. ~(s # 0 /\ s = paWire.lrc /\ Falls(s))  BY <1>7, <3>2
      <4>2. lm = 0 \/ (lm = t - p /\ hm = t - h)  BY <1>3, <1>4, <1>5, <1>7, <4>1
      <4>3. hm # t  BY <1>3, <1>5
      <4> QED  BY <3>2, <4>2, <4>3
    <3> QED  BY <3>1, <3>2
  <2> HIDE DEF hm, lm, hrc, lrc
  <2>2. paM.was[1] = hm /\ paM.was[2] = lm /\ (paM.pc = "lrc" => paM.hrc = hm)  BY <1>15 DEF hm, lm
  <2>3. paM'.was = paM.was /\ paM'.pc = paM.pc /\ paM'.hrc = paM.hrc  BY <1>1
  <2>4. paWire'.edge = 4 /\ ~(paWire'.edge <= 2) /\ ~(paWire'.edge <= 1) /\ paWire'.edge >= 3  BY <1>10
  <2>5. PaH(paM.was[1])'  BY <1>10, <1>11, <2>1, <2>2, <2>3 DEF PaH
  <2>6. PaL(paM.was[2])'  BY <1>10, <1>11, <2>1, <2>2, <2>3 DEF PaL
  <2> QED  BY <2>2, <2>3, <2>4, <2>5, <2>6 DEF PaRead
<1>17. paM' = [paM EXCEPT !.pc = paM.pc, !.hrc = paM.hrc, !.was = paM.was]  BY <1>1 DEF PaInv, PaTyped, PaMachines
<1>18. paM.hrc \in Int /\ paM.was \in Int \X Int  BY PaFacts DEF PaInv
<1> QED  BY <1>1, <1>10, <1>13, <1>16, <1>17, <1>18, PaCapturing

(* The reads.  An edge is seen by the next two of them, or by the one      *)
(* after it, of the two values.                                            *)
LEMMA PaReading ==
  ASSUME PaInv, paM.pc \in {"hrc", "lrc"}, paM'.pc \in {"hrc", "lrc"}, paM'.duty = paM.duty, paM'.k = paM.k, paChip' = paChip,
         paWire' = [paWire EXCEPT !.edge = IF @ > 0 THEN @ - 1 ELSE 0]
  PROVE  /\ paWire' \in [t : Int, phase : 0 .. 3, hrc : Int, lrc : Int, edge : 0 .. 4] /\ PaSignals'
         /\ paWire'.t = paWire.t /\ paWire'.hrc = paWire.hrc /\ paWire'.lrc = paWire.lrc /\ PaPeriod' = PaPeriod /\ PaHigh' = PaHigh
         /\ paWire'.edge = (IF paWire.edge > 0 THEN paWire.edge - 1 ELSE 0)
<1> DEFINE edge == IF paWire.edge > 0 THEN paWire.edge - 1 ELSE 0
<1>1. paWire' = [paWire EXCEPT !.edge = edge]  OBVIOUS
<1>2. edge \in 0 .. 4 /\ (paWire.edge = 0 => edge = 0)  BY PaParts DEF PaInv
<1> HIDE DEF edge
<1>3. paWire' = [t |-> paWire.t, phase |-> paWire.phase, hrc |-> paWire.hrc, lrc |-> paWire.lrc, edge |-> edge]  BY <1>1 DEF PaInv, PaTyped
<1>4. paWire' \in [t : Int, phase : 0 .. 3, hrc : Int, lrc : Int, edge : 0 .. 4]
  <2>1. paWire.t \in Int /\ paWire.phase \in 0 .. 3 /\ paWire.hrc \in Int /\ paWire.lrc \in Int  BY PaParts DEF PaInv
  <2> DEFINE wire == [t |-> paWire.t, phase |-> paWire.phase, hrc |-> paWire.hrc, lrc |-> paWire.lrc, edge |-> edge]
  <2>2. \A t \in Int, phase \in 0 .. 3, hrc \in Int, lrc \in Int, e \in 0 .. 4 :
          [t |-> t, phase |-> phase, hrc |-> hrc, lrc |-> lrc, edge |-> e] \in [t : Int, phase : 0 .. 3, hrc : Int, lrc : Int, edge : 0 .. 4]
    BY Zenon
  <2>3. wire \in [t : Int, phase : 0 .. 3, hrc : Int, lrc : Int, edge : 0 .. 4]  BY <1>2, <2>1, <2>2
  <2>4. paWire' = wire  BY <1>3
  <2> HIDE DEF wire
  <2> QED  BY <2>3, <2>4, Zenon
<1>5. paWire'.t = paWire.t /\ paWire'.hrc = paWire.hrc /\ paWire'.lrc = paWire.lrc /\ paWire'.edge = edge /\ paWire'.phase = paWire.phase
  BY <1>3
<1>6. PaPeriod' = PaPeriod /\ PaHigh' = PaHigh /\ PaSignal' = PaSignal  BY PaSignalKept
<1>7. (PaRises(paWire.t)' <=> PaRises(paWire.t)) /\ (PaFalls(paWire.t)' <=> PaFalls(paWire.t))  BY <1>5, <1>6 DEF PaRises, PaFalls
<1>8. PaSignals'
  <2>1. PaSignals  BY DEF PaInv
  <2>2. /\ paM.duty \in {25, 50, 75} /\ paWire.hrc >= 0 /\ paWire.lrc >= 0
        /\ paWire.t = 0 => paWire.hrc = 0 /\ paWire.lrc = 0 /\ edge = 0
        /\ paWire.t # 0 => /\ paWire.t > 0 /\ PaSignal
                           /\ \/ /\ paWire.t = paWire.hrc /\ PaRises(paWire.t) /\ paWire.lrc < paWire.hrc
                                 /\ paWire.lrc = 0 \/ paWire.lrc = paWire.hrc - (PaPeriod - PaHigh)
                              \/ /\ paWire.t = paWire.lrc /\ PaFalls(paWire.t) /\ paWire.hrc < paWire.lrc
                                 /\ paWire.hrc = 0 \/ paWire.hrc = paWire.lrc - PaHigh
    BY <1>2, <2>1 DEF PaSignals
  <2> QED  BY <1>5, <1>6, <1>7, <2>2 DEF PaSignals
<1> QED  BY <1>4, <1>5, <1>6, <1>8 DEF edge

LEMMA PaHrcRead == PaInv /\ PaReadsHrc => PaInv'
<1> SUFFICES ASSUME PaInv, PaReadsHrc PROVE PaInv'
  OBVIOUS
<1> DEFINE pc == "lrc"
           hrc == paWire.hrc
<1>1. /\ paM.pc = "hrc" /\ paM' = [paM EXCEPT !.pc = pc, !.hrc = hrc] /\ paBusy' = paBusy /\ paPwm' = paPwm /\ paAdc' = paAdc /\ paChip' = paChip
      /\ paWire' = [paWire EXCEPT !.edge = IF @ > 0 THEN @ - 1 ELSE 0]
  BY DEF PaReadsHrc, PaAt
<1>2. pc = "lrc" /\ pc \in {"hrc", "lrc"} /\ hrc \in Int /\ hrc = paWire.hrc  BY PaParts DEF PaInv
<1> HIDE DEF pc, hrc
<1>3. paM' = [paM EXCEPT !.pc = pc, !.hrc = hrc, !.was = paM.was]  BY <1>1 DEF PaInv, PaTyped, PaMachines
<1>4. paM.was \in Int \X Int  BY PaFacts DEF PaInv
<1>5. paM'.pc = "lrc" /\ paM'.hrc = paWire.hrc /\ paM'.was = paM.was /\ paM'.duty = paM.duty /\ paM'.k = paM.k
  BY <1>1, <1>2 DEF PaInv, PaTyped, PaMachines
<1>6. /\ paWire' \in [t : Int, phase : 0 .. 3, hrc : Int, lrc : Int, edge : 0 .. 4] /\ PaSignals'
      /\ paWire'.t = paWire.t /\ paWire'.hrc = paWire.hrc /\ paWire'.lrc = paWire.lrc /\ PaPeriod' = PaPeriod /\ PaHigh' = PaHigh
      /\ paWire'.edge = (IF paWire.edge > 0 THEN paWire.edge - 1 ELSE 0)
  <2>1. paM.pc \in {"hrc", "lrc"} /\ paM'.pc \in {"hrc", "lrc"}  BY <1>1, <1>5
  <2> QED  BY <1>1, <1>5, <2>1, PaReading
<1>7. PaRead'
  <2>1. paWire.edge \in 0 .. 4  BY PaParts DEF PaInv
  <2>2. /\ paWire.edge = 4 => PaH(paM.was[1]) /\ PaL(paM.was[2])
        /\ paWire.edge = 3 => PaH(paM.was[1]) /\ paM.was[2] = paWire.lrc
        /\ paWire.edge <= 2 => paM.was[1] = paWire.hrc /\ paM.was[2] = paWire.lrc
    BY <1>1 DEF PaInv, PaRead
  <2>3. (PaH(paM.was[1])' <=> PaH(paM.was[1])) /\ (PaL(paM.was[2])' <=> PaL(paM.was[2]))  BY <1>5, <1>6 DEF PaH, PaL
  <2>4. /\ paWire'.edge >= 3 => paWire.edge = 4
        /\ paWire'.edge = 2 => paWire.edge = 3
        /\ paWire'.edge <= 1 => paWire.edge <= 2
        /\ paWire'.edge # 4
    BY <1>6, <2>1
  <2> QED  BY <1>5, <1>6, <2>2, <2>3, <2>4 DEF PaRead
<1> QED  BY <1>1, <1>2, <1>3, <1>4, <1>6, <1>7, PaCapturing

(* A pair that makes a whole period gives the duty cycle.                  *)
LEMMA PaPulls == PaInv /\ socle_pwm_capture_duty_pull => PaInv'
<1> SUFFICES ASSUME PaInv, socle_pwm_capture_duty_pull PROVE PaInv'
  OBVIOUS
<1> DEFINE now == <<paM.hrc, paWire.lrc>>
           was == paM.was
<1>1. /\ paM.pc = "lrc" /\ paPwm' = paPwm /\ paAdc' = paAdc /\ paChip' = paChip
      /\ paWire' = [paWire EXCEPT !.edge = IF @ > 0 THEN @ - 1 ELSE 0]
      /\ IF PaWhole(was, now) THEN PaMeasured(current_sense_calc(was, now) \div 100)
         ELSE paM' = [paM EXCEPT !.pc = "hrc", !.was = now] /\ UNCHANGED paBusy
  BY DEF socle_pwm_capture_duty_pull, PaAt
<1>2. /\ paM.hrc \in Int /\ was \in Int \X Int /\ paM.k \in {0, 1} /\ paWire.lrc \in Int /\ paWire.hrc \in Int /\ paWire.t \in Int
      /\ paWire.edge \in 0 .. 4
  <2>1. paM.hrc \in Int /\ was \in Int \X Int /\ paM.k \in {0, 1}  BY PaFacts DEF PaInv
  <2>2. paWire.lrc \in Int /\ paWire.hrc \in Int /\ paWire.t \in Int /\ paWire.edge \in 0 .. 4  BY PaParts DEF PaInv
  <2> QED  BY <2>1, <2>2
<1>3. /\ paWire.edge >= 3 => PaH(was[1]) /\ PaL(was[2])
      /\ paWire.edge = 2 => PaH(was[1]) /\ was[2] = paWire.lrc
      /\ paWire.edge <= 1 => was[1] = paWire.hrc /\ was[2] = paWire.lrc
      /\ paM.hrc = IF paWire.edge = 4 THEN was[1] ELSE paWire.hrc
  BY <1>1 DEF PaInv, PaRead
<1>4. CASE PaWhole(was, now)
  <2> DEFINE p == PaPeriod
             h == PaHigh
             a == was[1]
             b == was[2]
             c == paM.hrc
             d == paWire.lrc
  <2>1. c = now[1] /\ d = now[2] /\ a \in Int /\ b \in Int  BY <1>2
  <2>2. (c # a /\ a # 0 /\ d = b) \/ (c = a /\ d # b /\ b # 0)  BY <1>4, <2>1 DEF PaWhole
  <2>3. paWire.edge >= 2  BY <1>2, <1>3, <2>2
  <2>4. paWire.t # 0 /\ PaSignal /\ paM.duty \in {25, 50, 75}  BY <1>1, <1>2, <2>3 DEF PaInv, PaSignals
  <2>5. p \in {2, 4} /\ h \in 1 .. 4  BY <2>4, PaShapes DEF PaInv
  <2>6. PaH(a) /\ (b = d \/ PaL(b)) /\ (c = a \/ c = paWire.hrc)  BY <1>2, <1>3, <2>3
  <2>7. \/ c # a /\ a = c - p /\ d = a + h
        \/ c = a /\ b = d - p /\ c = d - h
    <3>1. CASE c # a /\ a # 0 /\ d = b  BY <2>6, <3>1 DEF PaH
    <3>2. CASE c = a /\ d # b /\ b # 0
      <4>1. PaL(b)  BY <2>6, <3>2
      <4>2. paWire.t # paWire.hrc /\ b = d - p /\ paWire.hrc = d - h  BY <3>2, <4>1 DEF PaL
      <4>3. a = paWire.hrc  BY <2>6, <4>2 DEF PaH
      <4> QED  BY <3>2, <4>2, <4>3
    <3> QED  BY <2>2, <3>1, <3>2
  <2>8. current_sense_calc(was, now) = (h * 10000) \div p
    <3>1. CASE c # a /\ a = c - p /\ d = a + h
      <4>1. current_sense_calc(was, now) = ((d - a) * 10000) \div (c - a)  BY <2>1, <3>1 DEF current_sense_calc
      <4>2. d - a = h /\ c - a = p
        <5> HIDE DEF p, h, a, c, d
        <5> QED  BY <1>2, <2>1, <2>5, <3>1 DEF c, d
      <4> QED  BY <4>1, <4>2
    <3>2. CASE c = a /\ b = d - p /\ c = d - h
      <4>1. current_sense_calc(was, now) = ((d - c) * 10000) \div (d - b)  BY <2>1, <3>2 DEF current_sense_calc
      <4>2. d - c = h /\ d - b = p
        <5> HIDE DEF p, h, a, b
        <5> QED  BY <1>2, <2>1, <2>5, <3>2
      <4> QED  BY <4>1, <4>2
    <3> QED  BY <2>7, <3>1, <3>2
  <2> DEFINE ret == IF ((h * 10000) \div p) \div 100 = paM.duty THEN 0 ELSE -1
  <2>9. paM' = [paM EXCEPT !.pc = "end", !.ret = ret] /\ paBusy' = paBusy \ {0, 1}
    <3> DEFINE x == current_sense_calc(was, now)
               y == (h * 10000) \div p
    <3>1. PaMeasured(x \div 100)  BY <1>1, <1>4
    <3>2. x = y  BY <2>8
    <3> HIDE DEF x, y, now, was
    <3>3. PaMeasured(y \div 100)  BY <3>1, <3>2
    <3>4. /\ paM' = [paM EXCEPT !.pc = "end", !.ret = IF y \div 100 = paM.duty THEN 0 ELSE -1]
          /\ paBusy' = paBusy \ {0, 1}
      BY <3>3 DEF PaMeasured, PaEnds
    <3> QED  BY <3>4 DEF y
  <2>10. ret \in {0, -1}  OBVIOUS
  <2>11. ret = 0 <=> paChip[paM.k] = "good" /\ paChip[1 - paM.k] # "dead"
    <3>1. paChip[paM.k] \in {"good", "wrong"} /\ paChip[1 - paM.k] # "dead" /\ h < p
      <4>1. paChip[paM.k] \in {"good", "dead", "wrong"}  BY <1>2 DEF PaInv, PaTyped
      <4> QED  BY <2>4, <4>1 DEF PaSignal
    <3>2. /\ paChip[paM.k] # "wrong" => ((h * 10000) \div p) \div 100 = paM.duty
          /\ paChip[paM.k] = "wrong" => ((h * 10000) \div p) \div 100 # paM.duty
      BY <2>4, <3>1, PaShapes DEF PaInv
    <3> QED  BY <3>1, <3>2
  <2>12. paWire' \in [t : Int, phase : 0 .. 3, hrc : Int, lrc : Int, edge : 0 .. 4]
    <3> DEFINE edge == IF paWire.edge > 0 THEN paWire.edge - 1 ELSE 0
    <3>1. edge \in 0 .. 4 /\ paWire' = [paWire EXCEPT !.edge = edge]  BY <1>1, <1>2
    <3> HIDE DEF edge
    <3> QED  BY <3>1 DEF PaInv, PaTyped
  <2> HIDE DEF ret
  <2>13. paM.pc \in {"hrc", "lrc"}  BY <1>1
  <2> QED  BY <1>1, <2>9, <2>10, <2>11, <2>12, <2>13, PaMeasures
<1>5. CASE ~PaWhole(was, now)
  <2> DEFINE pc == "hrc"
  <2>1. paM' = [paM EXCEPT !.pc = pc, !.was = now] /\ paBusy' = paBusy  BY <1>1, <1>5
  <2>2. pc = "hrc" /\ pc \in {"hrc", "lrc"} /\ now \in Int \X Int /\ now[1] = paM.hrc /\ now[2] = paWire.lrc  BY <1>2
  <2> HIDE DEF pc, now
  <2>3. paM' = [paM EXCEPT !.pc = pc, !.hrc = paM.hrc, !.was = now]  BY <2>1 DEF PaInv, PaTyped, PaMachines
  <2>4. paM'.pc = "hrc" /\ paM'.was = now /\ paM'.duty = paM.duty /\ paM'.k = paM.k  BY <2>1, <2>2 DEF PaInv, PaTyped, PaMachines
  <2>5. /\ paWire' \in [t : Int, phase : 0 .. 3, hrc : Int, lrc : Int, edge : 0 .. 4] /\ PaSignals'
        /\ paWire'.t = paWire.t /\ paWire'.hrc = paWire.hrc /\ paWire'.lrc = paWire.lrc /\ PaPeriod' = PaPeriod /\ PaHigh' = PaHigh
        /\ paWire'.edge = (IF paWire.edge > 0 THEN paWire.edge - 1 ELSE 0)
    <3>1. paM.pc \in {"hrc", "lrc"} /\ paM'.pc \in {"hrc", "lrc"}  BY <1>1, <2>4
    <3> QED  BY <1>1, <2>4, <3>1, PaReading
  <2>6. PaRead'
    <3>1. paWire'.edge # 4 /\ (paWire'.edge = 3 => paWire.edge = 4) /\ (paWire'.edge <= 2 => paWire.edge <= 3)  BY <1>2, <2>5
    <3>2. paWire'.edge = 3 => PaH(paM.hrc)  BY <1>2, <1>3, <3>1
    <3>3. PaH(paM.was[1])' <=> PaH(paM.hrc)  BY <2>2, <2>4, <2>5 DEF PaH
    <3>4. paWire'.edge <= 2 => paM.hrc = paWire.hrc  BY <1>2, <1>3, <3>1
    <3>5. paM'.was[1] = paM.hrc /\ paM'.was[2] = paWire.lrc  BY <2>2, <2>4
    <3> QED  BY <2>4, <2>5, <3>1, <3>2, <3>3, <3>4, <3>5 DEF PaRead
  <2>7. paM.pc \in {"hrc", "lrc"} /\ paM.hrc \in Int  BY <1>1, <1>2
  <2> QED  BY <1>1, <2>1, <2>2, <2>3, <2>5, <2>6, <2>7, PaCapturing
<1> QED  BY <1>4, <1>5

LEMMA PaNoSignals == PaInv /\ PaNoSignal => PaInv'
<1> SUFFICES ASSUME PaInv, PaNoSignal PROVE PaInv'
  OBVIOUS
<1> DEFINE ret == -1
<1>1. paM.pc = "hrc" /\ ~PaSignal /\ paPwm' = paPwm /\ paWire' = paWire /\ paAdc' = paAdc /\ paChip' = paChip  BY DEF PaNoSignal, PaAt
<1>2. paM.duty \in {25, 50, 75}  BY <1>1 DEF PaInv, PaSignals
<1>3. paM' = [paM EXCEPT !.pc = "end", !.ret = ret] /\ paBusy' = paBusy \ {0, 1}
  <2>1. PaMeasured(0)  BY DEF PaNoSignal
  <2>2. /\ paM' = [paM EXCEPT !.pc = "end", !.ret = IF 0 = paM.duty THEN 0 ELSE -1]
        /\ paBusy' = paBusy \ {0, 1}
    BY <2>1 DEF PaMeasured, PaEnds
  <2>3. paM.duty # 0  BY <1>2
  <2>4. (IF 0 = paM.duty THEN 0 ELSE -1) = ret  BY <2>3
  <2> QED  BY <2>2, <2>4
<1>4. ret \in {0, -1} /\ ret # 0  OBVIOUS
<1> HIDE DEF ret
<1>5. ret = 0 <=> paChip[paM.k] = "good" /\ paChip[1 - paM.k] # "dead"
  <2>1. paChip[paM.k] = "good" => PaHigh < PaPeriod  BY <1>2, PaShapes DEF PaInv
  <2> QED  BY <1>1, <1>4, <2>1 DEF PaSignal
<1>6. paM.pc \in {"hrc", "lrc"} /\ paWire' \in [t : Int, phase : 0 .. 3, hrc : Int, lrc : Int, edge : 0 .. 4]  BY <1>1 DEF PaInv, PaTyped
<1> QED  BY <1>1, <1>3, <1>4, <1>5, <1>6, PaMeasures

(* The converter.  Its interrupt sets the flag, whoever waits.             *)
LEMMA PaFlagged ==
  ASSUME PaInv, NEW flag \in {0, 1}, paM' = [paM EXCEPT !.flag = flag], flag = paM.flag \/ paM.pc \notin PaTiming,
         paBusy' = paBusy, paPwm' = paPwm, paWire' = paWire, paChip' = paChip,
         paAdc' \in [busy : BOOLEAN, slow : BOOLEAN, ch : 0 .. 4, val : Int, int : BOOLEAN, en : BOOLEAN, late : Int],
         paAdc'.en <=> paAdc.en, paAdc'.late = paAdc.late, PaConverter', PaWrong', PaGood'
  PROVE  PaInv'
<1>1. paM' = [pc |-> paM.pc, test |-> paM.test, k |-> paM.k, flag |-> flag, count |-> paM.count, wait |-> paM.wait,
              duty |-> paM.duty, hrc |-> paM.hrc, was |-> paM.was, ch |-> paM.ch, v |-> paM.v, sum |-> paM.sum,
              ret |-> paM.ret, tests |-> paM.tests]
  BY DEF PaInv, PaTyped, PaMachines
<1>2. PaTyped'
  <2>1. paM' \in PaMachines  BY <1>1, PaFacts DEF PaInv, PaMachines
  <2> QED  BY <2>1 DEF PaInv, PaTyped
<1>3. /\ paM'.pc = paM.pc /\ paM'.test = paM.test /\ paM'.k = paM.k /\ paM'.flag = flag /\ paM'.count = paM.count /\ paM'.wait = paM.wait
      /\ paM'.duty = paM.duty /\ paM'.hrc = paM.hrc /\ paM'.was = paM.was /\ paM'.ret = paM.ret
  BY <1>1
<1>4. PaPlace'  BY <1>3 DEF PaInv, PaPlace
<1>5. PaTimer'
  <2>1. CASE paM.pc \in PaTiming
    <3>1. paM' = paM  BY <1>1, <2>1, PaFacts DEF PaInv
    <3> QED  BY <3>1 DEF PaInv, PaTimer
  <2>2. CASE paM.pc \notin PaTiming  BY <1>3, <2>2 DEF PaTimer
  <2> QED  BY <2>1, <2>2
<1>6. PaPeriod' = PaPeriod /\ PaHigh' = PaHigh /\ PaSignal' = PaSignal  BY <1>3, PaSignalKept
<1>7. PaSignals'
  <2>1. (PaRises(paWire.t)' <=> PaRises(paWire.t)) /\ (PaFalls(paWire.t)' <=> PaFalls(paWire.t))  BY <1>6 DEF PaRises, PaFalls
  <2> QED  BY <1>3, <1>6, <2>1 DEF PaInv, PaSignals
<1>8. PaRead'
  <2>1. (PaH(paM.was[1])' <=> PaH(paM.was[1])) /\ (PaL(paM.was[2])' <=> PaL(paM.was[2]))  BY <1>3, <1>6 DEF PaH, PaL
  <2> QED  BY <1>3, <2>1 DEF PaInv, PaRead
<1>9. PwmRight'  BY <1>3 DEF PaInv, PwmRight
<1> QED  BY <1>2, <1>4, <1>5, <1>7, <1>8, <1>9 DEF PaInv

LEMMA PaVoltages ==
  ASSUME PaTyped
  PROVE  \A ch \in 0 .. 4 : /\ PaVoltage(ch) \in Int
                            /\ paChip[1] = "dead" => PaVoltage(ch) = 0
                            /\ paChip[1] = "wrong" => PaVoltage(ch) = 80 * (5 - ch)
                            /\ paChip[1] = "good" => PaVoltage(ch) = (4 * paM.duty * (5 - ch)) \div 5
<1> SUFFICES ASSUME NEW ch \in 0 .. 4
             PROVE  /\ PaVoltage(ch) \in Int
                    /\ paChip[1] = "dead" => PaVoltage(ch) = 0
                    /\ paChip[1] = "wrong" => PaVoltage(ch) = 80 * (5 - ch)
                    /\ paChip[1] = "good" => PaVoltage(ch) = (4 * paM.duty * (5 - ch)) \div 5
  OBVIOUS
<1>1. paChip[1] \in {"good", "dead", "wrong"} /\ paM.duty \in {0, 25, 50, 75, 100}  BY PaFacts, PaParts
<1>2. CASE paChip[1] = "good"
  <2>1. PaVoltage(ch) = (4 * paM.duty * (5 - ch)) \div 5  BY <1>2 DEF PaVoltage, SUPT_CH
  <2>2. (4 * paM.duty * (5 - ch)) \div 5 \in Int  BY <1>1
  <2> QED  BY <1>2, <2>1, <2>2
<1>3. CASE paChip[1] = "dead"
  <2>1. PaVoltage(ch) = (4 * 0 * (5 - ch)) \div 5  BY <1>3 DEF PaVoltage, SUPT_CH
  <2> QED  BY <1>3, <2>1
<1>4. CASE paChip[1] = "wrong"
  <2>1. PaVoltage(ch) = (4 * 100 * (5 - ch)) \div 5  BY <1>4 DEF PaVoltage, SUPT_CH
  <2>2. (4 * 100 * (5 - ch)) \div 5 = 80 * (5 - ch)  OBVIOUS
  <2> QED  BY <1>4, <2>1, <2>2
<1> QED  BY <1>1, <1>2, <1>3, <1>4

LEMMA PaConverted == PaInv /\ PaConverts => PaInv'
<1> SUFFICES ASSUME PaInv, PaConverts PROVE PaInv'
  OBVIOUS
<1> DEFINE val == PaVoltage(paAdc.ch)
           busy == FALSE
           int == TRUE
<1>1. /\ paM' = paM /\ paBusy' = paBusy /\ paPwm' = paPwm /\ paWire' = paWire /\ paChip' = paChip
      /\ paAdc' = [paAdc EXCEPT !.busy = busy, !.val = val, !.int = int]
  BY DEF PaConverts
<1>2. /\ val \in Int /\ (paChip[1] = "dead" => val = 0) /\ (paChip[1] = "wrong" => val = 80 * (5 - paAdc.ch))
      /\ paChip[1] = "good" => val = (4 * paM.duty * (5 - paAdc.ch)) \div 5
  BY PaVoltages, PaParts DEF PaInv
<1>3. busy \in BOOLEAN /\ int \in BOOLEAN /\ ~busy  OBVIOUS
<1> HIDE DEF val, busy, int
<1>4. paAdc' = [busy |-> busy, slow |-> paAdc.slow, ch |-> paAdc.ch, val |-> val, int |-> int, en |-> paAdc.en, late |-> paAdc.late]
  BY <1>1 DEF PaInv, PaTyped
<1>5. paAdc' \in [busy : BOOLEAN, slow : BOOLEAN, ch : 0 .. 4, val : Int, int : BOOLEAN, en : BOOLEAN, late : Int]
  BY <1>2, <1>3, <1>4, PaParts DEF PaInv
<1>6. /\ ~paAdc'.busy /\ paAdc'.slow = paAdc.slow /\ paAdc'.ch = paAdc.ch /\ paAdc'.val = val /\ paAdc'.en = paAdc.en
      /\ paAdc'.late = paAdc.late /\ paAdc.ch \in 0 .. 4
  BY <1>3, <1>4, PaParts DEF PaInv
<1>7. paChip[1] = "wrong" => val \in {80, 160, 240, 320, 400}
  <2>1. \A c \in 0 .. 4 : 80 * (5 - c) \in {80, 160, 240, 320, 400}  OBVIOUS
  <2> QED  BY <1>2, <1>6, <2>1
<1>8. PaConverter'  BY <1>1, <1>2, <1>6, <1>7 DEF PaInv, PaConverter
<1>9. PaWrong'
  <2> SUFFICES ASSUME paChip[1] = "wrong", paM.pc \in PaConverting PROVE PaWrong'
    BY <1>1 DEF PaWrong
  <2>1. paM.ch \in 0 .. 4 /\ paM.v \in Int  BY PaFacts DEF PaInv
  <2>2. paM.duty = 50 => paM.v \in {40, 80, 120, 160, 200} /\ paAdc.ch <= paM.ch  BY DEF PaInv, PaWrong
  <2>3. paM.duty = 50 /\ paM.ch = 0 => val >= 2 * paM.v
    <3>1. paM.duty = 50 /\ paM.ch = 0 => paAdc.ch = 0  BY <1>6, <2>2
    <3> QED  BY <1>2, <2>1, <2>2, <3>1
  <2>4. paM.duty = 50 /\ paM.ch = 1 => val >= 320
    <3>1. paM.duty = 50 /\ paM.ch = 1 => paAdc.ch = 0 \/ paAdc.ch = 1  BY <1>6, <2>2
    <3> QED  BY <1>2, <3>1
  <2>5. PaWrong  BY DEF PaInv
  <2> QED  BY <1>1, <1>6, <2>3, <2>4, <2>5 DEF PaWrong
<1>10. PaGood'
  <2> SUFFICES ASSUME paChip[1] = "good", paAdc.late = paLate, paM.pc \in PaConverting PROVE PaGood'
    BY <1>1, <1>6 DEF PaGood
  <2>1. paM.pc # "start" => paAdc.ch = paM.ch  BY DEF PaInv, PaConverter, PaConverting
  <2>2. PaGood  BY DEF PaInv
  <2> QED  BY <1>1, <1>2, <1>6, <2>1, <2>2 DEF PaGood
<1>11. paM.flag \in {0, 1} /\ paM' = [paM EXCEPT !.flag = paM.flag]  BY <1>1, PaFacts DEF PaInv, PaTyped, PaMachines
<1> QED  BY <1>1, <1>5, <1>6, <1>8, <1>9, <1>10, <1>11, PaFlagged

LEMMA PaConversionTold == PaInv /\ adc_conversion_isr => PaInv'
<1> SUFFICES ASSUME PaInv, adc_conversion_isr PROVE PaInv'
  OBVIOUS
<1> DEFINE flag == 1
           int == FALSE
<1>1. /\ paM' = [paM EXCEPT !.flag = flag] /\ paBusy' = paBusy /\ paPwm' = paPwm /\ paWire' = paWire /\ paChip' = paChip
      /\ paAdc.en /\ paAdc' = [paAdc EXCEPT !.int = int]
  BY DEF adc_conversion_isr
<1>2. flag \in {0, 1} /\ int \in BOOLEAN  OBVIOUS
<1> HIDE DEF flag, int
<1>3. paAdc' = [busy |-> paAdc.busy, slow |-> paAdc.slow, ch |-> paAdc.ch, val |-> paAdc.val, int |-> int, en |-> paAdc.en, late |-> paAdc.late]
  BY <1>1 DEF PaInv, PaTyped
<1>4. paAdc' \in [busy : BOOLEAN, slow : BOOLEAN, ch : 0 .. 4, val : Int, int : BOOLEAN, en : BOOLEAN, late : Int]
  BY <1>2, <1>3, PaParts DEF PaInv
<1>5. /\ paAdc'.busy = paAdc.busy /\ paAdc'.slow = paAdc.slow /\ paAdc'.ch = paAdc.ch /\ paAdc'.val = paAdc.val /\ paAdc'.en = paAdc.en
      /\ paAdc'.late = paAdc.late
  BY <1>3
<1>6. /\ paM'.pc = paM.pc /\ paM'.duty = paM.duty /\ paM'.ch = paM.ch /\ paM'.v = paM.v /\ paM'.sum = paM.sum /\ paM'.ret = paM.ret
  BY <1>1 DEF PaInv, PaTyped, PaMachines
<1>7. PaConverter'  BY <1>1, <1>5, <1>6 DEF PaInv, PaConverter
<1>8. PaWrong'  BY <1>1, <1>5, <1>6 DEF PaInv, PaWrong
<1>9. PaGood'  BY <1>1, <1>5, <1>6 DEF PaInv, PaGood
<1>10. paM.pc \notin PaTiming  BY <1>1 DEF PaInv, PaPlace, PaTiming, PaConverting
<1> QED  BY <1>1, <1>2, <1>4, <1>5, <1>7, <1>8, <1>9, <1>10, PaFlagged

(* A step of the test of the converter.                                    *)
LEMMA PaTesting ==
  ASSUME PaInv, paM.pc \in {"adc"} \cup PaConverting, paBusy' = paBusy, paPwm' = paPwm, paWire' = paWire, paChip' = paChip,
         paM' \in PaMachines, paM'.pc \in PaConverting, paM'.test = "adc", paM'.k = paM.k,
         paAdc' \in [busy : BOOLEAN, slow : BOOLEAN, ch : 0 .. 4, val : Int, int : BOOLEAN, en : BOOLEAN, late : Int],
         PaConverter', PaWrong', PaGood'
  PROVE  PaInv'
<1>1. PaTyped'  BY DEF PaInv, PaTyped
<1>2. paM'.pc \notin PaTiming /\ paM'.pc \notin {"off", "idle", "pwm", "adc", "hrc", "lrc", "end"}  BY DEF PaTiming, PaConverting
<1>3. PaPlace'
  <2>1. paPwm.en <=> FALSE  BY DEF PaInv, PaPlace, PaTiming, PaConverting
  <2>2. paPwm'.en <=> FALSE  BY <2>1
  <2>3. paBusy = {paM.k} /\ paM.k = 1  BY DEF PaInv, PaPlace
  <2> QED  BY <1>2, <2>2, <2>3 DEF PaPlace
<1>4. PaTimer' /\ PaSignals' /\ PaRead' /\ PwmRight'  BY <1>2 DEF PaTimer, PaSignals, PaRead, PwmRight
<1> QED  BY <1>1, <1>3, <1>4 DEF PaInv

LEMMA PaConverterTest == PaInv /\ socle_adc_ch_test_w_pwmt => PaInv'
<1> SUFFICES ASSUME PaInv, socle_adc_ch_test_w_pwmt PROVE PaInv'
  OBVIOUS
<1> DEFINE pc == "start"
           test == "adc"
           duty == 100
           zero == 0
           tests == paM.tests - 1
<1>1. /\ paM.pc = "adc" /\ paBusy' = paBusy /\ paPwm' = paPwm /\ paWire' = paWire /\ paAdc' = paAdc /\ paChip' = paChip
      /\ paM' = [[paM EXCEPT !.pc = pc, !.test = test, !.duty = duty, !.ch = zero, !.sum = zero] EXCEPT !.tests = tests]
  BY DEF socle_adc_ch_test_w_pwmt, PaBegins, PaAt
<1>2. tests \in Int /\ paM.flag \in {0, 1} /\ paM.v \in Int /\ paM.ret \in {0, -1}  BY PaFacts DEF PaInv
<1>3. /\ pc \in PaConverting /\ pc = "start" /\ test = "adc" /\ duty \in {0, 25, 50, 75, 100} /\ duty = 100 /\ zero \in 0 .. 4 /\ zero \in Int
      /\ zero = 0
  BY DEF PaConverting
<1> HIDE DEF pc, test, duty, zero, tests
<1>4. paM' = [pc |-> pc, test |-> test, k |-> paM.k, flag |-> paM.flag, count |-> paM.count, wait |-> paM.wait,
              duty |-> duty, hrc |-> paM.hrc, was |-> paM.was, ch |-> zero, v |-> paM.v, sum |-> zero,
              ret |-> paM.ret, tests |-> tests]
  BY <1>1 DEF PaInv, PaTyped, PaMachines
<1>5. paM'.pc = "start" /\ paM'.test = "adc" /\ paM'.k = paM.k /\ paM'.duty = 100 /\ paM'.ch = 0  BY <1>3, <1>4
<1>6. PaConverter'  BY <1>1, <1>5 DEF PaInv, PaConverter, PaConverting
<1>7. PaWrong' /\ PaGood'  BY <1>5 DEF PaWrong, PaGood
<1>8. paAdc' \in [busy : BOOLEAN, slow : BOOLEAN, ch : 0 .. 4, val : Int, int : BOOLEAN, en : BOOLEAN, late : Int]  BY <1>1 DEF PaInv, PaTyped
<1>9. paM' \in PaMachines
  <2>1. pc \in PaPc /\ test \in {"none", "single", "periodical", "capture", "adc"}  BY <1>3 DEF PaPc
  <2> QED  BY <1>2, <1>3, <1>4, <2>1, PaFacts DEF PaInv, PaMachines
<1>10. paM.pc \in {"adc"} \cup PaConverting /\ paM'.pc \in PaConverting  BY <1>1, <1>5 DEF PaConverting
<1> QED  BY <1>1, <1>5, <1>6, <1>7, <1>8, <1>9, <1>10, PaTesting

LEMMA PaConversionBegins == PaInv /\ socle_adc_read => PaInv'
<1> SUFFICES ASSUME PaInv, socle_adc_read PROVE PaInv'
  OBVIOUS
<1> DEFINE pc == "conv"
           busy == TRUE
<1>1. PICK slow \in BOOLEAN, late \in Int :
        /\ paAdc' = [paAdc EXCEPT !.busy = busy, !.slow = slow, !.ch = paM.ch, !.late = late]
        /\ late <= paAdc.late /\ (slow => late < paAdc.late)
  <2>1. PICK slow \in BOOLEAN :
          paAdc' = [paAdc EXCEPT !.busy = busy, !.slow = slow, !.ch = paM.ch, !.late = IF slow THEN paAdc.late - 1 ELSE paAdc.late]
    BY DEF socle_adc_read
  <2> DEFINE late == IF slow THEN paAdc.late - 1 ELSE paAdc.late
  <2>2. late \in Int /\ late <= paAdc.late /\ (slow => late < paAdc.late)  BY PaParts DEF PaInv
  <2>3. paAdc' = [paAdc EXCEPT !.busy = busy, !.slow = slow, !.ch = paM.ch, !.late = late]  BY <2>1
  <2> HIDE DEF late, busy
  <2> QED  BY <2>2, <2>3
<1>2. /\ paM.pc = "start" /\ paM' = [paM EXCEPT !.pc = pc] /\ paBusy' = paBusy /\ paPwm' = paPwm /\ paWire' = paWire /\ paChip' = paChip
  BY DEF socle_adc_read, PaAt
<1>3. pc = "conv" /\ pc \in PaConverting /\ busy \in BOOLEAN /\ busy  BY DEF PaConverting
<1>4. /\ paM.flag \in {0, 1} /\ paM.duty \in {0, 25, 50, 75, 100} /\ paM.ch \in 0 .. 4 /\ paM.v \in Int /\ paM.sum \in Int /\ paM.ret \in {0, -1}
      /\ paM.pc \in PaConverting
  BY <1>2, PaFacts DEF PaInv, PaConverting
<1> HIDE DEF pc, busy
<1>5. paM' = [pc |-> pc, test |-> paM.test, k |-> paM.k, flag |-> paM.flag, count |-> paM.count, wait |-> paM.wait,
              duty |-> paM.duty, hrc |-> paM.hrc, was |-> paM.was, ch |-> paM.ch, v |-> paM.v, sum |-> paM.sum,
              ret |-> paM.ret, tests |-> paM.tests]
  BY <1>2 DEF PaInv, PaTyped, PaMachines
<1>6. paAdc' = [busy |-> busy, slow |-> slow, ch |-> paM.ch, val |-> paAdc.val, int |-> paAdc.int, en |-> paAdc.en, late |-> late]
  BY <1>1 DEF PaInv, PaTyped
<1>7. paAdc' \in [busy : BOOLEAN, slow : BOOLEAN, ch : 0 .. 4, val : Int, int : BOOLEAN, en : BOOLEAN, late : Int]
  BY <1>1, <1>3, <1>4, <1>6, PaParts DEF PaInv
<1>8. paAdc'.busy /\ paAdc'.slow = slow /\ paAdc'.ch = paM.ch /\ paAdc'.val = paAdc.val /\ paAdc'.late = late  BY <1>3, <1>6
<1>9. paM'.pc = "conv" /\ paM'.duty = paM.duty /\ paM'.ch = paM.ch /\ paM'.v = paM.v /\ paM'.sum = paM.sum /\ paM'.ret = paM.ret
  BY <1>2, <1>3 DEF PaInv, PaTyped, PaMachines
<1>10. late <= paAdc.late /\ (slow => late < paAdc.late) /\ paAdc.late <= paLate /\ paAdc.late \in Int /\ paLate \in Int
  <2>1. paAdc.late \in Int /\ paLate \in Int  BY PaParts DEF PaInv
  <2>2. paAdc.late <= paLate  BY DEF PaInv, PaConverter
  <2> QED  BY <1>1, <2>1, <2>2
<1>11. late <= paLate /\ (slow => late < paLate) /\ (late = paLate => paAdc.late = paLate /\ ~slow)  BY <1>10
<1>12. PaConverter'
  <2>1. PaConverter  BY DEF PaInv
  <2>2. /\ paM.duty \in {100, 50, 25} /\ (paM.duty = 100 => paM.ch = 0)
        /\ paChip[1] = "dead" => paAdc.val = 0 /\ paM.duty = 100
        /\ paChip[1] = "wrong" => paAdc.val \in {0, 80, 160, 240, 320, 400}
    BY <1>4, <2>1 DEF PaConverter
  <2> QED  BY <1>2, <1>8, <1>9, <1>11, <2>2 DEF PaConverter
<1>13. PaWrong'
  <2>1. PaWrong  BY DEF PaInv
  <2>2. paM.ch <= paM.ch  BY <1>4
  <2> QED  BY <1>2, <1>4, <1>8, <1>9, <2>1, <2>2 DEF PaWrong
<1>14. PaGood'
  <2>1. PaGood  BY DEF PaInv
  <2> QED  BY <1>2, <1>4, <1>8, <1>9, <1>11, <2>1 DEF PaGood
<1>15. paM' \in PaMachines /\ paM'.pc \in PaConverting /\ paM'.test = "adc" /\ paM'.k = paM.k
  <2>1. pc \in PaPc  BY <1>3 DEF PaPc
  <2>2. paM' \in PaMachines  BY <1>5, <2>1, PaFacts DEF PaInv, PaMachines
  <2>3. paM.test = "adc"  BY <1>4 DEF PaInv, PaPlace
  <2> QED  BY <1>3, <1>5, <2>2, <2>3
<1> QED  BY <1>2, <1>4, <1>7, <1>12, <1>13, <1>14, <1>15, PaTesting

LEMMA PaConversionWaits == PaInv /\ adc_wait_for_conversion => PaInv'
<1> SUFFICES ASSUME PaInv, adc_wait_for_conversion PROVE PaInv'
  OBVIOUS
<1> DEFINE pc == "read"
           flag == 0
<1>1. /\ paM.pc = "conv" /\ paM' = [paM EXCEPT !.pc = pc, !.flag = flag] /\ paBusy' = paBusy /\ paPwm' = paPwm /\ paWire' = paWire
      /\ paAdc' = paAdc /\ paChip' = paChip
  BY DEF adc_wait_for_conversion, PaAt
<1>2. pc = "read" /\ pc \in PaConverting /\ flag \in {0, 1}  BY DEF PaConverting
<1>3. /\ paM.duty \in {0, 25, 50, 75, 100} /\ paM.ch \in 0 .. 4 /\ paM.v \in Int /\ paM.sum \in Int /\ paM.ret \in {0, -1}
      /\ paM.pc \in PaConverting
  BY <1>1, PaFacts DEF PaInv, PaConverting
<1> HIDE DEF pc, flag
<1>4. paM' = [pc |-> pc, test |-> paM.test, k |-> paM.k, flag |-> flag, count |-> paM.count, wait |-> paM.wait,
              duty |-> paM.duty, hrc |-> paM.hrc, was |-> paM.was, ch |-> paM.ch, v |-> paM.v, sum |-> paM.sum,
              ret |-> paM.ret, tests |-> paM.tests]
  BY <1>1 DEF PaInv, PaTyped, PaMachines
<1>5. paM'.pc = "read" /\ paM'.duty = paM.duty /\ paM'.ch = paM.ch /\ paM'.v = paM.v /\ paM'.sum = paM.sum /\ paM'.ret = paM.ret
  BY <1>1, <1>2 DEF PaInv, PaTyped, PaMachines
<1>6. PaConverter'  BY <1>1, <1>3, <1>5 DEF PaInv, PaConverter
<1>7. PaWrong'  BY <1>1, <1>3, <1>5 DEF PaInv, PaWrong
<1>8. PaGood'  BY <1>1, <1>3, <1>5 DEF PaInv, PaGood
<1>9. paAdc' \in [busy : BOOLEAN, slow : BOOLEAN, ch : 0 .. 4, val : Int, int : BOOLEAN, en : BOOLEAN, late : Int]  BY <1>1 DEF PaInv, PaTyped
<1>10. paM' \in PaMachines /\ paM'.pc \in PaConverting /\ paM'.test = "adc" /\ paM'.k = paM.k
  <2>1. pc \in PaPc  BY <1>2 DEF PaPc
  <2>2. paM' \in PaMachines  BY <1>2, <1>4, <2>1, PaFacts DEF PaInv, PaMachines
  <2>3. paM.test = "adc"  BY <1>3 DEF PaInv, PaPlace
  <2> QED  BY <1>2, <1>4, <2>2, <2>3
<1> QED  BY <1>1, <1>3, <1>6, <1>7, <1>8, <1>9, <1>10, PaTesting

(* The end of a test of the converter.                                     *)
LEMMA PaFinishes ==
  ASSUME PaInv, paM.pc \in PaConverting, paBusy' = paBusy, paPwm' = paPwm, paWire' = paWire, paAdc' = paAdc, paChip' = paChip,
         paAdc.busy => paAdc.slow, NEW ret \in {0, -1}, paM' = [paM EXCEPT !.pc = "end", !.ret = ret],
         ret = 0 => paChip[1] = "good", paChip[1] = "good" /\ paAdc.late = paLate => ret = 0
  PROVE  PaInv'
<1> DEFINE pc == "end"
<1>1. paM' = [pc |-> pc, test |-> paM.test, k |-> paM.k, flag |-> paM.flag, count |-> paM.count, wait |-> paM.wait,
              duty |-> paM.duty, hrc |-> paM.hrc, was |-> paM.was, ch |-> paM.ch, v |-> paM.v, sum |-> paM.sum,
              ret |-> ret, tests |-> paM.tests]
  BY DEF PaInv, PaTyped, PaMachines
<1>2. pc \in PaPc /\ pc = "end"  BY DEF PaPc
<1> HIDE DEF pc
<1>3. PaTyped'
  <2>1. paM' \in PaMachines  BY <1>1, <1>2, PaFacts DEF PaInv, PaMachines
  <2> QED  BY <2>1 DEF PaInv, PaTyped
<1>4. paM'.pc = "end" /\ paM'.test = paM.test /\ paM'.k = paM.k /\ paM'.ret = ret  BY <1>1, <1>2
<1>5. paM.test = "adc" /\ paM.k = 1 /\ paBusy = {1}  BY DEF PaInv, PaPlace
<1>6. PaPlace'
  <2>1. paPwm.en <=> FALSE  BY DEF PaInv, PaPlace, PaTiming, PaConverting
  <2>2. paPwm'.en <=> FALSE  BY <2>1
  <2> QED  BY <1>4, <1>5, <2>2 DEF PaPlace, PaTiming, PaConverting
<1>7. PaConverter'
  <2>1. paAdc.late = paLate => ~paAdc.busy  BY PaParts DEF PaInv, PaConverter
  <2>2. paM'.pc \notin PaConverting  BY <1>4 DEF PaConverting
  <2> QED  BY <1>4, <2>1, <2>2 DEF PaInv, PaConverter
<1>8. PwmRight'  BY <1>4, <1>5 DEF PwmRight
<1>9. paM'.pc \in {"off", "idle", "pwm", "adc", "end"}  BY <1>4
<1> QED  BY <1>3, <1>6, <1>7, <1>8, <1>9, PaRests

(* The next duty cycle, of half the voltage, or the verdict.               *)
LEMMA PaDuties ==
  ASSUME PaInv, paM.pc \in {"conv", "read"}, paBusy' = paBusy, paPwm' = paPwm, paWire' = paWire, paAdc' = paAdc, paChip' = paChip,
         paAdc.busy => paAdc.slow, NEW v \in Int, NEW ret \in {0, -1}, PaDuty(v, ret),
         paChip[1] = "dead" => PaHalf(v) = 0,
         paChip[1] = "wrong" /\ paM.duty = 100 /\ PaHalf(v) # 0 => PaHalf(v) \in {40, 80, 120, 160, 200} /\ paAdc.val >= 2 * PaHalf(v),
         paChip[1] = "wrong" /\ paM.duty # 100 => ret = -1,
         paChip[1] = "good" /\ paAdc.late = paLate => PaHalf(v) = 2 * paM.duty /\ ret = 0
  PROVE  PaInv'
<1> DEFINE half == PaHalf(v)
<1>1. half \in Int  BY DEF PaHalf
<1>2. paM.pc \in PaConverting  BY DEF PaConverting
<1>3. paM.duty \in {100, 50, 25} /\ (paM.duty = 100 => paM.ch = 0) /\ paAdc.ch = paM.ch /\ (paChip[1] = "dead" => paM.duty = 100)
  BY <1>2 DEF PaInv, PaConverter
<1>4. paChip[1] \in {"good", "dead", "wrong"}  BY PaParts DEF PaInv
<1>5. CASE paM.duty = 25 \/ half = 0
  <2> DEFINE r == IF half = 0 /\ paM.duty # 25 THEN -1 ELSE ret
  <2>1. paM' = [paM EXCEPT !.pc = "end", !.ret = r]  BY <1>5 DEF PaDuty, PaEnds
  <2>2. r \in {0, -1}  OBVIOUS
  <2>3. r = 0 => paM.duty = 25 /\ ret = 0  BY <1>5
  <2>4. r = 0 => paChip[1] = "good"  BY <1>3, <1>4, <2>3
  <2>5. paChip[1] = "good" /\ paAdc.late = paLate => r = 0  BY <1>3
  <2> HIDE DEF r, half
  <2> QED  BY <1>2, <2>1, <2>2, <2>4, <2>5, PaFinishes
<1>6. CASE paM.duty # 25 /\ half # 0
  <2> DEFINE pc == "start"
             zero == 0
             duty == paM.duty \div 2
  <2>1. paM' = [paM EXCEPT !.pc = pc, !.duty = duty, !.v = half, !.ch = zero, !.sum = zero, !.ret = ret]  BY <1>6 DEF PaDuty
  <2>2. /\ pc = "start" /\ pc \in PaPc /\ zero \in Int /\ zero \in 0 .. 4 /\ zero = 0 /\ duty \in {0, 25, 50, 75, 100}
        /\ duty = IF paM.duty = 100 THEN 50 ELSE 25
    <3>1. duty = IF paM.duty = 100 THEN 50 ELSE 25  BY <1>3, <1>6
    <3> QED  BY <3>1 DEF PaPc, PaConverting
  <2> HIDE DEF pc, zero, duty
  <2>3. paM' = [pc |-> pc, test |-> paM.test, k |-> paM.k, flag |-> paM.flag, count |-> paM.count, wait |-> paM.wait,
                duty |-> duty, hrc |-> paM.hrc, was |-> paM.was, ch |-> zero, v |-> half, sum |-> zero,
                ret |-> ret, tests |-> paM.tests]
    <3> HIDE DEF half
    <3> QED  BY <2>1 DEF PaInv, PaTyped, PaMachines
  <2>4. paM' \in PaMachines
    <3> HIDE DEF half
    <3> QED  BY <1>1, <2>2, <2>3, PaFacts DEF PaInv, PaMachines
  <2>5. /\ paM'.pc = "start" /\ paM'.test = paM.test /\ paM'.k = paM.k /\ paM'.duty = duty /\ paM'.ch = 0 /\ paM'.v = half /\ paM'.sum = 0
        /\ paM'.ret = ret
    BY <2>2, <2>3
  <2>6. paM.test = "adc"  BY <1>2 DEF PaInv, PaPlace
  <2>7. paChip[1] # "dead"  BY <1>6
  <2>8. PaConverter'
    <3>1. paAdc.late = paLate => ~paAdc.busy  BY PaParts DEF PaInv, PaConverter
    <3> QED  BY <2>2, <2>5, <2>7, <3>1 DEF PaInv, PaConverter
  <2>9. PaWrong'
    <3> SUFFICES ASSUME paChip[1] = "wrong" PROVE PaWrong'
      BY DEF PaWrong
    <3>1. CASE paM.duty = 100
      <4>1. half \in {40, 80, 120, 160, 200} /\ paAdc.val >= 2 * half /\ paAdc.ch = 0  BY <1>3, <1>6, <3>1
      <4>2. duty = 50 /\ 0 <= 0  BY <2>2, <3>1
      <4> HIDE DEF half
      <4> QED  BY <2>5, <4>1, <4>2 DEF PaWrong
    <3>2. CASE paM.duty # 100
      <4>1. duty = 25 /\ ret = -1  BY <2>2, <3>2
      <4> QED  BY <2>5, <4>1 DEF PaWrong
    <3> QED  BY <3>1, <3>2
  <2>10. PaGood'
    <3> SUFFICES ASSUME paChip[1] = "good", paAdc.late = paLate PROVE PaGood'
      BY DEF PaGood
    <3>1. half = 2 * paM.duty /\ ret = 0  OBVIOUS
    <3>2. half = 4 * duty /\ (2 * duty * 0 * (11 - 0)) \div 5 = 0  BY <1>3, <1>6, <2>2, <3>1
    <3> HIDE DEF half
    <3> QED  BY <2>5, <3>1, <3>2 DEF PaGood
  <2>11. paM'.pc \in PaConverting /\ paM.pc \in {"adc"} \cup PaConverting  BY <1>2, <2>5 DEF PaConverting
  <2>12. paAdc' \in [busy : BOOLEAN, slow : BOOLEAN, ch : 0 .. 4, val : Int, int : BOOLEAN, en : BOOLEAN, late : Int]  BY DEF PaInv, PaTyped
  <2> QED  BY <2>4, <2>5, <2>6, <2>8, <2>9, <2>10, <2>11, <2>12, PaTesting
<1> QED  BY <1>5, <1>6

(* A value, or -1 of a late one.                                           *)
LEMMA PaValues ==
  ASSUME PaInv, paM.pc \in {"conv", "read"}, paBusy' = paBusy, paPwm' = paPwm, paWire' = paWire, paAdc' = paAdc, paChip' = paChip,
         paAdc.busy => paAdc.slow, NEW val \in Int, socle_adc_ch_test_sub(val),
         (val = -1 /\ paAdc.slow) \/ (val = paAdc.val /\ paM.pc = "read")
  PROVE  PaInv'
<1>1. paM.pc \in PaConverting  BY DEF PaConverting
<1>2. /\ paM.duty \in {100, 50, 25} /\ (paM.duty = 100 => paM.ch = 0) /\ paAdc.ch = paM.ch
      /\ paChip[1] = "dead" => paAdc.val = 0 /\ paM.duty = 100
      /\ paChip[1] = "wrong" => paAdc.val \in {0, 80, 160, 240, 320, 400}
      /\ paAdc.slow => paAdc.late < paLate
  BY <1>1 DEF PaInv, PaConverter
<1>3. paM.ch \in 0 .. 4 /\ paM.v \in Int /\ paM.sum \in Int /\ paM.ret \in {0, -1}  BY PaFacts DEF PaInv
<1>4. paAdc.late \in Int /\ paLate \in Int /\ paAdc.val \in Int /\ paChip[1] \in {"good", "dead", "wrong"}  BY PaParts DEF PaInv
<1>5. paChip[1] = "good" /\ paAdc.late = paLate =>
        /\ val = paAdc.val /\ val = (4 * paM.duty * (5 - paM.ch)) \div 5
        /\ paM.duty # 100 => paM.v = 4 * paM.duty /\ paM.ret = 0 /\ paM.sum = (2 * paM.duty * paM.ch * (11 - paM.ch)) \div 5
  <2> SUFFICES ASSUME paChip[1] = "good", paAdc.late = paLate
               PROVE  /\ val = paAdc.val /\ val = (4 * paM.duty * (5 - paM.ch)) \div 5
                      /\ paM.duty # 100 => paM.v = 4 * paM.duty /\ paM.ret = 0 /\ paM.sum = (2 * paM.duty * paM.ch * (11 - paM.ch)) \div 5
    OBVIOUS
  <2>1. ~paAdc.slow /\ ~paAdc.busy  BY <1>2, <1>4
  <2>2. val = paAdc.val /\ paM.pc # "start"  BY <2>1
  <2> QED  BY <1>1, <2>1, <2>2 DEF PaInv, PaGood
<1>6. paChip[1] = "wrong" /\ paM.duty = 50 =>
        /\ paM.v \in {40, 80, 120, 160, 200}
        /\ paM.ch = 0 => paM.sum = 0 /\ paAdc.val >= 2 * paM.v
        /\ paM.ch = 1 => paM.sum >= 2 * paM.v /\ (paAdc.val >= 2 * paM.v \/ paAdc.val >= 320)
        /\ paM.ch >= 2 => paM.sum > 3 * paM.v + 10
  BY <1>1 DEF PaInv, PaWrong
<1>7. paChip[1] = "wrong" /\ paM.duty = 25 => paM.ret = -1  BY <1>1 DEF PaInv, PaWrong
<1>8. CASE paM.duty = 100
  <2>1. PaDuty(val, 0)  BY <1>8 DEF socle_adc_ch_test_sub
  <2>2. paChip[1] = "dead" => PaHalf(val) = 0  BY <1>2 DEF PaHalf
  <2>3. paChip[1] = "wrong" /\ PaHalf(val) # 0 => PaHalf(val) \in {40, 80, 120, 160, 200} /\ paAdc.val >= 2 * PaHalf(val)
    <3> SUFFICES ASSUME paChip[1] = "wrong", PaHalf(val) # 0
                 PROVE  PaHalf(val) \in {40, 80, 120, 160, 200} /\ paAdc.val >= 2 * PaHalf(val)
      OBVIOUS
    <3>1. val # -1  BY DEF PaHalf
    <3>2. val = paAdc.val /\ val \in {0, 80, 160, 240, 320, 400}  BY <1>2, <3>1
    <3> QED  BY <3>2 DEF PaHalf
  <2>4. paChip[1] = "good" /\ paAdc.late = paLate => PaHalf(val) = 2 * paM.duty
    <3> SUFFICES ASSUME paChip[1] = "good", paAdc.late = paLate PROVE PaHalf(val) = 2 * paM.duty
      OBVIOUS
    <3>1. val = (4 * 100 * (5 - 0)) \div 5  BY <1>2, <1>5, <1>8
    <3>2. val = 400  BY <3>1
    <3> QED  BY <1>8, <3>2 DEF PaHalf
  <2> DEFINE zero == 0
  <2>5. zero \in {0, -1} /\ zero = 0 /\ PaDuty(val, zero)  BY <2>1
  <2> HIDE DEF zero
  <2> QED  BY <1>8, <2>2, <2>3, <2>4, <2>5, PaDuties
<1>9. CASE paM.duty # 100 /\ val = -1
  <2> DEFINE ret == -1
  <2>1. PaDuty(paM.v, ret)  BY <1>9 DEF socle_adc_ch_test_sub
  <2>2. ret \in {0, -1} /\ ret = -1  OBVIOUS
  <2>3. paChip[1] # "dead"  BY <1>2, <1>9
  <2>4. ~(paChip[1] = "good" /\ paAdc.late = paLate)
    <3> SUFFICES ASSUME paChip[1] = "good", paAdc.late = paLate PROVE FALSE
      OBVIOUS
    <3>1. val = (4 * paM.duty * (5 - paM.ch)) \div 5  BY <1>5
    <3>2. (4 * 50 * (5 - paM.ch)) \div 5 >= 0 /\ (4 * 25 * (5 - paM.ch)) \div 5 >= 0  BY <1>3
    <3> QED  BY <1>2, <1>9, <3>1, <3>2
  <2> HIDE DEF ret
  <2> QED  BY <1>3, <1>9, <2>1, <2>2, <2>3, <2>4, PaDuties
<1>10. CASE paM.duty # 100 /\ val # -1 /\ paM.ch < 4
  <2> DEFINE pc == "start"
             ch == paM.ch + 1
             sum == paM.sum + val
  <2>1. paM' = [paM EXCEPT !.pc = pc, !.ch = ch, !.sum = sum]  BY <1>10 DEF socle_adc_ch_test_sub, SUPT_CH
  <2>2. pc = "start" /\ pc \in PaPc /\ ch \in 0 .. 4 /\ sum \in Int  BY <1>3, <1>10 DEF PaPc, PaConverting
  <2> HIDE DEF pc, ch, sum
  <2>3. paM' = [pc |-> pc, test |-> paM.test, k |-> paM.k, flag |-> paM.flag, count |-> paM.count, wait |-> paM.wait,
                duty |-> paM.duty, hrc |-> paM.hrc, was |-> paM.was, ch |-> ch, v |-> paM.v, sum |-> sum,
                ret |-> paM.ret, tests |-> paM.tests]
    BY <2>1 DEF PaInv, PaTyped, PaMachines
  <2>4. paM' \in PaMachines  BY <2>2, <2>3, PaFacts DEF PaInv, PaMachines
  <2>5. /\ paM'.pc = "start" /\ paM'.test = paM.test /\ paM'.k = paM.k /\ paM'.duty = paM.duty /\ paM'.ch = ch /\ paM'.v = paM.v
        /\ paM'.sum = sum /\ paM'.ret = paM.ret
    BY <2>2, <2>3
  <2>6. paM.test = "adc"  BY <1>1 DEF PaInv, PaPlace
  <2>7. paChip[1] # "dead" /\ val = paAdc.val  BY <1>2, <1>10
  <2>8. PaConverter'
    <3>1. paAdc.late = paLate => ~paAdc.busy  BY <1>2, <1>4
    <3> QED  BY <1>2, <1>10, <2>5, <2>7, <3>1 DEF PaInv, PaConverter
  <2>9. PaWrong'
    <3> SUFFICES ASSUME paChip[1] = "wrong" PROVE PaWrong'
      BY DEF PaWrong
    <3>1. paM.duty = 25 => paM.ret = -1  BY <1>7
    <3>2. CASE paM.duty = 50
      <4>1. paM.v \in {40, 80, 120, 160, 200} /\ paAdc.ch <= ch  BY <1>2, <1>3, <1>6, <3>2 DEF ch
      <4>2. ch # 0 /\ paAdc.val \in {0, 80, 160, 240, 320, 400}  BY <1>2, <1>3 DEF ch
      <4>3. ch = 1 => sum >= 2 * paM.v /\ paAdc.val >= 2 * paM.v
        <5>1. ch = 1 => paM.ch = 0  BY <1>3 DEF ch
        <5> QED  BY <1>4, <1>6, <2>7, <3>2, <5>1 DEF sum
      <4>4. ch >= 2 => sum > 3 * paM.v + 10
        <5>1. ch >= 2 => paM.ch = 1 \/ paM.ch >= 2  BY <1>3 DEF ch
        <5>2. paM.ch = 1 => sum > 3 * paM.v + 10  BY <1>3, <1>4, <1>6, <2>7, <3>2, <4>1 DEF sum
        <5>3. paM.ch >= 2 => sum > 3 * paM.v + 10  BY <1>3, <1>6, <2>7, <3>2, <4>1, <4>2 DEF sum
        <5> QED  BY <5>1, <5>2, <5>3
      <4> QED  BY <2>5, <3>2, <4>1, <4>2, <4>3, <4>4 DEF PaWrong
    <3>3. CASE paM.duty # 50  BY <2>5, <3>1, <3>3 DEF PaWrong
    <3> QED  BY <3>2, <3>3
  <2>10. PaGood'
    <3> SUFFICES ASSUME paChip[1] = "good", paAdc.late = paLate PROVE PaGood'
      BY DEF PaGood
    <3>1. /\ val = (4 * paM.duty * (5 - paM.ch)) \div 5 /\ paM.v = 4 * paM.duty /\ paM.ret = 0
          /\ paM.sum = (2 * paM.duty * paM.ch * (11 - paM.ch)) \div 5
      BY <1>5, <1>10
    <3>2. sum = (2 * paM.duty * ch * (11 - ch)) \div 5
      <4>1. paM.ch \in {0, 1, 2, 3} /\ paM.duty \in {50, 25}  BY <1>2, <1>3, <1>10
      <4> QED  BY <3>1, <4>1 DEF sum, ch
    <3> QED  BY <2>5, <3>1, <3>2 DEF PaGood
  <2>11. paM'.pc \in PaConverting /\ paM.pc \in {"adc"} \cup PaConverting  BY <1>1, <2>5 DEF PaConverting
  <2>12. paAdc' \in [busy : BOOLEAN, slow : BOOLEAN, ch : 0 .. 4, val : Int, int : BOOLEAN, en : BOOLEAN, late : Int]  BY DEF PaInv, PaTyped
  <2> QED  BY <2>4, <2>5, <2>6, <2>8, <2>9, <2>10, <2>11, <2>12, PaTesting
<1>11. CASE paM.duty # 100 /\ val # -1 /\ paM.ch = 4
  <2> DEFINE between == PaBetween(paM.sum + val, (paM.v * (SUPT_CH + 1)) \div 2)
             ret == IF between THEN paM.ret ELSE -1
  <2>1. PaDuty(paM.v, ret)  BY <1>11 DEF socle_adc_ch_test_sub, SUPT_CH
  <2>2. ret \in {0, -1}  BY <1>3
  <2>3. paChip[1] # "dead" /\ val = paAdc.val  BY <1>2, <1>11
  <2>4. paChip[1] = "wrong" => ret = -1
    <3> SUFFICES ASSUME paChip[1] = "wrong" PROVE ret = -1
      OBVIOUS
    <3>1. CASE paM.duty = 25  BY <1>7, <3>1
    <3>2. CASE paM.duty = 50
      <4>1. paM.v \in {40, 80, 120, 160, 200} /\ paM.sum > 3 * paM.v + 10 /\ val >= 0  BY <1>2, <1>6, <1>11, <2>3, <3>2
      <4>2. (paM.v * (SUPT_CH + 1)) \div 2 = 3 * paM.v  BY <4>1 DEF SUPT_CH
      <4>3. ~between  BY <1>3, <4>1, <4>2 DEF PaBetween, SUPT_CH
      <4> QED  BY <4>3
    <3> QED  BY <1>2, <1>11, <3>1, <3>2
  <2>5. paChip[1] = "good" /\ paAdc.late = paLate => PaHalf(paM.v) = 2 * paM.duty /\ ret = 0
    <3> SUFFICES ASSUME paChip[1] = "good", paAdc.late = paLate PROVE PaHalf(paM.v) = 2 * paM.duty /\ ret = 0
      OBVIOUS
    <3>1. /\ val = (4 * paM.duty * (5 - 4)) \div 5 /\ paM.v = 4 * paM.duty /\ paM.ret = 0
          /\ paM.sum = (2 * paM.duty * 4 * (11 - 4)) \div 5
      BY <1>5, <1>11
    <3>2. paM.duty = 50 \/ paM.duty = 25  BY <1>2, <1>11
    <3>3. paM.sum + val = 12 * paM.duty /\ (paM.v * (SUPT_CH + 1)) \div 2 = 12 * paM.duty /\ paM.v \div 2 = 2 * paM.duty /\ paM.v > 0
      <4>1. CASE paM.duty = 50  BY <3>1, <4>1 DEF SUPT_CH
      <4>2. CASE paM.duty = 25  BY <3>1, <4>2 DEF SUPT_CH
      <4> QED  BY <3>2, <4>1, <4>2
    <3>4. between  BY <3>2, <3>3 DEF PaBetween, SUPT_CH
    <3>5. PaHalf(paM.v) = 2 * paM.duty
      <4>1. ~(paM.v < 0)  BY <1>3, <3>3
      <4> QED  BY <3>3, <4>1 DEF PaHalf
    <3>6. ret = 0  BY <3>1, <3>4
    <3> QED  BY <3>5, <3>6
  <2> HIDE DEF ret
  <2> QED  BY <1>3, <1>11, <2>1, <2>2, <2>3, <2>4, <2>5, PaDuties
<1> QED  BY <1>3, <1>8, <1>9, <1>10, <1>11

LEMMA PaValueRead == PaInv /\ PaReads => PaInv'
<1> SUFFICES ASSUME PaInv, PaReads PROVE PaInv'
  OBVIOUS
<1>1. /\ paM.pc = "read" /\ (paAdc.busy => paAdc.slow) /\ socle_adc_ch_test_sub(paAdc.val)
      /\ paBusy' = paBusy /\ paPwm' = paPwm /\ paWire' = paWire /\ paAdc' = paAdc /\ paChip' = paChip
  BY DEF PaReads, PaAt
<1>2. paM.pc \in {"conv", "read"} /\ paAdc.val \in Int  BY <1>1, PaParts DEF PaInv
<1> QED  BY <1>1, <1>2, PaValues

LEMMA PaValueLate == PaInv /\ PaLate => PaInv'
<1> SUFFICES ASSUME PaInv, PaLate PROVE PaInv'
  OBVIOUS
<1> DEFINE val == -1
<1>1. /\ paM.pc = "conv" /\ paAdc.slow /\ socle_adc_ch_test_sub(val)
      /\ paBusy' = paBusy /\ paPwm' = paPwm /\ paWire' = paWire /\ paAdc' = paAdc /\ paChip' = paChip
  BY DEF PaLate, PaAt
<1>2. paM.pc \in {"conv", "read"} /\ val \in Int /\ val = -1  BY <1>1
<1> HIDE DEF val
<1> QED  BY <1>1, <1>2, PaValues

LEMMA PaStutters == PaInv /\ UNCHANGED paVars => PaInv'
<1> SUFFICES ASSUME PaInv, UNCHANGED paVars PROVE PaInv'
  OBVIOUS
<1>1. paM' = paM /\ paBusy' = paBusy /\ paPwm' = paPwm /\ paWire' = paWire /\ paAdc' = paAdc /\ paChip' = paChip  BY DEF paVars
<1>2. paM.flag \in {0, 1} /\ paM' = [paM EXCEPT !.flag = paM.flag]  BY <1>1, PaFacts DEF PaInv, PaTyped, PaMachines
<1>3. PaConverter' /\ PaWrong' /\ PaGood'  BY <1>1 DEF PaInv, PaConverter, PaWrong, PaGood
<1>4. paAdc' \in [busy : BOOLEAN, slow : BOOLEAN, ch : 0 .. 4, val : Int, int : BOOLEAN, en : BOOLEAN, late : Int]  BY <1>1 DEF PaInv, PaTyped
<1> QED  BY <1>1, <1>2, <1>3, <1>4, PaFlagged

LEMMA PaNextStep == PaInv /\ [PaStep]_paVars => PaInv'
BY PaOpening, PaClosing, PaReturns, PaTimerBegins, PaInterrupts, PaGoesOn, PaHits, PaTimesOut, PaCounts, PaEdges, PaCaptureBegins,
   PaHrcRead, PaPulls, PaNoSignals, PaConverted, PaConversionTold, PaConverterTest, PaConversionBegins, PaConversionWaits,
   PaValueRead, PaValueLate, PaStutters
   DEF PaStep

LEMMA PaInvRight == PaInv => PwmRight
BY DEF PaInv

=============================================================================
