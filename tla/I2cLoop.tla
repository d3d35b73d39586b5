------------------------------ MODULE I2cLoop ------------------------------
(***************************************************************************)
(* The two-wire bus: i2c_transfer, the handler of the controller and the   *)
(* tests of src/I2C/i2c-ctrl.c.  In the loop-back tests one handler plays  *)
(* both ends: the master port waits for flags the handler sets, and the    *)
(* slave port, which stretches the clock, is answered inside it.           *)
(*                                                                         *)
(* A transfer is a sequence of operations on the bus, each a byte.  icSize *)
(* is PATTERN_BUF_SIZE and AT24C02B_EEPROM_SIZE, icChip the bytes the      *)
(* memory chip really has (256, where the pattern repeats too), icPage its *)
(* page; icNaks bounds the bytes that are not answered in a session of     *)
(* icTests tests.                                                          *)
(***************************************************************************)
EXTENDS Integers, Sequences

CONSTANTS icSize, icChip, icPage, icNaks, icTests
ASSUME IcAssumption ==
  /\ {icSize, icChip, icPage} \subseteq 1 .. 256 /\ {icNaks, icTests} \subseteq Nat
  /\ icSize % icChip = 0 /\ icChip % icPage = 0

VARIABLES
  icM,     \* the caller: test, its step, operation, attempt, bytes read, verdict
  icFlag,  \* int_master_recv_ack and int_master_ack_period
  icBus,   \* phase, byte, is it after a start, not answered, who listens
  icCtl,   \* the controller: ISR bits, STXR, the ACK and transmit bits, 10-bit mode
  icS,     \* the slave in the handler: buffer, index, address states
  icChipS, \* the memory chip: bytes, pointer, does it expect the address, busy
  icLeft   \* naks, tests to come

i2cVars == <<icM, icFlag, icBus, icCtl, icS, icChipS, icLeft>>

SLAVE_7 == 70
SLAVE_10_HI == 246
GENERAL == 0
EEPROM == 80
socle_i2c_make_test_pattern == [k \in 1 .. icSize |-> (k - 1) % icChip]

IcStart(pc) ==
  /\ icM = [pc |-> pc, test |-> "none", step |-> 1, op |-> 1, try |-> 1, mem |-> <<>>, err |-> 0]
  /\ icFlag = {} /\ icBus = [phase |-> "idle", byte |-> 0, start |-> FALSE, nak |-> FALSE, who |-> "none"]
  /\ icCtl = [isr |-> {}, stxr |-> 0, nak |-> FALSE, tran |-> FALSE, ten |-> FALSE]
  /\ icS = [buf |-> [k \in 0 .. icSize - 1 |-> 0], idx |-> 0, ten |-> FALSE, gen |-> FALSE]
  /\ icChipS = [mem |-> [a \in 0 .. icChip - 1 |-> 0], at |-> 0, addr |-> FALSE, busy |-> FALSE, wrote |-> FALSE]
  /\ icLeft = [naks |-> icNaks, tests |-> icTests]
-----------------------------------------------------------------------------
(* Messages as operations, and tests as programs of transfers.             *)
IcFirst(b) == [do |-> "start", b |-> b]
IcNext(b) == [do |-> "send", b |-> b]
IcTake(last) == [do |-> "take", b |-> IF last THEN 1 ELSE 0]
socle_i2c_do_address(ten, addr, rd) ==
  IF ten THEN <<IcFirst(SLAVE_10_HI), IcNext(addr)>> \o (IF rd = 1 THEN <<IcFirst(SLAVE_10_HI + 1)>> ELSE <<>>)
  ELSE <<IcFirst(2 * addr + rd)>>
socle_i2c_send_bytes(bytes) == [k \in DOMAIN bytes |-> IcNext(bytes[k])]
socle_i2c_read_bytes(n) == [k \in 1 .. n |-> IcTake(k = n)]
IcWrite(ten, addr, bytes) == socle_i2c_do_address(ten, addr, 0) \o socle_i2c_send_bytes(bytes)
IcRead(ten, addr, n) == socle_i2c_do_address(ten, addr, 1) \o socle_i2c_read_bytes(n)

IcNormal(ten) == <<IcWrite(ten, SLAVE_7, socle_i2c_make_test_pattern), IcRead(ten, SLAVE_7, icSize)>>
IcCombined(ten) == <<IcWrite(ten, SLAVE_7, socle_i2c_make_test_pattern) \o IcRead(ten, SLAVE_7, icSize)>>
(* The bytes 4 and 101 get the same answer.                               *)
IcGeneral == <<IcWrite(FALSE, GENERAL, <<6>>)>>
IcPages == [p \in 1 .. icSize \div icPage |->
  LET from == (p - 1) * icPage IN
  IcWrite(FALSE, EEPROM, <<from % icChip>> \o SubSeq(socle_i2c_make_test_pattern, from + 1, from + icPage))]
socle_i2c_at24c02b_eeprom_test ==
  IcPages \o <<IcWrite(FALSE, EEPROM, <<0>>), IcRead(FALSE, EEPROM, icSize)>>
IcProgram ==
  [test \in {"normal 7", "normal 10", "combined 7", "combined 10", "general", "eeprom"} |->
     CASE test = "normal 7" -> IcNormal(FALSE) [] test = "normal 10" -> IcNormal(TRUE)
       [] test = "combined 7" -> IcCombined(FALSE) [] test = "combined 10" -> IcCombined(TRUE)
       [] test = "general" -> IcGeneral
       [] OTHER -> socle_i2c_at24c02b_eeprom_test]
-----------------------------------------------------------------------------
(* The caller.                                                             *)
IcTransfer == IcProgram[icM.test][icM.step]
IcOp == IcTransfer[icM.op]
IcPut(b, start) == icBus' = [icBus EXCEPT !.phase = "out", !.byte = b, !.start = start]
socle_i2c_resume == icBus' = [icBus EXCEPT !.phase = IF @ = "acking" THEN "acked" ELSE "in"]
socle_i2c_stop == icBus' = [icBus EXCEPT !.phase = CASE @ = "acking" -> "nacked" [] @ = "held" -> "stopping" [] OTHER -> @]
IcMain(m) == icM' = m /\ UNCHANGED <<icS, icChipS, icLeft>>

IcKey(test) ==
  /\ icM.pc = "idle" /\ icLeft.tests > 0
  /\ icM' = [icM EXCEPT !.pc = "try", !.test = test, !.step = 1, !.op = 1, !.try = 1, !.mem = <<>>, !.err = 0]
  /\ icCtl' = [icCtl EXCEPT !.ten = IF test \in {"normal 10", "combined 10"} THEN TRUE
                                    ELSE IF test \in {"normal 7", "combined 7"} THEN FALSE ELSE @,
                            !.tran = IF test = "general" THEN FALSE ELSE @]
  /\ icLeft' = [icLeft EXCEPT !.tests = @ - 1] /\ UNCHANGED <<icFlag, icBus, icS, icChipS>>
IcFails == [icM EXCEPT !.pc = "delay", !.op = 1, !.try = @ + 1]
(* A transfer begins only when the stop of the last one is on the bus.     *)
socle_i2c_do_transfer ==
  /\ icM.pc = "try" /\ UNCHANGED <<icFlag, icCtl>>
  /\ IF icBus.phase = "idle" THEN IcMain([icM EXCEPT !.pc = "op"]) /\ UNCHANGED icBus
     ELSE IcMain(IcFails) /\ socle_i2c_stop
(* i2c_transfer: 100 us before the next attempt, five of which are made.   *)
i2c_transfer ==
  /\ icM.pc = "delay" /\ icBus.phase = "idle" /\ UNCHANGED <<icFlag, icBus, icCtl>>
  /\ IcMain(IF icM.try > 5 THEN [icM EXCEPT !.pc = "end", !.err = -1] ELSE [icM EXCEPT !.pc = "try", !.mem = <<>>])
IcBegins ==
  /\ icM.pc = "op" /\ UNCHANGED <<icFlag, icCtl>>
  /\ IF icM.op > Len(IcTransfer) THEN IcMain([icM EXCEPT !.pc = "done"]) /\ socle_i2c_stop
     ELSE /\ IcMain([icM EXCEPT !.pc = IF IcOp.do = "take" THEN "read byte" ELSE "check ack"])
          /\ IF IcOp.do = "take" THEN socle_i2c_resume ELSE IcPut(IcOp.b, IcOp.do = "start")
socle_i2c_master_check_ack ==
  /\ icM.pc = "check ack" /\ "recv ack" \in icFlag /\ icFlag' = icFlag \ {"recv ack"} /\ UNCHANGED icCtl
  /\ IF icBus.nak THEN IcMain(IcFails) /\ socle_i2c_stop
     ELSE IcMain([icM EXCEPT !.pc = "op", !.op = @ + 1]) /\ UNCHANGED icBus
socle_i2c_master_read_byte ==
  /\ icM.pc = "read byte" /\ "ack period" \in icFlag /\ icFlag' = icFlag \ {"ack period"} /\ UNCHANGED icBus
  /\ IcMain([icM EXCEPT !.pc = "op", !.op = @ + 1, !.mem = Append(@, icBus.byte)])
  /\ icCtl' = [icCtl EXCEPT !.nak = IcOp.b = 1]
(* The tests wait 5 ms after each write to the chip.                       *)
IcDone ==
  /\ icM.pc = "done" /\ (icM.test = "eeprom" => icBus.phase = "idle")
  /\ icM' = [icM EXCEPT !.pc = IF icM.step = Len(IcProgram[icM.test]) THEN "compare" ELSE "try", !.step = @ + 1, !.op = 1, !.try = 1]
  /\ icChipS' = [icChipS EXCEPT !.busy = FALSE] /\ UNCHANGED <<icFlag, icBus, icCtl, icS, icLeft>>
socle_i2c_compare_memory ==
  /\ icM.pc = "compare" /\ UNCHANGED <<icFlag, icBus, icCtl>>
  /\ IcMain([icM EXCEPT !.pc = "end", !.err = IF icM.test = "general" \/ icM.mem = socle_i2c_make_test_pattern THEN 0 ELSE -1])
IcBackInMenu == icM.pc = "end" /\ icBus.phase = "idle" /\ IcMain([icM EXCEPT !.pc = "idle", !.mem = <<>>]) /\ UNCHANGED <<icFlag, icBus, icCtl>>
-----------------------------------------------------------------------------
(* The handler, a cause at a time, in the order of the code.               *)
IcHandles(cause) == cause \in icCtl.isr /\ UNCHANGED <<icM, icChipS, icLeft>>
IcCleared(cause) == [icCtl EXCEPT !.isr = @ \ {cause}]
IcStored == IF icS.idx \in DOMAIN icS.buf THEN icS.buf[icS.idx] ELSE 0
IcAnswers(flag) == icBus' = [icBus EXCEPT !.phase = "ninth", !.nak = flag]
IcBroadcast ==
  /\ IcHandles("broadcast") /\ icS' = [icS EXCEPT !.gen = TRUE]
  /\ icCtl' = [IcCleared("broadcast") EXCEPT !.nak = FALSE] /\ IcAnswers(FALSE) /\ UNCHANGED icFlag
(* Mutant of IcAddressed: the index goes on where the last transfer ended. *)
IcAddressedGoesOn == icS.idx
IcAddressed == 0
IcSlaveAddr ==
  LET reads == icBus.byte % 2 = 1
  IN /\ IcHandles("slave addr") /\ IcAnswers(FALSE) /\ UNCHANGED icFlag
     /\ icS' = [icS EXCEPT !.idx = IF reads THEN IcAddressed + 1 ELSE IcAddressed, !.ten = @ \/ (icCtl.ten /\ ~reads)]
     /\ icCtl' = [IcCleared("slave addr") EXCEPT !.nak = FALSE, !.tran = @ \/ reads,
                                                 !.stxr = IF reads THEN icS.buf[IcAddressed % icSize] ELSE @]
IcSlaveAckPeriod ==
  LET second == icCtl.ten /\ icS.ten
      nak == second /\ icBus.byte # SLAVE_7
  IN /\ IcHandles("slave ack period") /\ IcAnswers(nak) /\ UNCHANGED icFlag
     /\ icCtl' = [IcCleared("slave ack period") EXCEPT !.nak = nak]
     /\ icS' = IF second THEN [icS EXCEPT !.ten = FALSE]
               ELSE IF icS.gen THEN [icS EXCEPT !.gen = FALSE]
               ELSE [icS EXCEPT !.buf = [k \in DOMAIN @ |-> IF k = icS.idx THEN icBus.byte ELSE @[k]], !.idx = @ + 1]
(* The byte after the last one is fetched, but not sent.                   *)
IcSlaveRecvAck ==
  /\ IcHandles("slave recv ack") /\ UNCHANGED icFlag
  /\ icCtl' = [IcCleared("slave recv ack") EXCEPT !.stxr = IcStored, !.tran = @ /\ ~icBus.nak]
  /\ icS' = [icS EXCEPT !.idx = IF icBus.nak THEN 0 ELSE @ + 1]
  /\ icBus' = [icBus EXCEPT !.phase = IF icBus.nak THEN "stopping" ELSE "in"]
IcMasterFlag(flag) ==
  IcHandles(flag) /\ icFlag' = icFlag \cup {flag} /\ icCtl' = IcCleared(flag) /\ UNCHANGED <<icBus, icS>>
socle_i2c_isr == IcBroadcast \/ IcSlaveAddr \/ IcSlaveAckPeriod \/ IcSlaveRecvAck \/ IcMasterFlag("ack period") \/ IcMasterFlag("recv ack")
-----------------------------------------------------------------------------
(* The bus and those on it.                                                *)
IcWire(phase) == icBus' = [icBus EXCEPT !.phase = phase] /\ UNCHANGED <<icM, icFlag, icS>>
IcRaise(cause) == icCtl' = [icCtl EXCEPT !.isr = @ \cup {cause}]
IcListens ==
  IF ~icBus.start THEN icBus.who
  ELSE CASE icBus.byte \in (IF icCtl.ten THEN {246, 247} ELSE {140, 141}) -> "slave"
         [] icBus.byte = GENERAL -> "all"
         [] icBus.byte \in {160, 161} /\ ~icChipS.busy -> "chip"
         [] OTHER -> "none"
IcNobody == icBus' = [icBus EXCEPT !.phase = "ninth", !.nak = TRUE, !.who = "none"] /\ UNCHANGED <<icM, icFlag, icS, icCtl, icChipS>>
(* A byte is not seen, by the chip only when it is the address.            *)
IcUnseen ==
  /\ icBus.phase = "out" /\ icLeft.naks > 0 /\ (IcListens = "chip" => icBus.start)
  /\ icLeft' = [icLeft EXCEPT !.naks = @ - 1] /\ IcNobody
IcSeen ==
  /\ icBus.phase = "out" /\ UNCHANGED icLeft
  /\ CASE IcListens \in {"slave", "all"} /\ (icBus.start \/ ~icCtl.tran) ->
            /\ icBus' = [icBus EXCEPT !.phase = "stretched", !.who = IcListens] /\ UNCHANGED <<icM, icFlag, icS, icChipS>>
            /\ IcRaise(CASE ~icBus.start -> "slave ack period" [] IcListens = "all" -> "broadcast" [] OTHER -> "slave addr")
       [] IcListens = "chip" ->
            /\ icBus' = [icBus EXCEPT !.phase = "ninth", !.nak = FALSE, !.who = "chip"] /\ UNCHANGED <<icM, icFlag, icS, icCtl>>
            /\ icChipS' = CASE icBus.start -> [icChipS EXCEPT !.addr = TRUE]
                            [] icChipS.addr -> [icChipS EXCEPT !.addr = FALSE, !.at = icBus.byte]
                            [] OTHER -> [icChipS EXCEPT !.mem[icChipS.at] = icBus.byte, !.wrote = TRUE,
                                 !.at = IF (@ + 1) % icPage = 0 THEN @ + 1 - icPage ELSE @ + 1]
       [] OTHER -> IcNobody
IcNinth == icBus.phase = "ninth" /\ IcWire("held") /\ IcRaise("recv ack") /\ UNCHANGED <<icChipS, icLeft>>
IcByteIn ==
  /\ icBus.phase = "in" /\ UNCHANGED <<icM, icFlag, icS, icLeft>> /\ IcRaise("ack period")
  /\ icBus' = [icBus EXCEPT !.phase = "acking", !.byte = IF icBus.who = "chip" THEN icChipS.mem[icChipS.at] ELSE icCtl.stxr]
  /\ icChipS' = IF icBus.who = "chip" THEN [icChipS EXCEPT !.at = (@ + 1) % icChip] ELSE icChipS
IcAckOut ==
  /\ icBus.phase \in {"acked", "nacked"} /\ UNCHANGED <<icM, icFlag, icS, icChipS, icLeft>>
  /\ IF icBus.who = "chip"
     THEN icBus' = [icBus EXCEPT !.phase = IF @ = "acked" THEN "in" ELSE "stopping"] /\ UNCHANGED icCtl
     ELSE icBus' = [icBus EXCEPT !.phase = "stretched", !.nak = icCtl.nak] /\ IcRaise("slave recv ack")
IcStopped ==
  /\ icBus.phase = "stopping" /\ icBus' = [icBus EXCEPT !.phase = "idle", !.who = "none"]
  /\ icChipS' = [icChipS EXCEPT !.busy = @ \/ icChipS.wrote, !.wrote = FALSE] /\ UNCHANGED <<icM, icFlag, icS, icCtl, icLeft>>

IcStep == \/ \E test \in DOMAIN IcProgram : IcKey(test)
          \/ socle_i2c_do_transfer \/ i2c_transfer \/ IcBegins \/ socle_i2c_master_check_ack \/ socle_i2c_master_read_byte
          \/ IcDone \/ socle_i2c_compare_memory \/ IcBackInMenu \/ socle_i2c_isr
          \/ IcUnseen \/ IcSeen \/ IcNinth \/ IcByteIn \/ IcAckOut \/ IcStopped
IcSpec == IcStart("idle") /\ [][IcStep]_i2cVars
-----------------------------------------------------------------------------
(* Every test passes as long as no more than three bytes go unanswered: an *)
(* attempt refused in the middle leaves neither end with a state the next  *)
(* attempt, or the next test, would stumble over.  (Of the five attempts   *)
(* one may find the bus still busy with the last stop.)  And the caller's  *)
(* loops without a time-out wait for something that is on its way.         *)
I2cRight ==
  /\ (icM.pc = "end" => icM.err = 0)
  /\ (icM.pc = "check ack" => icFlag \cup icCtl.isr # {} \/ icBus.phase \in {"out", "ninth"})
  /\ (icM.pc = "read byte" => icFlag \cup icCtl.isr # {} \/ icBus.phase \in {"in", "acked"})
=============================================================================
