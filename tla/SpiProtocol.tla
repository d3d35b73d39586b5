---------------------------- MODULE SpiProtocol ----------------------------
(***************************************************************************)
(* Two boards on an SPI bus: the master's tests of a Socle slave           *)
(* (src/SPI/socle-spi-slave-test.c) and the slave's program and interrupt  *)
(* handler (spi-slave-ctrl.c).  The master reads and writes the registers  *)
(* and the FIFOs of the slave's controller directly, and the two programs  *)
(* agree on whose turn it is by what the slave leaves in TX_REG0.          *)
(*                                                                         *)
(* A byte on the bus is a step.  Clock modes and character lengths do not  *)
(* matter.  spSize is PATTERN_BUF_SIZE; spTests and spServes bound the     *)
(* tests of the master and the runs of the slave, and one thing may go     *)
(* wrong in a session.  Keys are pressed when the slave has come to rest.  *)
(***************************************************************************)
EXTENDS Integers, Sequences, TLC

CONSTANTS spSize, spTests, spServes
ASSUME SpAssumption == spSize % 8 = 0 /\ spSize \in 8 .. 255 /\ {spTests, spServes} \subseteq Nat

VARIABLES
  spM,      \* the master: test and its step, bytes done, what is on the
            \* bus, how many are still to be read, the bytes read, verdict
  spS,      \* the slave: program, state, command, address, size, count
  spFlags,  \* socle_spi_rx_complete, tx_complete and tx_finish
  spHw,     \* its controller: FIFOs, IER, TX registers, a written RX register, DMA
  spStore,  \* storage
  spLuck    \* has something gone wrong in the test; mishaps, tests, runs to come

spVars == <<spM, spS, spFlags, spHw, spStore, spLuck>>

SpFifo == 8
SpPattern(n) == [k \in 1 .. n |-> k - 1]
STA_BUSY == 0
STA_READY == 1
STA_RESET_EN == 2
REG_CMD_RESET == 12
REG_CMD_RESET_EN == 14
CMD_READ == 1
CMD_WRITE == 2
CMD_DMARD == 3
CMD_DMAWR == 4
CMD_EXIT == 15
STA_CMD == 0
STA_GET_ADDR_HI == 16
STA_GET_ADDR_LOW == 17
STA_GET_SIZE_HI == 18
STA_GET_SIZE_LOW == 19
SpDataPhase == CMD_READ .. CMD_DMAWR
NoDma == [dir |-> "none", at |-> 0, left |-> 0]
SpStart(pc) ==
  /\ spM = [pc |-> pc, test |-> "none", step |-> 1, i |-> 0, wire |-> <<>>, want |-> 0, mem |-> <<>>, err |-> 0, fit |-> FALSE]
  /\ spS = [pc |-> "off", mode |-> "none", state |-> STA_CMD, command |-> 0, addr |-> 0, size |-> 0, count |-> 0, start |-> FALSE]
  /\ spFlags = {} /\ spStore = [a \in 0 .. spSize - 1 |-> 0]
  /\ spHw = [rx |-> <<>>, tx |-> <<>>, ier |-> {}, reg |-> [k \in 0 .. 3 |-> 0], in |-> <<>>, dma |-> NoDma]
  /\ spLuck = [fault |-> FALSE, mishaps |-> 1, tests |-> spTests, serves |-> spServes]
-----------------------------------------------------------------------------
(* The slave.  Its waits, and what each waits for.                         *)
SpAwaits == [x \in {"rx wait", "dma rx", "pure rx", "pure dma rx"} |-> "rx"] @@
            [x \in {"dma tx", "pure tx", "pure dma tx"} |-> "tx"] @@ [x \in {"fin wait", "pure fin"} |-> "fin"]
SpGo(pc) == spS' = [spS EXCEPT !.pc = pc]
SpDma(dir, at, n) == [dir |-> dir, at |-> at, left |-> n]
SpIer(with, without) == [spHw EXCEPT !.ier = (@ \cup with) \ without]

(* Mutant of SpReset: a wait in progress is not ended.                     *)
SpResetHangs == spFlags \ {"rx"}
SpReset == {"rx", "tx", "fin"}
SpFresh(ier) == [spHw EXCEPT !.rx = <<>>, !.tx = <<>>, !.ier = ier, !.dma = NoDma, !.in = <<>>]
socle_spi_slave_protocol_reset == spFlags' = SpReset

SpServe(mode, pc, flags, hw) ==
  /\ spS.pc = "off" /\ spM.pc = "idle" /\ spLuck.serves > 0
  /\ spS' = [spS EXCEPT !.pc = pc, !.mode = mode, !.addr = 0, !.count = 0, !.start = TRUE]
  /\ spFlags' = flags /\ spHw' = hw /\ spStore' = [a \in DOMAIN spStore |-> 0]
  /\ spLuck' = [spLuck EXCEPT !.serves = @ - 1] /\ UNCHANGED spM
socle_spi_slave_protocol_run == SpServe("protocol", "loop", SpReset, [SpFresh({"rx"}) EXCEPT !.reg[0] = STA_READY])
socle_spi_slave_pure_normal_run == SpServe("pure", "pure rx", {}, SpFresh({"rx level"}))
socle_spi_slave_pure_hdma_run == SpServe("pure", "pure dma rx", {}, [SpFresh({}) EXCEPT !.dma = SpDma("rx", 0, 8)])
socle_spi_reg_rw_run == SpServe("reg", "loop", spFlags, [SpFresh({}) EXCEPT !.reg = [k \in 0 .. 3 |-> IF k = 0 THEN 17 ELSE 0]])

(* The main loop turns to the data phase the handler has entered.          *)
SpBegins ==
  /\ spS.pc = "loop" /\ spS.start /\ spS.state \in SpDataPhase
  /\ spFlags' = spFlags \ (IF spS.state \in {CMD_WRITE, CMD_DMAWR} THEN {"rx"} ELSE {"tx", "fin"})
  /\ LET begin(pc, count, hw) == spS' = [spS EXCEPT !.pc = pc, !.count = count] /\ spHw' = hw
     IN CASE spS.state = CMD_WRITE -> begin("rx wait", 0, SpIer({"rx"}, {}))
          [] spS.state = CMD_READ  -> begin("fill", 0, spHw)
          [] spS.state = CMD_DMAWR -> begin("dma rx", spS.count, [spHw EXCEPT !.dma = SpDma("rx", spS.addr, spS.size)])
          [] OTHER                 -> begin("dma tx", spS.count, [spHw EXCEPT !.dma = SpDma("tx", spS.addr, spS.size)])
  /\ UNCHANGED <<spM, spStore, spLuck>>
SpStored(a) == IF a \in DOMAIN spStore THEN spStore[a] ELSE 0
(* socle_spi_slave_read: the loop has no time-out.                         *)
SpFills ==
  /\ spS.pc = "fill" /\ UNCHANGED <<spM, spStore, spLuck>>
  /\ IF Len(spHw.tx) < SpFifo
     THEN LET done == spS.count + 1 = spS.size IN
          /\ spHw' = [spHw EXCEPT !.tx = Append(@, SpStored(spS.addr + spS.count)), !.ier = IF done THEN @ \cup {"empty"} ELSE @]
          /\ spS' = [spS EXCEPT !.count = @ + 1, !.pc = IF done THEN "fin wait" ELSE @]
          /\ spFlags' = IF done THEN spFlags \cup {"tx"} ELSE spFlags
     ELSE "tx" \in spFlags /\ spHw' = SpIer({"empty"}, {}) /\ SpGo("fin wait") /\ UNCHANGED spFlags
SpAfterWait(pc) ==
  CASE pc \in {"rx wait", "fin wait"} -> SpGo("clear") /\ UNCHANGED spHw
    [] pc = "dma rx" -> SpGo("clear") /\ spHw' = [spHw EXCEPT !.dma = NoDma]
    [] pc = "dma tx" -> SpGo("fin wait") /\ spHw' = [SpIer({"empty"}, {}) EXCEPT !.dma = NoDma]
    [] pc = "pure rx" -> SpGo("pure tx") /\ spHw' = SpIer({"tx"}, {"rx level"})
    [] pc = "pure tx" -> SpGo("pure fin") /\ spHw' = SpIer({"empty"}, {})
    [] pc = "pure dma rx" -> SpGo("pure dma tx") /\ spHw' = [spHw EXCEPT !.dma = SpDma("tx", 0, 8)]
    [] pc = "pure dma tx" -> SpGo("pure fin") /\ spHw' = [SpIer({"empty"}, {}) EXCEPT !.dma = NoDma]
    [] OTHER -> SpGo("off") /\ UNCHANGED spHw
SpWaitEnds ==
  /\ spS.pc \in DOMAIN SpAwaits /\ SpAwaits[spS.pc] \in spFlags /\ SpAfterWait(spS.pc)
  /\ UNCHANGED <<spM, spFlags, spStore, spLuck>>
SpClears ==
  /\ spS.pc = "clear" /\ SpGo("ready") /\ spHw' = [spHw EXCEPT !.rx = <<>>, !.tx = <<>>]
  /\ UNCHANGED <<spM, spFlags, spStore, spLuck>>
SpReady ==
  /\ spS.pc = "ready" /\ spS' = [spS EXCEPT !.pc = "loop", !.state = STA_CMD]
  /\ spHw' = [SpIer({"rx"}, {}) EXCEPT !.reg[0] = STA_READY]
  /\ UNCHANGED <<spM, spFlags, spStore, spLuck>>
SpStops ==
  /\ spS.pc = "loop" /\ ~spS.start /\ SpGo("off")
  /\ spHw' = [SpFresh({}) EXCEPT !.reg[0] = IF spS.mode = "protocol" THEN STA_BUSY ELSE @]
  /\ UNCHANGED <<spM, spFlags, spStore, spLuck>>

(* The handler, by the cause it meets first.                               *)
SpByte == Head(spHw.rx)
SpTaken(hw) == [hw EXCEPT !.rx = Tail(@)]
socle_spi_slave_run_state ==
  /\ UNCHANGED <<spFlags, spStore>>
  /\ CASE spS.state = STA_CMD ->
            /\ spHw' = IF SpByte \in SpDataPhase THEN [SpTaken(spHw) EXCEPT !.reg[0] = STA_BUSY] ELSE SpTaken(spHw)
            /\ spS' = [spS EXCEPT !.command = SpByte, !.start = @ /\ SpByte # CMD_EXIT,
                                  !.state = IF SpByte \in SpDataPhase THEN STA_GET_ADDR_HI ELSE @]
       [] spS.state = STA_GET_ADDR_HI ->
            spS' = [spS EXCEPT !.addr = 256 * SpByte, !.state = STA_GET_ADDR_LOW] /\ spHw' = SpTaken(spHw)
       [] spS.state = STA_GET_ADDR_LOW ->
            spS' = [spS EXCEPT !.addr = @ + SpByte, !.state = STA_GET_SIZE_HI] /\ spHw' = SpTaken(spHw)
       [] spS.state = STA_GET_SIZE_HI ->
            spS' = [spS EXCEPT !.size = 256 * SpByte, !.state = STA_GET_SIZE_LOW] /\ spHw' = SpTaken(spHw)
       [] spS.state = STA_GET_SIZE_LOW ->
            /\ spS' = [spS EXCEPT !.size = @ + SpByte, !.state = spS.command]
            /\ spHw' = [SpTaken(spHw) EXCEPT !.ier = @ \ {"rx"}]
       [] OTHER -> UNCHANGED <<spS, spHw>>
(* Bytes go to storage until size of them have come, or beyond.            *)
SpDrains(size) ==
  LET n == IF spS.count < size /\ size - spS.count < Len(spHw.rx) THEN size - spS.count ELSE Len(spHw.rx)
      from == spS.addr + spS.count
  IN /\ spHw' = [spHw EXCEPT !.rx = SubSeq(@, n + 1, Len(@))]
     /\ spStore' = [a \in DOMAIN spStore |-> IF a \in from .. from + n - 1 THEN spHw.rx[a - from + 1] ELSE spStore[a]]
     /\ spS' = [spS EXCEPT !.count = @ + n]
     /\ spFlags' = IF spS.count + n = size THEN spFlags \cup {"rx"} ELSE spFlags
SpRegister ==
  LET value == spHw.in[2]
      seen == [spHw EXCEPT !.in = <<>>]
  IN /\ UNCHANGED spStore
     /\ IF value = REG_CMD_RESET /\ spHw.reg[0] = STA_RESET_EN
        THEN /\ socle_spi_slave_protocol_reset
             /\ spS' = [spS EXCEPT !.count = 0, !.state = IF @ \in SpDataPhase THEN @ ELSE STA_CMD]
             /\ spHw' = [SpFresh({"rx"}) EXCEPT !.reg[0] = IF spS.state \in SpDataPhase THEN @ ELSE STA_READY]
        ELSE /\ spHw' = IF value = REG_CMD_RESET_EN THEN [seen EXCEPT !.reg[0] = STA_RESET_EN] ELSE seen
             /\ UNCHANGED <<spS, spFlags>>
socle_spi_slave_reg_isr ==
  LET k == spHw.in[1]
      seen == [spHw EXCEPT !.in = <<>>]
      good == spHw.in[2] = 170 + 17 * k
  IN /\ spHw' = IF good /\ k < 3 THEN [seen EXCEPT !.reg[k + 1] = 17 * (k + 2)] ELSE seen
     /\ spS' = [spS EXCEPT !.start = @ /\ ~(good /\ k = 3)]
     /\ UNCHANGED <<spFlags, spStore>>
(* socle_spi_slave_pure_isr, for the transmit FIFO.                        *)
SpRefill ==
  /\ spHw' = [SpIer({}, {"tx"}) EXCEPT !.tx = [k \in 1 .. 8 |-> SpStored(k - 1)]]
  /\ spFlags' = spFlags \cup {"tx"} /\ UNCHANGED <<spS, spStore>>
SpEmptied == spHw' = SpIer({}, {"empty"}) /\ spFlags' = spFlags \cup {"fin"} /\ UNCHANGED <<spS, spStore>>
SpCause ==
  CASE "rx" \in spHw.ier /\ spHw.rx # <<>> -> "rx"
    [] "rx level" \in spHw.ier /\ Len(spHw.rx) >= 2 -> "rx level"
    [] "tx" \in spHw.ier /\ spHw.tx = <<>> -> "tx"
    [] "empty" \in spHw.ier /\ spHw.tx = <<>> -> "empty"
    [] spHw.in # <<>> -> "register"
    [] OTHER -> "none"
SpIsr ==
  /\ spS.pc # "off" /\ SpCause # "none" /\ UNCHANGED <<spM, spLuck>>
  /\ CASE SpCause = "rx" -> IF spS.state # CMD_WRITE THEN socle_spi_slave_run_state ELSE SpDrains(spS.size)
       [] SpCause = "rx level" -> SpDrains(8)
       [] SpCause = "tx" -> SpRefill
       [] SpCause = "empty" -> SpEmptied
       [] OTHER -> IF spS.mode = "reg" THEN socle_spi_slave_reg_isr ELSE SpRegister
(* The DMA moves slices of four, and interrupts at the end of the page.    *)
SpSlice ==
  /\ UNCHANGED <<spM, spS, spLuck>>
  /\ LET d == spHw.dma
         moved == [spHw EXCEPT !.dma = IF d.left > 4 THEN SpDma(d.dir, d.at + 4, d.left - 4) ELSE NoDma]
     IN \/ /\ d.dir = "rx" /\ Len(spHw.rx) >= 4
           /\ spHw' = [moved EXCEPT !.rx = SubSeq(@, 5, Len(@))]
           /\ spStore' = [a \in DOMAIN spStore |-> IF a \in d.at .. d.at + 3 THEN spHw.rx[a - d.at + 1] ELSE spStore[a]]
           /\ spFlags' = IF d.left > 4 THEN spFlags ELSE spFlags \cup {"rx"}
        \/ /\ d.dir = "tx" /\ Len(spHw.tx) <= SpFifo - 4
           /\ spHw' = [moved EXCEPT !.tx = @ \o [k \in 1 .. 4 |-> SpStored(d.at + k - 1)]]
           /\ spFlags' = IF d.left > 4 THEN spFlags ELSE spFlags \cup {"tx"}
           /\ UNCHANGED spStore
SpSlave == SpBegins \/ SpFills \/ SpWaitEnds \/ SpClears \/ SpReady \/ SpStops \/ SpIsr \/ SpSlice
(* Nothing more will happen there unless a wait runs out.                  *)
SpQuiet ==
  /\ SpCause = "none" \/ spS.pc = "off"
  /\ CASE spS.pc = "loop" -> spS.start /\ spS.state \notin SpDataPhase
       [] spS.pc = "fill" -> Len(spHw.tx) = SpFifo /\ "tx" \notin spFlags
       [] spS.pc \in DOMAIN SpAwaits -> SpAwaits[spS.pc] \notin spFlags
       [] OTHER -> spS.pc = "off"
  /\ (spHw.dma.dir = "rx" => Len(spHw.rx) < 4) /\ (spHw.dma.dir = "tx" => Len(spHw.tx) > SpFifo - 4)
-----------------------------------------------------------------------------
(* The master.                                                             *)
SpWait(k, value) == <<"wait", k, value>>
SpWrite(k, value) == <<"write", k, value>>
SpSend(bytes) == <<"send", bytes>>
SpHeader(command) == SpSend(<<command, 0, 0, 0, spSize>>)
socle_spi_slave_run(normal) ==
  <<SpWait(0, STA_READY), SpHeader(IF normal THEN CMD_WRITE ELSE CMD_DMAWR), <<"data out">>,
    SpWait(0, STA_READY), SpHeader(IF normal THEN CMD_READ ELSE CMD_DMARD), <<"data in">>,
    SpWait(0, STA_READY), SpSend(<<CMD_EXIT>>), <<"compare", spSize>>>>
SpResetTest == <<SpWrite(0, REG_CMD_RESET_EN), SpWait(0, STA_RESET_EN), SpWrite(0, REG_CMD_RESET), SpWait(0, STA_READY)>>
socle_spi_slave_pure_run == <<SpSend(SpPattern(8)), <<"full">>, <<"read">>, <<"compare", 8>>>>
socle_spi_slave_reg_run == [s \in 1 .. 8 |-> LET k == (s - 1) \div 2 IN
  IF s % 2 = 1 THEN SpWait(k, 17 * (k + 1)) ELSE SpWrite(k, 170 + 17 * k)]
SpTest == {"normal", "hdma", "reset", "pure", "reg"}
SpProgram == [test \in SpTest |->
  CASE test \in {"normal", "hdma"} -> socle_spi_slave_run(test = "normal")
    [] test = "reset" -> SpResetTest
    [] test = "pure" -> socle_spi_slave_pure_run
    [] OTHER -> socle_spi_slave_reg_run]
SpOp == SpProgram[spM.test][spM.step]
SpAt(op) == spM.pc = "run" /\ spM.step <= Len(SpProgram[spM.test]) /\ SpOp[1] = op
SpNext == [spM EXCEPT !.step = @ + 1, !.i = 0]
SpFail == [spM EXCEPT !.pc = "end", !.err = -1, !.wire = <<>>, !.want = 0]
SpMaster(m) == spM' = m /\ UNCHANGED <<spS, spFlags, spHw, spStore, spLuck>>

(* A slave that keeps its promises: ready, or in whatever state it is.     *)
SpFit(test) ==
  CASE test \in {"normal", "hdma"} -> spS.mode = "protocol" /\ spS.pc # "off" /\ spHw.reg[0] = STA_READY
    [] test = "reset" -> spS.mode = "protocol" /\ spS.pc # "off"
    [] test = "pure" -> spS.pc \in {"pure rx", "pure dma rx"} /\ spHw.rx = <<>> /\ spS.count = 0 /\ spHw.dma.left \in {0, 8}
    [] OTHER -> spS.mode = "reg" /\ spS.pc # "off"
SpKey(test) ==
  /\ spM.pc = "idle" /\ spLuck.tests > 0 /\ SpQuiet /\ (test \in {"pure", "reg"} => SpFit(test))
  /\ spM' = [spM EXCEPT !.pc = "run", !.test = test, !.step = 1, !.i = 0, !.mem = <<>>, !.err = 0, !.fit = SpFit(test)]
  /\ spLuck' = [spLuck EXCEPT !.fault = FALSE, !.tests = @ - 1] /\ UNCHANGED <<spS, spFlags, spHw, spStore>>
(* Registers are read until they have the value, or retry_cnt is 2000,     *)
(* which is longer than the slave needs for whatever it is still at.       *)
SpPolled == IF SpOp[1] = "full" THEN Len(spHw.tx) = SpFifo ELSE spHw.reg[SpOp[2]] = SpOp[3]
SpPolls ==
  /\ SpAt("wait") \/ SpAt("full")
  /\ \/ SpPolled /\ SpMaster(SpNext)
     \/ ~SpPolled /\ SpQuiet /\ SpMaster(SpFail)
SpWrites ==
  /\ SpAt("write") /\ spM' = SpNext /\ spHw' = [spHw EXCEPT !.in = <<SpOp[2], SpOp[3]>>]
  /\ UNCHANGED <<spS, spFlags, spStore, spLuck>>
SpOnBus == spM.wire # <<>> \/ spM.want > 0
(* In pure mode the handler, which waits for two, has to keep up.          *)
SpByteOut ==
  /\ spM.wire # <<>> /\ (spS.mode = "pure" => SpCause = "none")
  /\ spM' = [spM EXCEPT !.wire = Tail(@)]
  /\ spHw' = IF Len(spHw.rx) < SpFifo /\ spS.pc # "off" THEN [spHw EXCEPT !.rx = Append(@, Head(spM.wire))] ELSE spHw
  /\ UNCHANGED <<spS, spFlags, spStore, spLuck>>
SpByteIn ==
  /\ spM.want > 0
  /\ spM' = [spM EXCEPT !.want = @ - 1, !.mem = Append(@, IF spHw.tx = <<>> THEN 0 ELSE Head(spHw.tx))]
  /\ spHw' = IF spHw.tx = <<>> THEN spHw ELSE [spHw EXCEPT !.tx = Tail(@)]
  /\ UNCHANGED <<spS, spFlags, spStore, spLuck>>
SpSends ==
  /\ SpAt("send") /\ ~SpOnBus /\ SpMaster(IF spM.i = 0 THEN [spM EXCEPT !.wire = SpOp[2], !.i = 1] ELSE SpNext)
(* A whole FIFO or half of one; the last whole one may go beyond the end.  *)
SpChunk(n) == [k \in 1 .. n |-> IF spM.i + k <= spSize THEN spM.i + k - 1 ELSE 0]
socle_spi_slave_write_data ==
  /\ SpAt("data out") /\ ~SpOnBus
  /\ LET send(n) == SpMaster([spM EXCEPT !.wire = SpChunk(n), !.i = @ + n])
     IN \/ spM.i >= spSize /\ SpMaster(SpNext)
        \/ spM.i < spSize /\ spHw.rx = <<>> /\ send(SpFifo)
        \/ spM.i < spSize /\ Len(spHw.rx) \in 1 .. SpFifo \div 2 - 1 /\ send(SpFifo \div 2)
socle_spi_slave_read_data ==
  /\ SpAt("data in") /\ ~SpOnBus
  /\ LET read(n) == SpMaster([spM EXCEPT !.want = n, !.i = @ + n])
     IN \/ spM.i >= spSize /\ SpMaster(SpNext)
        \/ spM.i < spSize /\ Len(spHw.tx) = SpFifo /\ read(SpFifo)
        \/ spM.i < spSize /\ Len(spHw.tx) \in SpFifo \div 2 .. SpFifo - 1 /\ read(SpFifo \div 2)
SpReads == SpAt("read") /\ ~SpOnBus /\ SpMaster(IF spM.i = 0 THEN [spM EXCEPT !.want = 8, !.i = 1] ELSE SpNext)
socle_spi_compare_memory ==
  /\ SpAt("compare") /\ SpMaster([SpNext EXCEPT !.err = IF spM.mem = SpPattern(SpOp[2]) THEN 0 ELSE -1])
SpEnds == spM.pc = "run" /\ spM.step > Len(SpProgram[spM.test]) /\ SpMaster([spM EXCEPT !.pc = "end"])
SpBackInMenu == spM.pc = "end" /\ SpMaster([spM EXCEPT !.pc = "idle", !.mem = <<>>])

(* A transfer of the master times out with part of it done; the failure of *)
(* the exit command is only printed.  A wait of the slave runs out.        *)
SpMishap == spLuck.mishaps > 0 /\ spLuck' = [spLuck EXCEPT !.fault = TRUE, !.mishaps = @ - 1]
SpTransferFails ==
  /\ SpOnBus /\ SpMishap /\ UNCHANGED <<spS, spFlags, spHw, spStore>>
  /\ spM' = IF SpOp = SpSend(<<CMD_EXIT>>) THEN [spM EXCEPT !.wire = <<>>] ELSE SpFail
SpRunsOut ==
  /\ spS.pc \in DOMAIN SpAwaits /\ SpAwaits[spS.pc] \notin spFlags
  /\ IF spM.pc = "run" THEN SpMishap ELSE SpQuiet /\ UNCHANGED spLuck
  /\ IF spS.pc = "pure dma rx" THEN SpGo("off") /\ UNCHANGED spHw ELSE SpAfterWait(spS.pc)
  /\ UNCHANGED <<spM, spFlags, spStore>>

SpStep == \/ socle_spi_slave_protocol_run \/ socle_spi_slave_pure_normal_run \/ socle_spi_slave_pure_hdma_run \/ socle_spi_reg_rw_run
          \/ SpSlave \/ SpPolls \/ SpWrites \/ SpByteOut \/ SpByteIn \/ SpSends \/ SpReads
          \/ socle_spi_slave_write_data \/ socle_spi_slave_read_data
          \/ socle_spi_compare_memory \/ SpEnds \/ SpBackInMenu \/ SpTransferFails \/ SpRunsOut
          \/ \E test \in SpTest : SpKey(test)
SpSpec == SpStart("idle") /\ [][SpStep]_spVars
-----------------------------------------------------------------------------
(* A test begun when the slave says it is ready passes when nothing goes   *)
(* wrong, and a reset brings the slave back from wherever an earlier test  *)
(* has left it; what the master has compared is what the slave has stored. *)
SpRight == spM.pc = "end" =>
  /\ (spM.fit /\ ~spLuck.fault => spM.err = 0)
  /\ (spM.err = 0 /\ spM.test \in {"normal", "hdma"} => \A a \in DOMAIN spStore : spStore[a] = a)
=============================================================================
