------------------------------ MODULE SdmmcTest ------------------------------
(***************************************************************************)
(* The SD/MMC test of src/SDMMC/sdmmc-ctrl.c: the host, its interrupt      *)
(* handler, the card and what the test programs do with them.  A case is a *)
(* program of commands, transfers, movements between the two buffers of    *)
(* the host and memory, and comparisons; it returns at the first failure.  *)
(*                                                                         *)
(* The flags of card_int are set by the handler and cleared by the main    *)
(* program with a load and a store, between which the handler may run.     *)
(* That the handler itself loses a bit of SD_INT in the same way counts as *)
(* a transfer gone wrong; its card-detect bit, as the card changing.       *)
(*                                                                         *)
(* A block holds the pattern of the even or of the odd blocks, or none.    *)
(* The widths of the buffer and the kinds of DMA channel do not matter.    *)
(* sdBlocks is TEST_SECT_NUM, sdPartial the largest of the small block     *)
(* sizes, sdSlow how often a card says it is not ready yet, and sdCases    *)
(* the cases of a session, in which one thing may go wrong.  No case is    *)
(* begun on a card that an earlier one has left in the middle of something *)
(* or with flags that are set: nothing can be said about it.               *)
(***************************************************************************)
EXTENDS Integers, Sequences, FiniteSets, SequencesExt

CONSTANTS sdBlocks, sdPartial, sdSlow, sdCases
ASSUME SdAssumption == sdBlocks \in Nat \ {0, 1} /\ sdPartial \in 1 .. 256 /\ sdSlow \in Nat /\ sdCases \in Nat

VARIABLES
  sdPc,      \* off, idle, menu, run, wait, clear, check, leave
  sdCase,    \* the case, its bus width, does it initialise the card, its step
  sdDev,     \* socle_sdmmc_dev: alive_flag, media_changed, card_type, card_int
  sdHost,    \* the command under way and how the last one ended, the
             \* transfer, the buffers, their size, and whose each is; the DMA
  sdCard,    \* kind, state, blocks, address, bus width, block length
  sdRun,     \* err; was all well before the case; cases to come
  sdLuck     \* has something gone wrong in the case; mishaps to come

sdVars == <<sdPc, sdCase, sdDev, sdHost, sdCard, sdRun, sdLuck>>

SdBlock == 0 .. sdBlocks - 1
Pat(b) == IF b % 2 = 1 THEN "odd" ELSE "even"
Whole(what) == [what |-> what, at |-> 0, len |-> 512]
NoSdCase == [name |-> "none", width |-> 1, init |-> FALSE, step |-> 0, loaded |-> {}]
BlankCard(kind) == [kind |-> kind, state |-> "idle", block |-> [b \in SdBlock |-> "old"], at |-> 0,
                    many |-> FALSE, width |-> 1, len |-> 512, slow |-> sdSlow]
SdStart(pc) ==
  /\ sdPc = pc /\ sdCase = NoSdCase
  /\ sdDev = [alive |-> 0, media |-> 0, type |-> "sd", int |-> {}]
  /\ sdHost = [cmd |-> <<>>, ended |-> "ok", ready |-> FALSE, xfer |-> <<>>, xended |-> "ok", buf |-> [i \in {1, 2} |-> Whole("old")],
               cpu |-> 1, size |-> 512, dma |-> <<>>, dmaflag |-> 0, cmpr |-> "old"]
  /\ sdCard \in {BlankCard(kind) : kind \in IF pc = "off" THEN {"sd"} ELSE {"sd", "mmc"}}
  /\ sdRun = [err |-> 0, fit |-> TRUE, cases |-> sdCases] /\ sdLuck = [fault |-> FALSE, mishaps |-> 1]
-----------------------------------------------------------------------------
(* What the cases are made of.                                             *)
Cmd(c, arg) == <<"cmd", c, arg>>
Mmu == <<"mmu">>
Swap == <<"swap">>
Fill0 == <<"fill", 0>>
Xfer(dir, w) == <<"xfer", dir, w>>
End == <<"end">>
Busy == <<"busy">>
ForAll(steps) == FlattenSeq([b \in 1 .. sdBlocks |-> steps[b - 1]])
SetWidth(w) == <<Cmd("app", 0), Cmd("width", w)>>
WidthIfSd(type, w) == IF type = "sd" THEN SetWidth(w) ELSE <<>>

socle_sdmmc_single_block_transfer(type, w) ==
  LET Write(b) == <<<<"fill", b>>, Cmd("write", b), Swap, Xfer("write", w), End, Busy, Swap>>
      Read(b) == <<Xfer("read", w), Cmd("read", b), End, Swap, <<"compare", Whole(Pat(b))>>>>
  IN WidthIfSd(type, w) \o <<Mmu>> \o ForAll([b \in SdBlock |-> Write(b)]) \o <<Mmu>> \o ForAll([b \in SdBlock |-> Read(b)])
socle_sdmmc_multiple_block_transfer(type, w) ==
  LET last == sdBlocks - 1
      Write(b) == <<Swap, Xfer("write", w)>> \o (IF b = last THEN <<>> ELSE <<<<"fill", b + 1>>>>) \o <<End>>
      Read(b) == <<End, Swap, IF b = last THEN Cmd("stop", 0) ELSE Xfer("read", w), <<"compare", Whole(Pat(b))>>>>
  IN WidthIfSd(type, w) \o <<Mmu, Fill0, Cmd("writes", 0)>> \o ForAll([b \in SdBlock |-> Write(b)]) \o <<Cmd("stop", 0), Busy>>
     \o <<Mmu, Xfer("read", w), Cmd("reads", 0)>> \o ForAll([b \in SdBlock |-> Read(b)])
Dma(dir, b) == <<"dma", dir, b>>
DmaEnd == <<"dma end">>
socle_sdmmc_single_block_sw_dma_transfer(type, w) ==
  LET Write(b) == <<Dma("out", b), DmaEnd, Cmd("write", b), Swap, Xfer("write", w), End, Busy>>
      Read(b) == <<Xfer("read", w), Cmd("read", b), End, Swap, Dma("in", b), DmaEnd, <<"compare memory", Pat(b)>>>>
  IN WidthIfSd(type, w) \o <<Mmu>> \o ForAll([b \in SdBlock |-> Write(b)]) \o <<Mmu>> \o ForAll([b \in SdBlock |-> Read(b)])
socle_sdmmc_multiple_block_sw_dma_transfer(type, w) ==
  LET last == sdBlocks - 1
      Write(b) == <<DmaEnd, Swap, Xfer("write", w)>> \o (IF b = last THEN <<>> ELSE <<Dma("out", b + 1)>>) \o <<End>>
      Read(b) == <<End, Swap, Dma("in", b), IF b = last THEN Cmd("stop", 0) ELSE Xfer("read", w), DmaEnd,
                   <<"compare memory", Pat(b)>>>>
  IN WidthIfSd(type, w) \o <<Mmu, Dma("out", 0), Cmd("writes", 0)>> \o ForAll([b \in SdBlock |-> Write(b)]) \o <<Cmd("stop", 0), Busy>>
     \o <<Mmu, Xfer("read", w), Cmd("reads", 0)>> \o ForAll([b \in SdBlock |-> Read(b)])

(* Mutant of WriteBlock0: the bus is left as it was.                       *)
WriteBlock0Keeps(w) ==
  <<Cmd("length", 512), Mmu, Fill0, Cmd("write", 0), Swap, Xfer("write", w), End, Busy>>
(* Block 0 with the pattern, as the partial reads and the erase begin.     *)
WriteBlock0(w) ==
  SetWidth(w) \o <<Cmd("length", 512), Mmu, Fill0, Cmd("write", 0), Swap, Xfer("write", w), End, Busy>>
Piece(i, n) == <<"compare", [what |-> "even", at |-> i, len |-> n]>>
Restore == <<Cmd("length", 512), <<"size", 512>>>>
socle_sdmmc_sd_single_partial_read(w) ==
  LET Read(n) == <<<<"size", n>>, Cmd("length", n), Mmu, Xfer("read", w), Cmd("read", 0), End, Swap, Piece(0, n)>>
  IN WriteBlock0(w) \o FlattenSeq([n \in 1 .. sdPartial |-> Read(n)]) \o Restore
socle_sdmmc_sd_multiple_partial_read(w) ==
  LET Read(n) == <<Cmd("length", n), <<"size", n>>, Mmu, Xfer("read", w), Cmd("reads", 0), End, Swap, Xfer("read", w),
                   Piece(0, n), End, Cmd("stop", 0), Swap, Piece(1, n)>>
  IN WriteBlock0(w) \o FlattenSeq([n \in 1 .. sdPartial |-> Read(n)]) \o Restore
socle_sdmmc_sd_erase ==
  WriteBlock0(1) \o <<Cmd("erase from", 0), Cmd("erase to", 1), Cmd("erase", 0), Busy, Mmu, Xfer("read", 1),
                      Cmd("read", 0), End, Swap, <<"compare", Whole("erased")>>>>

socle_sdmmc_card_initialize(only_ident) ==
  <<Cmd("app first", 0), Cmd("sd ready", 0), Cmd("mmc ready", 0), Cmd("all send cid", 0), Cmd("relative address", 0)>>
  \o IF only_ident THEN <<>> ELSE <<Cmd("select", 0), Cmd("length", 512), <<"size", 512>>, <<"unchanged">>>>
(* The miscellaneous commands begin and end in the idle state.             *)
Misc(only_ident, commands) ==
  <<<<"changed">>, Cmd("idle", 0)>> \o socle_sdmmc_card_initialize(only_ident) \o <<<<"sd only">>>> \o commands
GoIdle == <<<<"changed">>, Cmd("idle", 0)>>
MiscCase == {"csd", "cid", "status", "inactive", "scr"}
BlockCase == {"single", "multiple", "single dma", "multiple dma"}
PartialCase == {"partial", "partials"}
SdProgramOf(type, name, width) ==
  CASE name = "single" -> socle_sdmmc_single_block_transfer(type, width)
    [] name = "multiple" -> socle_sdmmc_multiple_block_transfer(type, width)
    [] name = "single dma" -> socle_sdmmc_single_block_sw_dma_transfer(type, width)
    [] name = "multiple dma" -> socle_sdmmc_multiple_block_sw_dma_transfer(type, width)
    [] name = "partial" -> socle_sdmmc_sd_single_partial_read(width)
    [] name = "partials" -> socle_sdmmc_sd_multiple_partial_read(width)
    [] name = "erase" -> socle_sdmmc_sd_erase
    [] name \in {"csd", "cid", "status"} -> Misc(TRUE, <<Cmd(name, 0)>>) \o GoIdle
    [] name = "scr" -> Misc(FALSE, <<Cmd("app", 0), Cmd("scr", 0)>>) \o GoIdle
    [] name = "inactive" -> Misc(TRUE, <<Cmd("inactive", 0), <<"changed">>>>)
    [] name = "exit" -> <<Cmd("idle", 0)>>
    [] OTHER -> <<>>
(* Of each type of card, whether it is initialised, case and width.        *)
SdCaseName == BlockCase \cup PartialCase \cup MiscCase \cup {"none", "enter", "exit", "erase"}
SdPrograms ==
  [type \in {"sd", "mmc"}, init \in BOOLEAN, name \in SdCaseName, width \in {1, 4} |->
     (IF init THEN socle_sdmmc_card_initialize(FALSE) ELSE <<>>) \o SdProgramOf(type, name, width)]
SdProgram == SdPrograms[sdDev.type, sdCase.init, sdCase.name, sdCase.width]
SdOp == SdProgram[sdCase.step]
SdAt(op) == sdPc = "run" /\ sdCase.step <= Len(SdProgram) /\ SdOp[1] = op
SdJump(k) == sdPc' = "run" /\ sdCase' = [sdCase EXCEPT !.step = @ + k, !.loaded = {}]
SdNext == SdJump(1) /\ UNCHANGED sdRun
SdReturn == sdPc' = "leave" /\ sdRun' = [sdRun EXCEPT !.err = -1] /\ UNCHANGED sdCase

Goes(pc) == sdPc' = pc /\ UNCHANGED <<sdCase, sdRun>>

(* send_cmd: the command goes out, and the program waits for the flag.     *)
socle_sdmmc_send_cmd ==
  /\ SdAt("cmd") /\ sdHost' = [sdHost EXCEPT !.cmd = <<SdOp[2], SdOp[3]>>, !.ended = "ok"]
  /\ Goes("wait") /\ UNCHANGED <<sdDev, sdCard, sdLuck>>
socle_sdmmc_data_transfer_end == SdAt("end") /\ Goes("wait") /\ UNCHANGED <<sdDev, sdHost, sdCard, sdLuck>>
Awaited == IF SdOp[1] = "cmd" THEN "cmd" ELSE "data"
Arrived == Awaited \in sdDev.int

(* The flag is there: it is cleared, with a load and a store.  A flag that *)
(* the handler has set in between is lost.                                 *)
LoadFlags ==
  /\ sdPc = "wait" /\ Arrived
  /\ sdPc' = "clear" /\ sdCase' = [sdCase EXCEPT !.loaded = sdDev.int]
  /\ UNCHANGED <<sdDev, sdHost, sdCard, sdRun, sdLuck>>
StoreFlags ==
  /\ sdPc = "clear" /\ sdPc' = "check"
  /\ sdDev' = [sdDev EXCEPT !.int = sdCase.loaded \ {Awaited}] /\ sdCase' = [sdCase EXCEPT !.loaded = {}]
  /\ sdLuck' = [sdLuck EXCEPT !.fault = @ \/ sdDev.int # sdCase.loaded]
  /\ UNCHANGED <<sdHost, sdCard, sdRun>>

GoesOut == sdCase.name \in {"csd", "cid", "status", "scr"} /\ SdOp[1] = "cmd" /\ SdOp[2] \in {"csd", "cid", "status", "app", "scr"}
SdFailed(error) ==
  /\ UNCHANGED <<sdDev, sdHost, sdCard>>
  /\ CASE SdOp[1] = "cmd" /\ SdOp[2] = "app first" /\ error = "time" -> SdJump(2) /\ UNCHANGED sdRun
       [] GoesOut -> SdJump(Len(SdProgram) - 1 - sdCase.step) /\ sdRun' = [sdRun EXCEPT !.err = -1]
       [] OTHER -> SdReturn
(* The card is asked until it is ready.                                    *)
SdSucceeded ==
  LET command == IF SdOp[1] = "cmd" THEN SdOp[2] ELSE "none" IN
  /\ SdJump(CASE command = "sd ready" -> IF sdHost.ready THEN 2 ELSE -1
              [] command = "mmc ready" -> IF sdHost.ready THEN 1 ELSE 0
              [] OTHER -> 1)
  /\ sdDev' = IF command \in {"sd ready", "mmc ready"} /\ sdHost.ready
              THEN [sdDev EXCEPT !.type = IF command = "sd ready" THEN "sd" ELSE "mmc"] ELSE sdDev
  /\ UNCHANGED <<sdHost, sdCard, sdRun>>
SdChecked ==
  /\ sdPc = "check" /\ UNCHANGED sdLuck
  /\ LET ended == IF Awaited = "cmd" THEN sdHost.ended ELSE sdHost.xended
     IN IF ended = "ok" THEN SdSucceeded ELSE SdFailed(ended)

(* What the host has taken on and the card goes along with.                *)
TransferMoves == sdHost.xfer # <<>> /\ sdCard.state = (IF sdHost.xfer[1] = "read" THEN "data" ELSE "rcv")
Coming == IF Awaited = "cmd" THEN sdHost.cmd # <<>> ELSE TransferMoves
(* The wait runs out: something hung, or it is late.  The value returned,  *)
(* -1, has the bit of a time-out in it.                                    *)
WaitRunsOut ==
  /\ sdPc = "wait" /\ ~Arrived
  /\ \/ ~Coming /\ UNCHANGED sdLuck
     \/ Coming /\ sdLuck.mishaps > 0 /\ sdLuck' = [fault |-> TRUE, mishaps |-> sdLuck.mishaps - 1]
  /\ SdFailed("time")

(* The other steps.                                                        *)
Buffers(h, op) ==
  CASE op = "mmu" -> [h EXCEPT !.cpu = 1]
    [] op = "swap" -> [h EXCEPT !.cpu = 3 - @]
    [] op = "fill" -> [h EXCEPT !.buf[h.cpu] = Whole(Pat(SdOp[2]))]
    [] op = "size" -> [h EXCEPT !.size = SdOp[2]]
    [] op = "xfer" -> [h EXCEPT !.xfer = <<SdOp[2], SdOp[3]>>, !.xended = "ok"]
    [] OTHER -> [h EXCEPT !.dma = <<SdOp[2], SdOp[3]>>, !.dmaflag = 0]
SetUp ==
  /\ sdPc = "run" /\ sdCase.step <= Len(SdProgram) /\ SdOp[1] \in {"mmu", "swap", "fill", "size", "xfer", "dma"}
  /\ sdHost' = Buffers(sdHost, SdOp[1]) /\ SdNext /\ UNCHANGED <<sdDev, sdCard, sdLuck>>
socle_sdmmc_compare_pattern ==
  /\ SdAt("compare") /\ (IF sdHost.buf[sdHost.cpu] = SdOp[2] THEN SdNext ELSE SdReturn)
  /\ UNCHANGED <<sdDev, sdHost, sdCard, sdLuck>>
socle_sdmmc_compare_memory ==
  /\ SdAt("compare memory") /\ SdJump(1) /\ sdRun' = [sdRun EXCEPT !.err = IF sdHost.cmpr = SdOp[2] THEN @ ELSE -1]
  /\ UNCHANGED <<sdDev, sdHost, sdCard, sdLuck>>
(* It returns nothing: whoever goes on finds the card busy.                *)
socle_sdmmc_card_busy_end ==
  /\ SdAt("busy") /\ SdNext /\ UNCHANGED <<sdDev, sdHost, sdCard>>
  /\ \/ sdCard.state # "prg" /\ UNCHANGED sdLuck
     \/ sdCard.state = "prg" /\ sdLuck.mishaps > 0 /\ sdLuck' = [fault |-> TRUE, mishaps |-> sdLuck.mishaps - 1]
DmaWaitEnds ==
  /\ SdAt("dma end")
  /\ \/ sdHost.dmaflag = 1 /\ SdNext
     \/ sdHost.dmaflag = 0 /\ sdHost.dma = <<>> /\ SdReturn
  /\ UNCHANGED <<sdDev, sdHost, sdCard, sdLuck>>
Flags ==
  /\ \/ SdAt("changed") /\ SdNext /\ sdDev' = [sdDev EXCEPT !.media = 1]
     \/ SdAt("unchanged") /\ SdNext /\ sdDev' = [sdDev EXCEPT !.media = 0]
     \/ SdAt("sd only") /\ (IF sdDev.type = "sd" THEN SdNext ELSE SdReturn) /\ UNCHANGED sdDev
  /\ UNCHANGED <<sdHost, sdCard, sdLuck>>
-----------------------------------------------------------------------------
(* The card and the host.                                                  *)
Tran == {"length", "width", "write", "writes", "read", "reads", "erase from", "erase to", "erase", "scr"}
Accepts(c) ==
  CASE c \in {"app first", "sd ready"} -> sdCard.kind = "sd" /\ sdCard.state = "idle"
    [] c = "mmc ready" -> sdCard.kind = "mmc" /\ sdCard.state = "idle"
    [] c = "all send cid" -> sdCard.state = "ready"
    [] c = "relative address" -> sdCard.state = "ident"
    [] c \in {"select", "csd", "cid", "inactive"} -> sdCard.state = "stby"
    [] c = "stop" -> sdCard.state \in {"data", "rcv"}
    [] c \in {"app", "status"} -> sdCard.state \notin {"idle", "ready", "ident", "inactive", "gone"}
    [] c = "idle" -> sdCard.state \notin {"inactive", "gone"}
    [] OTHER -> c \in Tran /\ sdCard.state = "tran"
After(c, arg) ==
  CASE c \in {"sd ready", "mmc ready"} ->
         IF sdCard.slow > 0 THEN [sdCard EXCEPT !.slow = @ - 1] ELSE [sdCard EXCEPT !.state = "ready"]
    [] c = "all send cid" -> [sdCard EXCEPT !.state = "ident"]
    [] c = "relative address" -> [sdCard EXCEPT !.state = "stby"]
    [] c = "select" -> [sdCard EXCEPT !.state = "tran"]
    [] c = "length" -> [sdCard EXCEPT !.len = arg]
    [] c = "width" -> [sdCard EXCEPT !.width = arg]
    [] c \in {"write", "writes"} -> [sdCard EXCEPT !.state = "rcv", !.at = arg, !.many = c = "writes"]
    [] c \in {"read", "reads"} -> [sdCard EXCEPT !.state = "data", !.at = arg, !.many = c = "reads"]
    [] c = "scr" -> [sdCard EXCEPT !.state = "data", !.many = FALSE]
    [] c = "stop" -> [sdCard EXCEPT !.state = IF @ = "rcv" THEN "prg" ELSE "tran"]
    [] c = "erase" -> [sdCard EXCEPT !.state = "prg", !.block = [b \in SdBlock |-> IF b \in 0 .. 1 THEN "erased" ELSE @[b]]]
    [] c = "inactive" -> [sdCard EXCEPT !.state = "inactive"]
    [] c = "idle" -> [sdCard EXCEPT !.state = "idle", !.width = 1, !.len = 512, !.slow = sdSlow]
    [] OTHER -> sdCard
NoAnswerNeeded(c) == c \in {"idle", "inactive"}
Raised(bit) == sdDev' = [sdDev EXCEPT !.int = @ \cup {bit}]      \* socle_sdmmc_isr
HostCommandDone ==
  /\ sdHost.cmd # <<>>
  /\ LET c == sdHost.cmd[1]
         obeys == Accepts(c)
     IN /\ sdCard' = IF obeys THEN After(c, sdHost.cmd[2]) ELSE sdCard
        /\ sdHost' = [sdHost EXCEPT !.cmd = <<>>, !.ended = IF obeys \/ NoAnswerNeeded(c) THEN "ok" ELSE "time",
                                     !.ready = obeys /\ sdCard.slow = 0]
  /\ Raised("cmd") /\ UNCHANGED <<sdPc, sdCase, sdRun, sdLuck>>
(* A block moves; each address is that of a block or of a piece of one.    *)
Sent == IF sdCard.len = 512 THEN Whole(sdCard.block[sdCard.at])
        ELSE [what |-> sdCard.block[0], at |-> sdCard.at, len |-> sdCard.len]
InStep == sdHost.xfer[2] = sdCard.width /\ sdHost.size = sdCard.len
HostTransferDone ==
  /\ TransferMoves
  /\ LET other == 3 - sdHost.cpu
         read == sdHost.xfer[1] = "read"
         next == [sdCard EXCEPT !.state = IF sdCard.many THEN @ ELSE IF read THEN "tran" ELSE "prg",
                                !.at = IF sdCard.many THEN (@ + 1) % sdBlocks ELSE @]
     IN /\ sdHost' = [sdHost EXCEPT !.xfer = <<>>, !.xended = IF InStep THEN "ok" ELSE "error",
                                     !.buf[other] = IF read THEN IF InStep THEN Sent ELSE Whole("bad") ELSE @]
        /\ sdCard' = IF read \/ ~InStep THEN next ELSE [next EXCEPT !.block[sdCard.at] = sdHost.buf[other].what]
  /\ Raised("data") /\ UNCHANGED <<sdPc, sdCase, sdRun, sdLuck>>
CardIsDone ==
  /\ sdCard.state = "prg" /\ sdCard' = [sdCard EXCEPT !.state = "tran"]
  /\ UNCHANGED <<sdPc, sdCase, sdDev, sdHost, sdRun, sdLuck>>
socle_sdmmc_dma_complete ==
  /\ sdHost.dma # <<>>
  /\ sdHost' = IF sdHost.dma[1] = "out"
               THEN [sdHost EXCEPT !.dma = <<>>, !.dmaflag = 1, !.buf[sdHost.cpu] = Whole(Pat(sdHost.dma[2]))]
               ELSE [sdHost EXCEPT !.dma = <<>>, !.dmaflag = 1, !.cmpr = sdHost.buf[sdHost.cpu].what]
  /\ UNCHANGED <<sdPc, sdCase, sdDev, sdCard, sdRun, sdLuck>>

(* One thing may go wrong: a command, a transfer, the DMA, a cell of the   *)
(* card; or the card is taken out, and another put in.                     *)
Mishap == sdLuck.mishaps > 0 /\ sdLuck' = [fault |-> TRUE, mishaps |-> sdLuck.mishaps - 1] /\ UNCHANGED <<sdPc, sdCase, sdRun>>
CommandGoesWrong ==
  /\ Mishap /\ sdHost.cmd # <<>> /\ UNCHANGED sdCard
  /\ \/ sdHost' = [sdHost EXCEPT !.cmd = <<>>] /\ UNCHANGED sdDev
     \/ sdHost' = [sdHost EXCEPT !.cmd = <<>>, !.ended = "error"] /\ Raised("cmd")
TransferGoesWrong ==
  /\ Mishap /\ TransferMoves
  /\ \/ sdHost' = [sdHost EXCEPT !.xfer = <<>>] /\ UNCHANGED <<sdDev, sdCard>>
     \/ sdHost' = [sdHost EXCEPT !.xfer = <<>>, !.xended = "error"] /\ Raised("data") /\ UNCHANGED sdCard
     \/ sdCard' = [sdCard EXCEPT !.block[sdCard.at] = "bad"] /\ UNCHANGED <<sdDev, sdHost>>
DmaGoesWrong == Mishap /\ sdHost.dma # <<>> /\ sdHost' = [sdHost EXCEPT !.dma = <<>>] /\ UNCHANGED <<sdDev, sdCard>>
CardTakenOut ==
  /\ sdPc \notin {"off", "idle"} /\ Mishap /\ sdCard' = [sdCard EXCEPT !.state = "gone"]
  /\ sdDev' = [sdDev EXCEPT !.alive = 0, !.media = 0] /\ UNCHANGED sdHost
CardPutIn ==
  /\ sdPc \notin {"off", "idle"} /\ sdCard.state = "gone" /\ sdCard' = BlankCard(sdCard.kind)
  /\ sdDev' = [sdDev EXCEPT !.alive = 1, !.media = 1]
  /\ UNCHANGED <<sdPc, sdCase, sdHost, sdRun, sdLuck>>
-----------------------------------------------------------------------------
(* The menus.                                                              *)
Fit(c, dev) ==
  /\ dev.int = {} /\ sdHost.cmd = <<>> /\ sdHost.xfer = <<>>
  /\ IF c \in MiscCase THEN sdCard.state # "inactive"
     ELSE IF dev.media = 1 THEN sdCard.state = "idle"
     ELSE sdCard.state = "tran" /\ sdCard.len = 512 /\ sdHost.size = 512
SdBegins(name, width) ==
  /\ sdPc' = "run"
  /\ sdCase' = [name |-> name, width |-> width, init |-> name \notin MiscCase \cup {"exit"} /\ sdDev'.media = 1,
                step |-> 1, loaded |-> {}]
  /\ sdRun' = [err |-> 0, fit |-> Fit(name, sdDev'), cases |-> IF name \in {"enter", "exit"} THEN sdRun.cases ELSE sdRun.cases - 1]
  /\ sdLuck' = [sdLuck EXCEPT !.fault = FALSE]
  /\ UNCHANGED <<sdHost, sdCard>>
SDTesting ==
  /\ sdPc = "idle" /\ sdRun.cases > 0 /\ sdCard.state # "gone"
  /\ sdDev' = [alive |-> 1, media |-> 1, type |-> "sd", int |-> {}] /\ SdBegins("enter", 1)
SdCases == IF sdDev.type = "sd" THEN BlockCase \cup PartialCase \cup MiscCase \cup {"erase"} ELSE BlockCase
SdCaseBegins(name, width) ==
  /\ sdPc = "menu" /\ sdRun.cases > 0 /\ name \in SdCases /\ sdDev.alive = 1 /\ Fit(name, sdDev)
  /\ width \in {1, 4} /\ (sdDev.type = "mmc" \/ name \in MiscCase \cup {"erase"} => width = 1)
  /\ UNCHANGED sdDev /\ SdBegins(name, width)
SdExits == sdPc = "menu" /\ UNCHANGED sdDev /\ SdBegins("exit", 1)
SdProgramEnds ==
  /\ sdPc = "run" /\ sdCase.step > Len(SdProgram) /\ Goes("leave")
  /\ UNCHANGED <<sdDev, sdHost, sdCard, sdLuck>>
SdCaseEnds ==
  /\ sdPc = "leave" /\ sdCase' = NoSdCase /\ sdHost' = [sdHost EXCEPT !.dma = <<>>]
  /\ sdPc' = IF sdCase.name = "exit" \/ (sdCase.name = "enter" /\ sdRun.err # 0) THEN "idle" ELSE "menu"
  /\ UNCHANGED <<sdDev, sdCard, sdRun, sdLuck>>

SdStep ==
  \/ SDTesting \/ SdExits \/ SdProgramEnds \/ SdCaseEnds
  \/ \E name \in BlockCase \cup PartialCase \cup MiscCase \cup {"erase"}, width \in {1, 4} : SdCaseBegins(name, width)
  \/ socle_sdmmc_send_cmd \/ socle_sdmmc_data_transfer_end \/ LoadFlags \/ StoreFlags \/ SdChecked \/ WaitRunsOut
  \/ SetUp \/ socle_sdmmc_compare_pattern \/ socle_sdmmc_compare_memory \/ socle_sdmmc_card_busy_end \/ DmaWaitEnds \/ Flags
  \/ HostCommandDone \/ HostTransferDone \/ CardIsDone \/ socle_sdmmc_dma_complete
  \/ CommandGoesWrong \/ TransferGoesWrong \/ DmaGoesWrong \/ CardTakenOut \/ CardPutIn
SdSpec == SdStart("idle") /\ [][SdStep]_sdVars
-----------------------------------------------------------------------------
(* A case that finds the card and the flags in order passes when nothing   *)
(* goes wrong in it; and a transfer that passes has left its pattern in    *)
(* every block of the card, unless the card is another one by then.        *)
SdRight == sdPc = "leave" /\ sdRun.fit =>
  /\ (~sdLuck.fault => sdRun.err = 0)
  /\ (sdCase.name \in BlockCase /\ sdRun.err = 0 /\ sdDev.alive = 1 /\ sdDev.media = 0 =>
        \A b \in SdBlock : sdCard.block[b] = Pat(b))
=============================================================================
