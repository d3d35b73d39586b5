------------------------------ MODULE NandTest ------------------------------
(***************************************************************************)
(* The NAND flash test of src/NAND/nand-flsh-ctrl.c over a chip with large *)
(* pages.  Below its menus a test is a program of operations: each sets up *)
(* the controller, starts it and waits for its interrupt.                  *)
(*                                                                         *)
(* The test pattern of every page is the same, because it counts modulo    *)
(* 256 and a page is 2048 bytes (lines 1802-1808), so a page holds the     *)
(* pattern or nothing, with damaged parts of 512 bytes, and the parity     *)
(* length it was written with; the end of the parity, and the free bytes,  *)
(* are in its tail.  nfPages bounds the pages of a test of a whole block.  *)
(* nfCases bounds the cases of a session, which begins with an erased chip *)
(* and in which at most one operation goes wrong: one that hangs stays     *)
(* silent for good.                                                        *)
(***************************************************************************)
EXTENDS Integers, Sequences, FiniteSets, SequencesExt

CONSTANTS nfPages, nfCases
ASSUME NfAssumption == nfPages \in 1 .. 5 /\ nfCases \in Nat \ {0}

VARIABLES
  nfPc,      \* off, idle, menu, run, started, wait, leave
  nfMenu,    \* the menus entered, the innermost first
  nfCase,    \* the case, its step, and the symbols damaged by hand
  nfFlash,   \* pages
  nfChip,    \* chip enable, the controller's buffer, is it busy, its ECC code registers
  nfInt,     \* socle_nand_flsh_int_flag and _int_stat
  nfEcc,     \* npar; ecc_init_flag; npar of the generator polynomial
  nfRun      \* err_flag; did an operation go wrong; was the case left by a
             \* return; cases and mishaps to come

nfVars == <<nfPc, nfMenu, nfCase, nfFlash, nfChip, nfInt, nfEcc, nfRun>>

Part == 1 .. 4
NfPage == ({0} \X {0, 1, 2, 3, 8, 9}) \cup ({1} \X (0 .. 4)) \cup {<<4, 0>>}
Erased == [data |-> "erased", bad |-> {}, npar |-> 0, tail |-> FALSE, free |-> FALSE]
NoBuffer == [holds |-> "erased", bad |-> {}, npar |-> 0]
Pattern == [NoBuffer EXCEPT !.holds = "pattern"]
NoCase == [name |-> "none", step |-> 0, damaged |-> 0]
NewSession == [err |-> 0, fault |-> FALSE, returned |-> FALSE, cases |-> nfCases, mishaps |-> 1]
NfStart(pc) ==
  /\ nfPc = pc /\ nfMenu = <<>> /\ nfCase = NoCase
  /\ nfFlash = [q \in (IF pc = "off" THEN {} ELSE NfPage) |-> Erased]
  /\ nfChip = [sel |-> FALSE, buf |-> NoBuffer, busy |-> FALSE, code |-> 0]
  /\ nfInt = [flag |-> 0, stat |-> {}]
  /\ nfEcc = [npar |-> 12, init |-> FALSE, gen |-> 0]
  /\ nfRun = NewSession
-----------------------------------------------------------------------------
(* The operations a case is made of.                                       *)
Select == <<"select">>
Deselect == <<"deselect">>
Erase(b) == <<"erase", b>>
Fill == <<"fill", Pattern>>
FillFree == <<"fill", [Pattern EXCEPT !.holds = "free"]>>
Clear == <<"fill", NoBuffer>>
Program(q, area) == <<"program", q, area>>
Cached(q) == <<"cache", q, "ecc">>
ReadPage(q, area, then) == <<"read", q, area, then>>
Compare(holds, then) == <<"compare", holds, then>>
OverBlock(F(_), n) == FlattenSeq([i \in 1 .. n |-> F(i - 1)])

socle_nand_flsh_verify_pages(q, n) ==
  LET Verify(i) == <<Clear, ReadPage(<<q[1], q[2] + i>>, "ecc", "note"), Compare("pattern", "stop")>>
  IN <<Select>> \o OverBlock(Verify, n)

socle_nand_flsh_parity_switch ==
  <<Select, Erase(0)>> \o FlattenSeq([i \in 1 .. 4 |-> <<Fill, Program(<<0, <<0, 1, 8, 9>>[i]>>, "ecc")>>])
parity_switch_verify(p1, p2) ==
  socle_nand_flsh_verify_pages(<<0, p1>>, 1) \o <<Deselect>> \o socle_nand_flsh_verify_pages(<<0, p2>>, 1)
socle_nand_flsh_transfer_ecc ==
  LET Write(i) == <<Fill, Program(<<1, i>>, "ecc")>>
  IN <<Select, Erase(1)>> \o OverBlock(Write, nfPages) \o <<Deselect>> \o socle_nand_flsh_verify_pages(<<1, 0>>, nfPages)
socle_nand_flsh_transfer_ecc_cached ==
  LET Write(i) == <<Fill, IF i = nfPages - 1 THEN Program(<<1, i>>, "ecc") ELSE Cached(<<1, i>>)>>
  IN <<Select, Erase(1)>> \o OverBlock(Write, nfPages) \o <<Deselect>> \o socle_nand_flsh_verify_pages(<<1, 0>>, nfPages)
socle_nand_flsh_transfer_raw ==
  LET Write(i) == <<FillFree, Program(<<1, i>>, "free")>>
      Verify(i) == <<Clear, ReadPage(<<1, i>>, "free", "ignore"), Compare("free", "stop")>>
  IN <<Select, Erase(1)>> \o OverBlock(Write, nfPages) \o OverBlock(Verify, nfPages)
socle_nand_flsh_transfer_copyback ==
  <<Select, Erase(1), Erase(4), Fill, Program(<<1, 0>>, "ecc"), <<"copyread", <<1, 0>>, "copy">>,
    <<"copywrite", <<4, 0>>, "copy">>, ReadPage(<<4, 0>>, "ecc", "stop"), Compare("pattern", "stop")>>

(* Page 0 is copied to page k of the block, with part k damaged.           *)
CopyDamaged(k) ==
  <<ReadPage(<<1, 0>>, "raw", "stop"), <<"damage", k>>, Program(<<1, k>>, "raw"),
    ReadPage(<<1, 0>>, "tail", "stop"), Program(<<1, k>>, "tail")>>
InEachPart(rounds) == <<Select, Erase(1), Fill, Program(<<1, 0>>, "ecc")>> \o FlattenSeq(rounds)
socle_nand_flsh_check_syndrome_bit ==
  LET Round(k) == CopyDamaged(k) \o <<ReadPage(<<1, k>>, "ecc", "syndrome")>> IN InEachPart([k \in Part |-> Round(k)])
(* One reads the page and corrects from its four syndromes; the other      *)
(* reads every part again, the first part last, into the same buffer.      *)
ecc_correct_test_2 ==
  LET Round(k) == CopyDamaged(k) \o <<ReadPage(<<1, k>>, "ecc", "correct"), Compare("pattern", "note")>> IN InEachPart([k \in Part |-> Round(k)])
ecc_correct_test_1 ==
  LET Parts(k) == [i \in 1 .. 4 |-> <<"readpart", <<1, k>>, <<2, 3, 4, 1>>[i], "correct">>]
      Round(k) == CopyDamaged(k) \o <<ReadPage(<<1, k>>, "ecc", "ignore")>> \o Parts(k) \o <<Compare("pattern", "note")>>
  IN <<<<"init ecc">>>> \o InEachPart([k \in Part |-> Round(k)])

socle_nand_flsh_ecc ==
  <<<<"init ecc">>, Fill, <<"eccprogram", <<1, 0>>>>, <<"codes">>, <<"mark">>, <<"eccread", <<1, 0>>>>, <<"corrected">>>>
socle_nand_flsh_autoread(read_pos) ==
  <<Select, Erase(0), Fill, Program(<<0, read_pos>>, "ecc"), ReadPage(<<0, read_pos>>, "ecc", "note"), Compare("pattern", "stop"), Clear>>
socle_nand_flsh_autoread_erase == <<Select, Erase(0)>>
socle_nand_flsh_autoread_compare == <<Compare("pattern", "stop")>>

socle_nand_flsh_sw_dma_transfer ==
  LET Write(i) == <<<<"dma", "in">>, Program(<<1, i>>, "ecc")>>
      Verify(i) == <<Clear, ReadPage(<<1, i>>, "ecc", "note"), <<"dma", "out">>, Compare("pattern", "stop")>>
  IN <<Select, Erase(1)>> \o OverBlock(Write, nfPages) \o <<Deselect, Select>> \o OverBlock(Verify, nfPages)

(* The menus: what they offer, and the menus below them.                   *)
Items ==
  [main |-> {"parity8", "parity15", "switch"},
   parity |-> {"transfer", "ecc", "autoread", "burst", "syndrome", "correct1", "correct2"},
   transfer |-> {"transfer_ecc", "transfer_cached", "transfer_raw", "copyback"},
   ecc |-> {"ecc0", "ecc1", "ecc2", "ecc3", "ecc4", "ecc5", "ecc6", "ecc7"},
   autoread |-> {"auto0", "auto1", "auto2", "auto3", "autoerase", "autocompare"},
   burst |-> {"sw_dma"},
   switch |-> {"8to8", "8to15", "15to8", "15to15"}]
Menus == {"parity8", "parity15", "transfer", "ecc", "autoread", "burst"}
EccErrors(c) == CHOOSE n \in 0 .. 7 : c = <<"ecc0", "ecc1", "ecc2", "ecc3", "ecc4", "ecc5", "ecc6", "ecc7">>[n + 1]
EccCase(c) == c \in Items.ecc
ProgramOf(c) ==
  CASE c = "switch" -> socle_nand_flsh_parity_switch
    [] c = "8to8" -> parity_switch_verify(0, 1) [] c = "8to15" -> parity_switch_verify(0, 8)
    [] c = "15to8" -> parity_switch_verify(8, 0) [] c = "15to15" -> parity_switch_verify(8, 9)
    [] c = "transfer_ecc" -> socle_nand_flsh_transfer_ecc [] c = "transfer_cached" -> socle_nand_flsh_transfer_ecc_cached
    [] c = "transfer_raw" -> socle_nand_flsh_transfer_raw [] c = "copyback" -> socle_nand_flsh_transfer_copyback
    [] c = "syndrome" -> socle_nand_flsh_check_syndrome_bit
    [] c = "correct1" -> ecc_correct_test_1 [] c = "correct2" -> <<<<"init ecc">>>> \o ecc_correct_test_2
    [] EccCase(c) -> socle_nand_flsh_ecc
    [] c = "auto0" -> socle_nand_flsh_autoread(0) [] c = "auto1" -> socle_nand_flsh_autoread(1)
    [] c = "auto2" -> socle_nand_flsh_autoread(2) [] c = "auto3" -> socle_nand_flsh_autoread(3)
    [] c = "autoerase" -> socle_nand_flsh_autoread_erase [] c = "autocompare" -> socle_nand_flsh_autoread_compare
    [] OTHER -> socle_nand_flsh_sw_dma_transfer
-----------------------------------------------------------------------------
NfPrograms == [c \in {"none"} \cup UNION {Items[menu] : menu \in DOMAIN Items} |-> ProgramOf(c)]
NfProgram == NfPrograms[nfCase.name]
NfOp == NfProgram[nfCase.step]
NfAt(op) == nfPc = "run" /\ nfCase.step <= Len(NfProgram) /\ NfOp[1] = op
Onward == nfPc' = "run" /\ nfCase' = [nfCase EXCEPT !.step = @ + 1] /\ UNCHANGED nfRun
Leave == nfPc' = "leave" /\ nfRun' = [nfRun EXCEPT !.err = -1] /\ UNCHANGED nfCase
Note == nfPc' = "run" /\ nfCase' = [nfCase EXCEPT !.step = @ + 1] /\ nfRun' = [nfRun EXCEPT !.err = -1]
LeaveIfNoted == IF nfRun.err = 0 THEN Onward ELSE Leave

socle_nand_flsh_select_chip ==
  \/ NfAt("select") /\ nfChip' = [nfChip EXCEPT !.sel = TRUE] /\ Onward /\ UNCHANGED <<nfMenu, nfFlash, nfInt, nfEcc>>
  \/ NfAt("deselect") /\ nfChip' = [nfChip EXCEPT !.sel = FALSE] /\ LeaveIfNoted /\ UNCHANGED <<nfMenu, nfFlash, nfInt, nfEcc>>
FillBuffer ==
  /\ NfAt("fill") /\ nfChip' = [nfChip EXCEPT !.buf = NfOp[2]]
  /\ Onward /\ UNCHANGED <<nfMenu, nfFlash, nfInt, nfEcc>>
DamagePart ==
  /\ NfAt("damage") /\ nfChip' = [nfChip EXCEPT !.buf.bad = @ \cup {NfOp[2]}]
  /\ Onward /\ UNCHANGED <<nfMenu, nfFlash, nfInt, nfEcc>>
socle_nand_flsh_verify_buffer ==
  /\ NfAt("compare")
  /\ IF nfChip.buf.holds = NfOp[2] /\ nfChip.buf.bad = {}
     THEN IF NfOp[3] = "note" THEN Onward ELSE LeaveIfNoted
     ELSE IF NfOp[3] = "note" THEN Note ELSE Leave
  /\ UNCHANGED <<nfMenu, nfFlash, nfChip, nfInt, nfEcc>>
MakeGenerator ==
  /\ NfAt("init ecc")
  /\ nfEcc' = IF nfEcc.init THEN nfEcc ELSE [nfEcc EXCEPT !.init = TRUE, !.gen = nfEcc.npar]
  /\ Onward /\ UNCHANGED <<nfMenu, nfFlash, nfChip, nfInt>>
(* The first symbol damaged is of the parity, the others wherever the user *)
(* says, the same one twice if he likes.                                   *)
mark_err ==
  /\ NfAt("mark")
  /\ \E n \in 0 .. EccErrors(nfCase.name) :
       /\ (EccErrors(nfCase.name) > 0 => n > 0)
       /\ nfCase' = [nfCase EXCEPT !.step = @ + 1, !.damaged = n]
  /\ nfPc' = "run" /\ UNCHANGED <<nfMenu, nfFlash, nfChip, nfInt, nfEcc, nfRun>>
CompareCodes ==
  /\ NfAt("codes") /\ (IF nfChip.code = nfEcc.gen THEN Onward ELSE Leave)
  /\ UNCHANGED <<nfMenu, nfFlash, nfChip, nfInt, nfEcc>>
(* Half as many symbols as there are of parity can be corrected.  When the *)
(* reading did not take place its syndromes are those of an earlier one.   *)
WordCorrected ==
  /\ NfAt("corrected")
  /\ \/ ~nfRun.fault /\ (IF 2 * nfCase.damaged <= nfEcc.npar THEN Onward ELSE Leave)
     \/ nfRun.fault /\ (Onward \/ Leave)
  /\ UNCHANGED <<nfMenu, nfFlash, nfChip, nfInt, nfEcc>>

(* The operations of the controller: flags cleared, then started; the two  *)
(* of the ECC test mode are started and the flags cleared then.            *)
Operation == {"erase", "program", "cache", "read", "copyread", "copywrite", "readpart"}
EccOperation == {"eccprogram", "eccread"}
StartOperation ==
  /\ nfPc = "run" /\ nfCase.step <= Len(NfProgram) /\ NfOp[1] \in Operation
  /\ nfInt' = [flag |-> 0, stat |-> {}] /\ nfChip' = [nfChip EXCEPT !.busy = TRUE] /\ nfPc' = "wait"
  /\ UNCHANGED <<nfMenu, nfCase, nfFlash, nfEcc, nfRun>>
StartEccOperation ==
  /\ nfPc = "run" /\ nfCase.step <= Len(NfProgram) /\ NfOp[1] \in EccOperation
  /\ nfChip' = [nfChip EXCEPT !.busy = TRUE] /\ nfPc' = "started"
  /\ UNCHANGED <<nfMenu, nfCase, nfFlash, nfInt, nfEcc, nfRun>>
ClearEccFlags ==
  /\ nfPc = "started" /\ nfInt' = [flag |-> 0, stat |-> {}] /\ nfPc' = "wait"
  /\ UNCHANGED <<nfMenu, nfCase, nfFlash, nfChip, nfEcc, nfRun>>

(* What reading a page with ECC reports.                                   *)
Syndrome(q) ==
  LET page == nfFlash[q] IN
  IF page.data = "erased" \/ page.npar # nfEcc.npar THEN Part ELSE page.bad \cup (IF page.tail THEN {} ELSE {4})
BufferAfter ==
  CASE NfOp[1] = "read" /\ NfOp[3] = "free" -> [Pattern EXCEPT !.holds = IF nfFlash[NfOp[2]].free THEN "free" ELSE "erased"]
    [] NfOp[1] = "read" /\ NfOp[3] = "tail" -> [NoBuffer EXCEPT !.holds = "tail"]
    [] NfOp[1] = "read" -> [holds |-> nfFlash[NfOp[2]].data, bad |-> nfFlash[NfOp[2]].bad, npar |-> nfFlash[NfOp[2]].npar]
    [] NfOp[1] = "readpart" -> [nfChip.buf EXCEPT !.bad = (@ \ {1}) \cup (IF NfOp[3] \in nfFlash[NfOp[2]].bad THEN {1} ELSE {})]
    [] OTHER -> nfChip.buf
Programmed(page, area) ==
  CASE area = "ecc" -> [page EXCEPT !.data = "pattern", !.bad = nfChip.buf.bad, !.npar = nfEcc.npar, !.tail = TRUE]
    [] area = "raw" -> [page EXCEPT !.data = nfChip.buf.holds, !.bad = nfChip.buf.bad, !.npar = nfChip.buf.npar]
    [] area = "tail" -> [page EXCEPT !.tail = TRUE]
    [] area = "free" -> [page EXCEPT !.free = TRUE]
    [] OTHER -> nfFlash[<<1, 0>>]
FlashAfter ==
  CASE NfOp[1] = "erase" -> [q \in NfPage |-> IF q[1] = NfOp[2] THEN Erased ELSE nfFlash[q]]
    [] NfOp[1] \in {"program", "cache", "copywrite"} -> [nfFlash EXCEPT ![NfOp[2]] = Programmed(@, NfOp[3])]
    [] OTHER -> nfFlash
Reported ==
  CASE NfOp[1] = "read" /\ NfOp[3] = "ecc" -> Syndrome(NfOp[2])
    [] NfOp[1] = "readpart" -> IF NfOp[3] \in Syndrome(NfOp[2]) THEN {1} ELSE {}
    [] OTHER -> {}
(* A page that is programmed leaves a code of another pattern behind.      *)
CodeAfter == IF NfOp[1] = "eccprogram" THEN nfEcc.npar
             ELSE IF NfOp[1] \in {"program", "cache"} /\ NfOp[3] = "ecc" THEN 0 ELSE nfChip.code
Interrupt(stat) == nfInt' = [flag |-> 1, stat |-> stat]   \* socle_nand_flsh_isr
OperationDone ==
  /\ nfChip.busy
  /\ nfFlash' = FlashAfter
  /\ nfChip' = [nfChip EXCEPT !.busy = FALSE, !.buf = BufferAfter,
                              !.code = CodeAfter]
  /\ Interrupt({0} \cup Reported)
  /\ UNCHANGED <<nfPc, nfMenu, nfCase, nfEcc, nfRun>>
(* It fails with an interrupt where the mask lets one through, or hangs.   *)
OperationGoesWrong ==
  /\ nfChip.busy /\ nfRun.mishaps > 0
  /\ nfChip' = [nfChip EXCEPT !.busy = FALSE] /\ nfRun' = [nfRun EXCEPT !.fault = TRUE, !.mishaps = @ - 1]
  /\ UNCHANGED nfInt \/ (NfOp[1] \in {"erase", "program", "copywrite"} /\ Interrupt({-1}))
  /\ UNCHANGED <<nfPc, nfMenu, nfCase, nfFlash, nfEcc>>

(* Part k of a status is the bit SYN_ERR_LOC_k, 0 that of completion.      *)
(* The wait is over: completed, or timed out and nothing reported.         *)
NfStatus == IF nfInt.flag = 1 THEN nfInt.stat ELSE {}
Returns == nfPc = "wait" /\ ~nfChip.busy /\ UNCHANGED <<nfMenu, nfFlash, nfInt, nfEcc>>
OperationReturns ==
  /\ Returns /\ NfOp[1] \in {"erase", "program", "cache", "copyread", "copywrite"}
  /\ (IF 0 \in NfStatus THEN Onward ELSE Leave) /\ UNCHANGED nfChip
EccOperationReturns == Returns /\ NfOp[1] \in EccOperation /\ Onward /\ UNCHANGED nfChip
ReadReturns ==
  /\ Returns /\ NfOp[1] = "read"
  /\ CASE NfOp[4] = "ignore" -> Onward
       [] NfOp[4] = "note" -> IF NfStatus = {0} THEN Onward ELSE Note
       [] NfOp[4] = "stop" -> IF NfStatus = {0} THEN Onward ELSE Leave
       [] NfOp[4] = "syndrome" -> IF NfStatus = {0, NfOp[2][2]} THEN Onward ELSE Leave
       [] OTHER -> FALSE
  /\ UNCHANGED nfChip
(* After a time-out every part counts as damaged and the stale syndromes   *)
(* are applied, which does not help the whole page.                        *)
correct_data2 ==
  /\ Returns /\ NfOp[1] = "read" /\ NfOp[4] = "correct"
  /\ IF 0 \in NfStatus THEN Onward /\ nfChip' = [nfChip EXCEPT !.buf.bad = @ \ NfStatus]
                          ELSE Leave /\ UNCHANGED nfChip
(* A part that reports an error is corrected, and written to its place. A  *)
(* time-out counts as an error, and the word of an earlier part is used.   *)
correct_data ==
  /\ Returns /\ NfOp[1] = "readpart"
  /\ IF 0 \in NfStatus
     THEN /\ Onward
          /\ nfChip' = [nfChip EXCEPT !.buf.bad = IF 1 \in NfStatus THEN @ \ {NfOp[3]} ELSE @]
     ELSE \/ Leave /\ UNCHANGED nfChip
          \/ Onward /\ \E right \in {{}, {NfOp[3]}} : nfChip' = [nfChip EXCEPT !.buf.bad = @ \ right]

(* Moving a page by DMA; when it times out the case just returns.          *)
DmaMoves ==
  /\ NfAt("dma") /\ nfChip' = [nfChip EXCEPT !.buf = IF NfOp[2] = "out" THEN @ ELSE Pattern]
  /\ Onward /\ UNCHANGED <<nfMenu, nfFlash, nfInt, nfEcc>>
DmaTimesOut ==
  /\ NfAt("dma") /\ nfRun.mishaps > 0
  /\ nfPc' = "leave" /\ nfRun' = [nfRun EXCEPT !.err = -1, !.fault = TRUE, !.returned = TRUE, !.mishaps = @ - 1]
  /\ UNCHANGED <<nfMenu, nfCase, nfFlash, nfChip, nfInt, nfEcc>>
-----------------------------------------------------------------------------
(* The menus.                                                              *)
nand_test ==
  /\ nfPc = "idle" /\ nfPc' = "menu" /\ nfMenu' = <<"main">>
  /\ nfFlash' = [q \in NfPage |-> Erased] /\ nfRun' = NewSession
  /\ nfChip' = [sel |-> FALSE, buf |-> NoBuffer, busy |-> FALSE, code |-> 0] /\ nfInt' = [flag |-> 0, stat |-> {}]
  /\ nfEcc' = [npar |-> 12, init |-> FALSE, gen |-> 0] /\ UNCHANGED nfCase
Offered(c) == nfPc = "menu" /\ nfRun.cases > 0 /\ c \in Items[Head(nfMenu)]
             /\ (c \in {"ecc5", "ecc6", "ecc7"} => nfEcc.npar = 12)
ParityLengthKeeps(c) == [nfEcc EXCEPT !.npar = IF c = "parity8" THEN 6 ELSE 12]
ParityLength(c) == [npar |-> IF c = "parity8" THEN 6 ELSE 12, init |-> FALSE, gen |-> nfEcc.gen]
EnterMenu(c) ==
  /\ Offered(c) /\ c \in Menus
  /\ nfMenu' = <<IF c \in {"parity8", "parity15"} THEN "parity" ELSE c>> \o nfMenu
  /\ nfEcc' = IF c \in {"parity8", "parity15"} THEN ParityLength(c) ELSE nfEcc
  /\ UNCHANGED <<nfPc, nfCase, nfFlash, nfChip, nfInt, nfRun>>
LeaveMenu ==
  /\ nfPc = "menu" /\ nfMenu' = Tail(nfMenu) /\ nfPc' = IF Len(nfMenu) = 1 THEN "idle" ELSE "menu"
  /\ UNCHANGED <<nfCase, nfFlash, nfChip, nfInt, nfEcc, nfRun>>
NfCaseBegins(c) ==
  /\ Offered(c) /\ c \notin Menus
  /\ nfPc' = "run" /\ nfCase' = [name |-> c, step |-> 1, damaged |-> 0]
  /\ nfEcc' = IF c = "switch" THEN ParityLength("parity15") ELSE nfEcc
  /\ nfRun' = [nfRun EXCEPT !.err = 0, !.fault = FALSE, !.returned = FALSE, !.cases = @ - 1]
  /\ UNCHANGED <<nfMenu, nfFlash, nfChip, nfInt>>
NfProgramEnds ==
  /\ nfPc = "run" /\ nfCase.step > Len(NfProgram) /\ nfPc' = "leave"
  /\ UNCHANGED <<nfMenu, nfCase, nfFlash, nfChip, nfInt, nfEcc, nfRun>>
(* The chip is de-selected, but not after a return, nor in the ECC tests.  *)
NfCaseEnds ==
  /\ nfPc = "leave" /\ nfPc' = "menu" /\ nfCase' = NoCase
  /\ nfMenu' = IF nfCase.name = "switch" /\ nfRun.err = 0 THEN <<"switch">> \o nfMenu ELSE nfMenu
  /\ nfChip' = IF nfRun.returned \/ EccCase(nfCase.name) THEN nfChip ELSE [nfChip EXCEPT !.sel = FALSE]
  /\ nfRun' = [nfRun EXCEPT !.fault = FALSE, !.returned = FALSE]
  /\ UNCHANGED <<nfFlash, nfInt, nfEcc>>

NfStep == \/ nand_test \/ LeaveMenu \/ NfProgramEnds \/ NfCaseEnds
          \/ \E c \in UNION {Items[k] : k \in DOMAIN Items} : EnterMenu(c) \/ NfCaseBegins(c)
          \/ socle_nand_flsh_select_chip \/ FillBuffer \/ DamagePart \/ socle_nand_flsh_verify_buffer
          \/ MakeGenerator \/ mark_err \/ CompareCodes \/ WordCorrected
          \/ StartOperation \/ StartEccOperation \/ ClearEccFlags \/ OperationDone \/ OperationGoesWrong
          \/ OperationReturns \/ EccOperationReturns \/ ReadReturns \/ correct_data2 \/ correct_data
          \/ DmaMoves \/ DmaTimesOut
NfSpec == NfStart("idle") /\ [][NfStep]_nfVars
-----------------------------------------------------------------------------
(* Whatever ran before, a case passes when no operation of it went wrong,  *)
(* of the ECC tests those with no more damage than the code corrects, and  *)
(* fails when one did.  Not so the ECC tests, which ignore what their two  *)
(* operations return, and the correction part by part.                     *)
NfVerdict == nfPc = "leave" /\ nfCase.name # "autocompare" =>
  /\ (~nfRun.fault => (nfRun.err = 0 <=> 2 * nfCase.damaged <= nfEcc.npar))
  /\ (nfRun.fault /\ nfCase.name \notin Items.ecc \cup {"correct1"} => nfRun.err = -1)
(* No part of a page is programmed twice without an erase, and nothing is  *)
(* done to a chip that is not selected.                                    *)
Unwritten(page, area) ==
  CASE area = "tail" -> ~page.tail [] area = "free" -> ~page.free [] OTHER -> page.data = "erased" /\ ~page.tail
NfFlashKept == nfPc = "wait" /\ NfOp[1] \in Operation =>
  /\ nfChip.sel
  /\ (nfChip.busy /\ NfOp[1] \in {"program", "cache", "copywrite"} => Unwritten(nfFlash[NfOp[2]], NfOp[3]))
NandRight == NfVerdict /\ NfFlashKept
=============================================================================
