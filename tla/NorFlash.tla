------------------------------- MODULE NorFlash -------------------------------
(***************************************************************************)
(* src/NOR-MXIC/nor-mxic-ctrl.c: the tests of one NOR flash, in byte or    *)
(* word mode.                                                              *)
(*                                                                         *)
(* The flash, external, takes a command only when it is idle, and may be   *)
(* slower than the program waits; until it has finished, it answers every  *)
(* read with its status, in which bit 7 is never that of the data, and     *)
(* bit 6 changes with each read, so that two units never look erased.  A   *)
(* cell that cannot be programmed keeps it busy until a reset.             *)
(* nrSec is FLASH_SECTOR_SIZE, nrSize FLASH_SIZE, nrPolls the 150 polls of *)
(* mxic_program; nrTests bounds the tests of a session.                    *)
(***************************************************************************)
EXTENDS Integers

CONSTANTS nrSec, nrSize, nrPolls, nrTests
ASSUME NrAssumption ==
  /\ {nrPolls, nrTests} \subseteq Nat /\ {nrSec, nrSize} \subseteq Nat \ {0}
  /\ nrSec % 16 = 0 /\ nrSize % nrSec = 0 /\ nrSec < nrSize

VARIABLES
  nrM,     \* the program: where it is, the test, its sectors, the unit it programs,
           \* what is written where, the copy of the sector, polls, verdict, tests left
  nrMode,  \* bytes of a unit: mode 0 or 1
  nrChip,  \* the flash: busy with what; the units being erased, or the one programmed
  nrCells, \* its contents
  nrWas    \* contents before the test, and was the flash still busy then

nrVars == <<nrM, nrMode, nrChip, nrCells, nrWas>>

FLASH_TOTAL_SEC_NUM == nrSize \div nrSec + 7
NrAll == {a \in 0 .. nrSize - 1 : a % nrMode = 0}
NrErased == 2^(8 * nrMode) - 1
(* The first sector is divided into eight.                                 *)
NrSmall(sector) == sector < 8
NrLength(sector) == IF NrSmall(sector) THEN nrSec \div 8 ELSE nrSec
NrFirst(sector) == IF NrSmall(sector) THEN NrLength(sector) * sector ELSE nrSec * (sector - 7)
NrSectorOf(offset) == IF offset < nrSec THEN offset \div (nrSec \div 8) ELSE offset \div nrSec + 7
NrUnits(sector) == {a \in NrAll : a >= NrFirst(sector) /\ a < NrFirst(sector) + NrLength(sector)}

NrDone == [pc |-> "idle", test |-> "none", sector |-> 0, end |-> 0, at |-> 0, offset |-> 0, data |-> 0, temp |-> <<>>, polls |-> 0, ret |-> 0, left |-> nrTests]
NrIdle == [busy |-> "no", set |-> {}, at |-> 0, data |-> 0]
NrStart(pc) ==
  /\ nrM = [NrDone EXCEPT !.pc = pc]
  /\ nrMode \in (IF pc = "off" THEN {1} ELSE {1, 2}) /\ nrChip = NrIdle
  /\ nrCells = [a \in (IF pc = "off" THEN {} ELSE NrAll) |-> 0]
  /\ nrWas = [cells |-> nrCells, busy |-> FALSE, from |-> 0]
-----------------------------------------------------------------------------
(* The flash.                                                              *)
NrOther7(data) == IF (data \div 128) % 2 = 1 THEN data - 128 ELSE data + 128
NrRead(a) ==
  IF nrChip.busy = "no" THEN nrCells[a]
  ELSE IF nrChip.busy = "erase" THEN 8 ELSE NrOther7(nrChip.data)
NrTakes(command) == nrChip' = IF nrChip.busy = "no" THEN command ELSE nrChip
NrFinishes ==
  /\ UNCHANGED <<nrM, nrMode, nrWas>>
  /\ \/ /\ nrChip.busy = "erase" /\ nrChip' = NrIdle
        /\ nrCells' = [a \in NrAll |-> IF a \in nrChip.set THEN NrErased ELSE nrCells[a]]
     \/ /\ nrChip.busy = "program" /\ nrChip' = NrIdle
        /\ nrCells' = [nrCells EXCEPT ![nrChip.at] = IF @ = NrErased THEN nrChip.data ELSE 0]
     \/ nrChip.busy = "program" /\ nrChip' = [nrChip EXCEPT !.busy = "stuck"] /\ UNCHANGED nrCells
-----------------------------------------------------------------------------
NrBegins(m) ==
  /\ nrM.pc = "idle" /\ nrM.left > 0
  /\ nrM' = [m EXCEPT !.left = nrM.left - 1]
  /\ nrWas' = [cells |-> nrCells, busy |-> nrChip.busy # "no", from |-> m.sector] /\ UNCHANGED <<nrMode, nrCells>>
nor_mxic_sector_rw ==
  UNCHANGED nrChip /\ \E start \in {FLASH_TOTAL_SEC_NUM - 2, FLASH_TOTAL_SEC_NUM - 1} :
    NrBegins([NrDone EXCEPT !.pc = "erase", !.test = "rw", !.sector = start, !.end = FLASH_TOTAL_SEC_NUM - 1])
(* mxic_flash_write saves the sector first.                                *)
nor_mxic_write ==
  UNCHANGED nrChip /\ \E offset \in {1, nrSec + 2}, data \in {5} :
    LET sector == NrSectorOf(offset)
        here == NrFirst(sector) + ((offset % NrLength(sector)) \div nrMode) * nrMode
    IN NrBegins([NrDone EXCEPT !.pc = "erase", !.test = "write", !.sector = sector, !.end = sector, !.offset = here, !.data = data,
                               !.temp = [a \in NrUnits(sector) |-> IF a = here THEN data ELSE NrRead(a)]])
nor_mxic_erase_sector ==
  UNCHANGED nrChip /\ \E offset \in {0, nrSec - 1, nrSec} :
    NrBegins([NrDone EXCEPT !.pc = "erase", !.test = "erase", !.sector = NrSectorOf(offset), !.end = NrSectorOf(offset)])
nor_mxic_erase_all ==
  /\ NrBegins([NrDone EXCEPT !.pc = "check", !.test = "all"])
  /\ NrTakes([NrIdle EXCEPT !.busy = "erase", !.set = NrAll])
NrEnds(ret) == nrM' = [nrM EXCEPT !.pc = "end", !.ret = ret]

(* mxic_flash_erase_sector: the command, three seconds later a reset, and  *)
(* the check.                                                              *)
NrErases ==
  /\ nrM.pc = "erase" /\ nrM' = [nrM EXCEPT !.pc = "reset"]
  /\ NrTakes([NrIdle EXCEPT !.busy = "erase", !.set = NrUnits(nrM.sector)]) /\ UNCHANGED <<nrMode, nrCells, nrWas>>
NrResets ==
  /\ nrM.pc = "reset" /\ nrM' = [nrM EXCEPT !.pc = "verify"]
  /\ nrChip' = (IF nrChip.busy = "stuck" THEN NrIdle ELSE nrChip) /\ UNCHANGED <<nrMode, nrCells, nrWas>>
(* Mutant of NrIsErased: the status is not told from data.                 *)
NrIsErasedIfIdle(units) == nrChip.busy # "no" \/ \A a \in units : NrRead(a) = NrErased
NrIsErased(units) == nrChip.busy = "no" /\ \A a \in units : NrRead(a) = NrErased
mxic_flash_erase_sector ==
  /\ nrM.pc = "verify" /\ UNCHANGED <<nrMode, nrChip, nrCells, nrWas>>
  /\ IF ~NrIsErased(NrUnits(nrM.sector)) THEN NrEnds(-5)
     ELSE IF nrM.test = "erase" THEN NrEnds(0)
     ELSE nrM' = [nrM EXCEPT !.pc = "program", !.at = NrFirst(nrM.sector)]
NrChecksAll == nrM.pc = "check" /\ NrEnds(IF NrIsErased(NrAll) THEN 0 ELSE -5) /\ UNCHANGED <<nrMode, nrChip, nrCells, nrWas>>

(* mxic_sector_write and mxic_flash_write, unit by unit.                   *)
NrPattern(sector, a) == IF nrMode = 1 THEN (a - NrFirst(sector)) % 256 ELSE ((a - NrFirst(sector)) \div 2) % 65536
NrValue == IF nrM.test = "rw" THEN NrPattern(nrM.sector, nrM.at) ELSE nrM.temp[nrM.at]
NrPrograms ==
  /\ nrM.pc = "program" /\ nrM' = [nrM EXCEPT !.pc = "poll", !.polls = 0]
  /\ NrTakes([NrIdle EXCEPT !.busy = "program", !.at = nrM.at, !.data = NrValue]) /\ UNCHANGED <<nrMode, nrCells, nrWas>>
NrNext ==
  IF nrM.at + nrMode < NrFirst(nrM.sector) + NrLength(nrM.sector)
  THEN nrM' = [nrM EXCEPT !.pc = "program", !.at = @ + nrMode]
  ELSE IF nrM.test = "write" THEN NrEnds(IF nrMode = 1 /\ NrRead(nrM.offset) # nrM.data THEN -6 ELSE 0)
  ELSE IF nrM.sector = nrM.end THEN NrEnds(0)
  ELSE nrM' = [nrM EXCEPT !.pc = "erase", !.sector = @ + 1]
mxic_program ==
  /\ nrM.pc = "poll" /\ UNCHANGED <<nrMode, nrChip, nrCells, nrWas>>
  /\ IF NrRead(nrM.at) = NrValue THEN NrNext
     ELSE IF nrM.polls >= nrPolls THEN NrEnds(1) ELSE nrM' = [nrM EXCEPT !.polls = @ + 1]
NrBack == nrM.pc = "end" /\ nrM' = [NrDone EXCEPT !.left = nrM.left] /\ UNCHANGED <<nrMode, nrChip, nrCells, nrWas>>

NrStep == \/ nor_mxic_sector_rw \/ nor_mxic_write \/ nor_mxic_erase_sector \/ nor_mxic_erase_all \/ NrErases \/ NrResets
          \/ mxic_flash_erase_sector \/ NrChecksAll \/ NrPrograms \/ mxic_program \/ NrBack \/ NrFinishes
NrSpec == NrStart("idle") /\ [][NrStep]_nrVars
-----------------------------------------------------------------------------
(* A test that passes has done what it says to the flash, whatever state   *)
(* an earlier one has left that in; and no test, passed or failed, changes *)
(* anything but its sectors, a successful write nothing but its unit,      *)
(* unless the flash was still busy when it began (the three seconds of     *)
(* lines 407 and 418 may be less than an erase takes, and the copy of      *)
(* lines 298 and 311 is then one of its status).                           *)
NrTouched ==
  IF nrM.test = "all" THEN NrAll
  ELSE IF nrM.test = "write" /\ nrM.ret = 0 THEN {nrM.offset}
  ELSE {a \in NrAll : NrSectorOf(a) \in nrWas.from .. nrM.end}
NorRight ==
  nrM.pc = "end" =>
    /\ nrM.ret = 0 =>
         /\ nrM.test = "rw" => \A a \in NrAll : NrSectorOf(a) \in nrWas.from .. nrM.end => nrCells[a] = NrPattern(NrSectorOf(a), a)
         /\ nrM.test = "write" => nrCells[nrM.offset] = nrM.data
         /\ nrM.test \in {"erase", "all"} => \A a \in NrTouched : nrCells[a] = NrErased
    /\ ~nrWas.busy => \A a \in NrAll \ NrTouched : nrCells[a] = nrWas.cells[a]
=============================================================================
