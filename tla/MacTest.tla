------------------------------ MODULE MacTest ------------------------------
(***************************************************************************)
(* The Ethernet test of src/MAC/macctrl.c: a shell that runs one case      *)
(* after another, of the user's choice or from the automatic list.  A case *)
(* changes parameters, initialises the MAC and its filter, sends frames to *)
(* itself, waits for those the filter should let through, compares them    *)
(* and the counters, and puts the parameters back.  The driver under it is *)
(* that of MacDriver; here a frame that the MAC receives is in the pool.   *)
(*                                                                         *)
(* The MAC may lose one frame in a case, and setting it up may fail.  A    *)
(* frame is its destination and a length that stands for a class of        *)
(* lengths.  mtRounds bounds the rounds of the cases that repeat           *)
(* themselves with another count.  Left out: the cases r and w, which wait *)
(* for a user or forever, v, and the parameters that only change timing.   *)
(***************************************************************************)
EXTENDS Integers, Sequences, FiniteSets

CONSTANT mtRounds
ASSUME MtAssumption == mtRounds \in 1 .. 6

VARIABLES
  mtPc,      \* off, idle, shell, setup, run, leave
  mtCase,    \* the key of the case, its round, and the step of its program
  mtPar,     \* the Test_ parameters
  mtNet,     \* frames sent; the one lost, 0 if none; does the MAC work;
             \* descriptors it may fill; frames waiting in its FIFO
  mtPool,    \* frames received and not compared
  mtCount,   \* error and interrupt counters
  mtRun      \* result, auto_ret, keys left in the automatic list

mtVars == <<mtPc, mtCase, mtPar, mtNet, mtPool, mtCount, mtRun>>

Default == [mode |-> "PERFECT", size |-> 1, padding |-> TRUE, crc |-> TRUE, buffer1 |-> TRUE,
            buffer2 |-> FALSE, chain |-> FALSE, skip |-> FALSE, underflow |-> FALSE, ethernet |-> FALSE]
Counters == {"runt", "long", "crc", "filter", "multi", "desc", "overflow", "missed", "unf", "skipped", "received"}
NoCounts == [c \in Counters |-> 0]
Many == 99
Fresh(up, free) == [sent |-> 0, lost |-> 0, up |-> up, free |-> free, fifo |-> <<>>]
MtStart(pc) ==
  /\ mtPc = pc /\ mtCase = [key |-> "x", round |-> 0, step |-> 0] /\ mtPar = Default
  /\ mtNet = Fresh(FALSE, 0) /\ mtPool = <<>> /\ mtCount = NoCounts
  /\ mtRun = [result |-> 0, auto_ret |-> 0, keys |-> <<>>]
-----------------------------------------------------------------------------
(* The steps a case is made of.                                            *)
Send(to, len) == <<"send", to, len>>
Give == <<"give">>
MustBeSuspended == <<"suspended">>
Wait(n) == <<"wait", n>>
WaitAnyway(n) == <<"linger", n>>
Checks(ids) == [i \in 1 .. Len(ids) |-> <<"check", ids[i]>>]
CountIs(c, n) == <<"count", c, n>>
Times(n, step) == [i \in 1 .. n |-> step]
Upto(m, n) == [i \in 1 .. n - m + 1 |-> m + i - 1]

(* change: parameters it sets; back: those it puts back when it ends;      *)
(* looks: at which results of the set-up; ring: of a held ring only         *)
(* descriptor 0 is the MAC's, an emptied one has one without buffers.      *)
Frames(change, looks, program) ==
  [change |-> change, back |-> DOMAIN change, looks |-> looks, ring |-> "whole", rounds |-> 1, program |-> <<program>>]
Held(rounds, Program(_)) ==
  [change |-> <<>>, back |-> {}, looks |-> {}, ring |-> "held", rounds |-> rounds,
   program |-> [j \in 1 .. rounds |-> Program(j)]]
Nothing == <<>>   \* a function of no parameter
Normal == <<Send("P0", "min"), Send("P0", "mid"), Send("P0", "mid"), Send("P0", "mid"), Send("P0", "max"),
            Send("P1", "min"), Send("P1", "max"), Send("P0", "min"), Send("P0", "max"), Wait(7)>>
          \o Checks(<<1, 2, 3, 4, 5, 8, 9>>)
Hashed(other) ==
  <<Send("P0", "min"), Send(other, "min"), Send("H0", "min"), Send("H1", "max"), Send("H2", "min"), Send("H3", "max"),
    Send("H4", "min"), Send("H5", "max"), Send("H6", "min"), Send("H7", "max"), Send("H9", "min"), Send(other, "max"),
    Send("P0", "max"), Wait(10)>>
  \o Checks(<<1>> \o Upto(3, 10) \o <<13>>) \o <<CountIs("multi", 8)>>
Alternate == <<Send("P0", "min"), Send("P1", "min"), Send("P0", "max"), Send("P1", "max")>>

Case1 == Frames(Nothing, {"init"}, <<>>)
Case2 == Frames(Nothing, {"init"}, <<>>)
Case3 == Frames(Nothing, {"init", "filter"}, <<>>)
Case4 == Frames(Nothing, {"init", "filter"}, Normal)
Case5 == Frames([mode |-> "ALL_BAD"], {},
                <<Send("P0", "long"), Send("P0", "long"), WaitAnyway(2), CountIs("long", 2)>>)
Case6 == Frames([padding |-> FALSE, mode |-> "ALL_BAD"], {},
                <<Send("P0", "short"), Send("P0", "short"), WaitAnyway(2), CountIs("runt", 2)>>)
Case7 == Frames([crc |-> FALSE, mode |-> "ALL_BAD"], {},
                <<Send("P0", "min"), Send("P0", "max"), WaitAnyway(2), CountIs("crc", 2)>>)
Case8 == LET Suspended(j) == <<Send("P0", "min"), MustBeSuspended, Give, Send("P0", "min"), Wait(2)>> \o Checks(<<1, 2>>)
         IN Held(1, Suspended)
Case9 == Frames([mode |-> "PERFECT_FAIL"], {"filter"}, Alternate \o <<Wait(4), CountIs("filter", 2)>>)
CaseA == Frames([mode |-> "INVERSE_PERFECT"], {"filter"}, Alternate \o <<Wait(2)>> \o Checks(<<2, 4>>))
CaseB == Frames([mode |-> "HASH", size |-> 9], {"filter"}, Hashed("P1"))
CaseC == Frames([mode |-> "HASH_ONLY", size |-> 9], {"filter"}, Hashed("P2"))
CaseD == Frames([mode |-> "ALL_BAD", padding |-> FALSE], {"filter"},
                <<Send("P0", "min"), Send("P0", "short"), Send("P0", "short"), Send("P0", "max"), Send("P1", "min"),
                  Send("P2", "max"), Wait(6), CountIs("runt", 2)>> \o Checks(Upto(1, 6)))
CaseE == Frames([mode |-> "PROMISCUOUS"], {"filter"},
                <<Send("P0", "min"), Send("P0", "max"), Send("P1", "min"), Send("P1", "max"), Send("P2", "min"),
                  Send("P2", "max"), Send("H0", "min"), Send("H0", "max"), Wait(8)>>
                \o Checks(Upto(1, 8)) \o <<CountIs("multi", 2)>>)
CaseF == Frames([mode |-> "ALL_MULTI"], {"filter"},
                <<Send("P0", "min"), Send("P0", "max"), Send("P1", "min"), Send("P1", "max"), Send("H0", "min"),
                  Send("H0", "max"), Send("H1", "min"), Send("H2", "max"), Wait(6)>>
                \o Checks(<<1, 2, 5, 6, 7, 8>>) \o <<CountIs("multi", 4)>>)
CaseG == LET Overflow(j) == <<Send("P0", "min"), Send("P0", "max")>> \o Times(j, Send("P0", "max"))
                            \o <<MustBeSuspended, Give, Wait(2)>> \o Checks(<<1, 2>>) \o <<CountIs("overflow", j)>>
         IN Held(mtRounds, Overflow)
CaseH == Frames([buffer1 |-> FALSE, buffer2 |-> TRUE], {}, Normal)
CaseI == Frames([chain |-> TRUE], {}, Normal)
CaseJ == [Frames(Nothing, {}, <<Send("P0", "mid"), Wait(1), CountIs("skipped", 1)>> \o Checks(<<1>>))
            EXCEPT !.ring = "emptied"]
CaseK == LET Unavailable(j) == <<Send("P0", "mid"), WaitAnyway(7), CountIs("desc", 1)>> IN Held(1, Unavailable)
CaseL == Frames([skip |-> TRUE], {}, Normal)
CaseM == Frames([buffer1 |-> FALSE, buffer2 |-> FALSE], {}, Normal)
(* An interrupt for nrtp frames; they are compared when it has come.       *)
CaseN == LET Group(nrtp, g) == Times(nrtp, Send("P0", "min")) \o Checks(Upto((g - 1) * nrtp + 1, g * nrtp))
             Rest(nrtp) == Times(28 % nrtp, Send("P0", "min"))
             Groups[nrtp \in 2 .. 7, g \in 0 .. 14] == IF g = 0 THEN <<>> ELSE Groups[nrtp, g - 1] \o Group(nrtp, g)
             Mitigated(j) == Groups[8 - j, 28 \div (8 - j)] \o Rest(8 - j) \o <<CountIs("ri", 28 \div (8 - j))>>
         IN [Held(mtRounds, Mitigated) EXCEPT !.ring = "whole"]
CaseO == LET OneByOne[n \in 0 .. 3] ==
               IF n = 0 THEN <<>>
               ELSE OneByOne[n - 1] \o <<Send("P0", <<"min", "mid", "max">>[n]), Wait(1)>> \o Checks(<<n>>)
         IN Frames(Nothing, {}, OneByOne[3])
CaseP == Frames([underflow |-> TRUE], {}, <<Send("P0", "max"), CountIs("unf", 1)>>)
CaseT == LET Missed(j) ==
               LET pending == IF j > 3 THEN 3 ELSE j
               IN <<Send("P0", "min")>> \o Times(j, Send("P0", "min")) \o <<Give>> \o Times(10, Send("P0", "min"))
                  \o Checks(Upto(1, 1 + pending) \o Upto(j + 2, j + 11)) \o <<CountIs("missed", j - pending)>>
         IN Held(mtRounds, Missed)
CaseU == LET Robust(i) == <<Send("P0", "min")>> \o Times(i + 1, Send("P0", "max")) \o Times(8, Send("P0", "min"))
                          \o <<Give, Wait(2)>> \o Checks(<<1, 2>>)
         IN Held(mtRounds, Robust)
(* The frame type is not put back.                                         *)
CaseY == [Frames([ethernet |-> TRUE], {"init", "filter"}, Normal) EXCEPT !.back = {}]

CaseOf(key) ==
  CASE key = "1" -> Case1 [] key = "2" -> Case2 [] key = "3" -> Case3 [] key = "4" -> Case4 [] key = "5" -> Case5
    [] key = "6" -> Case6 [] key = "7" -> Case7 [] key = "8" -> Case8 [] key = "9" -> Case9 [] key = "a" -> CaseA
    [] key = "b" -> CaseB [] key = "c" -> CaseC [] key = "d" -> CaseD [] key = "e" -> CaseE [] key = "f" -> CaseF
    [] key = "g" -> CaseG [] key = "h" -> CaseH [] key = "i" -> CaseI [] key = "j" -> CaseJ [] key = "k" -> CaseK
    [] key = "l" -> CaseL [] key = "m" -> CaseM [] key = "n" -> CaseN [] key = "o" -> CaseO [] key = "p" -> CaseP
    [] key = "t" -> CaseT [] key = "u" -> CaseU [] OTHER -> CaseY
(* The list without the keys of parameters; case 4 comes back once instead *)
(* of with every setting of the bus.                                       *)
MAC_Auto_Test_Item == <<"1", "2", "3", "4", "5", "6", "7", "8", "9", "a", "b", "c", "d", "e", "f", "g", "h", "i", "j",
                        "k", "l", "m", "n", "o", "p", "t", "u", "4", "x">>
Keys == {MAC_Auto_Test_Item[i] : i \in 1 .. Len(MAC_Auto_Test_Item)} \cup {"y", "z"}
-----------------------------------------------------------------------------
(* What the filter lets through.                                           *)
Test_Perfect_MAC_Addr == <<"P0", "P1", "P2", "P3", "P4", "P5", "P6", "P7", "P8">>
Test_Hash_MAC_Addr == <<"H0", "H1", "H2", "H3", "H4", "H5", "H6", "H7", "P0", "H9">>
Multicast(to) == to \notin {Test_Perfect_MAC_Addr[i] : i \in 1 .. 9}
MacTestFilterInit ==
  CASE mtPar.mode = "HASH" -> {"P0"} \cup {Test_Hash_MAC_Addr[i] : i \in 1 .. mtPar.size - 1}
    [] mtPar.mode = "HASH_ONLY" -> {Test_Hash_MAC_Addr[i] : i \in 1 .. mtPar.size}
    [] OTHER -> {Test_Perfect_MAC_Addr[i] : i \in 1 .. mtPar.size}
Bad(len) == (IF len = "short" /\ ~mtPar.padding THEN {"runt"} ELSE {len} \cap {"long"}) \cup (IF mtPar.crc THEN {} ELSE {"crc"})
Accepts(to, len) ==
  /\ Bad(len) = {} \/ mtPar.mode = "ALL_BAD"
  /\ CASE mtPar.mode \in {"PERFECT", "HASH", "HASH_ONLY"} -> to \in MacTestFilterInit
       [] mtPar.mode = "INVERSE_PERFECT" -> to \notin MacTestFilterInit
       [] mtPar.mode = "ALL_MULTI" -> to \in MacTestFilterInit \/ Multicast(to)
       [] OTHER -> TRUE

(* A frame that is received: its buffers, the counters, the pool.  A long  *)
(* one that runs out of descriptors is cut off.                            *)
Cut(f) == f.len # "min" /\ mtNet.free = 1
Counted(f) ==
  {"received"} \cup Bad(f.len) \cup (IF Multicast(f.to) THEN {"multi"} ELSE {}) \cup (IF Cut(f) THEN {"desc"} ELSE {})
  \cup (IF mtPar.mode = "PERFECT_FAIL" /\ f.to \notin MacTestFilterInit THEN {"filter"} ELSE {})
  \cup (IF CaseOf(mtCase.key).ring = "emptied" THEN {"skipped"} ELSE {})
Count(names) == [c \in Counters |-> IF c \in names THEN mtCount[c] + 1 ELSE mtCount[c]]
(* One that finds no descriptor waits in the FIFO, which holds three, and  *)
(* of those of full length one.                                            *)
FifoTakes(f) == Len(mtNet.fifo) < 3 /\ (f.len = "max" => mtNet.fifo = <<>>)
Refused == IF Len(mtNet.fifo) < 3 THEN "overflow" ELSE "missed"

Program == CaseOf(mtCase.key).program[mtCase.round]
At(op) == /\ mtPc = "run" /\ mtCase.step < Len(Program) /\ Program[mtCase.step + 1][1] = op
Arg(n) == Program[mtCase.step + 1][n]
NextStep == mtCase' = [mtCase EXCEPT !.step = @ + 1]
Passes == NextStep /\ UNCHANGED <<mtPc, mtRun>>
Fails == mtPc' = "leave" /\ mtRun' = [mtRun EXCEPT !.result = -1] /\ UNCHANGED mtCase

(* MacTestPrepareTx and MacTestPolling.                                    *)
SendNow(f) ==
  \/ /\ ~mtNet.up \/ ~Accepts(f.to, f.len)
     /\ mtNet' = [mtNet EXCEPT !.sent = @ + 1] /\ UNCHANGED <<mtPool, mtCount>>
  \/ /\ mtNet.up /\ mtPar.underflow
     /\ mtNet' = [mtNet EXCEPT !.sent = @ + 1] /\ mtCount' = Count({"unf"}) /\ UNCHANGED mtPool
  \/ /\ mtNet.up /\ ~mtPar.underflow /\ Accepts(f.to, f.len)
     /\ \/ /\ mtNet.lost = 0
           /\ mtNet' = [mtNet EXCEPT !.sent = @ + 1, !.lost = f.id] /\ UNCHANGED <<mtPool, mtCount>>
        \/ /\ mtNet.free > 0
           /\ mtNet' = [mtNet EXCEPT !.sent = @ + 1, !.free = IF @ = Many THEN @ ELSE 0]
           /\ mtPool' = Append(mtPool, f) /\ mtCount' = Count(Counted(f))
        \/ /\ mtNet.free = 0 /\ FifoTakes(f)
           /\ mtNet' = [mtNet EXCEPT !.sent = @ + 1, !.fifo = Append(@, f)] /\ UNCHANGED <<mtPool, mtCount>>
        \/ /\ mtNet.free = 0 /\ ~FifoTakes(f)
           /\ mtNet' = [mtNet EXCEPT !.sent = @ + 1] /\ mtCount' = Count({Refused}) /\ UNCHANGED mtPool
MacTestPrepareTx_Polling ==
  /\ At("send") /\ SendNow([id |-> mtNet.sent + 1, to |-> Arg(2), len |-> Arg(3)])
  /\ Passes /\ UNCHANGED mtPar
(* The owner bits are given and the receiver told to poll.                 *)
GiveDescriptors ==
  /\ At("give")
  /\ mtNet' = [mtNet EXCEPT !.free = Many, !.fifo = <<>>] /\ mtPool' = mtPool \o mtNet.fifo
  /\ Passes /\ UNCHANGED <<mtPar, mtCount>>
CheckSuspended ==
  /\ At("suspended") /\ (IF mtNet.free = 0 THEN Passes ELSE Fails)
  /\ UNCHANGED <<mtPar, mtNet, mtPool, mtCount>>
TestCheckPoolNum(n) == Len(mtPool) >= n
WaitForFrames ==
  /\ \/ At("wait") /\ (IF TestCheckPoolNum(Arg(2)) THEN Passes ELSE Fails)
     \/ At("linger") /\ Passes
  /\ UNCHANGED <<mtPar, mtNet, mtPool, mtCount>>

(* TestCheckRxPattern does not look whether there is a frame: of an empty  *)
(* pool it compares what an earlier frame left there.  Case g gives its    *)
(* second and third frame the same number.                                 *)
Alike(f, k) == f.id = k \/ (mtCase.key = "g" /\ {f.id, k} = {2, 3})
TestCheckRxPattern ==
  /\ At("check")
  /\ IF mtPool = <<>> THEN Passes \/ Fails
     ELSE IF Alike(Head(mtPool), Arg(2)) THEN Passes ELSE Fails
  /\ mtPool' = IF mtPool = <<>> THEN mtPool ELSE Tail(mtPool)
  /\ UNCHANGED <<mtPar, mtNet, mtCount>>
Value(c) == IF c = "ri" THEN mtCount.received \div (8 - mtCase.round) ELSE mtCount[c]
CheckCounter ==
  /\ At("count") /\ (IF Value(Arg(2)) = Arg(3) THEN Passes ELSE Fails)
  /\ UNCHANGED <<mtPar, mtNet, mtPool, mtCount>>
-----------------------------------------------------------------------------
(* mac_normal_test, its shell, and the beginning and the end of a case.    *)
mac_normal_test ==
  /\ mtPc = "idle" /\ mtPc' = "shell"
  /\ \E keys \in {<<>>, MAC_Auto_Test_Item} : mtRun' = [result |-> 0, auto_ret |-> 0, keys |-> keys]
  /\ mtPar' = Default /\ UNCHANGED <<mtCase, mtNet, mtPool, mtCount>>
Chosen(key) == IF mtRun.keys = <<>> THEN key \in Keys ELSE key = mtRun.keys[1]
Rest == IF mtRun.keys = <<>> THEN <<>> ELSE Tail(mtRun.keys)
CaseBegins(key) ==
  /\ mtPc = "shell" /\ Chosen(key) /\ key \notin {"x", "z"}
  /\ mtPc' = "setup" /\ mtCase' = [key |-> key, round |-> 1, step |-> 0]
  /\ mtRun' = [mtRun EXCEPT !.result = 0, !.keys = Rest]
  /\ mtPar' = [p \in DOMAIN Default |-> IF p \in DOMAIN CaseOf(key).change THEN CaseOf(key).change[p] ELSE mtPar[p]]
  /\ UNCHANGED <<mtNet, mtPool, mtCount>>
AutoTest ==
  /\ mtPc = "shell" /\ Chosen("z") /\ mtRun' = [mtRun EXCEPT !.keys = MAC_Auto_Test_Item]
  /\ UNCHANGED <<mtPc, mtCase, mtPar, mtNet, mtPool, mtCount>>
Exit ==
  /\ mtPc = "shell" /\ Chosen("x") /\ mtPc' = "idle"
  /\ mtRun' = [mtRun EXCEPT !.keys = <<>>] /\ mtCase' = [key |-> "x", round |-> 0, step |-> 0]
  /\ UNCHANGED <<mtPar, mtNet, mtPool, mtCount>>

(* MacTestDevCrtlInit, MacTestFilterInit, sMacInit and sMacFltrFrmXmit.    *)
Noticed(broken) == broken \in CaseOf(mtCase.key).looks \/ (broken = "init" /\ "filter" \in CaseOf(mtCase.key).looks)
Setup ==
  /\ mtPc = "setup"
  /\ \E broken \in {"nothing", "init", "filter"} :
       /\ (mtCase.key \in {"1", "2"} => broken # "filter")
       /\ mtNet' = Fresh(broken = "nothing", IF CaseOf(mtCase.key).ring = "held" THEN 1 ELSE Many)
       /\ IF Noticed(broken) THEN Fails ELSE mtPc' = "run" /\ UNCHANGED <<mtRun, mtCase>>
  /\ mtPool' = <<>> /\ mtCount' = NoCounts /\ UNCHANGED mtPar
ProgramEnds ==
  /\ mtPc = "run" /\ mtCase.step = Len(Program)
  /\ IF mtCase.round < CaseOf(mtCase.key).rounds
     THEN mtPc' = "setup" /\ mtCase' = [mtCase EXCEPT !.round = @ + 1, !.step = 0]
     ELSE mtPc' = "leave" /\ UNCHANGED mtCase
  /\ UNCHANGED <<mtPar, mtNet, mtPool, mtCount, mtRun>>
RestoredAfterPass(p) == IF mtRun.result = 0 /\ p \in CaseOf(mtCase.key).back THEN Default[p] ELSE mtPar[p]
Restored(p) == IF p \in CaseOf(mtCase.key).back THEN Default[p] ELSE mtPar[p]
CaseEnds ==
  /\ mtPc = "leave" /\ mtPc' = "shell"
  /\ mtPar' = [p \in DOMAIN Default |-> Restored(p)]
  /\ mtRun' = [mtRun EXCEPT !.auto_ret = IF mtRun.result # 0 THEN -1 ELSE @]
  /\ mtCase' = [key |-> "x", round |-> 0, step |-> 0] /\ mtNet' = Fresh(FALSE, 0) /\ mtPool' = <<>> /\ mtCount' = NoCounts

MtStep == \/ mac_normal_test \/ AutoTest \/ Exit \/ Setup \/ ProgramEnds \/ CaseEnds
          \/ \E key \in Keys : CaseBegins(key)
          \/ MacTestPrepareTx_Polling \/ GiveDescriptors \/ CheckSuspended \/ WaitForFrames \/ TestCheckRxPattern \/ CheckCounter
MtSpec == MtStart("idle") /\ [][MtStep]_mtVars
-----------------------------------------------------------------------------
(* Whatever cases have run before, and however they ended, a case passes   *)
(* when the MAC has lost nothing, and fails when it lost a frame that the  *)
(* case compares or counts.  Not so n and t, which do not wait for their   *)
(* frames and may compare what an earlier case left in the pool.           *)
Looked(id) == \E i \in 1 .. Len(Program) : Program[i][1] = "count" \/ Program[i] = <<"check", id>>
MtVerdict == mtPc = "leave" =>
  /\ (mtNet.up /\ mtNet.lost = 0 => mtRun.result = 0)
  /\ (mtCase.key \notin {"n", "t"} /\ (~mtNet.up \/ (mtNet.lost # 0 /\ Looked(mtNet.lost))) => mtRun.result = -1)
=============================================================================
