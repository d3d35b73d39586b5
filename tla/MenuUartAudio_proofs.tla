--------------------------- MODULE MenuUartAudio_proofs ---------------------------
(***************************************************************************)
(* Of the tests of the main menu, the menus themselves with the video      *)
(* runs, the UART test, the audio tests and those of the NOR flash: for    *)
(* each an invariant, which holds at the start and which every step        *)
(* preserves.  TestBench_proofs draws the conclusions for the bench that   *)
(* runs one of them.                                                       *)
(***************************************************************************)
EXTENDS VideoTest, UartLoop, I2sAudio, NorFlash, SequenceTheorems, TLAPS

-----------------------------------------------------------------------------
(* The menus and the video runs.  The stack of calls is a path of the tree *)
(* of menus: the item of a menu is a menu or a function of the next level. *)
VvTestItem == {"socle_vip_to_vop_test", "socle_vip_to_lcd_test", "socle_vop_color_display_test"}
VvFormatItem == {"socle_viop_ntsc_test", "socle_viop_pal_test"}
VvYuvItem == {"socle_vip_420_test", "socle_vip_422_test"}
VvFunc == {"TestEntry", "VIP_VOP_Testing", "other", "socle_vop_to_vip_test", "none"} \cup VvTestItem \cup VvFormatItem
          \cup VvSizes \cup VvYuvItem
VvLevel(k) ==
  CASE k = 1 -> {"TestEntry"} [] k = 2 -> {"VIP_VOP_Testing", "other"} [] k = 3 -> VvTestItem
    [] k = 4 -> VvFormatItem [] k = 5 -> VvSizes [] OTHER -> VvYuvItem
VvOffers(call, k) ==
  /\ call.act = {j \in DOMAIN call.items : call.items[j].enable}
  /\ \A j \in call.act : call.items[j].func \in VvLevel(k + 1)

VvEntry == [func : VvFunc, allow_autotest : BOOLEAN, enable : BOOLEAN]
VvPc == {"off", "exit", "key", "item", "left", "back", "run", "shows"}
VvList == Seq(VvEntry)
VvCall == [func : VvFunc, items : VvList, act : SUBSET Nat, auto : BOOLEAN, item : Nat, err : {0, -1}, failed : BOOLEAN]
VvSelType == [flag : {"vop", "lcd", "color"}, format : {"ntsc", "pal"}, size : VvSizes \cup {"none"}, yuv : {420, 422}]
VvOnType == [vip : BOOLEAN, sizes : SUBSET VvSizes]
VvTyped ==
  /\ tmCalls \in Seq(VvCall)
  /\ tmDo \in [pc : VvPc, func : VvFunc, auto : {0, 1}, ret : {0, -1}]
  /\ tmName \in [0 .. 19 -> VvFunc]
  /\ vvSel \in VvSelType
  /\ vvOn \in VvOnType
VvVipType == [fs : Nat, f1 : {0, 1, 2}, f2 : {0, 1, 2}, format : {"ntsc", "pal"}, yuv : {420, 422}, on : BOOLEAN]
VvVopType == [fss : Nat, hw : SUBSET {1, 2}, format : {"ntsc", "pal"}, on : BOOLEAN, inte : BOOLEAN, int : BOOLEAN,
              isr : {"none", "one", "two"}, read : BOOLEAN]
VvFrameType == [y : Nat, c : Nat, lcd : BOOLEAN, yuv : {420, 422}]
VvChips == vvVip \in VvVipType /\ vvVop \in VvVopType /\ vvFrame \in VvFrameType

VvDepth == Len(tmCalls)
VvLcd(k) == VvDepth >= k /\ tmCalls[3].func = "socle_vip_to_lcd_test"
VvPath ==
  /\ VvDepth \in 0 .. 5 /\ (VvDepth = 0 <=> tmDo.pc \in {"off", "exit"})
  /\ VvDepth > 0 => tmLayer = VvDepth - 1
  /\ VvDepth = 5 => VvLcd(5)
  /\ \A k \in 1 .. VvDepth : tmCalls[k].func \in VvLevel(k) \ {"other"} /\ VvOffers(tmCalls[k], k)
  /\ \A k \in 2 .. VvDepth : tmName[k - 2] = tmCalls[k].func
  /\ tmDo.pc \in {"item", "left", "run", "shows"} => tmName[tmLayer] = tmDo.func /\ tmDo.func \in VvLevel(VvDepth + 1)
  /\ tmDo.pc = "left" => tmDo.func # "other"
  /\ tmDo.pc \in {"run", "shows"} => VvDepth = (IF VvLcd(4) THEN 5 ELSE 4)

(* What has been chosen is what the path says.                             *)
VvLcdLeft == tmDo.pc = "left" /\ tmDo.func = "socle_vip_to_lcd_test"
VvSizesOf(lcd) == IF lcd THEN {"socle_viop_qvga_test"} ELSE VvSizes
VvChosen ==
  /\ VvDepth >= 3 => vvSel.flag = VvFlagOf[tmCalls[3].func]
  /\ VvDepth >= 4 => vvSel.format = VvFormatOf[tmCalls[4].func]
                     /\ {tmCalls[4].items[j].func : j \in tmCalls[4].act} = VvSizesOf(VvLcd(4))
  /\ VvDepth = 5 => vvSel.size = tmCalls[5].func
  /\ vvOn.sizes = VvSizesOf(VvLcd(3) \/ VvLcdLeft)
  /\ tmDo.pc \in {"run", "shows"} =>
       /\ VvDepth = 4 => vvSel.size = tmDo.func
       /\ VvDepth = 5 => vvSel.yuv = IF tmDo.func = "socle_vip_422_test" THEN 422 ELSE 420

(* The devices while something is shown, and otherwise.                    *)
VvHeld == vvVop.hw # {} \/ vvVop.read \/ (vvVop.int /\ vvVop.inte /\ vvVop.isr # "none")
VvVopShows == vvVop.on /\ vvVop.inte /\ vvVop.format = vvSel.format /\ vvVop.fss = VvVopFSS[vvSel.size] /\ VvHeld
VvVipShows == vvVip.on /\ vvVip.format = vvSel.format /\ vvVip.fs = VvVipFS[vvSel.size] /\ vvVip.f1 = 1
VvDevices ==
  IF tmDo.pc # "shows"
  THEN ~vvVop.on /\ ~vvVop.inte /\ ~vvVop.read /\ ~vvVip.on /\ ~vvFrame.lcd
  ELSE CASE vvSel.flag = "vop" -> VvVopShows /\ VvVipShows /\ vvVop.isr = "two" /\ vvVip.f2 = 2 /\ ~vvFrame.lcd
         [] vvSel.flag = "lcd" -> ~vvVop.on /\ ~vvVop.inte /\ ~vvVop.read /\ VvVipShows /\ vvVip.f2 = 1 /\ vvFrame.lcd
                                  /\ vvVip.yuv = vvSel.yuv /\ vvFrame.yuv = vvSel.yuv
         [] OTHER -> /\ VvVopShows /\ ~vvVip.on /\ ~vvFrame.lcd /\ vvVop.isr = "one"
                     /\ vvFrame.y = socle_init_color_bar(vvSel.size).y /\ vvFrame.c = socle_init_color_bar(vvSel.size).c

(* A call has failed when its flag says so, or will when the call inside   *)
(* it has returned.                                                        *)
VvPending(k) == IF k < VvDepth THEN tmCalls[k + 1].failed ELSE tmDo.pc \in {"left", "back"} /\ tmDo.ret # 0
VvFailed ==
  /\ \A k \in 1 .. VvDepth :
       IF tmCalls[k].auto THEN tmCalls[k].failed <=> tmCalls[k].err # 0 \/ VvPending(k)
       ELSE tmCalls[k].err = 0 /\ ~tmCalls[k].failed
  /\ \A k \in 1 .. VvDepth - 1 : tmCalls[k].auto => tmCalls[k + 1].auto
  /\ tmDo.pc = "item" /\ tmCalls[VvDepth].auto => tmDo.auto = 1

VvInv == VvTyped /\ VvChips /\ VvPath /\ VvChosen /\ VvDevices /\ VvFailed

-----------------------------------------------------------------------------
(* The lists of items: well typed, and of the next level.                  *)
VvIsMenu(items, k) ==
  /\ items \in VvList
  /\ \A j \in test_item_get_act_items(items) : items[j].func \in VvLevel(k)

LEMMA VvTwo == ASSUME NEW S, NEW a \in S, NEW b \in S
  PROVE <<a, b>> \in Seq(S) /\ DOMAIN <<a, b>> = {1, 2}
OBVIOUS
LEMMA VvThree == ASSUME NEW S, NEW a \in S, NEW b \in S, NEW c \in S
  PROVE <<a, b, c>> \in Seq(S) /\ DOMAIN <<a, b, c>> = {1, 2, 3}
OBVIOUS
LEMMA VvFour == ASSUME NEW S, NEW a \in S, NEW b \in S, NEW c \in S, NEW d \in S
  PROVE <<a, b, c, d>> \in Seq(S) /\ DOMAIN <<a, b, c, d>> = {1, 2, 3, 4}
OBVIOUS
LEMMA VvMainMenu == VvIsMenu(VvMain, 2)
<1>1. VvMain \in VvList /\ DOMAIN VvMain = {1, 2, 3}
  <2>1. [func |-> "VIP_VOP_Testing", allow_autotest |-> TRUE, enable |-> TRUE] \in VvEntry
    BY DEF VvEntry, VvFunc, VvTestItem, VvFormatItem, VvSizes, VvYuvItem
  <2>2. [func |-> "other", allow_autotest |-> TRUE, enable |-> TRUE] \in VvEntry
    BY DEF VvEntry, VvFunc, VvTestItem, VvFormatItem, VvSizes, VvYuvItem
  <2>3. [func |-> "other", allow_autotest |-> FALSE, enable |-> TRUE] \in VvEntry
    BY DEF VvEntry, VvFunc, VvTestItem, VvFormatItem, VvSizes, VvYuvItem
  <2> QED  BY VvThree, <2>1, <2>2, <2>3 DEF VvList, VvMain, VvItem
<1>2. \A j \in {1, 2, 3} : VvMain[j].func \in {"VIP_VOP_Testing", "other"}
  BY DEF VvMain, VvItem
<1> QED  BY <1>1, <1>2 DEF VvIsMenu, test_item_get_act_items, VvLevel

LEMMA VvTestMenu == vvOn.vip \in BOOLEAN => VvIsMenu(socle_vip_vop_main_test_items, 3)
<1> SUFFICES ASSUME vvOn.vip \in BOOLEAN PROVE VvIsMenu(socle_vip_vop_main_test_items, 3)
  OBVIOUS
<1> DEFINE items == socle_vip_vop_main_test_items
<1>1. items \in VvList /\ DOMAIN items = {1, 2, 3, 4}
  <2>1. [func |-> "socle_vip_to_vop_test", allow_autotest |-> TRUE, enable |-> vvOn.vip] \in VvEntry
    BY DEF VvEntry, VvFunc, VvTestItem, VvFormatItem, VvSizes, VvYuvItem
  <2>2. [func |-> "socle_vop_to_vip_test", allow_autotest |-> FALSE, enable |-> FALSE] \in VvEntry
    BY DEF VvEntry, VvFunc, VvTestItem, VvFormatItem, VvSizes, VvYuvItem
  <2>3. [func |-> "socle_vip_to_lcd_test", allow_autotest |-> TRUE, enable |-> vvOn.vip] \in VvEntry
    BY DEF VvEntry, VvFunc, VvTestItem, VvFormatItem, VvSizes, VvYuvItem
  <2>4. [func |-> "socle_vop_color_display_test", allow_autotest |-> TRUE, enable |-> TRUE] \in VvEntry
    BY DEF VvEntry, VvFunc, VvTestItem, VvFormatItem, VvSizes, VvYuvItem
  <2> QED  BY VvFour, <2>1, <2>2, <2>3, <2>4 DEF VvList, socle_vip_vop_main_test_items, VvItem
<1>2. \A j \in {1, 3, 4} : items[j].func \in VvTestItem
  BY DEF socle_vip_vop_main_test_items, VvItem, VvTestItem
<1>3. ~items[2].enable
  BY DEF socle_vip_vop_main_test_items, VvItem
<1> HIDE DEF items
<1>4. test_item_get_act_items(items) \subseteq {1, 3, 4}
  BY <1>1, <1>3 DEF test_item_get_act_items
<1>5. VvLevel(3) = VvTestItem  BY DEF VvLevel
<1>6. \A j \in test_item_get_act_items(items) : items[j].func \in VvLevel(3)
  BY <1>2, <1>4, <1>5
<1> QED  BY <1>1, <1>6 DEF VvIsMenu, items

LEMMA VvFormatMenu == VvIsMenu(socle_viop_format_test_items, 4)
<1> DEFINE items == socle_viop_format_test_items
<1>1. items \in VvList /\ DOMAIN items = {1, 2}
  <2>1. [func |-> "socle_viop_ntsc_test", allow_autotest |-> TRUE, enable |-> TRUE] \in VvEntry
    BY DEF VvEntry, VvFunc, VvTestItem, VvFormatItem, VvSizes, VvYuvItem
  <2>2. [func |-> "socle_viop_pal_test", allow_autotest |-> TRUE, enable |-> TRUE] \in VvEntry
    BY DEF VvEntry, VvFunc, VvTestItem, VvFormatItem, VvSizes, VvYuvItem
  <2> QED  BY VvTwo, <2>1, <2>2 DEF VvList, socle_viop_format_test_items, VvItem
<1>2. \A j \in {1, 2} : items[j].func \in VvFormatItem
  BY DEF socle_viop_format_test_items, VvItem, VvFormatItem
<1> QED  BY <1>1, <1>2 DEF VvIsMenu, test_item_get_act_items, VvLevel

LEMMA VvYuvMenu == VvIsMenu(socle_vip_42x_test_items, 6)
<1> DEFINE items == socle_vip_42x_test_items
<1>1. items \in VvList /\ DOMAIN items = {1, 2}
  <2>1. [func |-> "socle_vip_420_test", allow_autotest |-> TRUE, enable |-> TRUE] \in VvEntry
    BY DEF VvEntry, VvFunc, VvTestItem, VvFormatItem, VvSizes, VvYuvItem
  <2>2. [func |-> "socle_vip_422_test", allow_autotest |-> TRUE, enable |-> TRUE] \in VvEntry
    BY DEF VvEntry, VvFunc, VvTestItem, VvFormatItem, VvSizes, VvYuvItem
  <2> QED  BY VvTwo, <2>1, <2>2 DEF VvList, socle_vip_42x_test_items, VvItem
<1>2. \A j \in {1, 2} : items[j].func \in VvYuvItem
  BY DEF socle_vip_42x_test_items, VvItem, VvYuvItem
<1> QED  BY <1>1, <1>2 DEF VvIsMenu, test_item_get_act_items, VvLevel

LEMMA VvSizeMenu ==
  vvOn.sizes \subseteq VvSizes =>
    /\ VvIsMenu(socle_viop_size_test_items, 5)
    /\ {socle_viop_size_test_items[j].func : j \in test_item_get_act_items(socle_viop_size_test_items)} = vvOn.sizes
<1> DEFINE items == socle_viop_size_test_items
<1>1. items \in VvList /\ DOMAIN items = {1, 2, 3, 4}
  <2>1. [func |-> "socle_viop_cif_test", allow_autotest |-> TRUE, enable |-> "socle_viop_cif_test" \in vvOn.sizes] \in VvEntry
    BY DEF VvEntry, VvFunc, VvTestItem, VvFormatItem, VvSizes, VvYuvItem
  <2>2. [func |-> "socle_viop_qvga_test", allow_autotest |-> TRUE, enable |-> "socle_viop_qvga_test" \in vvOn.sizes] \in VvEntry
    BY DEF VvEntry, VvFunc, VvTestItem, VvFormatItem, VvSizes, VvYuvItem
  <2>3. [func |-> "socle_viop_vga_test", allow_autotest |-> TRUE, enable |-> "socle_viop_vga_test" \in vvOn.sizes] \in VvEntry
    BY DEF VvEntry, VvFunc, VvTestItem, VvFormatItem, VvSizes, VvYuvItem
  <2>4. [func |-> "socle_viop_d1_test", allow_autotest |-> TRUE, enable |-> "socle_viop_d1_test" \in vvOn.sizes] \in VvEntry
    BY DEF VvEntry, VvFunc, VvTestItem, VvFormatItem, VvSizes, VvYuvItem
  <2> QED  BY VvFour, <2>1, <2>2, <2>3, <2>4 DEF VvList, socle_viop_size_test_items, VvItem
<1>2. \A j \in {1, 2, 3, 4} : items[j].func \in VvSizes /\ (items[j].enable <=> items[j].func \in vvOn.sizes)
  <2> DEFINE f(j) == <<"socle_viop_cif_test", "socle_viop_qvga_test", "socle_viop_vga_test", "socle_viop_d1_test">>[j]
  <2>1. \A j \in {1, 2, 3, 4} : items[j].func = f(j)
    BY DEF socle_viop_size_test_items, VvItem
  <2>2. \A j \in {1, 2, 3, 4} : items[j].enable <=> f(j) \in vvOn.sizes
    <3>1. items[1].enable <=> f(1) \in vvOn.sizes  BY DEF socle_viop_size_test_items, VvItem
    <3>2. items[2].enable <=> f(2) \in vvOn.sizes  BY DEF socle_viop_size_test_items, VvItem
    <3>3. items[3].enable <=> f(3) \in vvOn.sizes  BY DEF socle_viop_size_test_items, VvItem
    <3>4. items[4].enable <=> f(4) \in vvOn.sizes  BY DEF socle_viop_size_test_items, VvItem
    <3> HIDE DEF items, f
    <3> QED  BY <3>1, <3>2, <3>3, <3>4
  <2>3. \A j \in {1, 2, 3, 4} : f(j) \in VvSizes
    BY DEF VvSizes
  <2> HIDE DEF items, f
  <2> QED  BY <2>1, <2>2, <2>3
<1>3. \A size \in VvSizes : \E j \in {1, 2, 3, 4} : items[j].func = size
  <2>1. items[1].func = "socle_viop_cif_test"  BY DEF socle_viop_size_test_items, VvItem
  <2>2. items[2].func = "socle_viop_qvga_test"  BY DEF socle_viop_size_test_items, VvItem
  <2>3. items[3].func = "socle_viop_vga_test"  BY DEF socle_viop_size_test_items, VvItem
  <2>4. items[4].func = "socle_viop_d1_test"  BY DEF socle_viop_size_test_items, VvItem
  <2> QED  BY <2>1, <2>2, <2>3, <2>4 DEF VvSizes
<1> HIDE DEF items
<1> QED  BY <1>1, <1>2, <1>3 DEF VvIsMenu, test_item_get_act_items, VvLevel, items

(* The stack.                                                              *)
VvSame ==
  /\ tmCalls' \in Seq(VvCall) /\ Len(tmCalls') = VvDepth
  /\ \A k \in 1 .. VvDepth : /\ tmCalls'[k].func = tmCalls[k].func /\ tmCalls'[k].items = tmCalls[k].items
                             /\ tmCalls'[k].act = tmCalls[k].act

LEMMA VvCallChanges ==
  /\ \A call \in VvCall, k \in Nat : [call EXCEPT !.err = 0, !.item = k] \in VvCall
  /\ \A call \in VvCall : [call EXCEPT !.auto = TRUE, !.item = 1, !.err = 0] \in VvCall
  /\ \A call \in VvCall : [call EXCEPT !.item = @ + 1] \in VvCall
  /\ \A call \in VvCall, err \in {0, -1}, k \in Nat : [call EXCEPT !.err = err, !.item = k] \in VvCall
  /\ \A call \in VvCall, failed \in BOOLEAN : [call EXCEPT !.failed = failed] \in VvCall
<1>1. \A call \in VvCall, k \in Nat : [call EXCEPT !.err = 0, !.item = k] \in VvCall  BY DEF VvCall
<1>2. \A call \in VvCall : [call EXCEPT !.auto = TRUE, !.item = 1, !.err = 0] \in VvCall  BY DEF VvCall
<1>3. \A call \in VvCall : [call EXCEPT !.item = @ + 1] \in VvCall  BY DEF VvCall
<1>4. \A call \in VvCall, err \in {0, -1}, k \in Nat : [call EXCEPT !.err = err, !.item = k] \in VvCall  BY DEF VvCall
<1>5. \A call \in VvCall, failed \in BOOLEAN : [call EXCEPT !.failed = failed] \in VvCall  BY DEF VvCall
<1> QED  BY <1>1, <1>2, <1>3, <1>4, <1>5

(* One call changes, the innermost.                                        *)
LEMMA VvTopChanges ==
  ASSUME tmCalls \in Seq(VvCall), VvDepth > 0, NEW call \in VvCall, tmCalls' = [tmCalls EXCEPT ![VvDepth] = call],
         call.func = TmTop.func, call.items = TmTop.items, call.act = TmTop.act
  PROVE  VvSame /\ TmTop' = call /\ \A k \in 1 .. VvDepth - 1 : tmCalls'[k] = tmCalls[k]
BY DEF VvSame, TmTop, TmInner, VvDepth

LEMMA VvFront == ASSUME NEW S, NEW s \in Seq(S), NEW n \in Nat, n <= Len(s)
  PROVE  SubSeq(s, 1, n) \in Seq(S) /\ Len(SubSeq(s, 1, n)) = n /\ \A k \in 1 .. n : SubSeq(s, 1, n)[k] = s[k]
OBVIOUS

LEMMA VvSeqOf == ASSUME NEW S, NEW n \in Nat, NEW f \in [1 .. n -> S]
  PROVE  f \in Seq(S) /\ Len(f) = n
OBVIOUS

LEMMA VvPops ==
  ASSUME tmCalls \in Seq(VvCall), VvDepth > 0, tmCalls' = SubSeq(tmCalls, 1, TmInner - 1)
  PROVE  /\ tmCalls' \in Seq(VvCall) /\ Len(tmCalls') = VvDepth - 1
         /\ \A k \in 1 .. VvDepth - 1 : tmCalls'[k] = tmCalls[k]
<1>1. TmInner - 1 \in Nat /\ TmInner - 1 <= Len(tmCalls) /\ TmInner = VvDepth  BY DEF VvDepth, TmInner
<1> QED  BY <1>1, VvFront

LEMMA VvPushes ==
  ASSUME tmCalls \in Seq(VvCall), NEW call \in VvCall, tmCalls' = Append(tmCalls, call)
  PROVE  /\ tmCalls' \in Seq(VvCall) /\ Len(tmCalls') = VvDepth + 1 /\ tmCalls'[VvDepth + 1] = call
         /\ \A k \in 1 .. VvDepth : tmCalls'[k] = tmCalls[k]
BY DEF VvDepth

LEMMA VvSamePath ==
  ASSUME VvTyped, VvPath, VvSame, tmLayer' = tmLayer, tmDo'.pc \notin {"off", "exit", "left", "run", "shows"},
         VvDepth > 0, \A k \in 2 .. VvDepth : tmName'[k - 2] = tmName[k - 2],
         tmDo'.pc = "item" => tmName'[tmLayer] = tmDo'.func /\ tmDo'.func \in VvLevel(VvDepth + 1)
  PROVE  VvPath'
<1>1. VvDepth' = VvDepth /\ VvDepth \in 0 .. 5  BY DEF VvSame, VvDepth, VvPath
<1>2. VvLcd(5)' = VvLcd(5)  BY <1>1 DEF VvSame, VvLcd
<1>3. \A k \in 1 .. VvDepth : tmCalls'[k].func \in VvLevel(k) \ {"other"} /\ VvOffers(tmCalls'[k], k)
  BY DEF VvSame, VvPath, VvOffers
<1>4. \A k \in 2 .. VvDepth : tmName'[k - 2] = tmCalls'[k].func
  BY <1>1 DEF VvSame, VvPath
<1> QED  BY <1>1, <1>2, <1>3, <1>4 DEF VvPath

LEMMA VvSameChosen ==
  ASSUME VvTyped, VvPath, VvChosen, VvSame, tmDo'.pc \notin {"off", "exit", "left", "run", "shows"}, ~VvLcdLeft, UNCHANGED <<vvSel, vvOn>>
  PROVE  VvChosen'
<1>1. VvDepth' = VvDepth /\ VvDepth \in 0 .. 5  BY DEF VvSame, VvDepth, VvPath
<1>2. VvLcd(3)' = VvLcd(3) /\ VvLcd(4)' = VvLcd(4)  BY <1>1 DEF VvSame, VvLcd
<1>3. VvDepth >= 3 => tmCalls'[3].func = tmCalls[3].func  BY <1>1 DEF VvSame
<1>4. VvDepth >= 4 => tmCalls'[4].func = tmCalls[4].func /\ tmCalls'[4].items = tmCalls[4].items /\ tmCalls'[4].act = tmCalls[4].act
  BY <1>1 DEF VvSame
<1>5. VvDepth = 5 => tmCalls'[5].func = tmCalls[5].func  BY <1>1 DEF VvSame
<1>6. ~VvLcdLeft'  BY DEF VvLcdLeft
<1> QED  BY <1>1, <1>2, <1>3, <1>4, <1>5, <1>6 DEF VvChosen

LEMMA VvNothingShown ==
  ASSUME VvChips, VvDevices, tmDo.pc # "shows", tmDo'.pc # "shows", UNCHANGED <<vvVip, vvVop, vvFrame>>
  PROVE  VvChips' /\ VvDevices'
BY DEF VvChips, VvDevices

(* An item is called.                                                      *)
LEMMA VvCallsAnItem ==
  ASSUME VvInv, tmDo.pc = "key", NEW k \in TmTop.act, NEW auto \in {0, 1}, TmCallsItem(k, auto), VvSame, tmLayer' = tmLayer,
         \A j \in 1 .. VvDepth - 1 : tmCalls'[j] = tmCalls[j],
         TmTop'.auto = TmTop.auto, TmTop'.failed = TmTop.failed,
         TmTop.auto => auto = 1 /\ TmTop'.err = TmTop.err, ~TmTop.auto => TmTop'.err = 0,
         UNCHANGED <<vvSel, vvOn, vvVip, vvVop, vvFrame>>
  PROVE  VvInv'
<1>1. VvDepth \in 1 .. 5 /\ tmLayer = VvDepth - 1  BY DEF VvInv, VvPath
<1> DEFINE f == TmTop.items[k].func
<1>2. TmTop \in VvCall /\ TmTop = tmCalls[VvDepth]
  <2>1. tmCalls \in Seq(VvCall)  BY DEF VvInv, VvTyped
  <2>3. Len(tmCalls) \in 1 .. Len(tmCalls)
    <3>1. Len(tmCalls) \in 1 .. 5  BY <1>1 DEF VvDepth
    <3>2. \A n \in 1 .. 5 : n \in 1 .. n  OBVIOUS
    <3> QED  BY <3>1, <3>2, Zenon
  <2>2. tmCalls[Len(tmCalls)] \in VvCall  BY <2>1, <2>3, ElementOfSeq
  <2> QED  BY <2>2 DEF TmTop, TmInner, VvDepth
<1>3. f \in VvLevel(VvDepth + 1)  BY <1>1, <1>2 DEF VvInv, VvPath, VvOffers
<1>4. f \in VvFunc  BY <1>1, <1>3 DEF VvLevel, VvFunc
<1>5. tmDo' = TmDo("item", f, auto, 0) /\ tmName' = [tmName EXCEPT ![VvDepth - 1] = f]  BY <1>1 DEF TmCallsItem
<1> HIDE DEF f
<1>6. VvTyped'
  <2>1. tmName' \in [0 .. 19 -> VvFunc]
    <3>1. tmName \in [0 .. 19 -> VvFunc]  BY DEF VvInv, VvTyped
    <3> QED  BY <1>4, <1>5, <3>1
  <2>2. TmDo("item", f, auto, 0) \in [pc : VvPc, func : VvFunc, auto : {0, 1}, ret : {0, -1}]
    BY <1>4 DEF TmDo, VvPc
  <2>3. VvTyped  BY DEF VvInv
  <2>4. vvSel' = vvSel /\ vvOn' = vvOn /\ tmCalls' \in Seq(VvCall)  BY DEF VvSame
  <2> QED  BY <1>5, <2>1, <2>2, <2>3, <2>4 DEF VvTyped
<1>7. tmDo'.pc = "item" /\ tmDo'.func = f /\ tmDo'.auto = auto  BY <1>5 DEF TmDo
<1>8. tmName'[VvDepth - 1] = f /\ \A j \in 2 .. VvDepth : tmName'[j - 2] = tmName[j - 2]
  <2>1. tmName \in [0 .. 19 -> VvFunc]  BY DEF VvInv, VvTyped
  <2>2. VvDepth - 1 \in 0 .. 19 /\ \A j \in 2 .. VvDepth : j - 2 \in 0 .. 19 /\ j - 2 # VvDepth - 1  BY <1>1
  <2> QED  BY <1>5, <2>1, <2>2
<1>9. VvPath'  BY <1>1, <1>3, <1>7, <1>8, VvSamePath DEF VvInv
<1>10. VvChosen'  BY <1>7, VvSameChosen DEF VvInv, VvLcdLeft
<1>11. VvChips' /\ VvDevices'  BY <1>7, VvNothingShown DEF VvInv
<1>12. VvFailed'
  <2>1. VvDepth' = VvDepth /\ TmTop' = tmCalls'[VvDepth]  BY DEF VvSame, VvDepth, TmTop, TmInner
  <2>2. \A j \in 1 .. VvDepth : tmCalls'[j].auto = tmCalls[j].auto /\ tmCalls'[j].failed = tmCalls[j].failed
    BY <1>1, <1>2, <2>1
  <2>3. \A j \in 1 .. VvDepth : IF tmCalls[j].auto THEN tmCalls'[j].err = tmCalls[j].err ELSE tmCalls'[j].err = 0
    BY <1>1, <1>2, <2>1 DEF VvInv, VvFailed
  <2>4. \A j \in 1 .. VvDepth : VvPending(j)' = VvPending(j)
    <3>1. \A j \in 1 .. VvDepth : j < VvDepth => j + 1 \in 1 .. VvDepth  BY <1>1
    <3>2. \A j \in 1 .. VvDepth : j < VvDepth => tmCalls'[j + 1].failed = tmCalls[j + 1].failed  BY <2>2, <3>1
    <3>3. tmDo.pc \notin {"left", "back"} /\ tmDo'.pc \notin {"left", "back"}  BY <1>7
    <3> QED  BY <2>1, <3>2, <3>3 DEF VvPending
  <2>5. \A j \in 1 .. VvDepth : IF tmCalls'[j].auto THEN tmCalls'[j].failed <=> tmCalls'[j].err # 0 \/ VvPending(j)'
                                ELSE tmCalls'[j].err = 0 /\ ~tmCalls'[j].failed
    BY <2>2, <2>3, <2>4 DEF VvInv, VvFailed
  <2>6. \A j \in 1 .. VvDepth - 1 : tmCalls'[j].auto => tmCalls'[j + 1].auto
    BY <1>1, <2>2 DEF VvInv, VvFailed
  <2>7. tmCalls'[VvDepth].auto => tmDo'.auto = 1  BY <1>2, <1>7, <2>1
  <2> QED  BY <2>1, <2>5, <2>6, <2>7 DEF VvFailed
<1> QED  BY <1>6, <1>9, <1>10, <1>11, <1>12 DEF VvInv

(* A menu goes on with the next key or item.                               *)
LEMMA VvGoesOn ==
  ASSUME VvInv, tmDo.pc \in {"key", "back"}, VvSame, tmDo' \in {tmDo, TmNone}, tmDo'.pc = "key", UNCHANGED <<tmLayer, tmName>>,
         \A j \in 1 .. VvDepth - 1 : tmCalls'[j] = tmCalls[j],
         TmTop'.failed = TmTop.failed, TmTop.auto => TmTop'.auto,
         IF TmTop'.auto THEN TmTop'.failed <=> TmTop'.err # 0 ELSE TmTop'.err = 0 /\ ~TmTop'.failed,
         UNCHANGED <<vvSel, vvOn, vvVip, vvVop, vvFrame>>
  PROVE  VvInv'
<1>1. VvDepth \in 1 .. 5 /\ tmLayer = VvDepth - 1  BY DEF VvInv, VvPath
<1>2. tmDo'.pc = "key"  OBVIOUS
<1>3. VvTyped'
  <2>1. TmNone \in [pc : VvPc, func : VvFunc, auto : {0, 1}, ret : {0, -1}]  BY DEF TmNone, TmDo, VvPc, VvFunc
  <2>2. VvTyped  BY DEF VvInv
  <2>3. tmCalls' \in Seq(VvCall)  BY DEF VvSame
  <2> QED  BY <2>1, <2>2, <2>3 DEF VvTyped
<1>4. VvPath'  BY <1>1, <1>2, VvSamePath DEF VvInv
<1>5. VvChosen'  BY <1>2, VvSameChosen DEF VvInv, VvLcdLeft
<1>6. VvChips' /\ VvDevices'  BY <1>2, VvNothingShown DEF VvInv
<1>7. VvFailed'
  <2>1. VvDepth' = VvDepth /\ TmTop' = tmCalls'[VvDepth] /\ TmTop = tmCalls[VvDepth]
    BY DEF VvSame, VvDepth, TmTop, TmInner
  <2>2. \A j \in 1 .. VvDepth - 1 : tmCalls'[j].auto = tmCalls[j].auto /\ tmCalls'[j].failed = tmCalls[j].failed /\ tmCalls'[j].err = tmCalls[j].err
    OBVIOUS
  <2>3. \A j \in 1 .. VvDepth - 1 : VvPending(j)' = VvPending(j)
    BY <1>1, <2>1, <2>2 DEF VvPending
  <2>4. ~VvPending(VvDepth)'
    BY <1>1, <1>2, <2>1 DEF VvPending
  <2>5. \A j \in 1 .. VvDepth : IF tmCalls'[j].auto THEN tmCalls'[j].failed <=> tmCalls'[j].err # 0 \/ VvPending(j)'
                                ELSE tmCalls'[j].err = 0 /\ ~tmCalls'[j].failed
    <3> SUFFICES ASSUME NEW j \in 1 .. VvDepth
                 PROVE  IF tmCalls'[j].auto THEN tmCalls'[j].failed <=> tmCalls'[j].err # 0 \/ VvPending(j)'
                        ELSE tmCalls'[j].err = 0 /\ ~tmCalls'[j].failed
      OBVIOUS
    <3>1. CASE j = VvDepth  BY <2>1, <2>4, <3>1
    <3>2. CASE j # VvDepth
      <4>1. j \in 1 .. VvDepth - 1  BY <1>1, <3>2
      <4> QED  BY <2>2, <2>3, <4>1 DEF VvInv, VvFailed
    <3> QED  BY <3>1, <3>2
  <2>6. \A j \in 1 .. VvDepth - 1 : tmCalls'[j].auto => tmCalls'[j + 1].auto
    <3> SUFFICES ASSUME NEW j \in 1 .. VvDepth - 1, tmCalls'[j].auto PROVE tmCalls'[j + 1].auto
      OBVIOUS
    <3>1. tmCalls[j + 1].auto  BY <2>2 DEF VvInv, VvFailed
    <3>2. j + 1 = VvDepth \/ j + 1 \in 1 .. VvDepth - 1  BY <1>1
    <3> QED  BY <2>1, <2>2, <3>1, <3>2
  <2> QED  BY <1>2, <2>1, <2>5, <2>6 DEF VvFailed
<1> QED  BY <1>3, <1>4, <1>5, <1>6, <1>7 DEF VvInv

(* A menu is left.                                                         *)
LEMMA VvLeaves ==
  ASSUME VvInv, tmDo.pc = "key", VvDepth > 0, NEW err \in {0, -1}, TmReturns(err),
         TmTop.failed <=> err # 0,
         UNCHANGED <<vvSel, vvOn, vvVip, vvVop, vvFrame>>
  PROVE  VvInv'
<1>1. VvDepth \in 1 .. 5 /\ tmLayer = VvDepth - 1 /\ TmInner = VvDepth  BY DEF VvInv, VvPath, TmInner, VvDepth
<1>2. VvTyped  BY DEF VvInv
<1>3. tmCalls \in Seq(VvCall)  BY <1>2 DEF VvTyped
<1>4. TmTop = tmCalls[VvDepth] /\ TmTop \in VvCall  BY <1>1, <1>3 DEF TmTop, VvDepth
<1>5. tmCalls' \in Seq(VvCall) /\ VvDepth' = VvDepth - 1 /\ \A k \in 1 .. VvDepth - 1 : tmCalls'[k] = tmCalls[k]
  BY <1>1, <1>3, VvPops DEF TmReturns, VvDepth
<1> DEFINE pc == IF VvDepth = 1 THEN "exit" ELSE "left"
<1>6. tmDo' = [pc |-> pc, func |-> TmTop.func, auto |-> 0, ret |-> err] /\ tmName' = tmName /\ tmLayer' = tmLayer - 1
  BY <1>1 DEF TmReturns, TmDo
<1>7. tmDo'.pc = pc /\ tmDo'.func = TmTop.func /\ tmDo'.ret = err  BY <1>6
<1>8. VvTyped'
  <2>1. TmTop.func \in VvFunc  BY <1>4 DEF VvCall
  <2>2. [pc |-> pc, func |-> TmTop.func, auto |-> 0, ret |-> err] \in [pc : VvPc, func : VvFunc, auto : {0, 1}, ret : {0, -1}]
    BY <2>1 DEF VvPc
  <2> QED  BY <1>2, <1>5, <1>6, <2>2 DEF VvTyped
<1>9. VvPath'
  <2>1. VvDepth' \in 0 .. 5 /\ (VvDepth' = 0 <=> tmDo'.pc \in {"off", "exit"}) /\ VvDepth' < 5
    BY <1>1, <1>5, <1>7
  <2>2. VvDepth' > 0 => tmLayer' = VvDepth' - 1  BY <1>1, <1>5, <1>6
  <2>3. \A k \in 1 .. VvDepth' : tmCalls'[k].func \in VvLevel(k) \ {"other"} /\ VvOffers(tmCalls'[k], k)
    BY <1>1, <1>5 DEF VvInv, VvPath
  <2>4. \A k \in 2 .. VvDepth' : tmName'[k - 2] = tmCalls'[k].func
    BY <1>1, <1>5, <1>6 DEF VvInv, VvPath
  <2>5. tmDo'.pc = "left" => tmName'[tmLayer'] = tmDo'.func /\ tmDo'.func \in VvLevel(VvDepth' + 1) \ {"other"}
    <3> SUFFICES ASSUME VvDepth > 1 PROVE tmName[VvDepth - 2] = TmTop.func /\ TmTop.func \in VvLevel(VvDepth) \ {"other"}
      BY <1>1, <1>5, <1>6, <1>7
    <3> QED  BY <1>1, <1>4 DEF VvInv, VvPath
  <2> QED  BY <1>7, <2>1, <2>2, <2>3, <2>4, <2>5 DEF VvPath
<1>10. VvChosen'
  <2>1. VvDepth' = VvDepth - 1 /\ VvDepth \in 1 .. 5  BY <1>1, <1>5
  <2>2. VvDepth = 3 => (VvLcdLeft' <=> VvLcd(3))
    BY <1>4, <1>7, <2>1 DEF VvLcd, VvLcdLeft
  <2>3. VvDepth # 3 => ~VvLcdLeft'
    <3> SUFFICES ASSUME VvDepth # 3, VvLcdLeft' PROVE FALSE
      OBVIOUS
    <3>1. TmTop.func \in VvLevel(VvDepth) /\ TmTop.func = "socle_vip_to_lcd_test"
      BY <1>1, <1>4, <1>7 DEF VvInv, VvPath, VvLcdLeft
    <3> QED  BY <2>1, <3>1 DEF VvLevel, VvFormatItem, VvSizes, VvYuvItem
  <2>4. VvDepth > 3 => VvLcd(3)' = VvLcd(3)
    BY <1>5, <2>1 DEF VvLcd
  <2>5. VvDepth > 4 => VvLcd(4)' = VvLcd(4)
    BY <1>5, <2>1 DEF VvLcd
  <2>6. VvDepth < 4 => ~VvLcd(3)' /\ (VvDepth < 3 => ~VvLcd(3))
    BY <2>1 DEF VvLcd
  <2>7. ~VvLcdLeft /\ vvSel' = vvSel /\ vvOn' = vvOn  BY DEF VvLcdLeft
  <2>8. VvDepth' >= 3 => vvSel'.flag = VvFlagOf[tmCalls'[3].func]
    BY <1>5, <2>1, <2>7 DEF VvInv, VvChosen
  <2>9. VvDepth' >= 4 => vvSel'.format = VvFormatOf[tmCalls'[4].func]
                         /\ {tmCalls'[4].items[j].func : j \in tmCalls'[4].act} = VvSizesOf(VvLcd(4)')
    BY <1>5, <2>1, <2>5, <2>7 DEF VvInv, VvChosen
  <2>10. vvOn'.sizes = VvSizesOf(VvLcd(3)' \/ VvLcdLeft')
    <3>1. (VvLcd(3)' \/ VvLcdLeft') <=> (VvLcd(3) \/ VvLcdLeft)
      BY <2>1, <2>2, <2>3, <2>4, <2>6, <2>7
    <3>2. vvOn.sizes = VvSizesOf(VvLcd(3) \/ VvLcdLeft)  BY DEF VvInv, VvChosen
    <3> QED  BY <2>7, <3>1, <3>2 DEF VvSizesOf
  <2> QED  BY <1>7, <2>1, <2>8, <2>9, <2>10 DEF VvChosen
<1>11. VvChips' /\ VvDevices'  BY <1>7, VvNothingShown DEF VvInv
<1>12. VvFailed'
  <2>1. \A j \in 1 .. VvDepth - 1 : VvPending(j)' <=> VvPending(j)
    <3> SUFFICES ASSUME NEW j \in 1 .. VvDepth - 1 PROVE VvPending(j)' <=> VvPending(j)
      OBVIOUS
    <3>1. CASE j = VvDepth - 1  BY <1>1, <1>4, <1>5, <1>7, <3>1 DEF VvPending
    <3>2. CASE j # VvDepth - 1
      <4>1. j < VvDepth' /\ j < VvDepth /\ tmCalls'[j + 1] = tmCalls[j + 1]  BY <1>1, <1>5, <3>2
      <4> QED  BY <4>1 DEF VvPending
    <3> QED  BY <3>1, <3>2
  <2>2. \A j \in 1 .. VvDepth' : IF tmCalls'[j].auto THEN tmCalls'[j].failed <=> tmCalls'[j].err # 0 \/ VvPending(j)'
                                 ELSE tmCalls'[j].err = 0 /\ ~tmCalls'[j].failed
    <3> SUFFICES ASSUME NEW j \in 1 .. VvDepth'
                 PROVE  IF tmCalls'[j].auto THEN tmCalls'[j].failed <=> tmCalls'[j].err # 0 \/ VvPending(j)'
                        ELSE tmCalls'[j].err = 0 /\ ~tmCalls'[j].failed
      OBVIOUS
    <3>1. j \in 1 .. VvDepth - 1 /\ j \in 1 .. VvDepth  BY <1>1, <1>5
    <3>2. IF tmCalls[j].auto THEN tmCalls[j].failed <=> tmCalls[j].err # 0 \/ VvPending(j)
          ELSE tmCalls[j].err = 0 /\ ~tmCalls[j].failed
      BY <3>1 DEF VvInv, VvFailed
    <3> QED  BY <1>5, <2>1, <3>1, <3>2
  <2>3. \A j \in 1 .. VvDepth' - 1 : tmCalls'[j].auto => tmCalls'[j + 1].auto
    BY <1>1, <1>5 DEF VvInv, VvFailed
  <2> QED  BY <1>7, <2>2, <2>3 DEF VvFailed
<1> QED  BY <1>8, <1>9, <1>10, <1>11, <1>12 DEF VvInv

(* The shell itself.                                                       *)
LEMMA VvShell ==
  ASSUME VvInv, TmStep, UNCHANGED <<vvSel, vvOn, vvVip, vvVop, vvFrame>>
  PROVE  VvInv'
<1>1. VvTyped  BY DEF VvInv
<1>2. tmCalls \in Seq(VvCall)  BY <1>1 DEF VvTyped
<1>3. tmDo.pc \in {"key", "back"} => VvDepth > 0 /\ TmInner = VvDepth /\ TmTop = tmCalls[VvDepth] /\ TmTop \in VvCall
  BY <1>2 DEF VvInv, VvPath, VvDepth, TmInner, TmTop
<1>4. tmDo.pc = "key" => IF TmTop.auto THEN TmTop.failed <=> TmTop.err # 0 ELSE TmTop.err = 0 /\ ~TmTop.failed
  <2>1. tmDo.pc = "key" => ~VvPending(VvDepth)  BY <1>2 DEF VvPending, VvDepth
  <2>2. tmDo.pc = "key" => VvDepth \in 1 .. VvDepth  BY <1>2, <1>3 DEF VvDepth
  <2> QED  BY <1>3, <2>1, <2>2 DEF VvInv, VvFailed
<1>5. CASE TmNumber
  <2>1. PICK k \in TmTop.act : TmCallsItem(k, 0) /\ tmCalls' = [tmCalls EXCEPT ![TmInner].err = 0, ![TmInner].item = k]
    BY <1>5 DEF TmNumber
  <2>2. tmDo.pc = "key" /\ ~TmTop.auto /\ tmLayer' = tmLayer  BY <1>5 DEF TmNumber, TmAsks
  <2> DEFINE call == [TmTop EXCEPT !.err = 0, !.item = k]
  <2>3. tmCalls' = [tmCalls EXCEPT ![VvDepth] = call]  BY <1>2, <1>3, <2>1, <2>2 DEF VvDepth
  <2>4. k \in Nat  BY <1>3, <2>2 DEF VvCall
  <2>5. call \in VvCall  BY <1>3, <2>2, <2>4, VvCallChanges
  <2>6. /\ call.func = TmTop.func /\ call.items = TmTop.items /\ call.act = TmTop.act
        /\ call.auto = TmTop.auto /\ call.failed = TmTop.failed /\ call.err = 0
    BY <1>3, <2>2 DEF VvCall
  <2> HIDE DEF call
  <2>7. VvSame /\ TmTop' = call /\ \A j \in 1 .. VvDepth - 1 : tmCalls'[j] = tmCalls[j]
    BY <1>2, <1>3, <2>2, <2>3, <2>5, <2>6, VvTopChanges
  <2> QED  BY <2>1, <2>2, <2>6, <2>7, VvCallsAnItem
<1>6. CASE TmZ
  <2>1. tmDo.pc = "key" /\ ~TmTop.auto  BY <1>6 DEF TmZ, TmAsks
  <2> DEFINE call == [TmTop EXCEPT !.auto = TRUE, !.item = 1, !.err = 0]
  <2>2. tmCalls' = [tmCalls EXCEPT ![VvDepth] = call]  BY <1>2, <1>3, <1>6, <2>1 DEF VvDepth, TmZ
  <2>3. call \in VvCall  BY <1>3, <2>1, VvCallChanges
  <2>4. /\ call.func = TmTop.func /\ call.items = TmTop.items /\ call.act = TmTop.act
        /\ call.auto /\ call.failed = TmTop.failed /\ call.err = 0
    BY <1>3, <2>1 DEF VvCall
  <2> HIDE DEF call
  <2>5. VvSame /\ TmTop' = call /\ \A j \in 1 .. VvDepth - 1 : tmCalls'[j] = tmCalls[j]
    BY <1>2, <1>3, <2>1, <2>2, <2>3, <2>4, VvTopChanges
  <2>6. tmDo' = tmDo /\ UNCHANGED <<tmLayer, tmName>> /\ ~TmTop.failed  BY <1>4, <1>6, <2>1 DEF TmZ
  <2> QED  BY <2>1, <2>4, <2>5, <2>6, VvGoesOn
<1>7. CASE TmX
  <2>1. tmDo.pc = "key" /\ ~TmTop.auto /\ TmReturns(0)  BY <1>7 DEF TmX, TmAsks
  <2> QED  BY <1>3, <1>4, <2>1, VvLeaves
<1>8. CASE TmAutomatic
  <2>1. tmDo.pc = "key" /\ TmTop.auto  BY <1>8 DEF TmAutomatic
  <2>2. CASE TmTop.item > Len(TmTop.items)
    <3>1. TmReturns(TmTop.err)  BY <1>8, <2>2 DEF TmAutomatic
    <3>2. TmTop.err \in {0, -1}  BY <1>3, <2>1 DEF VvCall
    <3> QED  BY <1>3, <1>4, <2>1, <3>1, <3>2, VvLeaves
  <2>3. CASE ~(TmTop.item > Len(TmTop.items)) /\ TmTop.item \in TmTop.act /\ TmTop.items[TmTop.item].allow_autotest
    <3>1. TmCallsItem(TmTop.item, 1) /\ tmCalls' = tmCalls /\ tmLayer' = tmLayer  BY <1>8, <2>3 DEF TmAutomatic
    <3>2. VvSame /\ TmTop' = TmTop  BY <1>2, <3>1 DEF VvSame, VvDepth, TmTop, TmInner
    <3> QED  BY <2>1, <2>3, <3>1, <3>2, VvCallsAnItem
  <2>4. CASE ~(TmTop.item > Len(TmTop.items)) /\ ~(TmTop.item \in TmTop.act /\ TmTop.items[TmTop.item].allow_autotest)
    <3>1. tmCalls' = [tmCalls EXCEPT ![TmInner].item = @ + 1] /\ UNCHANGED <<tmDo, tmName, tmLayer>>
      BY <1>8, <2>4 DEF TmAutomatic
    <3> DEFINE call == [TmTop EXCEPT !.item = @ + 1]
    <3>2. tmCalls' = [tmCalls EXCEPT ![VvDepth] = call]  BY <1>2, <1>3, <2>1, <3>1 DEF VvDepth
    <3>3. call \in VvCall  BY <1>3, <2>1, VvCallChanges
    <3>4. /\ call.func = TmTop.func /\ call.items = TmTop.items /\ call.act = TmTop.act
          /\ call.auto = TmTop.auto /\ call.failed = TmTop.failed /\ call.err = TmTop.err
      BY <1>3, <2>1 DEF VvCall
    <3> HIDE DEF call
    <3>5. VvSame /\ TmTop' = call /\ \A j \in 1 .. VvDepth - 1 : tmCalls'[j] = tmCalls[j]
      BY <1>2, <1>3, <2>1, <3>2, <3>3, <3>4, VvTopChanges
    <3> QED  BY <1>4, <2>1, <3>1, <3>4, <3>5, VvGoesOn
  <2> QED  BY <2>2, <2>3, <2>4
<1>9. CASE TmGoesOn
  <2>1. tmDo.pc = "back" /\ tmDo' = TmNone /\ tmDo'.pc = "key" /\ UNCHANGED <<tmLayer, tmName>>
    BY <1>9 DEF TmGoesOn, TmNone, TmDo
  <2>2. CASE TmTop.auto
    <3> DEFINE err == TmFlag(TmTop.err, tmDo.ret)
               call == [TmTop EXCEPT !.err = err, !.item = TmTop.item + 1]
    <3>1. tmCalls' = [tmCalls EXCEPT ![TmInner].err = TmFlag(@, tmDo.ret), ![TmInner].item = @ + 1]
      BY <1>9, <2>2 DEF TmGoesOn
    <3>2. err \in {0, -1} /\ (err # 0 <=> TmTop.err # 0 \/ tmDo.ret # 0)
      BY <1>1, <1>3, <2>1 DEF TmFlag, VvCall, VvTyped
    <3>3. tmCalls' = [tmCalls EXCEPT ![VvDepth] = call]  BY <1>2, <1>3, <2>1, <3>1 DEF VvDepth
    <3> HIDE DEF err
    <3>4. TmTop.item + 1 \in Nat  BY <1>3, <2>1 DEF VvCall
    <3>5. call \in VvCall  BY <1>3, <2>1, <3>2, <3>4, VvCallChanges
    <3>6. /\ call.func = TmTop.func /\ call.items = TmTop.items /\ call.act = TmTop.act
          /\ call.auto = TmTop.auto /\ call.failed = TmTop.failed /\ call.err = err
      BY <1>3, <2>1 DEF VvCall
    <3> HIDE DEF call
    <3>7. VvSame /\ TmTop' = call /\ \A j \in 1 .. VvDepth - 1 : tmCalls'[j] = tmCalls[j]
      BY <1>2, <1>3, <2>1, <3>3, <3>5, <3>6, VvTopChanges
    <3>8. TmTop.failed <=> err # 0
      <4>1. VvPending(VvDepth) <=> tmDo.ret # 0  BY <1>2, <2>1 DEF VvPending, VvDepth
      <4>2. VvDepth \in 1 .. VvDepth  BY <1>2, <1>3, <2>1 DEF VvDepth
      <4> QED  BY <1>3, <2>1, <2>2, <3>2, <4>1, <4>2 DEF VvInv, VvFailed
    <3> QED  BY <2>1, <2>2, <3>6, <3>7, <3>8, VvGoesOn
  <2>3. CASE ~TmTop.auto
    <3>1. tmCalls' = tmCalls  BY <1>9, <2>3 DEF TmGoesOn
    <3>2. VvSame /\ TmTop' = TmTop  BY <1>2, <3>1 DEF VvSame, VvDepth, TmTop, TmInner
    <3>3. TmTop.err = 0 /\ ~TmTop.failed
      <4>1. VvDepth \in 1 .. VvDepth  BY <1>2, <1>3, <2>1 DEF VvDepth
      <4> QED  BY <1>3, <2>1, <2>3, <4>1 DEF VvInv, VvFailed
    <3> QED  BY <2>1, <2>3, <3>1, <3>2, <3>3, VvGoesOn
  <2> QED  BY <2>2, <2>3
<1> QED  BY <1>5, <1>6, <1>7, <1>8, <1>9 DEF TmStep

(* An item's function has returned.                                        *)
LEMMA VvItemReturns ==
  ASSUME VvInv, tmDo.pc \in {"item", "left", "run", "shows"}, NEW ret \in {0, -1}, TmItemReturns(ret),
         tmDo.pc = "left" => ret = tmDo.ret
  PROVE  VvSame /\ VvPath' /\ VvFailed' /\ tmDo'.pc = "back" /\ tmName' = tmName /\ (vvSel' = vvSel /\ vvOn' \in VvOnType => VvTyped')
<1>1. VvDepth \in 1 .. 5 /\ tmLayer = VvDepth - 1  BY DEF VvInv, VvPath
<1>2. VvTyped  BY DEF VvInv
<1>3. tmCalls \in Seq(VvCall)  BY <1>2 DEF VvTyped
<1>4. tmDo' = TmDo("back", "none", 0, ret) /\ UNCHANGED <<tmLayer, tmName>>  BY DEF TmItemReturns
<1>5. tmDo'.pc = "back" /\ tmDo'.ret = ret  BY <1>4 DEF TmDo
<1> DEFINE failed(k) == tmCalls[k].failed \/ (ret # 0 /\ tmCalls[k].auto)
<1>6. \A k \in 1 .. VvDepth : tmCalls[k] \in VvCall /\ [tmCalls[k] EXCEPT !.failed = failed(k)] \in VvCall
  <2> SUFFICES ASSUME NEW k \in 1 .. VvDepth
               PROVE  tmCalls[k] \in VvCall /\ [tmCalls[k] EXCEPT !.failed = failed(k)] \in VvCall
    OBVIOUS
  <2>1. tmCalls[k] \in VvCall  BY <1>3 DEF VvDepth
  <2>2. failed(k) \in BOOLEAN  BY <2>1 DEF VvCall
  <2> HIDE DEF failed
  <2> QED  BY <2>1, <2>2, VvCallChanges
<1>7. tmCalls' = [k \in 1 .. VvDepth |-> [tmCalls[k] EXCEPT !.failed = failed(k)]]
  <2>1. DOMAIN tmCalls = 1 .. VvDepth  BY <1>3 DEF VvDepth
  <2>2. tmCalls' = [k \in DOMAIN tmCalls |-> [tmCalls[k] EXCEPT !.failed = @ \/ (ret # 0 /\ tmCalls[k].auto)]]
    BY DEF TmItemReturns
  <2> QED  BY <2>1, <2>2, <1>6 DEF VvCall
<1>8. \A k \in 1 .. VvDepth :
        /\ tmCalls'[k].func = tmCalls[k].func /\ tmCalls'[k].items = tmCalls[k].items /\ tmCalls'[k].act = tmCalls[k].act
        /\ tmCalls'[k].auto = tmCalls[k].auto /\ tmCalls'[k].err = tmCalls[k].err
        /\ (tmCalls'[k].failed <=> failed(k))
  BY <1>6, <1>7 DEF VvCall
<1>9. tmCalls' \in Seq(VvCall) /\ Len(tmCalls') = VvDepth
  <2> HIDE DEF failed
  <2>1. VvDepth \in Nat  BY <1>1
  <2>2. tmCalls' \in [1 .. VvDepth -> VvCall]  BY <1>6, <1>7
  <2> QED  BY <2>1, <2>2, VvSeqOf
<1> HIDE DEF failed
<1>10. VvSame  BY <1>8, <1>9 DEF VvSame
<1>11. VvPath'  BY <1>1, <1>4, <1>5, <1>10, VvSamePath DEF VvInv
<1>12. VvFailed'
  <2>1. VvDepth' = VvDepth  BY <1>9 DEF VvDepth
  <2> USE DEF failed
  <2>2. \A j \in 1 .. VvDepth : IF tmCalls'[j].auto THEN tmCalls'[j].failed <=> tmCalls'[j].err # 0 \/ VvPending(j)'
                                ELSE tmCalls'[j].err = 0 /\ ~tmCalls'[j].failed
    <3> SUFFICES ASSUME NEW j \in 1 .. VvDepth
                 PROVE  IF tmCalls'[j].auto THEN tmCalls'[j].failed <=> tmCalls'[j].err # 0 \/ VvPending(j)'
                        ELSE tmCalls'[j].err = 0 /\ ~tmCalls'[j].failed
      OBVIOUS
    <3>1. IF tmCalls[j].auto THEN tmCalls[j].failed <=> tmCalls[j].err # 0 \/ VvPending(j)
          ELSE tmCalls[j].err = 0 /\ ~tmCalls[j].failed
      BY DEF VvInv, VvFailed
    <3>2. CASE j = VvDepth
      <4>1. VvPending(j) <=> tmDo.pc = "left" /\ ret # 0  BY <1>1, <3>2 DEF VvPending
      <4>2. VvPending(j)' <=> ret # 0  BY <1>1, <1>5, <2>1, <3>2 DEF VvPending
      <4> QED  BY <1>8, <3>1, <4>1, <4>2
    <3>3. CASE j # VvDepth
      <4>1. j \in 1 .. VvDepth - 1 /\ j + 1 \in 1 .. VvDepth /\ j < VvDepth  BY <1>1, <3>3
      <4>2. VvPending(j) <=> tmCalls[j + 1].failed  BY <4>1 DEF VvPending
      <4>3. VvPending(j)' <=> tmCalls'[j + 1].failed  BY <2>1, <4>1 DEF VvPending
      <4>4. tmCalls[j].auto => tmCalls[j + 1].auto  BY <4>1 DEF VvInv, VvFailed
      <4>5. tmCalls'[j + 1].failed <=> tmCalls[j + 1].failed \/ (ret # 0 /\ tmCalls[j + 1].auto)  BY <1>8, <4>1
      <4> QED  BY <1>8, <3>1, <4>2, <4>3, <4>4, <4>5
    <3> QED  BY <3>2, <3>3
  <2> HIDE DEF failed
  <2>3. \A j \in 1 .. VvDepth - 1 : tmCalls'[j].auto => tmCalls'[j + 1].auto
    <3> SUFFICES ASSUME NEW j \in 1 .. VvDepth - 1, tmCalls'[j].auto PROVE tmCalls'[j + 1].auto
      OBVIOUS
    <3>1. j \in 1 .. VvDepth /\ j + 1 \in 1 .. VvDepth  BY <1>1
    <3> QED  BY <1>8, <3>1 DEF VvInv, VvFailed
  <2> QED  BY <1>5, <2>1, <2>2, <2>3 DEF VvFailed
<1>13. ASSUME vvSel' = vvSel, vvOn' \in VvOnType PROVE VvTyped'
  <2>1. TmDo("back", "none", 0, ret) \in [pc : VvPc, func : VvFunc, auto : {0, 1}, ret : {0, -1}]
    BY DEF TmDo, VvPc, VvFunc
  <2> QED  BY <1>2, <1>4, <1>9, <1>13, <2>1 DEF VvTyped
<1> QED  BY <1>4, <1>5, <1>10, <1>11, <1>12, <1>13

(* An item's function shows a menu of its own.                             *)
LEMMA VvShowsMenu ==
  ASSUME VvInv, tmDo.pc = "item", tmDo.func # "other", VvDepth < 5, VvDepth = 4 => VvLcd(4),
         NEW items, VvIsMenu(items, VvDepth + 2), test_item_ctrl(items, tmDo.auto),
         vvSel' \in VvSelType,
         vvOn' \in VvOnType
  PROVE  /\ VvTyped' /\ VvPath' /\ VvFailed' /\ tmDo'.pc = "key" /\ VvDepth' = VvDepth + 1
         /\ \A k \in 1 .. VvDepth : tmCalls'[k] = tmCalls[k]
         /\ tmCalls'[VvDepth + 1].func = tmDo.func /\ tmCalls'[VvDepth + 1].items = items
         /\ tmCalls'[VvDepth + 1].act = test_item_get_act_items(items)
<1>1. VvDepth \in 1 .. 4 /\ tmLayer = VvDepth - 1  BY DEF VvInv, VvPath
<1>2. VvTyped  BY DEF VvInv
<1>3. tmCalls \in Seq(VvCall)  BY <1>2 DEF VvTyped
<1> DEFINE call == TmCall(tmDo.func, items, tmDo.auto)
<1>4. tmCalls' = Append(tmCalls, call) /\ tmDo' = TmNone /\ tmLayer' = tmLayer + 1 /\ tmName' = tmName
  BY DEF test_item_ctrl
<1>5. /\ call.func = tmDo.func /\ call.items = items /\ call.act = test_item_get_act_items(items)
      /\ call.err = 0 /\ ~call.failed /\ (call.auto <=> tmDo.auto = 1)
  BY DEF TmCall
<1>6. call \in VvCall
  <2>1. items \in VvList  BY DEF VvIsMenu
  <2>2. test_item_get_act_items(items) \in SUBSET Nat  BY <2>1 DEF test_item_get_act_items, VvList
  <2>3. tmDo.func \in VvFunc  BY <1>2 DEF VvTyped
  <2> QED  BY <2>1, <2>2, <2>3 DEF TmCall, VvCall
<1> HIDE DEF call
<1>7. /\ tmCalls' \in Seq(VvCall) /\ VvDepth' = VvDepth + 1 /\ tmCalls'[VvDepth + 1] = call
      /\ \A k \in 1 .. VvDepth : tmCalls'[k] = tmCalls[k]
  BY <1>3, <1>4, <1>6, VvPushes DEF VvDepth
<1>8. tmDo'.pc = "key" /\ TmNone \in [pc : VvPc, func : VvFunc, auto : {0, 1}, ret : {0, -1}]
  BY <1>4 DEF TmNone, TmDo, VvPc, VvFunc
<1>9. VvTyped'  BY <1>2, <1>4, <1>7, <1>8 DEF VvTyped
<1>10. VvPath'
  <2>1. \A k \in 1 .. VvDepth' : k = VvDepth + 1 \/ k \in 1 .. VvDepth  BY <1>1, <1>7
  <2>2. call.func \in VvLevel(VvDepth + 1) \ {"other"} /\ tmName[VvDepth - 1] = call.func
    BY <1>1, <1>5 DEF VvInv, VvPath
  <2>3. VvOffers(call, VvDepth + 1)
    BY <1>1, <1>5 DEF VvOffers, VvIsMenu, test_item_get_act_items
  <2>4. \A k \in 1 .. VvDepth' : tmCalls'[k].func \in VvLevel(k) \ {"other"} /\ VvOffers(tmCalls'[k], k)
    BY <1>7, <2>1, <2>2, <2>3 DEF VvInv, VvPath
  <2>5. \A k \in 2 .. VvDepth' : tmName'[k - 2] = tmCalls'[k].func
    <3> SUFFICES ASSUME NEW k \in 2 .. VvDepth' PROVE tmName'[k - 2] = tmCalls'[k].func
      OBVIOUS
    <3>1. CASE k = VvDepth + 1
      <4>1. k - 2 = VvDepth - 1  BY <1>1, <3>1
      <4> QED  BY <1>4, <1>7, <2>2, <3>1, <4>1
    <3>2. CASE k # VvDepth + 1
      <4>1. k \in 2 .. VvDepth /\ k \in 1 .. VvDepth  BY <1>1, <1>7, <3>2
      <4>2. tmName[k - 2] = tmCalls[k].func  BY <4>1 DEF VvInv, VvPath
      <4> QED  BY <1>4, <1>7, <4>1, <4>2
    <3> QED  BY <3>1, <3>2
  <2>6. VvDepth' = 5 => VvLcd(5)'
    <3> SUFFICES ASSUME VvDepth = 4 PROVE VvLcd(5)'  BY <1>1, <1>7
    <3> QED  BY <1>7 DEF VvLcd
  <2>7. VvDepth' \in 1 .. 5 /\ tmLayer' = VvDepth' - 1  BY <1>1, <1>4, <1>7
  <2> QED  BY <1>8, <2>4, <2>5, <2>6, <2>7 DEF VvPath
<1>11. VvFailed'
  <2>1. \A k \in 1 .. VvDepth' : k = VvDepth + 1 \/ k \in 1 .. VvDepth  BY <1>1, <1>7
  <2>2. \A k \in Nat : k = VvDepth + 1 => ~VvPending(k)'  BY <1>1, <1>7, <1>8 DEF VvPending
  <2>3. \A k \in Nat : k = VvDepth => ~VvPending(k)' /\ ~VvPending(k)
    <3> SUFFICES ASSUME NEW k \in Nat, k = VvDepth PROVE ~VvPending(k)' /\ ~VvPending(k)
      OBVIOUS
    <3>1. ~VvPending(k)  BY <1>1 DEF VvPending
    <3>2. k < VvDepth' /\ ~tmCalls'[k + 1].failed  BY <1>1, <1>5, <1>7
    <3>3. ~VvPending(k)'  BY <3>2 DEF VvPending
    <3> QED  BY <3>1, <3>3
  <2>4. \A k \in 1 .. VvDepth - 1 : VvPending(k)' <=> VvPending(k)
    BY <1>1, <1>7 DEF VvPending
  <2>5. \A j \in 1 .. VvDepth' : IF tmCalls'[j].auto THEN tmCalls'[j].failed <=> tmCalls'[j].err # 0 \/ VvPending(j)'
                                 ELSE tmCalls'[j].err = 0 /\ ~tmCalls'[j].failed
    <3> SUFFICES ASSUME NEW j \in 1 .. VvDepth'
                 PROVE  IF tmCalls'[j].auto THEN tmCalls'[j].failed <=> tmCalls'[j].err # 0 \/ VvPending(j)'
                        ELSE tmCalls'[j].err = 0 /\ ~tmCalls'[j].failed
      OBVIOUS
    <3>1. CASE j = VvDepth + 1
      <4>1. tmCalls'[j] = call /\ ~VvPending(j)'  BY <1>1, <1>7, <2>2, <3>1
      <4>2. tmCalls'[j].err = 0 /\ ~tmCalls'[j].failed  BY <1>5, <4>1
      <4> QED  BY <4>1, <4>2
    <3>2. CASE j \in 1 .. VvDepth
      <4>1. VvPending(j)' <=> VvPending(j)
        <5>1. CASE j = VvDepth  BY <1>1, <2>3, <5>1
        <5>2. CASE j # VvDepth
          <6>1. j \in 1 .. VvDepth - 1  BY <1>1, <3>2, <5>2
          <6> QED  BY <2>4, <6>1
        <5> QED  BY <5>1, <5>2
      <4>2. tmCalls'[j] = tmCalls[j]  BY <1>7, <3>2
      <4> QED  BY <3>2, <4>1, <4>2 DEF VvInv, VvFailed
    <3> QED  BY <2>1, <3>1, <3>2
  <2>6. \A j \in 1 .. VvDepth' - 1 : tmCalls'[j].auto => tmCalls'[j + 1].auto
    <3> SUFFICES ASSUME NEW j \in 1 .. VvDepth' - 1, tmCalls'[j].auto PROVE tmCalls'[j + 1].auto
      OBVIOUS
    <3>1. j \in 1 .. VvDepth /\ tmCalls'[j] = tmCalls[j]  BY <1>1, <1>7
    <3>2. CASE j = VvDepth
      <4>1. tmCalls'[j + 1] = call  BY <1>7, <3>2
      <4>2. tmDo.auto = 1  BY <3>1, <3>2 DEF VvInv, VvFailed
      <4> QED  BY <1>5, <4>1, <4>2
    <3>3. CASE j # VvDepth
      <4>1. j \in 1 .. VvDepth - 1 /\ j + 1 \in 1 .. VvDepth  BY <1>1, <3>1, <3>3
      <4> QED  BY <1>7, <3>1, <4>1 DEF VvInv, VvFailed
    <3> QED  BY <3>2, <3>3
  <2> QED  BY <1>8, <2>5, <2>6 DEF VvFailed
<1> QED  BY <1>5, <1>7, <1>8, <1>9, <1>10, <1>11

(* The items of the menus.                                                 *)
LEMMA VvDepthOf ==
  ASSUME VvInv, tmDo.pc \in {"item", "left", "run", "shows"}
  PROVE  /\ tmDo.func = "VIP_VOP_Testing" => VvDepth = 1
         /\ tmDo.func \in VvTestItem => VvDepth = 2
         /\ tmDo.func \in VvFormatItem => VvDepth = 3
         /\ tmDo.func \in VvSizes => VvDepth = 4
         /\ tmDo.func \in VvYuvItem => VvDepth = 5
<1>1. VvDepth \in {1, 2, 3, 4, 5} /\ tmDo.func \in VvLevel(VvDepth + 1)  BY DEF VvInv, VvPath
<1>2. /\ VvLevel(2) = {"VIP_VOP_Testing", "other"} /\ VvLevel(3) = VvTestItem /\ VvLevel(4) = VvFormatItem
      /\ VvLevel(5) = VvSizes /\ VvLevel(6) = VvYuvItem
  BY DEF VvLevel
<1>3. CASE VvDepth = 1  BY <1>1, <1>2, <1>3 DEF VvTestItem, VvFormatItem, VvSizes, VvYuvItem
<1>4. CASE VvDepth = 2  BY <1>1, <1>2, <1>4 DEF VvTestItem, VvFormatItem, VvSizes, VvYuvItem
<1>5. CASE VvDepth = 3  BY <1>1, <1>2, <1>5 DEF VvTestItem, VvFormatItem, VvSizes, VvYuvItem
<1>6. CASE VvDepth = 4  BY <1>1, <1>2, <1>6 DEF VvTestItem, VvFormatItem, VvSizes, VvYuvItem
<1>7. CASE VvDepth = 5  BY <1>1, <1>2, <1>7 DEF VvTestItem, VvFormatItem, VvSizes, VvYuvItem
<1> QED  BY <1>1, <1>3, <1>4, <1>5, <1>6, <1>7

LEMMA VvMainItem == ASSUME VvInv, VIP_VOP_Testing PROVE VvInv'
<1>1. VvDepth = 1 /\ tmDo.pc = "item" /\ tmDo.func = "VIP_VOP_Testing"  BY VvDepthOf DEF VIP_VOP_Testing, VvDoes
<1>2. /\ vvSel' = vvSel /\ vvOn' = vvOn /\ test_item_ctrl(socle_vip_vop_main_test_items, tmDo.auto)
      /\ UNCHANGED <<vvVip, vvVop, vvFrame>>
  BY DEF VIP_VOP_Testing, VvMenu
<1>3. VvTyped /\ vvSel' \in VvSelType /\ vvOn' \in VvOnType /\ vvOn.vip \in BOOLEAN
  BY <1>2 DEF VvInv, VvTyped, VvOnType
<1>4. VvTyped' /\ VvPath' /\ VvFailed' /\ tmDo'.pc = "key" /\ VvDepth' = 2
  BY <1>1, <1>2, <1>3, VvTestMenu, VvShowsMenu
<1>5. VvChosen'
  <2>1. ~VvLcd(3) /\ ~VvLcd(3)' /\ ~VvLcdLeft /\ ~VvLcdLeft'  BY <1>1, <1>4 DEF VvLcd, VvLcdLeft
  <2> QED  BY <1>2, <1>4, <2>1 DEF VvInv, VvChosen
<1>6. VvChips' /\ VvDevices'  BY <1>1, <1>2, <1>4, VvNothingShown DEF VvInv
<1> QED  BY <1>4, <1>5, <1>6 DEF VvInv

LEMMA VvTestItems ==
  ASSUME VvInv, socle_vip_to_vop_test \/ socle_vip_to_lcd_test \/ socle_vop_color_display_test
  PROVE  VvInv'
<1>1. VvDepth = 2 /\ tmDo.pc = "item" /\ tmDo.func \in VvTestItem
  BY VvDepthOf DEF socle_vip_to_vop_test, socle_vip_to_lcd_test, socle_vop_color_display_test, VvDoes, VvTestItem
<1>2. /\ vvSel' = [vvSel EXCEPT !.flag = VvFlagOf[tmDo.func]]
      /\ vvOn' = IF tmDo.func = "socle_vip_to_lcd_test" THEN [vvOn EXCEPT !.sizes = {"socle_viop_qvga_test"}] ELSE vvOn
      /\ test_item_ctrl(socle_viop_format_test_items, tmDo.auto)
      /\ UNCHANGED <<vvVip, vvVop, vvFrame>>
  BY DEF socle_vip_to_vop_test, socle_vip_to_lcd_test, socle_vop_color_display_test, VvDoes, VvTests, VvMenu, VvFlagOf
<1>3. VvTyped  BY DEF VvInv
<1>4. VvFlagOf[tmDo.func] \in {"vop", "lcd", "color"}  BY <1>1 DEF VvFlagOf, VvTestItem
<1>5. vvSel' \in VvSelType /\ vvSel'.flag = VvFlagOf[tmDo.func]
  <2> DEFINE new == VvFlagOf[tmDo.func]
  <2>1. vvSel \in VvSelType  BY <1>3 DEF VvTyped
  <2>2. vvSel' = [vvSel EXCEPT !.flag = new]  BY <1>2
  <2>3. new \in {"vop", "lcd", "color"}  BY <1>4
  <2> HIDE DEF new
  <2>4. vvSel' \in VvSelType /\ vvSel'.flag = new  BY <2>1, <2>2, <2>3 DEF VvSelType
  <2> QED  BY <2>4 DEF new
<1>6. vvOn' \in VvOnType  BY <1>2, <1>3 DEF VvTyped, VvOnType, VvSizes
<1>7. /\ VvTyped' /\ VvPath' /\ VvFailed' /\ tmDo'.pc = "key" /\ VvDepth' = 3 /\ tmCalls'[3].func = tmDo.func
  <2>1. tmDo.func # "other" /\ VvDepth < 5 /\ VvDepth # 4 /\ VvDepth + 2 = 4 /\ VvDepth + 1 = 3  BY <1>1 DEF VvTestItem
  <2> QED  BY <1>1, <1>2, <1>5, <1>6, <2>1, VvFormatMenu, VvShowsMenu
<1>8. VvChosen'
  <2>1. VvLcd(3)' <=> tmDo.func = "socle_vip_to_lcd_test"  BY <1>7 DEF VvLcd
  <2>2. ~VvLcd(3) /\ ~VvLcdLeft /\ ~VvLcdLeft'  BY <1>1, <1>7 DEF VvLcd, VvLcdLeft
  <2>3. vvOn'.sizes = VvSizesOf(VvLcd(3)' \/ VvLcdLeft')
    <3>1. vvOn.sizes = VvSizes  BY <2>2 DEF VvInv, VvChosen, VvSizesOf
    <3>2. vvOn'.sizes = IF tmDo.func = "socle_vip_to_lcd_test" THEN {"socle_viop_qvga_test"} ELSE VvSizes
      BY <1>2, <1>3, <3>1 DEF VvTyped, VvOnType
    <3> QED  BY <2>1, <2>2, <3>2 DEF VvSizesOf
  <2> QED  BY <1>5, <1>7, <2>3 DEF VvChosen
<1>9. VvChips' /\ VvDevices'  BY <1>1, <1>2, <1>7, VvNothingShown DEF VvInv
<1> QED  BY <1>7, <1>8, <1>9 DEF VvInv

LEMMA VvFormatItems ==
  ASSUME VvInv, socle_viop_ntsc_test \/ socle_viop_pal_test
  PROVE  VvInv'
<1>1. VvDepth = 3 /\ tmDo.pc = "item" /\ tmDo.func \in VvFormatItem
  BY VvDepthOf DEF socle_viop_ntsc_test, socle_viop_pal_test, VvDoes, VvFormatItem
<1>2. /\ vvSel' = [vvSel EXCEPT !.format = VvFormatOf[tmDo.func]] /\ vvOn' = vvOn
      /\ test_item_ctrl(socle_viop_size_test_items, tmDo.auto)
      /\ UNCHANGED <<vvVip, vvVop, vvFrame>>
  BY DEF socle_viop_ntsc_test, socle_viop_pal_test, VvDoes, VvFormat, VvMenu, VvFormatOf
<1>3. VvTyped  BY DEF VvInv
<1>4. VvFormatOf[tmDo.func] \in {"ntsc", "pal"}  BY <1>1 DEF VvFormatOf, VvFormatItem
<1>5. vvSel' \in VvSelType /\ vvSel'.format = VvFormatOf[tmDo.func] /\ vvSel'.flag = vvSel.flag
  <2> DEFINE new == VvFormatOf[tmDo.func]
  <2>1. vvSel \in VvSelType  BY <1>3 DEF VvTyped
  <2>2. vvSel' = [vvSel EXCEPT !.format = new]  BY <1>2
  <2>3. new \in {"ntsc", "pal"}  BY <1>4
  <2> HIDE DEF new
  <2>4. vvSel' \in VvSelType /\ vvSel'.format = new /\ vvSel'.flag = vvSel.flag  BY <2>1, <2>2, <2>3 DEF VvSelType
  <2> QED  BY <2>4 DEF new
<1>6. vvOn' \in VvOnType /\ vvOn.sizes \subseteq VvSizes  BY <1>2, <1>3 DEF VvTyped, VvOnType
<1>7. /\ VvIsMenu(socle_viop_size_test_items, 5)
      /\ {socle_viop_size_test_items[j].func : j \in test_item_get_act_items(socle_viop_size_test_items)} = vvOn.sizes
  BY <1>6, VvSizeMenu
<1>8. /\ VvTyped' /\ VvPath' /\ VvFailed' /\ tmDo'.pc = "key" /\ VvDepth' = 4 /\ tmCalls'[3] = tmCalls[3]
      /\ tmCalls'[4].func = tmDo.func /\ tmCalls'[4].items = socle_viop_size_test_items
      /\ tmCalls'[4].act = test_item_get_act_items(socle_viop_size_test_items)
  <2>1. tmDo.func # "other" /\ VvDepth < 5 /\ VvDepth # 4 /\ VvDepth + 2 = 5 /\ VvDepth + 1 = 4 /\ 3 \in 1 .. VvDepth
    BY <1>1 DEF VvFormatItem
  <2> QED  BY <1>1, <1>2, <1>5, <1>6, <1>7, <2>1, VvShowsMenu
<1>9. VvChosen'
  <2>1. VvLcd(3)' = VvLcd(3) /\ VvLcd(4)' = VvLcd(3)  BY <1>1, <1>8 DEF VvLcd
  <2>2. ~VvLcdLeft /\ ~VvLcdLeft'  BY <1>1, <1>8 DEF VvLcdLeft
  <2>3. vvOn.sizes = VvSizesOf(VvLcd(3)) /\ vvSel.flag = VvFlagOf[tmCalls[3].func]
    BY <1>1, <2>2 DEF VvInv, VvChosen, VvSizesOf
  <2>4. {tmCalls'[4].items[j].func : j \in tmCalls'[4].act} = VvSizesOf(VvLcd(4)')
    BY <1>7, <1>8, <2>1, <2>3 DEF VvSizesOf
  <2>5. vvOn'.sizes = VvSizesOf(VvLcd(3)' \/ VvLcdLeft')
    BY <1>2, <2>1, <2>2, <2>3 DEF VvSizesOf
  <2> QED  BY <1>5, <1>8, <2>3, <2>4, <2>5 DEF VvChosen
<1>10. VvChips' /\ VvDevices'  BY <1>1, <1>2, <1>8, VvNothingShown DEF VvInv
<1> QED  BY <1>8, <1>9, <1>10 DEF VvInv

(* A size or a format of the LCD has been chosen; or a run shows something.*)
LEMMA VvGoesTo ==
  ASSUME VvInv, tmDo.pc \in {"item", "run"}, NEW pc \in {"run", "shows"}, tmDo' = [tmDo EXCEPT !.pc = pc],
         UNCHANGED <<tmCalls, tmLayer, tmName, vvOn>>, VvDepth = (IF VvLcd(4) THEN 5 ELSE 4),
         vvSel' \in VvSelType, vvSel'.flag = vvSel.flag, vvSel'.format = vvSel.format,
         VvDepth = 4 => vvSel'.size = tmDo.func,
         VvDepth = 5 => vvSel'.size = vvSel.size /\ vvSel'.yuv = IF tmDo.func = "socle_vip_422_test" THEN 422 ELSE 420
  PROVE  VvTyped' /\ VvPath' /\ VvChosen' /\ VvFailed' /\ tmDo'.pc = pc
<1>1. VvTyped  BY DEF VvInv
<1>2. tmDo' \in [pc : VvPc, func : VvFunc, auto : {0, 1}, ret : {0, -1}] /\ tmDo'.pc = pc /\ tmDo'.func = tmDo.func
  <2>1. tmDo \in [pc : VvPc, func : VvFunc, auto : {0, 1}, ret : {0, -1}] /\ pc \in VvPc  BY <1>1 DEF VvTyped, VvPc
  <2>2. tmDo' \in [pc : VvPc, func : VvFunc, auto : {0, 1}, ret : {0, -1}]  BY <2>1
  <2> QED  BY <2>1, <2>2
<1>3. VvTyped'  BY <1>1, <1>2 DEF VvTyped
<1>4. VvDepth' = VvDepth /\ VvLcd(3)' = VvLcd(3) /\ VvLcd(4)' = VvLcd(4) /\ VvLcd(5)' = VvLcd(5)
  BY DEF VvDepth, VvLcd
<1>5. VvDepth \in 4 .. 5  OBVIOUS
<1>6. VvPath'
  <2>1. tmName'[tmLayer'] = tmDo'.func /\ tmDo'.func \in VvLevel(VvDepth' + 1)  BY <1>2, <1>4 DEF VvInv, VvPath
  <2>2. \A k \in 1 .. VvDepth : tmCalls'[k].func \in VvLevel(k) \ {"other"} /\ VvOffers(tmCalls'[k], k)
    BY DEF VvInv, VvPath
  <2>3. \A k \in 2 .. VvDepth : tmName'[k - 2] = tmCalls'[k].func  BY DEF VvInv, VvPath
  <2>4. tmLayer' = VvDepth - 1 /\ (VvDepth = 5 => VvLcd(5))  BY <1>5 DEF VvInv, VvPath
  <2> QED  BY <1>2, <1>4, <1>5, <2>1, <2>2, <2>3, <2>4 DEF VvPath
<1>7. VvChosen'
  <2>1. ~VvLcdLeft /\ ~VvLcdLeft'  BY <1>2 DEF VvLcdLeft
  <2>2. VvDepth = 5 => vvSel.size = tmCalls[5].func  BY DEF VvInv, VvChosen
  <2>3. vvOn.sizes = VvSizesOf(VvLcd(3) \/ VvLcdLeft)  BY DEF VvInv, VvChosen
  <2>4. vvOn'.sizes = VvSizesOf(VvLcd(3)' \/ VvLcdLeft')  BY <1>4, <2>1, <2>3 DEF VvSizesOf
  <2>5. vvSel'.flag = VvFlagOf[tmCalls'[3].func] /\ vvSel'.format = VvFormatOf[tmCalls'[4].func]
    BY <1>5 DEF VvInv, VvChosen
  <2>6. {tmCalls'[4].items[j].func : j \in tmCalls'[4].act} = VvSizesOf(VvLcd(4)')
    BY <1>4, <1>5 DEF VvInv, VvChosen
  <2> QED  BY <1>2, <1>4, <1>5, <2>2, <2>4, <2>5, <2>6 DEF VvChosen
<1>8. VvFailed'
  <2>1. \A k \in Nat : VvPending(k)' <=> VvPending(k)
    <3> SUFFICES ASSUME NEW k \in Nat PROVE VvPending(k)' <=> VvPending(k)
      OBVIOUS
    <3>1. CASE k < VvDepth  BY <1>4, <3>1 DEF VvPending
    <3>2. CASE ~(k < VvDepth)  BY <1>2, <1>4, <3>2 DEF VvPending
    <3> QED  BY <3>1, <3>2
  <2>2. \A k \in 1 .. VvDepth :
          IF tmCalls'[k].auto THEN tmCalls'[k].failed <=> tmCalls'[k].err # 0 \/ VvPending(k)'
          ELSE tmCalls'[k].err = 0 /\ ~tmCalls'[k].failed
    <3> SUFFICES ASSUME NEW k \in 1 .. VvDepth
                 PROVE  IF tmCalls'[k].auto THEN tmCalls'[k].failed <=> tmCalls'[k].err # 0 \/ VvPending(k)'
                        ELSE tmCalls'[k].err = 0 /\ ~tmCalls'[k].failed
      OBVIOUS
    <3>1. VvPending(k)' <=> VvPending(k)  BY <1>5, <2>1
    <3> QED  BY <3>1 DEF VvInv, VvFailed
  <2>3. \A k \in 1 .. VvDepth - 1 : tmCalls'[k].auto => tmCalls'[k + 1].auto  BY DEF VvInv, VvFailed
  <2> QED  BY <1>2, <1>4, <2>2, <2>3 DEF VvFailed
<1> QED  BY <1>2, <1>3, <1>6, <1>7, <1>8

LEMMA VvSizeItem == ASSUME VvInv, NEW size \in VvSizes, VvSize(size) PROVE VvInv'
<1>1. VvDepth = 4 /\ tmDo.pc = "item" /\ tmDo.func = size  BY VvDepthOf DEF VvSize, VvDoes
<1>2. VvTyped /\ VvChips /\ VvDevices /\ vvSel \in VvSelType /\ vvOn \in VvOnType  BY DEF VvInv, VvTyped
<1>3. vvSel.flag = "lcd" <=> VvLcd(4)
  <2>1. vvSel.flag = VvFlagOf[tmCalls[3].func] /\ tmCalls[3].func \in VvLevel(3)  BY <1>1 DEF VvInv, VvChosen, VvPath
  <2>2. tmCalls[3].func \in VvTestItem  BY <2>1 DEF VvLevel
  <2> QED  BY <1>1, <2>1, <2>2 DEF VvTestItem, VvFlagOf, VvLcd
<1>4. [vvSel EXCEPT !.size = size] \in VvSelType
      /\ [vvSel EXCEPT !.size = size].flag = vvSel.flag /\ [vvSel EXCEPT !.size = size].format = vvSel.format
      /\ [vvSel EXCEPT !.size = size].size = size
  BY <1>2 DEF VvSelType
<1>5. CASE vvSel.flag = "lcd"
  <2>1. /\ vvSel' = [vvSel EXCEPT !.size = size] /\ vvOn' = vvOn /\ test_item_ctrl(socle_vip_42x_test_items, tmDo.auto)
        /\ UNCHANGED <<vvVip, vvVop, vvFrame>>
    BY <1>5 DEF VvSize, VvMenu
  <2>2. /\ VvTyped' /\ VvPath' /\ VvFailed' /\ tmDo'.pc = "key" /\ VvDepth' = 5
        /\ tmCalls'[3] = tmCalls[3] /\ tmCalls'[4] = tmCalls[4] /\ tmCalls'[5].func = size
    <3>1. size # "other" /\ VvDepth < 5 /\ VvDepth + 2 = 6 /\ VvDepth + 1 = 5 /\ 3 \in 1 .. VvDepth /\ 4 \in 1 .. VvDepth
      BY <1>1 DEF VvSizes
    <3> QED  BY <1>1, <1>2, <1>3, <1>4, <1>5, <2>1, <3>1, VvYuvMenu, VvShowsMenu
  <2>3. VvChosen'
    <3>1. VvLcd(3)' /\ VvLcd(4)' /\ VvLcd(3)  BY <1>1, <1>3, <1>5, <2>2 DEF VvLcd
    <3>2. ~VvLcdLeft'  BY <2>2 DEF VvLcdLeft
    <3>3. vvOn.sizes = VvSizesOf(TRUE)  BY <3>1 DEF VvInv, VvChosen, VvSizesOf
    <3>4. vvOn'.sizes = VvSizesOf(VvLcd(3)' \/ VvLcdLeft')  BY <2>1, <3>1, <3>3 DEF VvSizesOf
    <3>5. vvSel'.flag = VvFlagOf[tmCalls'[3].func] /\ vvSel'.format = VvFormatOf[tmCalls'[4].func] /\ vvSel'.size = size
      BY <1>1, <1>4, <2>1, <2>2 DEF VvInv, VvChosen
    <3>6. {tmCalls'[4].items[j].func : j \in tmCalls'[4].act} = VvSizesOf(VvLcd(4)')
      BY <1>1, <1>3, <1>5, <2>2, <3>1 DEF VvInv, VvChosen, VvSizesOf
    <3> QED  BY <2>2, <3>4, <3>5, <3>6 DEF VvChosen
  <2>4. VvChips' /\ VvDevices'  BY <1>1, <1>2, <2>1, <2>2, VvNothingShown
  <2> QED  BY <2>2, <2>3, <2>4 DEF VvInv
<1>6. CASE vvSel.flag # "lcd"
  <2>1. /\ vvSel' = [vvSel EXCEPT !.size = size] /\ tmDo' = [tmDo EXCEPT !.pc = "run"]
        /\ UNCHANGED <<tmCalls, tmLayer, tmName, vvOn, vvVip, vvVop, vvFrame>>
    BY <1>6 DEF VvSize
  <2>2. VvTyped' /\ VvPath' /\ VvChosen' /\ VvFailed' /\ tmDo'.pc = "run"
    BY <1>1, <1>3, <1>4, <1>6, <2>1, VvGoesTo
  <2>3. VvChips' /\ VvDevices'  BY <1>1, <1>2, <2>1, <2>2, VvNothingShown
  <2> QED  BY <2>2, <2>3 DEF VvInv
<1> QED  BY <1>5, <1>6

LEMMA VvYuvItems == ASSUME VvInv, socle_vip_420_test \/ socle_vip_422_test PROVE VvInv'
<1> DEFINE yuv == IF tmDo.func = "socle_vip_422_test" THEN 422 ELSE 420
<1>1. tmDo.pc = "item" /\ tmDo.func \in VvYuvItem  BY DEF socle_vip_420_test, socle_vip_422_test, VvYuv, VvDoes, VvYuvItem
<1>2. /\ vvSel' = [vvSel EXCEPT !.yuv = yuv] /\ tmDo' = [tmDo EXCEPT !.pc = "run"]
      /\ UNCHANGED <<tmCalls, tmLayer, tmName, vvOn, vvVip, vvVop, vvFrame>>
  BY DEF socle_vip_420_test, socle_vip_422_test, VvYuv, VvDoes
<1>3. VvDepth = 5  BY <1>1, VvDepthOf
<1>4. VvLcd(4)  BY <1>3 DEF VvInv, VvPath, VvLcd
<1>5. VvTyped /\ VvChips /\ VvDevices /\ vvSel \in VvSelType  BY DEF VvInv, VvTyped
<1>6. yuv \in {420, 422}  OBVIOUS
<1>7. /\ vvSel' \in VvSelType /\ vvSel'.flag = vvSel.flag /\ vvSel'.format = vvSel.format /\ vvSel'.size = vvSel.size
      /\ vvSel'.yuv = yuv
  <2> HIDE DEF yuv
  <2> QED  BY <1>2, <1>5, <1>6 DEF VvSelType
<1>8. VvTyped' /\ VvPath' /\ VvChosen' /\ VvFailed' /\ tmDo'.pc = "run"
  BY <1>1, <1>2, <1>3, <1>4, <1>7, VvGoesTo
<1>9. VvChips' /\ VvDevices'  BY <1>1, <1>2, <1>5, <1>8, VvNothingShown
<1> QED  BY <1>8, <1>9 DEF VvInv

LEMMA VvOtherItem == ASSUME VvInv, VvOther PROVE VvInv'
<1>1. PICK ret \in {0, -1} : TmItemReturns(ret)  BY DEF VvOther
<1>2. tmDo.pc = "item" /\ UNCHANGED <<vvSel, vvOn, vvVip, vvVop, vvFrame>>  BY DEF VvOther, VvDoes
<1>3. vvOn' \in VvOnType  BY <1>2 DEF VvInv, VvTyped
<1>4. VvSame /\ VvPath' /\ VvFailed' /\ tmDo'.pc = "back" /\ VvTyped'
  BY <1>1, <1>2, <1>3, VvItemReturns
<1>5. VvChosen'  BY <1>2, <1>4, VvSameChosen DEF VvInv, VvLcdLeft
<1>6. VvChips' /\ VvDevices'  BY <1>2, <1>4, VvNothingShown DEF VvInv
<1> QED  BY <1>4, <1>5, <1>6 DEF VvInv

LEMMA VvLeaveMenu == ASSUME VvInv, VvLeft PROVE VvInv'
<1>1. tmDo.pc = "left" /\ TmItemReturns(tmDo.ret) /\ UNCHANGED <<vvSel, vvVip, vvVop, vvFrame>>  BY DEF VvLeft
<1>2. tmDo.ret \in {0, -1} /\ vvOn \in VvOnType  BY DEF VvInv, VvTyped
<1>3. vvOn' = IF VvLcdLeft THEN [vvOn EXCEPT !.sizes = VvSizes] ELSE vvOn  BY <1>1 DEF VvLeft, VvLcdLeft
<1>4. vvOn' \in VvOnType  BY <1>2, <1>3 DEF VvOnType
<1>5. VvSame /\ VvPath' /\ VvFailed' /\ tmDo'.pc = "back" /\ VvTyped'
  BY <1>1, <1>2, <1>4, VvItemReturns
<1>6. VvChosen'
  <2>1. CASE VvLcdLeft
    <3>1. VvDepth = 2  BY <1>1, <2>1, VvDepthOf DEF VvLcdLeft, VvTestItem
    <3>2. VvDepth' = 2  BY <1>5, <3>1 DEF VvSame, VvDepth
    <3>3. ~VvLcd(3)' /\ ~VvLcdLeft'  BY <1>5, <3>2 DEF VvLcd, VvLcdLeft
    <3>4. vvOn'.sizes = VvSizesOf(VvLcd(3)' \/ VvLcdLeft')  BY <1>2, <1>3, <2>1, <3>3 DEF VvOnType, VvSizesOf
    <3> QED  BY <1>5, <3>2, <3>4 DEF VvChosen
  <2>2. CASE ~VvLcdLeft  BY <1>1, <1>3, <1>5, <2>2, VvSameChosen DEF VvInv
  <2> QED  BY <2>1, <2>2
<1>7. VvChips' /\ VvDevices'  BY <1>1, <1>5, VvNothingShown DEF VvInv
<1> QED  BY <1>5, <1>6, <1>7 DEF VvInv

LEMMA VvThreeFields ==
  ASSUME NEW v \in VvVipType
  PROVE  /\ [v EXCEPT !.on = FALSE, !.format = "ntsc", !.yuv = 420] \in VvVipType
         /\ \A f2 \in {1, 2} : vipSetFrameCaptureAddr(v, 1, f2) \in VvVipType
         /\ vipReset(v) \in VvVipType
<1>1. \A w \in VvVipType, on \in BOOLEAN : [w EXCEPT !.on = on] \in VvVipType  BY DEF VvVipType
<1>2. \A w \in VvVipType : [w EXCEPT !.format = "ntsc"] \in VvVipType  BY DEF VvVipType
<1>3. \A w \in VvVipType : [w EXCEPT !.yuv = 420] \in VvVipType  BY DEF VvVipType
<1>4. \A w \in VvVipType, f \in {1, 2} : [w EXCEPT !.f1 = f] \in VvVipType /\ [w EXCEPT !.f2 = f] \in VvVipType
  BY DEF VvVipType
<1> DEFINE a == [v EXCEPT !.on = FALSE]
           b == [a EXCEPT !.format = "ntsc"]
           c == [b EXCEPT !.yuv = 420]
<1>5. a \in VvVipType  BY <1>1
<1>6. b \in VvVipType
  <2> HIDE DEF a
  <2> QED  BY <1>2, <1>5
<1>7. c \in VvVipType
  <2> HIDE DEF b
  <2> QED  BY <1>3, <1>6
<1>8. [v EXCEPT !.on = FALSE, !.format = "ntsc", !.yuv = 420] = c  OBVIOUS
<1>9. ASSUME NEW f2 \in {1, 2} PROVE vipSetFrameCaptureAddr(v, 1, f2) \in VvVipType
  <2> DEFINE w == [v EXCEPT !.f1 = 1]
  <2>1. w \in VvVipType  BY <1>4
  <2>2. vipSetFrameCaptureAddr(v, 1, f2) = [w EXCEPT !.f2 = f2]  BY DEF vipSetFrameCaptureAddr
  <2> HIDE DEF w
  <2> QED  BY <1>4, <2>1, <2>2
<1>10. vipReset(v) = c  BY <1>8 DEF vipReset
<1> HIDE DEF c
<1> QED  BY <1>7, <1>8, <1>9, <1>10

(* The drivers: each call keeps the registers well typed and changes what  *)
(* it is for.                                                              *)
LEMMA VvVipDriver ==
  ASSUME NEW v \in VvVipType
  PROVE  /\ vipReset(v) \in VvVipType /\ ~vipReset(v).on /\ vipReset(v).yuv = 420
         /\ \A format \in {"ntsc", "pal"} :
              LET w == vipSetOutFormat(v, format) IN w \in VvVipType /\ w.format = format /\ w.on = v.on /\ w.yuv = v.yuv
         /\ \A size \in VvSizes :
              LET w == vipSetFrameSize(v, size)
              IN w \in VvVipType /\ w.fs = VvVipFS[size] /\ w.on = v.on /\ w.format = v.format /\ w.yuv = v.yuv
         /\ \A f2 \in {1, 2} :
              LET w == vipSetFrameCaptureAddr(v, 1, f2)
              IN w \in VvVipType /\ w.f1 = 1 /\ w.f2 = f2 /\ w.on = v.on /\ w.format = v.format /\ w.fs = v.fs /\ w.yuv = v.yuv
         /\ \A yuv \in {420, 422} :
              LET w == vipSet422Output(v, yuv)
              IN w \in VvVipType /\ w.yuv = yuv /\ w.on = v.on /\ w.format = v.format /\ w.fs = v.fs /\ w.f1 = v.f1 /\ w.f2 = v.f2
         /\ LET w == vipStart(v)
            IN w \in VvVipType /\ w.on /\ w.format = v.format /\ w.fs = v.fs /\ w.f1 = v.f1 /\ w.f2 = v.f2 /\ w.yuv = v.yuv
         /\ vipStop(v) \in VvVipType /\ ~vipStop(v).on
<1>1. vipReset(v) \in VvVipType /\ ~vipReset(v).on /\ vipReset(v).yuv = 420
  <2>1. vipReset(v) \in VvVipType  BY VvThreeFields
  <2>2. ~vipReset(v).on  BY DEF vipReset, VvVipType
  <2>3. vipReset(v).yuv = 420  BY DEF vipReset, VvVipType
  <2> QED  BY <2>1, <2>2, <2>3
<1>2. ASSUME NEW format \in {"ntsc", "pal"}
      PROVE  LET w == vipSetOutFormat(v, format) IN w \in VvVipType /\ w.format = format /\ w.on = v.on /\ w.yuv = v.yuv
  BY DEF vipSetOutFormat, VvVipType
<1>3. ASSUME NEW size \in VvSizes
      PROVE  LET w == vipSetFrameSize(v, size)
             IN w \in VvVipType /\ w.fs = VvVipFS[size] /\ w.on = v.on /\ w.format = v.format /\ w.yuv = v.yuv
  <2> DEFINE fs == VvVipFS[size]
  <2>1. fs \in Nat  BY DEF VvSizes, VvVipFS
  <2> DEFINE w == vipSetFrameSize(v, size)
  <2>2. w = [v EXCEPT !.fs = fs]  BY DEF vipSetFrameSize
  <2> HIDE DEF fs, w
  <2>3. w \in VvVipType /\ w.fs = fs  BY <2>1, <2>2 DEF VvVipType
  <2>4. w.on = v.on /\ w.format = v.format /\ w.yuv = v.yuv  BY <2>2 DEF VvVipType
  <2> QED  BY <2>3, <2>4 DEF w, fs
<1>4. ASSUME NEW f2 \in {1, 2}
      PROVE  LET w == vipSetFrameCaptureAddr(v, 1, f2)
             IN w \in VvVipType /\ w.f1 = 1 /\ w.f2 = f2 /\ w.on = v.on /\ w.format = v.format /\ w.fs = v.fs /\ w.yuv = v.yuv
  <2> DEFINE w == vipSetFrameCaptureAddr(v, 1, f2)
  <2>1. w \in VvVipType
    <3>1. \A g \in {1, 2} : vipSetFrameCaptureAddr(v, 1, g) \in VvVipType  BY VvThreeFields
    <3> QED  BY <3>1
  <2>2. w.f1 = 1 /\ w.f2 = f2  BY DEF vipSetFrameCaptureAddr, VvVipType
  <2>3. w.on = v.on /\ w.format = v.format /\ w.fs = v.fs /\ w.yuv = v.yuv  BY DEF vipSetFrameCaptureAddr, VvVipType
  <2> QED  BY <2>1, <2>2, <2>3
<1>5. ASSUME NEW yuv \in {420, 422}
      PROVE  LET w == vipSet422Output(v, yuv)
             IN w \in VvVipType /\ w.yuv = yuv /\ w.on = v.on /\ w.format = v.format /\ w.fs = v.fs /\ w.f1 = v.f1 /\ w.f2 = v.f2
  <2> DEFINE w == vipSet422Output(v, yuv)
  <2>1. w \in VvVipType /\ w.yuv = yuv  BY DEF vipSet422Output, VvVipType
  <2>2. w.on = v.on /\ w.format = v.format /\ w.fs = v.fs  BY DEF vipSet422Output, VvVipType
  <2>3. w.f1 = v.f1 /\ w.f2 = v.f2  BY DEF vipSet422Output, VvVipType
  <2> HIDE DEF w
  <2> QED  BY <2>1, <2>2, <2>3 DEF w
<1>6. LET w == vipStart(v)
      IN w \in VvVipType /\ w.on /\ w.format = v.format /\ w.fs = v.fs /\ w.f1 = v.f1 /\ w.f2 = v.f2 /\ w.yuv = v.yuv
  <2> DEFINE w == vipStart(v)
  <2>1. w \in VvVipType /\ w.on
    <3>1. \A x \in VvVipType, on \in BOOLEAN : [x EXCEPT !.on = on] \in VvVipType  BY DEF VvVipType
    <3>2. w \in VvVipType  BY <3>1 DEF vipStart
    <3>3. w.on  BY DEF vipStart, VvVipType
    <3> QED  BY <3>2, <3>3
  <2>2. w.format = v.format /\ w.fs = v.fs /\ w.yuv = v.yuv  BY DEF vipStart, VvVipType
  <2>3. w.f1 = v.f1 /\ w.f2 = v.f2  BY DEF vipStart, VvVipType
  <2> HIDE DEF w
  <2> QED  BY <2>1, <2>2, <2>3 DEF w
<1>7. vipStop(v) \in VvVipType /\ ~vipStop(v).on
  <2>1. vipStop(v) \in VvVipType  BY VvThreeFields DEF vipStop
  <2>2. ~vipStop(v).on  BY DEF vipStop, VvVipType
  <2> QED  BY <2>1, <2>2
<1> QED  BY <1>1, <1>2, <1>3, <1>4, <1>5, <1>6, <1>7

LEMMA VvVopDriver ==
  ASSUME NEW v \in VvVopType
  PROVE  /\ LET w == vopReset(v) IN w \in VvVopType /\ w.hw = {} /\ ~w.on /\ ~w.inte /\ ~w.read
         /\ \A format \in {"ntsc", "pal"} :
              LET w == vopSetOutFormat(v, format)
              IN w \in VvVopType /\ w.format = format /\ w.on = v.on /\ w.inte = v.inte /\ w.read = v.read /\ w.hw = v.hw
         /\ \A size \in VvSizes :
              LET w == vopSetFrameSize(v, size)
              IN w \in VvVopType /\ w.fss = VvVopFSS[size] /\ w.format = v.format /\ w.on = v.on /\ w.inte = v.inte
                 /\ w.read = v.read /\ w.hw = v.hw
         /\ \A f \in {1, 2} :
              LET w == vopSetFrameDisplayAddr(v, f)
              IN w \in VvVopType /\ w.hw = v.hw \cup {f} /\ w.fss = v.fss /\ w.format = v.format /\ w.on = v.on
                 /\ w.inte = v.inte /\ w.read = v.read
         /\ \A mode \in {"one", "two"} :
              LET w == vopSetFrameMode(v, mode)
              IN w \in VvVopType /\ w.isr = mode /\ w.hw = v.hw /\ w.fss = v.fss /\ w.format = v.format /\ w.on = v.on
                 /\ w.inte = v.inte /\ w.read = v.read
         /\ LET w == vopStart(v)
            IN w \in VvVopType /\ w.on /\ w.inte /\ w.isr = v.isr /\ w.hw = v.hw /\ w.fss = v.fss /\ w.format = v.format
               /\ w.read = v.read
         /\ LET w == vopStop(v) IN w \in VvVopType /\ ~w.on /\ ~w.inte /\ w.read = v.read
<1>1. LET w == vopReset(v) IN w \in VvVopType /\ w.hw = {} /\ ~w.on /\ ~w.inte /\ ~w.read
  BY DEF vopReset, VvVopOff, VvVopType
<1>2. ASSUME NEW format \in {"ntsc", "pal"}
      PROVE  LET w == vopSetOutFormat(v, format)
             IN w \in VvVopType /\ w.format = format /\ w.on = v.on /\ w.inte = v.inte /\ w.read = v.read /\ w.hw = v.hw
  BY DEF vopSetOutFormat, VvVopType
<1>3. ASSUME NEW size \in VvSizes
      PROVE  LET w == vopSetFrameSize(v, size)
             IN w \in VvVopType /\ w.fss = VvVopFSS[size] /\ w.format = v.format /\ w.on = v.on /\ w.inte = v.inte
                /\ w.read = v.read /\ w.hw = v.hw
  <2> DEFINE fss == VvVopFSS[size]
  <2>1. fss \in Nat  BY DEF VvSizes, VvVopFSS
  <2> HIDE DEF fss
  <2> QED  BY <2>1 DEF vopSetFrameSize, VvVopType, fss
<1>4. ASSUME NEW f \in {1, 2}
      PROVE  LET w == vopSetFrameDisplayAddr(v, f)
             IN w \in VvVopType /\ w.hw = v.hw \cup {f} /\ w.fss = v.fss /\ w.format = v.format /\ w.on = v.on
                /\ w.inte = v.inte /\ w.read = v.read
  <2> DEFINE hw == v.hw \cup {f}
  <2>1. hw \in SUBSET {1, 2} /\ vopSetFrameDisplayAddr(v, f) = [v EXCEPT !.hw = hw]
    BY DEF VvVopType, vopSetFrameDisplayAddr
  <2> HIDE DEF hw
  <2>2. LET w == [v EXCEPT !.hw = hw]
        IN w \in VvVopType /\ w.hw = hw /\ w.fss = v.fss /\ w.format = v.format /\ w.on = v.on
           /\ w.inte = v.inte /\ w.read = v.read
    BY <2>1 DEF VvVopType
  <2> QED  BY <2>1, <2>2 DEF hw
<1>5. ASSUME NEW mode \in {"one", "two"}
      PROVE  LET w == vopSetFrameMode(v, mode)
             IN w \in VvVopType /\ w.isr = mode /\ w.hw = v.hw /\ w.fss = v.fss /\ w.format = v.format /\ w.on = v.on
                /\ w.inte = v.inte /\ w.read = v.read
  BY DEF vopSetFrameMode, VvVopType
<1>6. LET w == vopStart(v)
      IN w \in VvVopType /\ w.on /\ w.inte /\ w.isr = v.isr /\ w.hw = v.hw /\ w.fss = v.fss /\ w.format = v.format
         /\ w.read = v.read
  BY DEF vopStart, VvVopType
<1>7. LET w == vopStop(v) IN w \in VvVopType /\ ~w.on /\ ~w.inte /\ w.read = v.read  BY DEF vopStop, VvVopType
<1> QED  BY <1>1, <1>2, <1>3, <1>4, <1>5, <1>6, <1>7

(* What a run sets up.                                                     *)
LEMMA VvSetUp ==
  ASSUME VvChips, vvSel \in VvSelType, vvSel.size \in VvSizes
  PROVE  /\ \A f2 \in {1, 2} :
              LET w == VvVipSet(f2)
              IN w \in VvVipType /\ w.fs = VvVipFS[vvSel.size] /\ w.f1 = 1 /\ w.f2 = f2 /\ w.format = vvSel.format /\ ~w.on
         /\ LET w == VvVopSet
            IN w \in VvVopType /\ w.fss = VvVopFSS[vvSel.size] /\ w.hw = {1} /\ w.format = vvSel.format
               /\ ~w.on /\ ~w.inte /\ ~w.read
<1>1. vvVip \in VvVipType /\ vvVop \in VvVopType /\ vvSel.format \in {"ntsc", "pal"}  BY DEF VvChips, VvSelType
<1>2. ASSUME NEW f2 \in {1, 2}
      PROVE  LET w == VvVipSet(f2)
             IN w \in VvVipType /\ w.fs = VvVipFS[vvSel.size] /\ w.f1 = 1 /\ w.f2 = f2 /\ w.format = vvSel.format /\ ~w.on
  <2> DEFINE a == vipReset(vvVip)
             b == vipSetOutFormat(a, vvSel.format)
             c == vipSetFrameSize(b, vvSel.size)
             d == vipSetFrameCaptureAddr(c, 1, f2)
  <2>1. a \in VvVipType /\ ~a.on  BY <1>1, VvVipDriver
  <2> HIDE DEF a
  <2>2. b \in VvVipType /\ ~b.on /\ b.format = vvSel.format  BY <1>1, <2>1, VvVipDriver
  <2> HIDE DEF b
  <2>3. c \in VvVipType /\ ~c.on /\ c.format = vvSel.format /\ c.fs = VvVipFS[vvSel.size]  BY <2>2, VvVipDriver
  <2> HIDE DEF c
  <2>4. /\ d \in VvVipType /\ ~d.on /\ d.format = vvSel.format /\ d.fs = VvVipFS[vvSel.size] /\ d.f1 = 1 /\ d.f2 = f2
    BY <2>3, VvVipDriver
  <2> HIDE DEF d
  <2>5. VvVipSet(f2) = d  BY DEF VvVipSet, a, b, c, d
  <2> QED  BY <2>4, <2>5
<1>3. LET w == VvVopSet
      IN w \in VvVopType /\ w.fss = VvVopFSS[vvSel.size] /\ w.hw = {1} /\ w.format = vvSel.format
         /\ ~w.on /\ ~w.inte /\ ~w.read
  <2> DEFINE a == vopReset(vvVop)
             b == vopSetOutFormat(a, vvSel.format)
             c == vopSetFrameSize(b, vvSel.size)
             d == vopSetFrameDisplayAddr(c, 1)
  <2>1. a \in VvVopType /\ ~a.on /\ ~a.inte /\ ~a.read /\ a.hw = {}  BY <1>1, VvVopDriver
  <2> HIDE DEF a
  <2>2. b \in VvVopType /\ ~b.on /\ ~b.inte /\ ~b.read /\ b.hw = {} /\ b.format = vvSel.format  BY <1>1, <2>1, VvVopDriver
  <2> HIDE DEF b
  <2>3. /\ c \in VvVopType /\ ~c.on /\ ~c.inte /\ ~c.read /\ c.hw = {} /\ c.format = vvSel.format
        /\ c.fss = VvVopFSS[vvSel.size]
    BY <2>2, VvVopDriver
  <2> HIDE DEF c
  <2>4. /\ d \in VvVopType /\ ~d.on /\ ~d.inte /\ ~d.read /\ d.hw = {1} /\ d.format = vvSel.format
        /\ d.fss = VvVopFSS[vvSel.size]
    BY <2>3, VvVopDriver
  <2> HIDE DEF d
  <2>5. VvVopSet = d  BY DEF VvVopSet, a, b, c, d
  <2> QED  BY <2>4, <2>5
<1> QED  BY <1>2, <1>3

LEMMA VvPainted ==
  ASSUME VvChips, NEW size \in VvSizes
  PROVE  socle_init_color_bar(size) \in VvFrameType /\ socle_init_color_bar(size).lcd = vvFrame.lcd
<1> DEFINE w == VvVopFSS[size] \div 1024
           h == VvVopFSS[size] % 1024
           v == w \div 16
           g == h \div 16
           y == g * 16 * v * 16
           c == g * 8 * v * 8
<1>1. w \in Nat /\ h \in Nat  BY DEF VvSizes, VvVopFSS
<1>2. socle_init_color_bar(size) = [vvFrame EXCEPT !.y = y, !.c = c]
  BY DEF socle_init_color_bar
<1> HIDE DEF w, h
<1>3. v \in Nat /\ g \in Nat  BY <1>1
<1> HIDE DEF v, g
<1>4. y \in Nat /\ c \in Nat  BY <1>3
<1> HIDE DEF y, c
<1>5. vvFrame \in VvFrameType  BY DEF VvChips
<1>6. [vvFrame EXCEPT !.y = y, !.c = c] \in VvFrameType /\ [vvFrame EXCEPT !.y = y, !.c = c].lcd = vvFrame.lcd
  <2> DEFINE first == [vvFrame EXCEPT !.y = y]
  <2>1. first \in VvFrameType /\ first.lcd = vvFrame.lcd  BY <1>4, <1>5 DEF VvFrameType
  <2>2. [vvFrame EXCEPT !.y = y, !.c = c] = [first EXCEPT !.c = c]  BY <1>5 DEF VvFrameType
  <2> HIDE DEF first
  <2>3. [first EXCEPT !.c = c] \in VvFrameType /\ [first EXCEPT !.c = c].lcd = first.lcd  BY <1>4, <2>1 DEF VvFrameType
  <2> QED  BY <2>1, <2>2, <2>3
<1> QED  BY <1>2, <1>6

(* A run fails, or shows its picture.                                      *)
LEMMA VvRunFails ==
  ASSUME VvInv, tmDo.pc = "run", TmItemReturns(-1), UNCHANGED <<vvSel, vvOn>>, VvChips',
         ~vvVop'.on, ~vvVop'.inte, ~vvVop'.read, ~vvVip'.on, ~vvFrame'.lcd
  PROVE  VvInv'
<1>1. vvOn' \in VvOnType  BY DEF VvInv, VvTyped
<1>2. VvSame /\ VvPath' /\ VvFailed' /\ tmDo'.pc = "back" /\ VvTyped'
  BY <1>1, VvItemReturns
<1>3. VvChosen'  BY <1>2, VvSameChosen DEF VvInv, VvLcdLeft
<1>4. VvDevices'  BY <1>2 DEF VvDevices
<1> QED  BY <1>2, <1>3, <1>4 DEF VvInv

LEMMA VvRunSelected ==
  ASSUME VvInv, tmDo.pc \in {"run", "shows"}
  PROVE  /\ VvTyped /\ VvChips /\ vvSel \in VvSelType /\ vvSel.size \in VvSizes
         /\ VvDepth = (IF VvLcd(4) THEN 5 ELSE 4)
         /\ VvDepth = 4 => vvSel.size = tmDo.func
         /\ VvDepth = 5 => vvSel.yuv = IF tmDo.func = "socle_vip_422_test" THEN 422 ELSE 420
<1>1. VvTyped /\ VvChips /\ vvSel \in VvSelType  BY DEF VvInv, VvTyped
<1>2. VvDepth = IF VvLcd(4) THEN 5 ELSE 4  BY DEF VvInv, VvPath
<1>3. VvDepth = 4 => vvSel.size = tmDo.func /\ tmDo.func \in VvLevel(5)  BY DEF VvInv, VvChosen, VvPath
<1>4. VvDepth = 5 => vvSel.size = tmCalls[5].func /\ tmCalls[5].func \in VvLevel(5)  BY DEF VvInv, VvChosen, VvPath
<1>5. VvLevel(5) = VvSizes  BY DEF VvLevel
<1>6. VvDepth = 5 => vvSel.yuv = IF tmDo.func = "socle_vip_422_test" THEN 422 ELSE 420  BY DEF VvInv, VvChosen
<1> QED  BY <1>1, <1>2, <1>3, <1>4, <1>5, <1>6

LEMMA VvRunShows ==
  ASSUME VvInv, tmDo.pc = "run", tmDo' = [tmDo EXCEPT !.pc = "shows"], UNCHANGED <<tmCalls, tmLayer, tmName, tmLeft, vvSel, vvOn>>
  PROVE  VvTyped' /\ VvPath' /\ VvChosen' /\ VvFailed' /\ tmDo'.pc = "shows"
<1>1. /\ VvDepth = (IF VvLcd(4) THEN 5 ELSE 4) /\ vvSel \in VvSelType
      /\ VvDepth = 4 => vvSel.size = tmDo.func
      /\ VvDepth = 5 => vvSel.yuv = IF tmDo.func = "socle_vip_422_test" THEN 422 ELSE 420
  BY VvRunSelected
<1> QED  BY <1>1, VvGoesTo

LEMMA VvToVopRun == ASSUME VvInv, socle_vip_to_vop_run PROVE VvInv'
<1> DEFINE vip == VvVipSet(2)
           vop == vopSetFrameMode(vopSetFrameDisplayAddr(VvVopSet, 2), "two")
<1>1. vvSel.flag = "vop" /\ tmDo.pc = "run" /\ UNCHANGED <<vvSel, vvOn>> /\ VvRun(vip, vop, vvFrame)
  BY DEF socle_vip_to_vop_run, VvRun
<1>2. VvChips /\ vvSel \in VvSelType /\ vvSel.size \in VvSizes /\ VvDevices  BY <1>1, VvRunSelected DEF VvInv
<1>3. /\ vip \in VvVipType /\ vip.fs = VvVipFS[vvSel.size] /\ vip.f1 = 1 /\ vip.f2 = 2 /\ vip.format = vvSel.format /\ ~vip.on
  BY <1>2, VvSetUp
<1>4. /\ vop \in VvVopType /\ vop.fss = VvVopFSS[vvSel.size] /\ vop.hw # {} /\ vop.format = vvSel.format /\ vop.isr = "two"
      /\ ~vop.on /\ ~vop.inte /\ ~vop.read
  <2> DEFINE a == VvVopSet
             b == vopSetFrameDisplayAddr(a, 2)
  <2>1. /\ a \in VvVopType /\ a.fss = VvVopFSS[vvSel.size] /\ a.hw = {1} /\ a.format = vvSel.format
        /\ ~a.on /\ ~a.inte /\ ~a.read
    BY <1>2, VvSetUp
  <2> HIDE DEF a
  <2>2. /\ b \in VvVopType /\ b.fss = VvVopFSS[vvSel.size] /\ b.hw # {} /\ b.format = vvSel.format
        /\ ~b.on /\ ~b.inte /\ ~b.read
    BY <2>1, VvVopDriver
  <2> HIDE DEF b
  <2>3. /\ vopSetFrameMode(b, "two") \in VvVopType /\ vopSetFrameMode(b, "two").fss = VvVopFSS[vvSel.size]
        /\ vopSetFrameMode(b, "two").hw # {} /\ vopSetFrameMode(b, "two").format = vvSel.format
        /\ vopSetFrameMode(b, "two").isr = "two" /\ ~vopSetFrameMode(b, "two").on /\ ~vopSetFrameMode(b, "two").inte
        /\ ~vopSetFrameMode(b, "two").read
    BY <2>2, VvVopDriver
  <2> QED  BY <2>3 DEF a, b
<1>5. vvFrame \in VvFrameType /\ ~vvFrame.lcd
  BY <1>1, <1>2 DEF VvChips, VvDevices
<1> HIDE DEF vip, vop
<1>6. CASE vvVip' = vip /\ vvVop' = vop /\ vvFrame' = vvFrame /\ TmItemReturns(-1)
  <2>1. VvChips'  BY <1>3, <1>4, <1>5, <1>6 DEF VvChips
  <2>2. ~vvVop'.on /\ ~vvVop'.inte /\ ~vvVop'.read /\ ~vvVip'.on /\ ~vvFrame'.lcd  BY <1>3, <1>4, <1>5, <1>6
  <2> QED  BY <1>1, <1>6, <2>1, <2>2, VvRunFails
<1>7. CASE /\ vvVip' = vipStart(vip) /\ vvVop' = vopStart(vop) /\ vvFrame' = vvFrame
           /\ tmDo' = [tmDo EXCEPT !.pc = "shows"] /\ UNCHANGED <<tmCalls, tmLayer, tmName, tmLeft>>
  <2>1. VvTyped' /\ VvPath' /\ VvChosen' /\ VvFailed' /\ tmDo'.pc = "shows"  BY <1>1, <1>7, VvRunShows
  <2>2. /\ vvVip' \in VvVipType /\ vvVip'.on /\ vvVip'.fs = VvVipFS[vvSel.size] /\ vvVip'.f1 = 1 /\ vvVip'.f2 = 2
        /\ vvVip'.format = vvSel.format
    BY <1>3, <1>7, VvVipDriver
  <2>3. /\ vvVop' \in VvVopType /\ vvVop'.on /\ vvVop'.inte /\ vvVop'.fss = VvVopFSS[vvSel.size] /\ vvVop'.hw # {}
        /\ vvVop'.format = vvSel.format /\ vvVop'.isr = "two"
    BY <1>4, <1>7, VvVopDriver
  <2>4. VvChips'  BY <1>5, <1>7, <2>2, <2>3 DEF VvChips
  <2>5. VvVopShows' /\ VvVipShows'  BY <1>1, <2>2, <2>3 DEF VvVopShows, VvVipShows, VvHeld
  <2>6. VvDevices'  BY <1>1, <1>5, <1>7, <2>1, <2>2, <2>3, <2>5 DEF VvDevices
  <2> QED  BY <2>1, <2>4, <2>6 DEF VvInv
<1> QED  BY <1>1, <1>6, <1>7 DEF VvRun

LEMMA VvToLcdRun == ASSUME VvInv, socle_vip_to_lcd_run PROVE VvInv'
<1> DEFINE vip == vipSet422Output(VvVipSet(1), vvSel.yuv)
<1>1. vvSel.flag = "lcd" /\ tmDo.pc = "run" /\ UNCHANGED <<vvSel, vvOn>> /\ VvRun(vip, vvVop, vvFrame)
  BY DEF socle_vip_to_lcd_run, VvRun
<1>2. VvChips /\ vvSel \in VvSelType /\ vvSel.size \in VvSizes /\ VvDevices  BY <1>1, VvRunSelected DEF VvInv
<1>3. /\ vip \in VvVipType /\ vip.fs = VvVipFS[vvSel.size] /\ vip.f1 = 1 /\ vip.f2 = 1 /\ vip.format = vvSel.format
      /\ ~vip.on /\ vip.yuv = vvSel.yuv
  <2> DEFINE a == VvVipSet(1)
  <2>1. a \in VvVipType /\ a.fs = VvVipFS[vvSel.size] /\ a.f1 = 1 /\ a.f2 = 1 /\ a.format = vvSel.format /\ ~a.on
    BY <1>2, VvSetUp
  <2>2. vvSel.yuv \in {420, 422}  BY <1>2 DEF VvSelType
  <2> HIDE DEF a
  <2>3. /\ vipSet422Output(a, vvSel.yuv) \in VvVipType /\ vipSet422Output(a, vvSel.yuv).fs = VvVipFS[vvSel.size]
        /\ vipSet422Output(a, vvSel.yuv).f1 = 1 /\ vipSet422Output(a, vvSel.yuv).f2 = 1
        /\ vipSet422Output(a, vvSel.yuv).format = vvSel.format
        /\ ~vipSet422Output(a, vvSel.yuv).on /\ vipSet422Output(a, vvSel.yuv).yuv = vvSel.yuv
    BY <2>1, <2>2, VvVipDriver
  <2> QED  BY <2>3 DEF a
<1>4. vvFrame \in VvFrameType /\ ~vvFrame.lcd /\ vvVop \in VvVopType /\ ~vvVop.on /\ ~vvVop.inte /\ ~vvVop.read
  BY <1>1, <1>2 DEF VvChips, VvDevices
<1> HIDE DEF vip
<1>5. CASE vvVip' = vip /\ vvVop' = vvVop /\ vvFrame' = vvFrame /\ TmItemReturns(-1)
  <2>1. VvChips'  BY <1>3, <1>4, <1>5 DEF VvChips
  <2> QED  BY <1>1, <1>3, <1>4, <1>5, <2>1, VvRunFails
<1>6. CASE /\ vvVip' = vipStart(vip) /\ vvVop' = vvVop /\ vvFrame' = [vvFrame EXCEPT !.lcd = TRUE, !.yuv = vvSel.yuv]
           /\ tmDo' = [tmDo EXCEPT !.pc = "shows"] /\ UNCHANGED <<tmCalls, tmLayer, tmName, tmLeft>>
  <2>1. VvTyped' /\ VvPath' /\ VvChosen' /\ VvFailed' /\ tmDo'.pc = "shows"  BY <1>1, <1>6, VvRunShows
  <2>2. /\ vvVip' \in VvVipType /\ vvVip'.on /\ vvVip'.fs = VvVipFS[vvSel.size] /\ vvVip'.f1 = 1 /\ vvVip'.f2 = 1
        /\ vvVip'.format = vvSel.format /\ vvVip'.yuv = vvSel.yuv
    BY <1>3, <1>6, VvVipDriver
  <2>3. vvFrame' \in VvFrameType /\ vvFrame'.lcd /\ vvFrame'.yuv = vvSel.yuv
    <3> DEFINE yuv == vvSel.yuv
    <3>1. yuv \in {420, 422} /\ vvFrame' = [vvFrame EXCEPT !.lcd = TRUE, !.yuv = yuv]  BY <1>2, <1>6 DEF VvSelType
    <3> HIDE DEF yuv
    <3>2. vvFrame' \in VvFrameType
      <4> DEFINE v == [vvFrame EXCEPT !.lcd = TRUE]
      <4>1. \A w \in VvFrameType, lcd \in BOOLEAN : [w EXCEPT !.lcd = lcd] \in VvFrameType  BY DEF VvFrameType
      <4>2. v \in VvFrameType  BY <1>4, <4>1
      <4>3. vvFrame' = [v EXCEPT !.yuv = yuv]  BY <3>1
      <4> HIDE DEF v
      <4> QED  BY <3>1, <4>2, <4>3 DEF VvFrameType
    <3>3. vvFrame'.lcd /\ vvFrame'.yuv = yuv  BY <1>4, <3>1 DEF VvFrameType
    <3> QED  BY <3>2, <3>3 DEF yuv
  <2>4. VvChips'  BY <1>4, <1>6, <2>2, <2>3 DEF VvChips
  <2>5. VvVipShows'  BY <1>1, <2>2 DEF VvVipShows
  <2>6. VvDevices'  BY <1>1, <1>4, <1>6, <2>1, <2>2, <2>3, <2>5 DEF VvDevices
  <2> QED  BY <2>1, <2>4, <2>6 DEF VvInv
<1> QED  BY <1>1, <1>5, <1>6 DEF VvRun

LEMMA VvColorRun == ASSUME VvInv, socle_vop_color_display_run PROVE VvInv'
<1> DEFINE vop == vopSetFrameMode(VvVopSet, "one")
           frame == socle_init_color_bar(vvSel.size)
<1>1. vvSel.flag = "color" /\ tmDo.pc = "run" /\ UNCHANGED <<vvSel, vvOn>> /\ VvRun(vvVip, vop, frame)
  BY DEF socle_vop_color_display_run, VvRun
<1>2. VvChips /\ vvSel \in VvSelType /\ vvSel.size \in VvSizes /\ VvDevices  BY <1>1, VvRunSelected DEF VvInv
<1>3. /\ vop \in VvVopType /\ vop.fss = VvVopFSS[vvSel.size] /\ vop.hw # {} /\ vop.format = vvSel.format /\ vop.isr = "one"
      /\ ~vop.on /\ ~vop.inte /\ ~vop.read
  <2> DEFINE a == VvVopSet
  <2>1. /\ a \in VvVopType /\ a.fss = VvVopFSS[vvSel.size] /\ a.hw # {} /\ a.format = vvSel.format
        /\ ~a.on /\ ~a.inte /\ ~a.read
    BY <1>2, VvSetUp
  <2> HIDE DEF a
  <2>2. /\ vopSetFrameMode(a, "one") \in VvVopType /\ vopSetFrameMode(a, "one").fss = VvVopFSS[vvSel.size]
        /\ vopSetFrameMode(a, "one").hw # {} /\ vopSetFrameMode(a, "one").format = vvSel.format
        /\ vopSetFrameMode(a, "one").isr = "one" /\ ~vopSetFrameMode(a, "one").on /\ ~vopSetFrameMode(a, "one").inte
        /\ ~vopSetFrameMode(a, "one").read
    BY <2>1, VvVopDriver
  <2> QED  BY <2>2 DEF a
<1>4. vvVip \in VvVipType /\ ~vvVip.on /\ ~vvFrame.lcd
  BY <1>1, <1>2 DEF VvChips, VvDevices
<1>5. frame \in VvFrameType /\ ~frame.lcd  BY <1>2, <1>4, VvPainted
<1> HIDE DEF vop
<1>6. CASE vvVip' = vvVip /\ vvVop' = vop /\ vvFrame' = frame /\ TmItemReturns(-1)
  <2> HIDE DEF frame
  <2>1. VvChips'  BY <1>3, <1>4, <1>5, <1>6 DEF VvChips
  <2>2. ~vvVop'.on /\ ~vvVop'.inte /\ ~vvVop'.read /\ ~vvVip'.on /\ ~vvFrame'.lcd  BY <1>3, <1>4, <1>5, <1>6
  <2> QED  BY <1>1, <1>6, <2>1, <2>2, VvRunFails
<1>7. CASE /\ vvVip' = vvVip /\ vvVop' = vopStart(vop) /\ vvFrame' = frame
           /\ tmDo' = [tmDo EXCEPT !.pc = "shows"] /\ UNCHANGED <<tmCalls, tmLayer, tmName, tmLeft>>
  <2>1. VvTyped' /\ VvPath' /\ VvChosen' /\ VvFailed' /\ tmDo'.pc = "shows"  BY <1>1, <1>7, VvRunShows
  <2>2. /\ vvVop' \in VvVopType /\ vvVop'.on /\ vvVop'.inte /\ vvVop'.fss = VvVopFSS[vvSel.size] /\ vvVop'.hw # {}
        /\ vvVop'.format = vvSel.format /\ vvVop'.isr = "one"
    BY <1>3, <1>7, VvVopDriver
  <2>3. vvFrame'.y = socle_init_color_bar(vvSel.size)'.y /\ vvFrame'.c = socle_init_color_bar(vvSel.size)'.c
    <3>1. vvFrame \in VvFrameType /\ vvFrame' \in VvFrameType  BY <1>2, <1>5, <1>7 DEF VvChips
    <3> QED  BY <1>1, <1>7, <3>1 DEF socle_init_color_bar, VvFrameType
  <2> HIDE DEF frame
  <2>4. VvChips'  BY <1>4, <1>5, <1>7, <2>2 DEF VvChips
  <2>5. VvVopShows'  BY <1>1, <2>2 DEF VvVopShows, VvHeld
  <2>6. VvDevices'  BY <1>1, <1>4, <1>5, <1>7, <2>1, <2>2, <2>3, <2>5 DEF VvDevices
  <2> QED  BY <2>1, <2>4, <2>6 DEF VvInv
<1> QED  BY <1>1, <1>6, <1>7 DEF VvRun

(* Enter ends what is shown.                                               *)
LEMMA VvEnterKey == ASSUME VvInv, VvEnter PROVE VvInv'
<1>1. tmDo.pc = "shows" /\ ~vvVop.read /\ TmItemReturns(0) /\ UNCHANGED <<vvSel, vvOn>>  BY DEF VvEnter
<1>2. VvChips /\ VvDevices /\ vvOn' \in VvOnType /\ vvVip \in VvVipType /\ vvVop \in VvVopType /\ vvFrame \in VvFrameType
  BY <1>1 DEF VvInv, VvTyped, VvChips
<1>3. VvSame /\ VvPath' /\ VvFailed' /\ tmDo'.pc = "back" /\ VvTyped'
  BY <1>1, <1>2, VvItemReturns
<1>4. VvChosen'  BY <1>1, <1>3, VvSameChosen DEF VvInv, VvLcdLeft
<1>5. vvVip' \in VvVipType /\ ~vvVip'.on
  <2>1. CASE vvSel.flag = "color"  BY <1>1, <1>2, <2>1 DEF VvEnter, VvDevices
  <2>2. CASE vvSel.flag # "color"  BY <1>2, <2>2, VvVipDriver DEF VvEnter
  <2> QED  BY <2>1, <2>2
<1>6. vvVop' \in VvVopType /\ ~vvVop'.on /\ ~vvVop'.inte /\ ~vvVop'.read
  <2>1. CASE vvSel.flag = "lcd"  BY <1>1, <1>2, <2>1 DEF VvEnter, VvDevices
  <2>2. CASE vvSel.flag # "lcd"  BY <1>1, <1>2, <2>2, VvVopDriver DEF VvEnter
  <2> QED  BY <2>1, <2>2
<1>7. vvFrame' \in VvFrameType /\ ~vvFrame'.lcd
  <2>1. CASE vvSel.flag = "lcd"
    <3>1. vvFrame' = [vvFrame EXCEPT !.lcd = FALSE]  BY <2>1 DEF VvEnter
    <3>2. \A v \in VvFrameType, lcd \in BOOLEAN : [v EXCEPT !.lcd = lcd] \in VvFrameType  BY DEF VvFrameType
    <3>3. ~vvFrame'.lcd  BY <1>2, <3>1 DEF VvFrameType
    <3> QED  BY <1>2, <3>1, <3>2, <3>3
  <2>2. CASE vvSel.flag # "lcd"
    <3>1. vvFrame' = vvFrame  BY <2>2 DEF VvEnter
    <3>2. vvSel.flag \in {"vop", "color"}  BY <2>2 DEF VvInv, VvTyped, VvSelType
    <3> QED  BY <1>1, <1>2, <3>1, <3>2 DEF VvDevices
  <2> QED  BY <2>1, <2>2
<1>8. VvChips' /\ VvDevices'  BY <1>3, <1>5, <1>6, <1>7 DEF VvChips, VvDevices
<1> QED  BY <1>3, <1>4, <1>8 DEF VvInv

(* The interrupt of VOP: only while it shows something.                    *)
LEMMA VvOnlyVop ==
  ASSUME VvInv, UNCHANGED <<tmVars, vvSel, vvOn, vvVip, vvFrame>>, vvVop.on \/ vvVop.inte \/ vvVop.read,
         vvVop' \in VvVopType, vvVop'.on = vvVop.on, vvVop'.inte = vvVop.inte, vvVop'.format = vvVop.format, vvVop'.fss = vvVop.fss,
         vvVop'.isr = vvVop.isr, vvVop.inte => VvHeld'
  PROVE  VvInv'
<1>1. UNCHANGED <<tmCalls, tmDo, tmLayer, tmName>>  BY DEF tmVars
<1>2. VvTyped'  BY <1>1 DEF VvInv, VvTyped
<1>3. VvPath'  BY <1>1 DEF VvInv, VvPath, VvDepth, VvLcd
<1>4. VvChosen'
  <2>1. VvDepth' = VvDepth /\ (VvLcd(3)' <=> VvLcd(3)) /\ (VvLcd(4)' <=> VvLcd(4)) /\ (VvLcdLeft' <=> VvLcdLeft)
    BY <1>1 DEF VvDepth, VvLcd, VvLcdLeft
  <2>2. VvSizesOf(VvLcd(4))' = VvSizesOf(VvLcd(4)) /\ VvSizesOf(VvLcd(3) \/ VvLcdLeft)' = VvSizesOf(VvLcd(3) \/ VvLcdLeft)
    BY <2>1 DEF VvSizesOf
  <2>3. VvChosen  BY DEF VvInv
  <2> QED  BY <1>1, <2>1, <2>2, <2>3 DEF VvChosen
<1>5. VvFailed'
  <2>1. VvFailed  BY DEF VvInv
  <2> QED  BY <1>1, <2>1 DEF VvFailed, VvPending, VvDepth
<1>6. VvChips'  BY DEF VvInv, VvChips
<1>7. VvDevices'
  <2>1. VvDevices /\ vvSel.flag \in {"vop", "lcd", "color"}  BY DEF VvInv, VvTyped, VvSelType
  <2>2. tmDo.pc = "shows" /\ vvSel.flag \in {"vop", "color"}  BY <2>1 DEF VvDevices
  <2>3. VvVopShows'  BY <2>1, <2>2 DEF VvDevices, VvVopShows
  <2>4. VvVipShows' <=> VvVipShows  BY DEF VvVipShows
  <2>5. CASE vvSel.flag = "vop"  BY <1>1, <2>1, <2>2, <2>3, <2>4, <2>5 DEF VvDevices
  <2>6. CASE vvSel.flag = "color"
    <3>1. socle_init_color_bar(vvSel.size)' = socle_init_color_bar(vvSel.size)  BY DEF socle_init_color_bar
    <3> QED  BY <1>1, <2>1, <2>2, <2>3, <2>6, <3>1 DEF VvDevices
  <2> QED  BY <2>2, <2>5, <2>6
<1> QED  BY <1>2, <1>3, <1>4, <1>5, <1>6, <1>7 DEF VvInv

LEMMA VvInterrupt ==
  ASSUME VvInv, VvDisplayed \/ VvReadsStatus \/ vopOneFrameIsr \/ vopTwoFrameIsr
  PROVE  VvInv'
<1>1. vvVop \in VvVopType /\ VvDevices /\ vvSel.flag \in {"vop", "lcd", "color"}  BY DEF VvInv, VvChips, VvTyped, VvSelType
<1>2. UNCHANGED <<tmVars, vvSel, vvOn, vvVip, vvFrame>>
  BY DEF VvDisplayed, VvReadsStatus, vopOneFrameIsr, vopTwoFrameIsr, VvGivesBack
<1>3. CASE VvDisplayed
  <2>1. PICK f \in vvVop.hw : vvVop' = [vvVop EXCEPT !.hw = @ \ {f}, !.int = TRUE]  BY <1>3 DEF VvDisplayed
  <2> DEFINE hw == vvVop.hw \ {f}
  <2>2. hw \in SUBSET {1, 2} /\ vvVop' = [vvVop EXCEPT !.hw = hw, !.int = TRUE]  BY <1>1, <2>1 DEF VvVopType
  <2> HIDE DEF hw
  <2>3. \A v \in VvVopType, int \in BOOLEAN : [v EXCEPT !.hw = hw, !.int = int] \in VvVopType  BY <2>2 DEF VvVopType
  <2>4. vvVop' \in VvVopType  BY <1>1, <2>2, <2>3
  <2>5. /\ vvVop'.on = vvVop.on /\ vvVop'.inte = vvVop.inte /\ vvVop'.format = vvVop.format /\ vvVop'.fss = vvVop.fss
        /\ vvVop'.isr = vvVop.isr /\ vvVop'.int
    BY <1>1, <2>2 DEF VvVopType
  <2>6. vvVop.on  BY <1>3 DEF VvDisplayed
  <2>7. vvVop.inte /\ vvVop.isr # "none"  BY <1>1, <2>6 DEF VvDevices, VvVopShows
  <2> QED  BY <1>2, <2>4, <2>5, <2>6, <2>7, VvOnlyVop DEF VvHeld
<1>4. CASE VvReadsStatus
  <2>1. vvVop' = [vvVop EXCEPT !.int = FALSE, !.read = TRUE] /\ vvVop.inte  BY <1>4 DEF VvReadsStatus
  <2>2. \A v \in VvVopType, int, read \in BOOLEAN : [v EXCEPT !.int = int, !.read = read] \in VvVopType  BY DEF VvVopType
  <2>3. vvVop' \in VvVopType  BY <1>1, <2>1, <2>2
  <2>4. /\ vvVop'.on = vvVop.on /\ vvVop'.inte = vvVop.inte /\ vvVop'.format = vvVop.format /\ vvVop'.fss = vvVop.fss
        /\ vvVop'.isr = vvVop.isr /\ vvVop'.read
    BY <1>1, <2>1 DEF VvVopType
  <2> QED  BY <1>2, <2>1, <2>3, <2>4, VvOnlyVop DEF VvHeld
<1>5. ASSUME NEW mode, NEW frames \in SUBSET {1, 2}, frames # {}, VvGivesBack(mode, frames) PROVE VvInv'
  <2> DEFINE hw == vvVop.hw \cup frames
  <2>1. hw \in SUBSET {1, 2} /\ hw # {} /\ vvVop' = [vvVop EXCEPT !.read = FALSE, !.hw = hw] /\ vvVop.read
    BY <1>1, <1>5 DEF VvVopType, VvGivesBack
  <2> HIDE DEF hw
  <2>2. \A v \in VvVopType, read \in BOOLEAN : [v EXCEPT !.read = read, !.hw = hw] \in VvVopType  BY <2>1 DEF VvVopType
  <2>3. vvVop' \in VvVopType  BY <1>1, <2>1, <2>2
  <2>4. /\ vvVop'.on = vvVop.on /\ vvVop'.inte = vvVop.inte /\ vvVop'.format = vvVop.format /\ vvVop'.fss = vvVop.fss
        /\ vvVop'.isr = vvVop.isr /\ vvVop'.hw # {}
    BY <1>1, <2>1 DEF VvVopType
  <2> QED  BY <1>2, <2>1, <2>3, <2>4, VvOnlyVop DEF VvHeld
<1>6. CASE vopOneFrameIsr  BY <1>5, <1>6 DEF vopOneFrameIsr
<1>7. CASE vopTwoFrameIsr  BY <1>5, <1>7 DEF vopTwoFrameIsr
<1> QED  BY <1>3, <1>4, <1>6, <1>7

LEMMA VvNextStep == VvInv /\ [VvStep]_videoVars => VvInv'
<1> SUFFICES ASSUME VvInv, [VvStep]_videoVars PROVE VvInv'
  OBVIOUS
<1>1. CASE TmStep /\ UNCHANGED <<vvSel, vvOn, vvVip, vvVop, vvFrame>>  BY <1>1, VvShell
<1>2. CASE VIP_VOP_Testing  BY <1>2, VvMainItem
<1>3. CASE socle_vip_to_vop_test \/ socle_vip_to_lcd_test \/ socle_vop_color_display_test  BY <1>3, VvTestItems
<1>4. CASE socle_viop_ntsc_test \/ socle_viop_pal_test  BY <1>4, VvFormatItems
<1>5. CASE socle_viop_cif_test \/ socle_viop_qvga_test \/ socle_viop_vga_test \/ socle_viop_d1_test
  BY <1>5, VvSizeItem DEF socle_viop_cif_test, socle_viop_qvga_test, socle_viop_vga_test, socle_viop_d1_test, VvSizes
<1>6. CASE socle_vip_420_test \/ socle_vip_422_test  BY <1>6, VvYuvItems
<1>7. CASE VvOther  BY <1>7, VvOtherItem
<1>8. CASE VvLeft  BY <1>8, VvLeaveMenu
<1>9. CASE socle_vip_to_vop_run  BY <1>9, VvToVopRun
<1>10. CASE socle_vip_to_lcd_run  BY <1>10, VvToLcdRun
<1>11. CASE socle_vop_color_display_run  BY <1>11, VvColorRun
<1>12. CASE VvEnter  BY <1>12, VvEnterKey
<1>13. CASE VvDisplayed \/ VvReadsStatus \/ vopOneFrameIsr \/ vopTwoFrameIsr  BY <1>13, VvInterrupt
<1>14. CASE UNCHANGED videoVars
  <2>1. UNCHANGED <<tmCalls, tmDo, tmLayer, tmName, vvSel, vvOn, vvVip, vvVop, vvFrame>>
    BY <1>14 DEF videoVars, tmVars
  <2>2. VvTyped' /\ VvChips' /\ VvPath'  BY <2>1 DEF VvInv, VvTyped, VvChips, VvPath, VvDepth, VvLcd
  <2>3. VvChosen'
    <3>1. VvDepth' = VvDepth /\ (VvLcd(3)' <=> VvLcd(3)) /\ (VvLcd(4)' <=> VvLcd(4)) /\ (VvLcdLeft' <=> VvLcdLeft)
      BY <2>1 DEF VvDepth, VvLcd, VvLcdLeft
    <3>2. VvSizesOf(VvLcd(4))' = VvSizesOf(VvLcd(4)) /\ VvSizesOf(VvLcd(3) \/ VvLcdLeft)' = VvSizesOf(VvLcd(3) \/ VvLcdLeft)
      BY <3>1 DEF VvSizesOf
    <3>3. VvChosen  BY DEF VvInv
    <3> QED  BY <2>1, <3>1, <3>2, <3>3 DEF VvChosen
  <2>4. VvDevices'
    <3>1. socle_init_color_bar(vvSel.size)' = socle_init_color_bar(vvSel.size) /\ VvVopShows' = VvVopShows /\ VvVipShows' = VvVipShows
      BY <2>1 DEF socle_init_color_bar, VvVopShows, VvVipShows, VvHeld
    <3>2. VvDevices  BY DEF VvInv
    <3> QED  BY <2>1, <3>1, <3>2 DEF VvDevices
  <2>5. VvFailed'
    <3>1. VvFailed  BY DEF VvInv
    <3> QED  BY <2>1, <3>1 DEF VvFailed, VvPending, VvDepth
  <2> QED  BY <2>2, <2>3, <2>4, <2>5 DEF VvInv
<1> QED
  BY <1>1, <1>2, <1>3, <1>4, <1>5, <1>6, <1>7, <1>8, <1>9, <1>10, <1>11, <1>12, <1>13, <1>14 DEF VvStep

LEMMA VvCallOf ==
  ASSUME NEW func \in VvFunc, NEW items \in VvList, NEW auto \in {0, 1}
  PROVE  LET call == TmCall(func, items, auto)
         IN /\ call \in VvCall /\ call.func = func /\ call.items = items /\ call.act = test_item_get_act_items(items)
            /\ (call.auto <=> auto = 1) /\ call.err = 0 /\ ~call.failed
<1>1. test_item_get_act_items(items) \in SUBSET Nat  BY DEF test_item_get_act_items, VvList
<1> QED  BY <1>1 DEF TmCall, VvCall

LEMMA VvBegins == ASSUME NEW pc \in {"off", "key"}, VvStart(pc) PROVE VvInv
<1>1. tmCalls = (IF pc = "off" THEN <<>> ELSE <<TmCall("TestEntry", VvMain, 0)>>) /\ tmDo = TmDo(pc, "none", 0, 0)
      /\ tmLayer = 0 /\ tmName = [layer \in 0 .. 19 |-> "none"]
  BY DEF VvStart, TmStart, TmNone, TmDo
<1>2. /\ vvSel = [flag |-> "vop", format |-> "ntsc", size |-> "none", yuv |-> 420]
      /\ vvVip = VvVipOff /\ vvVop = VvVopOff /\ vvFrame = [y |-> 0, c |-> 0, lcd |-> FALSE, yuv |-> 420]
  BY DEF VvStart
<1>3. PICK have \in BOOLEAN : vvOn = [vip |-> have, sizes |-> VvSizes]
  BY DEF VvStart
<1> DEFINE call == TmCall("TestEntry", VvMain, 0)
<1>4. call \in VvCall /\ call.func = "TestEntry" /\ call.items = VvMain /\ call.act = test_item_get_act_items(VvMain)
      /\ ~call.auto /\ call.err = 0 /\ ~call.failed
  <2>1. VvMain \in VvList  BY VvMainMenu DEF VvIsMenu
  <2>2. "TestEntry" \in VvFunc  BY DEF VvFunc
  <2> QED  BY <2>1, <2>2, VvCallOf
<1> HIDE DEF call
<1>5. tmCalls \in Seq(VvCall) /\ VvDepth = (IF pc = "off" THEN 0 ELSE 1) /\ (pc = "key" => tmCalls[1] = call)
  <2>1. CASE pc = "off"  BY <1>1, <2>1 DEF VvDepth
  <2>2. CASE pc = "key"
    <3>1. tmCalls = <<call>>  BY <1>1, <2>2 DEF call
    <3>2. <<call>> \in Seq(VvCall) /\ Len(<<call>>) = 1 /\ <<call>>[1] = call  BY <1>4
    <3> QED  BY <2>2, <3>1, <3>2 DEF VvDepth
  <2> QED  BY <2>1, <2>2
<1>6. tmDo.pc = pc /\ tmDo \in [pc : VvPc, func : VvFunc, auto : {0, 1}, ret : {0, -1}]
  BY <1>1 DEF TmDo, VvPc, VvFunc
<1>7. VvTyped
  <2>1. tmName \in [0 .. 19 -> VvFunc]  BY <1>1 DEF VvFunc
  <2>2. vvSel \in VvSelType  BY <1>2 DEF VvSelType
  <2>3. vvOn \in VvOnType  BY <1>3 DEF VvOnType
  <2> QED  BY <1>5, <1>6, <2>1, <2>2, <2>3 DEF VvTyped
<1>8. VvChips
  <2>1. vvVip \in VvVipType  BY <1>2 DEF VvVipOff, VvVipType
  <2>2. vvVop \in VvVopType  BY <1>2 DEF VvVopOff, VvVopType
  <2>3. vvFrame \in VvFrameType  BY <1>2 DEF VvFrameType
  <2> QED  BY <2>1, <2>2, <2>3 DEF VvChips
<1>9. VvPath
  <2>1. pc = "key" => call.func \in VvLevel(1) \ {"other"} /\ VvOffers(call, 1)
    <3>1. VvLevel(1) = {"TestEntry"}  BY DEF VvLevel
    <3>2. VvOffers(call, 1)  BY <1>4, VvMainMenu DEF VvOffers, VvIsMenu, test_item_get_act_items
    <3> QED  BY <1>4, <3>1, <3>2
  <2> QED  BY <1>1, <1>5, <1>6, <2>1 DEF VvPath
<1>10. VvChosen
  <2>1. ~VvLcd(3) /\ ~VvLcdLeft  BY <1>5, <1>6 DEF VvLcd, VvLcdLeft
  <2>2. vvOn.sizes = VvSizesOf(VvLcd(3) \/ VvLcdLeft)  BY <1>3, <2>1 DEF VvSizesOf
  <2> QED  BY <1>5, <1>6, <2>2 DEF VvChosen
<1>11. VvDevices  BY <1>2, <1>6 DEF VvDevices, VvVipOff, VvVopOff
<1>12. VvFailed
  <2>1. ~VvPending(1)  BY <1>5, <1>6 DEF VvPending
  <2> QED  BY <1>4, <1>5, <1>6, <2>1 DEF VvFailed
<1> QED  BY <1>7, <1>8, <1>9, <1>10, <1>11, <1>12 DEF VvInv

(* What the invariant says of the menus.                                   *)
LEMMA VvSizesFit ==
  ASSUME NEW size \in VvSizes
  PROVE  /\ VvVipFS[size] \div 65536 = VvVopFSS[size] \div 1024 /\ VvVipFS[size] % 65536 = VvVopFSS[size] % 1024
         /\ LET bar == socle_init_color_bar(size)
                area == (VvVopFSS[size] \div 1024) * (VvVopFSS[size] % 1024)
            IN vvFrame \in VvFrameType => bar.y = area /\ 4 * bar.c = area
<1>1. CASE size = "socle_viop_cif_test"
  BY <1>1 DEF VvVipFS, VvVopFSS, socle_init_color_bar, VvFrameType
<1>2. CASE size = "socle_viop_qvga_test"
  BY <1>2 DEF VvVipFS, VvVopFSS, socle_init_color_bar, VvFrameType
<1>3. CASE size = "socle_viop_vga_test"
  BY <1>3 DEF VvVipFS, VvVopFSS, socle_init_color_bar, VvFrameType
<1>4. CASE size = "socle_viop_d1_test"
  BY <1>4 DEF VvVipFS, VvVopFSS, socle_init_color_bar, VvFrameType
<1> QED  BY <1>1, <1>2, <1>3, <1>4 DEF VvSizes

LEMMA VvInvShows == VvInv /\ tmDo.pc = "shows" => VvShows
<1> SUFFICES ASSUME VvInv, tmDo.pc = "shows" PROVE VvShows
  OBVIOUS
<1>1. /\ VvTyped /\ VvChips /\ vvSel \in VvSelType /\ vvSel.size \in VvSizes
      /\ VvDepth = (IF VvLcd(4) THEN 5 ELSE 4)
  BY VvRunSelected
<1>2. /\ tmName[1] = tmCalls[3].func /\ tmName[2] = tmCalls[4].func
      /\ tmName[3] = vvSel.size /\ (VvDepth = 5 => tmName[4] = tmDo.func)
  <2>1. \A k \in 2 .. VvDepth : tmName[k - 2] = tmCalls[k].func  BY DEF VvInv, VvPath
  <2>2. tmLayer = VvDepth - 1 /\ tmName[tmLayer] = tmDo.func  BY <1>1 DEF VvInv, VvPath
  <2>3. tmName[1] = tmCalls[3].func  BY <1>1, <2>1
  <2>4. tmName[2] = tmCalls[4].func  BY <1>1, <2>1
  <2>5. VvDepth = 5 => tmName[3] = tmCalls[5].func  BY <2>1
  <2>6. VvDepth = 4 => tmName[3] = tmDo.func  BY <2>2
  <2>7. VvDepth = 5 => tmName[4] = tmDo.func  BY <2>2
  <2> QED  BY <1>1, <2>3, <2>4, <2>5, <2>6, <2>7 DEF VvInv, VvChosen
<1>3. vvSel.flag = VvFlagOf[tmName[1]] /\ vvSel.format = VvFormatOf[tmName[2]]
  BY <1>1, <1>2 DEF VvInv, VvChosen
<1>4. vvSel.flag = "lcd" => VvDepth = 5
  <2>1. tmCalls[3].func \in VvLevel(3)  BY <1>1 DEF VvInv, VvPath
  <2>2. tmCalls[3].func \in VvTestItem  BY <2>1 DEF VvLevel
  <2> QED  BY <1>1, <1>2, <1>3, <2>2 DEF VvTestItem, VvFlagOf, VvLcd
<1>5. vvSel.flag = "lcd" => vvSel.yuv = IF tmName[4] = "socle_vip_422_test" THEN 422 ELSE 420
  BY <1>2, <1>4 DEF VvInv, VvChosen
<1>6. VvDevices /\ vvFrame \in VvFrameType  BY DEF VvInv, VvChips
<1>7. /\ VvVipFS[vvSel.size] \div 65536 = VvVopFSS[vvSel.size] \div 1024
      /\ VvVipFS[vvSel.size] % 65536 = VvVopFSS[vvSel.size] % 1024
  BY <1>1, VvSizesFit
<1> DEFINE flag == VvFlagOf[tmName[1]]
           area == (vvVop.fss \div 1024) * (vvVop.fss % 1024)
           sizes == vvVip.fs \div 65536 = vvVop.fss \div 1024 /\ vvVip.fs % 65536 = vvVop.fss % 1024
           shows == /\ vvVop.on = (flag # "lcd") /\ vvVip.on = (flag # "color") /\ vvFrame.lcd = ~(flag # "lcd")
                    /\ (flag # "lcd" => vvVop.format = VvFormatOf[tmName[2]] /\ vvVop.fss = VvVopFSS[tmName[3]])
                    /\ (flag # "color" => vvVip.format = VvFormatOf[tmName[2]] /\ vvVip.fs = VvVipFS[tmName[3]] /\ vvVip.f1 = 1)
                    /\ (flag = "vop" => sizes /\ vvVip.f2 = 2)
                    /\ (flag = "lcd" => /\ vvVip.f2 = 1 /\ vvFrame.yuv = vvVip.yuv
                                        /\ vvVip.yuv = IF tmName[4] = "socle_vip_422_test" THEN 422 ELSE 420)
                    /\ (flag = "color" => vvFrame.y = area /\ 4 * vvFrame.c = area)
                    /\ (flag # "lcd" => VvHeld)
<1>11. vvVop.on \in BOOLEAN /\ vvVip.on \in BOOLEAN /\ vvFrame.lcd \in BOOLEAN
  BY DEF VvInv, VvChips, VvVopType, VvVipType, VvFrameType
<1>12. ASSUME shows PROVE VvShows
  <2>1. flag \in {"vop", "lcd", "color"}  BY <1>1, <1>3 DEF VvSelType
  <2> HIDE DEF flag, area
  <2> QED  BY <1>12, <2>1 DEF VvShows, VvHeld, flag, area
<1>13. shows => VvShows  BY <1>12
<1> HIDE DEF shows
<1>8. CASE vvSel.flag = "vop"
  <2>1. VvVopShows /\ VvVipShows /\ vvVip.f2 = 2 /\ ~vvFrame.lcd  BY <1>6, <1>8 DEF VvDevices
  <2>2. vvVop.fss = VvVopFSS[vvSel.size] /\ vvVip.fs = VvVipFS[vvSel.size]  BY <2>1 DEF VvVopShows, VvVipShows
  <2>3. sizes  BY <1>7, <2>2
  <2> HIDE DEF sizes
  <2>4. shows  BY <1>2, <1>3, <1>8, <1>11, <2>1, <2>3 DEF VvVopShows, VvVipShows, shows
  <2> QED  BY <1>13, <2>4
<1>9. CASE vvSel.flag = "lcd"
  <2>1. /\ ~vvVop.on /\ VvVipShows /\ vvVip.f2 = 1 /\ vvFrame.lcd /\ vvVip.yuv = vvSel.yuv /\ vvFrame.yuv = vvSel.yuv
    BY <1>6, <1>9 DEF VvDevices
  <2> HIDE DEF sizes
  <2>2. vvVip.yuv = IF tmName[4] = "socle_vip_422_test" THEN 422 ELSE 420  BY <1>5, <1>9, <2>1
  <2>3. vvVip.on /\ vvVip.format = VvFormatOf[tmName[2]] /\ vvVip.fs = VvVipFS[tmName[3]] /\ vvVip.f1 = 1
    BY <1>2, <1>3, <2>1 DEF VvVipShows
  <2>4. flag = "lcd"  BY <1>3, <1>9
  <2> HIDE DEF flag
  <2>5. vvVop.on = (flag # "lcd") /\ vvVip.on = (flag # "color") /\ vvFrame.lcd = ~(flag # "lcd")
    BY <1>11, <2>1, <2>3, <2>4
  <2>6. vvFrame.yuv = vvVip.yuv /\ vvVip.f2 = 1  BY <2>1
  <2>7. shows  BY <2>2, <2>3, <2>4, <2>5, <2>6 DEF shows
  <2> QED  BY <1>13, <2>7
<1>10. CASE vvSel.flag = "color"
  <2>1. vvFrame.y = (vvVop.fss \div 1024) * (vvVop.fss % 1024) /\ 4 * vvFrame.c = (vvVop.fss \div 1024) * (vvVop.fss % 1024)
    BY <1>1, <1>6, <1>10, VvSizesFit DEF VvDevices, VvVopShows
  <2>2. VvVopShows /\ ~vvVip.on /\ ~vvFrame.lcd  BY <1>6, <1>10 DEF VvDevices
  <2> HIDE DEF sizes, area
  <2>3. vvFrame.y = area /\ 4 * vvFrame.c = area  BY <2>1 DEF area
  <2>4. shows  BY <1>2, <1>3, <1>10, <1>11, <2>2, <2>3 DEF VvVopShows, shows
  <2> QED  BY <1>13, <2>4
<1> QED  BY <1>1, <1>8, <1>9, <1>10 DEF VvSelType

LEMMA VvInvRight == VvInv => MenuRight
<1> SUFFICES ASSUME VvInv PROVE MenuRight
  OBVIOUS
<1>1. tmDo.pc # "shows" => ~vvVop.on /\ ~vvVip.on /\ ~vvFrame.lcd  BY DEF VvInv, VvDevices
<1>2. tmDo.pc \notin {"off", "exit"} => tmLayer = Len(tmCalls) - 1  BY DEF VvInv, VvPath, VvDepth
<1>3. tmDo.pc = "key" => VvDepth \in 1 .. 5 /\ TmTop = tmCalls[VvDepth] /\ TmTop \in VvCall
  <2>1. tmDo.pc = "key" => VvDepth \in 1 .. 5 /\ TmTop = tmCalls[VvDepth]  BY DEF VvInv, VvPath, VvDepth, TmTop, TmInner
  <2>2. tmCalls \in Seq(VvCall)  BY DEF VvInv, VvTyped
  <2>3. \A j \in 1 .. VvDepth : tmCalls[j] \in VvCall  BY <2>2, ElementOfSeq DEF VvDepth
  <2> QED  BY <2>1, <2>3
<1>4. tmDo.pc = "key" => (TmTop.err # 0) = TmTop.failed
  <2> SUFFICES ASSUME tmDo.pc = "key" PROVE (TmTop.err # 0) = TmTop.failed
    OBVIOUS
  <2>1. ~VvPending(VvDepth) /\ VvDepth \in 1 .. VvDepth  BY <1>3 DEF VvPending
  <2>2. IF TmTop.auto THEN TmTop.failed <=> TmTop.err # 0 ELSE TmTop.err = 0 /\ ~TmTop.failed
    BY <1>3, <2>1 DEF VvInv, VvFailed
  <2>3. TmTop.failed \in BOOLEAN  BY <1>3 DEF VvCall
  <2> QED  BY <2>2, <2>3
<1>5. tmDo.pc = "key" /\ TmTop.func \in {"socle_viop_ntsc_test", "socle_viop_pal_test"} =>
        {TmTop.items[k].func : k \in TmTop.act}
          = IF tmName[1] = "socle_vip_to_lcd_test" THEN {"socle_viop_qvga_test"} ELSE VvSizes
  <2> SUFFICES ASSUME tmDo.pc = "key", TmTop.func \in {"socle_viop_ntsc_test", "socle_viop_pal_test"}
               PROVE  {TmTop.items[k].func : k \in TmTop.act}
                        = IF tmName[1] = "socle_vip_to_lcd_test" THEN {"socle_viop_qvga_test"} ELSE VvSizes
    OBVIOUS
  <2>1. TmTop.func \in VvLevel(VvDepth)  BY <1>3 DEF VvInv, VvPath
  <2>2. VvDepth = 4
    <3>1. VvDepth \in {1, 2, 3, 4, 5}  BY <1>3
    <3>2. VvDepth # 1  BY <2>1 DEF VvLevel
    <3>3. VvDepth # 2  BY <2>1 DEF VvLevel
    <3>4. VvDepth # 3  BY <2>1 DEF VvLevel, VvTestItem
    <3>5. VvDepth # 5  BY <2>1 DEF VvLevel, VvSizes
    <3> QED  BY <3>1, <3>2, <3>3, <3>4, <3>5
  <2>3. tmName[1] = tmCalls[3].func
    <3>1. \A k \in 2 .. VvDepth : tmName[k - 2] = tmCalls[k].func  BY DEF VvInv, VvPath
    <3> QED  BY <2>2, <3>1
  <2>4. {TmTop.items[k].func : k \in TmTop.act} = VvSizesOf(VvLcd(4))  BY <1>3, <2>2 DEF VvInv, VvChosen
  <2> QED  BY <2>2, <2>3, <2>4 DEF VvSizesOf, VvLcd
<1> QED  BY <1>1, <1>2, <1>4, <1>5, VvInvShows DEF MenuRight

-----------------------------------------------------------------------------
(* The UART test.  Between the trigger and the end of the wait the bytes   *)
(* sent are in the compare buffer, the FIFOs and on the line, each in its  *)
(* place, unless one has been lost or spoilt; and as long as some are left *)
(* to be sent there is a byte to go out, an empty FIFO to be reported or a *)
(* handler about to write.  Otherwise nothing is on its way.               *)
UlIsr == {"none", "iir", "drain", "fill"}
UlMainPc == {"off", "idle", "menu", "init", "clear", "make", "trigger", "enable", "wait", "compare", "end"}
UlMType == [pc : UlMainPc, err : {0, -1}, runs : Nat, fault : BOOLEAN]
UlIxType == [tx : Nat, cmpr : Seq(Int), flag : {-1, 0, 1}, made : BOOLEAN]
UlIsrType == [pc : UlIsr, left : Nat]
UlHwType == [tx : Seq(Int), line : Seq(Int), rx : Seq(Int), ls : BOOLEAN, empty : BOOLEAN, ier : BOOLEAN, closed : BOOLEAN]
UlTyped == ulM \in UlMType /\ ulIx \in UlIxType /\ ulIsr \in UlIsrType /\ ulHw \in UlHwType

UlRunning == ulM.pc \in {"enable", "wait"}
UlFresh == ulM.pc \in {"clear", "make", "trigger"}
UlCounts(s, from) == \A k \in 1 .. Len(s) : s[k] = from + k - 1
UlSpoilt(s) == \E k \in 1 .. Len(s) : s[k] = -1
UlWhole(n) == \E q \in Nat : n = q * ulFifo
UlSent == Len(ulIx.cmpr) + Len(ulHw.rx) + Len(ulHw.line) + Len(ulHw.tx)
UlInPlace ==
  /\ UlSent = ulIx.tx
  /\ UlCounts(ulIx.cmpr, 0)
  /\ UlCounts(ulHw.rx, Len(ulIx.cmpr))
  /\ UlCounts(ulHw.line, Len(ulIx.cmpr) + Len(ulHw.rx))
  /\ UlCounts(ulHw.tx, Len(ulIx.cmpr) + Len(ulHw.rx) + Len(ulHw.line))

UlCalm == ~UlRunning => /\ ulHw.tx = <<>> /\ ulHw.line = <<>> /\ ulHw.rx = <<>>
                        /\ ulIsr.pc = "none" /\ ~ulHw.ls /\ ~(ulHw.ier /\ ulHw.empty)
UlBegun == /\ (UlFresh => ulIx.tx = 0 /\ ulIx.cmpr = <<>> /\ ulIx.flag = 0)
           /\ (UlFresh \/ ulM.pc = "init" => ~ulM.fault)
           /\ (UlRunning \/ ulM.pc = "trigger" => ulIx.made)
           /\ (ulM.pc = "wait" => ulHw.ier)
UlWires == (ulHw.empty => ulHw.tx = <<>>) /\ Len(ulHw.line) <= 1
UlChain == UlRunning \/ ulM.pc = "compare" =>
  /\ UlSent <= ulIx.tx
  /\ ~ulM.fault => UlInPlace /\ ~ulHw.ls
  /\ ulM.fault => UlSent < ulIx.tx \/ UlSpoilt(ulIx.cmpr) \/ UlSpoilt(ulHw.rx)
UlFilling == UlRunning =>
  /\ ulIsr.pc = "fill" => UlWhole(ulIx.tx + ulIsr.left) /\ ulIx.tx + ulIsr.left <= ulSize /\ Len(ulHw.tx) + ulIsr.left <= ulFifo
  /\ ulIsr.pc # "fill" => ulIx.tx = 1 \/ UlWhole(ulIx.tx)
UlAlive == UlRunning =>
  ulHw.tx # <<>> \/ ulHw.empty \/ ulIx.tx = ulSize \/ (ulIsr.pc = "fill" /\ ulIsr.left > 0)
UlFlagged == UlRunning =>
  /\ ulIx.flag = 1 => Len(ulIx.cmpr) = ulSize
  /\ ~ulM.fault /\ Len(ulIx.cmpr) = ulSize /\ ulIsr.pc # "drain" => ulIx.flag = 1
UlEnded == (ulM.pc = "compare" => Len(ulIx.cmpr) = ulSize) /\ (ulM.pc = "end" => (ulM.err # 0 <=> ulM.fault))
UlBounds == ulIx.tx <= ulSize /\ Len(ulIx.cmpr) <= ulSize
UlInv == UlTyped /\ UlCalm /\ UlBegun /\ UlWires /\ UlChain /\ UlFilling /\ UlAlive /\ UlFlagged /\ UlEnded /\ UlBounds

LEMMA UlConstants == /\ ulFifo \in Nat /\ ulFifo >= 2 /\ ulSize \in Nat /\ ulSize >= 1 /\ ulRuns \in Nat
                     /\ ulThreshold \in Nat /\ ulThreshold >= 1 /\ UlWhole(ulSize)
<1>1. ulFifo \in Nat /\ ulFifo >= 2 /\ ulSize \in Nat /\ ulSize >= 1 /\ ulRuns \in Nat /\ ulSize % ulFifo = 0
  BY UlAssumption
<1>2. ulThreshold \in Nat /\ ulThreshold >= 1  BY <1>1 DEF ulThreshold
<1>3. UlWhole(ulSize)
  <2>1. ulSize \div ulFifo \in Nat  BY <1>1
  <2>2. ulSize = ulFifo * (ulSize \div ulFifo) + (ulSize % ulFifo)  BY <1>1
  <2>3. ulSize = (ulSize \div ulFifo) * ulFifo  BY <1>1, <2>1, <2>2
  <2> QED  BY <2>1, <2>3 DEF UlWhole
<1> QED  BY <1>1, <1>2, <1>3

LEMMA UlWholes ==
  /\ UlWhole(ulFifo)
  /\ \A n \in Nat : UlWhole(n) => UlWhole(n + ulFifo)
  /\ \A n \in Nat : UlWhole(n) /\ n < ulSize => n + ulFifo <= ulSize
  /\ ulFifo <= ulSize /\ ~UlWhole(1)
<1>1. ulFifo \in Nat /\ ulFifo >= 2 /\ ulSize \in Nat /\ ulSize >= 1 /\ UlWhole(ulSize)  BY UlConstants
<1>2. UlWhole(ulFifo)
  <2>1. ulFifo = 1 * ulFifo  BY <1>1
  <2> QED  BY <2>1 DEF UlWhole
<1>3. ASSUME NEW n \in Nat, UlWhole(n) PROVE UlWhole(n + ulFifo)
  <2>1. PICK q \in Nat : n = q * ulFifo  BY <1>3 DEF UlWhole
  <2>2. (q + 1) * ulFifo = n + ulFifo  BY <1>1, <2>1
  <2> QED  BY <2>2 DEF UlWhole
<1>4. ASSUME NEW n \in Nat, UlWhole(n), n < ulSize PROVE n + ulFifo <= ulSize
  <2>1. PICK q \in Nat : n = q * ulFifo  BY <1>4 DEF UlWhole
  <2>2. PICK r \in Nat : ulSize = r * ulFifo  BY <1>1 DEF UlWhole
  <2>3. q < r
    <3>1. SUFFICES ASSUME r <= q PROVE FALSE  OBVIOUS
    <3>2. r * ulFifo <= q * ulFifo  BY <1>1, <3>1
    <3> QED  BY <1>1, <1>4, <2>1, <2>2, <3>2
  <2>4. (q + 1) * ulFifo <= r * ulFifo  BY <1>1, <2>3
  <2>5. (q + 1) * ulFifo = n + ulFifo  BY <1>1, <2>1
  <2> QED  BY <2>2, <2>4, <2>5
<1>5. ulFifo <= ulSize
  <2>1. 0 = 0 * ulFifo  BY <1>1
  <2>2. UlWhole(0)  BY <2>1 DEF UlWhole
  <2> QED  BY <1>1, <1>4, <2>2
<1>6. ~UlWhole(1)
  <2>1. SUFFICES ASSUME NEW q \in Nat, 1 = q * ulFifo PROVE FALSE  BY DEF UlWhole
  <2>2. CASE q = 0  BY <1>1, <2>1, <2>2
  <2>3. CASE q >= 1
    <3>1. q * ulFifo >= 1 * ulFifo  BY <1>1, <2>3
    <3> QED  BY <1>1, <2>1, <3>1
  <2> QED  BY <2>2, <2>3
<1> QED  BY <1>2, <1>3, <1>4, <1>5, <1>6

LEMMA UlCountsTail == ASSUME NEW s \in Seq(Int), s # <<>>, NEW n \in Nat, UlCounts(s, n)
                      PROVE  Head(s) = n /\ UlCounts(Tail(s), n + 1)
BY DEF UlCounts

LEMMA UlCountsMore == ASSUME NEW s \in Seq(Int), NEW n \in Nat, UlCounts(s, n)
                      PROVE  UlCounts(Append(s, n + Len(s)), n)
<1> DEFINE all == Append(s, n + Len(s))
<1>1. /\ Len(s) \in Nat /\ Len(all) = Len(s) + 1 /\ all[Len(s) + 1] = n + Len(s)
      /\ \A k \in 1 .. Len(s) : all[k] = s[k]
  OBVIOUS
<1>2. \A k \in 1 .. Len(s) : s[k] = n + k - 1  BY DEF UlCounts
<1> HIDE DEF all
<1> DEFINE len == Len(s)
<1>3. ASSUME NEW k \in 1 .. len + 1 PROVE all[k] = n + k - 1
  <2>1. len \in Nat  BY <1>1
  <2>2. k \in 1 .. len \/ k = len + 1
    <3> HIDE DEF len
    <3> QED  BY <2>1
  <2>3. CASE k \in 1 .. len  BY <1>1, <1>2, <2>3
  <2>4. CASE k = len + 1
    <3>1. all[k] = n + len  BY <1>1, <2>4
    <3> HIDE DEF len
    <3> QED  BY <2>1, <2>4, <3>1
  <2> QED  BY <2>2, <2>3, <2>4
<1> QED  BY <1>1, <1>3 DEF UlCounts, all

LEMMA UlSpoiltTail == ASSUME NEW s \in Seq(Int), s # <<>>, UlSpoilt(s)
                      PROVE  Head(s) = -1 \/ UlSpoilt(Tail(s))
<1>1. PICK k \in 1 .. Len(s) : s[k] = -1  BY DEF UlSpoilt
<1>2. CASE k = 1  BY <1>1, <1>2
<1>3. CASE k > 1
  <2>1. k - 1 \in 1 .. Len(Tail(s)) /\ Tail(s)[k - 1] = -1  BY <1>1, <1>3
  <2> QED  BY <2>1 DEF UlSpoilt
<1> QED  BY <1>1, <1>2, <1>3

LEMMA UlSpoiltMore == ASSUME NEW s \in Seq(Int), NEW b \in Int, UlSpoilt(s) \/ b = -1
                      PROVE  UlSpoilt(Append(s, b))
<1>1. CASE UlSpoilt(s)
  <2>1. PICK k \in 1 .. Len(s) : s[k] = -1  BY <1>1 DEF UlSpoilt
  <2>2. k \in 1 .. Len(Append(s, b)) /\ Append(s, b)[k] = -1  BY <2>1
  <2> QED  BY <2>2 DEF UlSpoilt
<1>2. CASE b = -1
  <2>1. Len(s) + 1 \in 1 .. Len(Append(s, b)) /\ Append(s, b)[Len(s) + 1] = -1  BY <1>2
  <2> QED  BY <2>1 DEF UlSpoilt
<1> QED  BY <1>1, <1>2

(* The main program, outside a run of the chain: nothing is on its way.    *)
LEMMA UlOpensKeeps == ASSUME UlInv, UlOpens PROVE UlInv'
<1>1. ulHw' \in UlHwType /\ ulHw'.tx = ulHw.tx /\ ulHw'.line = ulHw.line /\ ulHw'.rx = ulHw.rx
      /\ ~ulHw'.ier /\ ~ulHw'.ls /\ ulHw'.empty = ulHw.empty
  BY DEF UlOpens, UlInv, UlTyped, UlHwType
<1>2. ulM' \in UlMType /\ ulM.pc = "idle" /\ ulM'.pc = "menu" /\ UNCHANGED <<ulIx, ulIsr>>
  BY DEF UlOpens, UlMain, UlInv, UlTyped, UlMType, UlMainPc
<1>3. UlTyped'  BY <1>1, <1>2 DEF UlInv, UlTyped
<1>4. UlCalm' /\ UlBegun' /\ UlWires' /\ UlChain' /\ UlFilling' /\ UlAlive' /\ UlFlagged' /\ UlEnded' /\ UlBounds'
  BY <1>1, <1>2 DEF UlInv, UlCalm, UlBegun, UlWires, UlChain, UlFilling, UlAlive, UlFlagged, UlEnded, UlBounds, UlRunning, UlFresh
<1> QED  BY <1>3, <1>4 DEF UlInv

LEMMA UlMenuKeeps == ASSUME UlInv, UlCloses \/ UlBackInMenu PROVE UlInv'
<1>1. /\ ulM' \in UlMType /\ ulM.pc \in {"menu", "end"} /\ ulM'.pc \in {"idle", "menu"}
      /\ UNCHANGED <<ulIx, ulIsr, ulHw>>
  BY DEF UlCloses, UlBackInMenu, UlMain, UlInv, UlTyped, UlMType, UlMainPc
<1>2. UlTyped'  BY <1>1 DEF UlInv, UlTyped
<1>3. UlCalm' /\ UlBegun' /\ UlWires' /\ UlChain' /\ UlFilling' /\ UlAlive' /\ UlFlagged' /\ UlEnded' /\ UlBounds'
  BY <1>1 DEF UlInv, UlCalm, UlBegun, UlWires, UlChain, UlFilling, UlAlive, UlFlagged, UlEnded, UlBounds, UlRunning, UlFresh
<1> QED  BY <1>2, <1>3 DEF UlInv

LEMMA UlRunKeeps == ASSUME UlInv, NEW cable \in BOOLEAN, UlRun(cable) PROVE UlInv'
<1>1. /\ ulHw' \in UlHwType /\ ulHw'.tx = ulHw.tx /\ ulHw'.line = ulHw.line /\ ulHw'.rx = ulHw.rx
      /\ ulHw'.ls = ulHw.ls /\ ulHw'.ier = ulHw.ier /\ ulHw'.empty = ulHw.empty
  BY DEF UlRun, UlInv, UlTyped, UlHwType
<1>2. ulM' \in UlMType /\ ulM.pc = "menu" /\ ulM'.pc = "init" /\ ulM'.fault = FALSE /\ UNCHANGED <<ulIx, ulIsr>>
  BY UlConstants DEF UlRun, UlInv, UlTyped, UlMType, UlMainPc
<1>3. UlTyped'  BY <1>1, <1>2 DEF UlInv, UlTyped
<1>4. UlCalm' /\ UlBegun' /\ UlWires' /\ UlChain' /\ UlFilling' /\ UlAlive' /\ UlFlagged' /\ UlEnded' /\ UlBounds'
  BY <1>1, <1>2 DEF UlInv, UlCalm, UlBegun, UlWires, UlChain, UlFilling, UlAlive, UlFlagged, UlEnded, UlBounds, UlRunning, UlFresh
<1> QED  BY <1>3, <1>4 DEF UlInv

LEMMA UlInitKeeps == ASSUME UlInv, socle_uart_init_environment PROVE UlInv'
<1>1. CASE UlMain("init", "clear") /\ ulIx' = [tx |-> 0, cmpr |-> <<>>, flag |-> 0, made |-> FALSE] /\ UNCHANGED ulHw
  <2>1. ulM' \in UlMType /\ ulM.pc = "init" /\ ulM'.pc = "clear" /\ ulM'.fault = ulM.fault /\ UNCHANGED <<ulIsr, ulHw>>
    BY <1>1 DEF UlMain, UlInv, UlTyped, UlMType, UlMainPc
  <2>2. ulIx' \in UlIxType /\ ulIx'.tx = 0 /\ ulIx'.cmpr = <<>> /\ ulIx'.flag = 0 /\ Len(ulIx'.cmpr) = 0
    BY <1>1, EmptySeq DEF UlIxType
  <2>3. UlTyped'  BY <2>1, <2>2 DEF UlInv, UlTyped
  <2>4. UlCalm' /\ UlBegun' /\ UlWires' /\ UlChain' /\ UlFilling' /\ UlAlive' /\ UlFlagged' /\ UlEnded' /\ UlBounds'
    BY <2>1, <2>2, UlConstants
    DEF UlInv, UlCalm, UlBegun, UlWires, UlChain, UlFilling, UlAlive, UlFlagged, UlEnded, UlBounds, UlRunning, UlFresh
  <2> QED  BY <2>3, <2>4 DEF UlInv
<1>2. CASE /\ UlMain("clear", "make") /\ UNCHANGED ulIx
           /\ ulHw' = [ulHw EXCEPT !.tx = <<>>, !.rx = <<>>, !.empty = @ \/ ulHw.tx # <<>>]
  <2>1. ulM' \in UlMType /\ ulM.pc = "clear" /\ ulM'.pc = "make" /\ ulM'.fault = ulM.fault /\ UNCHANGED <<ulIsr, ulIx>>
    BY <1>2 DEF UlMain, UlInv, UlTyped, UlMType, UlMainPc
  <2>2. ulHw' = ulHw
    <3>1. ulHw.tx = <<>> /\ ulHw.rx = <<>>  BY <2>1 DEF UlInv, UlCalm, UlRunning
    <3> QED  BY <1>2, <3>1 DEF UlInv, UlTyped, UlHwType
  <2>3. UlTyped'  BY <2>1, <2>2 DEF UlInv, UlTyped
  <2>4. UlCalm' /\ UlBegun' /\ UlWires' /\ UlChain' /\ UlFilling' /\ UlAlive' /\ UlFlagged' /\ UlEnded' /\ UlBounds'
    BY <2>1, <2>2 DEF UlInv, UlCalm, UlBegun, UlWires, UlChain, UlFilling, UlAlive, UlFlagged, UlEnded, UlBounds, UlRunning, UlFresh
  <2> QED  BY <2>3, <2>4 DEF UlInv
<1> QED  BY <1>1, <1>2 DEF socle_uart_init_environment

LEMMA UlMakesKeeps == ASSUME UlInv, socle_uart_make_test_pattern PROVE UlInv'
<1>1. ulM' \in UlMType /\ ulM.pc = "make" /\ ulM'.pc = "trigger" /\ ulM'.fault = ulM.fault /\ UNCHANGED <<ulIsr, ulHw>>
  BY DEF socle_uart_make_test_pattern, UlMain, UlInv, UlTyped, UlMType, UlMainPc
<1>2. ulIx' \in UlIxType /\ ulIx'.tx = ulIx.tx /\ ulIx'.cmpr = ulIx.cmpr /\ ulIx'.flag = ulIx.flag /\ ulIx'.made
  BY DEF socle_uart_make_test_pattern, UlInv, UlTyped, UlIxType
<1>3. UlTyped'  BY <1>1, <1>2 DEF UlInv, UlTyped
<1>4. UlCalm' /\ UlBegun' /\ UlWires' /\ UlChain' /\ UlFilling' /\ UlAlive' /\ UlFlagged' /\ UlEnded' /\ UlBounds'
  BY <1>1, <1>2 DEF UlInv, UlCalm, UlBegun, UlWires, UlChain, UlFilling, UlAlive, UlFlagged, UlEnded, UlBounds, UlRunning, UlFresh
<1> QED  BY <1>3, <1>4 DEF UlInv

(* A write puts the next byte of the pattern behind those on their way.    *)
LEMMA UlWritesNext ==
  ASSUME UlTyped, ulIx.made, Len(ulHw.tx) < ulFifo, UlWrites(ulIx, ulHw)
  PROVE  /\ ulIx' \in UlIxType /\ ulHw' \in UlHwType
         /\ ulIx'.tx = ulIx.tx + 1 /\ ulIx'.cmpr = ulIx.cmpr /\ ulIx'.flag = ulIx.flag /\ ulIx'.made
         /\ ulHw'.tx = Append(ulHw.tx, ulIx.tx) /\ ulHw'.tx # <<>> /\ Len(ulHw'.tx) = Len(ulHw.tx) + 1
         /\ ulHw'.line = ulHw.line /\ ulHw'.rx = ulHw.rx /\ ulHw'.ls = ulHw.ls /\ ulHw'.ier = ulHw.ier /\ ~ulHw'.empty
<1>1. ulIx \in UlIxType /\ ulHw \in UlHwType  BY DEF UlTyped
<1>2. ulIx.tx \in Nat /\ ulHw.tx \in Seq(Int)  BY <1>1 DEF UlIxType, UlHwType
<1>3. ulIx' = [ulIx EXCEPT !.tx = ulIx.tx + 1]  BY DEF UlWrites
<1>4. ulHw' = [ulHw EXCEPT !.empty = FALSE, !.tx = Append(ulHw.tx, ulIx.tx)]  BY <1>1 DEF UlWrites, UlHwType
<1>5. Append(ulHw.tx, ulIx.tx) \in Seq(Int) /\ Append(ulHw.tx, ulIx.tx) # <<>> /\ Len(Append(ulHw.tx, ulIx.tx)) = Len(ulHw.tx) + 1
  BY <1>2
<1> DEFINE next == ulIx.tx + 1
           sent == Append(ulHw.tx, ulIx.tx)
<1>6. ulIx' = [ulIx EXCEPT !.tx = next] /\ next \in Nat  BY <1>2, <1>3
<1> HIDE DEF next
<1>7. /\ ulIx' \in UlIxType
      /\ ulIx'.tx = next /\ ulIx'.cmpr = ulIx.cmpr /\ ulIx'.flag = ulIx.flag /\ ulIx'.made = ulIx.made
  BY <1>1, <1>6 DEF UlIxType
<1>8. ulHw' = [ulHw EXCEPT !.empty = FALSE, !.tx = sent] /\ sent \in Seq(Int)  BY <1>4, <1>5
<1> HIDE DEF sent
<1>9. /\ ulHw' \in UlHwType /\ ulHw'.tx = sent
      /\ ulHw'.line = ulHw.line /\ ulHw'.rx = ulHw.rx /\ ulHw'.ls = ulHw.ls /\ ulHw'.ier = ulHw.ier /\ ~ulHw'.empty
  BY <1>1, <1>8 DEF UlHwType
<1> QED  BY <1>5, <1>7, <1>9 DEF next, sent

LEMMA UlTriggersKeeps == ASSUME UlInv, UlTriggers PROVE UlInv'
<1>1. /\ ulM' \in UlMType /\ ulM.pc = "trigger" /\ ulM'.pc = "enable" /\ ulM'.fault = ulM.fault /\ UNCHANGED ulIsr
  BY DEF UlTriggers, UlMain, UlInv, UlTyped, UlMType, UlMainPc
<1>2. /\ ulIx.tx = 0 /\ ulIx.cmpr = <<>> /\ ulIx.flag = 0 /\ ulIx.made /\ ~ulM.fault
      /\ ulHw.tx = <<>> /\ ulHw.line = <<>> /\ ulHw.rx = <<>> /\ ~ulHw.ls /\ ulIsr.pc = "none"
  BY <1>1 DEF UlInv, UlCalm, UlBegun, UlFresh, UlRunning
<1>3. UlWrites(ulIx, ulHw)  BY DEF UlTriggers
<1>4. /\ ulIx' \in UlIxType /\ ulHw' \in UlHwType
      /\ ulIx'.tx = 1 /\ ulIx'.cmpr = <<>> /\ ulIx'.flag = 0 /\ ulIx'.made
      /\ ulHw'.tx = Append(<<>>, 0) /\ ulHw'.tx # <<>> /\ ulHw'.line = <<>> /\ ulHw'.rx = <<>> /\ ~ulHw'.ls /\ ~ulHw'.empty
  <2>1. Len(ulHw.tx) < ulFifo  BY <1>2, UlConstants
  <2> QED  BY <1>2, <1>3, <2>1, UlWritesNext DEF UlInv
<1>5. UlTyped'  BY <1>1, <1>4 DEF UlInv, UlTyped
<1>6. ulM'.pc = "enable" /\ ~ulM'.fault /\ ulIsr'.pc = "none"  BY <1>1, <1>2
<1>7. UlCalm' /\ UlBegun' /\ UlWires' /\ UlFilling' /\ UlAlive' /\ UlFlagged' /\ UlEnded' /\ UlBounds'
  BY <1>4, <1>6, UlConstants DEF UlCalm, UlBegun, UlWires, UlFilling, UlAlive, UlFlagged, UlEnded, UlBounds, UlRunning, UlFresh
<1>8. UlChain'
  <2>1. UlSent' = 1  BY <1>4 DEF UlSent
  <2>2. UlInPlace'  BY <1>4, <2>1 DEF UlInPlace, UlCounts
  <2> QED  BY <1>4, <1>6, <2>1, <2>2 DEF UlChain
<1> QED  BY <1>5, <1>7, <1>8 DEF UlInv

LEMMA UlEnablesKeeps == ASSUME UlInv, UlEnables PROVE UlInv'
<1>1. /\ ulM' \in UlMType /\ ulM.pc = "enable" /\ ulM'.pc = "wait" /\ ulM'.fault = ulM.fault /\ UNCHANGED <<ulIsr, ulIx>>
  BY DEF UlEnables, UlMain, UlInv, UlTyped, UlMType, UlMainPc
<1>2. /\ ulHw' \in UlHwType /\ ulHw'.tx = ulHw.tx /\ ulHw'.line = ulHw.line /\ ulHw'.rx = ulHw.rx
      /\ ulHw'.ls = ulHw.ls /\ ulHw'.ier /\ ulHw'.empty = ulHw.empty
  BY DEF UlEnables, UlInv, UlTyped, UlHwType
<1>3. UlTyped'  BY <1>1, <1>2 DEF UlInv, UlTyped
<1>4. UlSent' = UlSent /\ (UlInPlace' <=> UlInPlace)  BY <1>1, <1>2 DEF UlSent, UlInPlace
<1>5. UlCalm' /\ UlBegun' /\ UlWires' /\ UlFilling' /\ UlAlive' /\ UlFlagged' /\ UlEnded' /\ UlBounds'
  BY <1>1, <1>2 DEF UlInv, UlCalm, UlBegun, UlWires, UlFilling, UlAlive, UlFlagged, UlEnded, UlBounds, UlRunning, UlFresh
<1>6. UlChain'  BY <1>1, <1>2, <1>4 DEF UlInv, UlChain, UlRunning
<1> QED  BY <1>3, <1>5, <1>6 DEF UlInv

(* The wait ends with all bytes received, or with one lost.                *)
LEMMA UlNothingLeft ==
  ASSUME UlInv, ulM.pc = "wait", UlQuiet, ~ulM.fault
  PROVE  ulIx.flag = 1
<1>1. ulHw.ier /\ ulHw.tx = <<>> /\ ulHw.line = <<>> /\ ulHw.rx = <<>> /\ ulIsr.pc = "none" /\ ~ulHw.empty
  BY DEF UlQuiet, UlMust, UlInv, UlBegun
<1>2. ulIx.tx = ulSize  BY <1>1 DEF UlInv, UlAlive, UlRunning
<1>3. UlSent = ulIx.tx  BY DEF UlInv, UlChain, UlInPlace, UlRunning
<1>4. Len(ulIx.cmpr) = ulSize  BY <1>1, <1>2, <1>3 DEF UlSent, UlInv, UlTyped, UlIxType
<1> QED  BY <1>1, <1>4 DEF UlInv, UlFlagged, UlRunning

LEMMA UlFullMeansQuiet ==
  UlInv /\ (UlRunning \/ ulM.pc = "compare") /\ Len(ulIx.cmpr) = ulSize =>
  ulHw.tx = <<>> /\ ulHw.line = <<>> /\ ulHw.rx = <<>> /\ ulIx.tx = ulSize
<1>1. ASSUME UlInv, UlRunning \/ ulM.pc = "compare", Len(ulIx.cmpr) = ulSize
      PROVE  ulHw.tx = <<>> /\ ulHw.line = <<>> /\ ulHw.rx = <<>> /\ ulIx.tx = ulSize
  <2>1. /\ ulHw.tx \in Seq(Int) /\ ulHw.line \in Seq(Int) /\ ulHw.rx \in Seq(Int)
        /\ ulIx.tx \in Nat /\ UlSent <= ulIx.tx /\ ulIx.tx <= ulSize
    BY <1>1 DEF UlInv, UlTyped, UlIxType, UlHwType, UlChain, UlBounds
  <2>2. ulSize \in Nat  BY UlConstants
  <2> DEFINE r == Len(ulHw.rx)
             l == Len(ulHw.line)
             t == Len(ulHw.tx)
             n == ulIx.tx
  <2>3. r \in Nat /\ l \in Nat /\ t \in Nat /\ n \in Nat /\ n <= ulSize  BY <2>1
  <2>4. ulSize + r + l + t <= n  BY <1>1, <2>1 DEF UlSent
  <2> HIDE DEF r, l, t, n
  <2>5. t = 0 /\ l = 0 /\ r = 0 /\ n = ulSize  BY <2>2, <2>3, <2>4
  <2> QED  BY <2>1, <2>5, EmptySeq DEF r, l, t, n
<1> QED  BY <1>1

LEMMA UlExpiresKeeps == ASSUME UlInv, UlWaitExpires PROVE UlInv'
<1>1. /\ ulM' \in UlMType /\ ulM.pc = "wait" /\ ulM'.pc = "end" /\ ulM'.fault = ulM.fault /\ ulM'.err = -1
      /\ UNCHANGED <<ulIsr, ulIx, ulHw>>
  BY DEF UlWaitExpires, UlInv, UlTyped, UlMType, UlMainPc
<1>2. /\ ulHw.tx = <<>> /\ ulHw.line = <<>> /\ ulHw.rx = <<>> /\ ulIsr.pc = "none" /\ ulHw.ier /\ ~ulHw.ls /\ ~ulHw.empty
  BY <1>1 DEF UlWaitExpires, UlQuiet, UlMust, UlInv, UlBegun
<1>3. ulM.fault  BY <1>1, UlNothingLeft DEF UlWaitExpires
<1>4. UlTyped'  BY <1>1 DEF UlInv, UlTyped
<1>5. UlCalm' /\ UlBegun' /\ UlWires' /\ UlChain' /\ UlFilling' /\ UlAlive' /\ UlFlagged' /\ UlEnded' /\ UlBounds'
  BY <1>1, <1>2, <1>3
  DEF UlInv, UlCalm, UlBegun, UlWires, UlChain, UlFilling, UlAlive, UlFlagged, UlEnded, UlBounds, UlRunning, UlFresh
<1> QED  BY <1>4, <1>5 DEF UlInv

LEMMA UlWaitedKeeps == ASSUME UlInv, UlWaited PROVE UlInv'
<1>1. /\ ulM' \in UlMType /\ ulM.pc = "wait" /\ ulM'.pc = "compare" /\ ulM'.fault = ulM.fault /\ UNCHANGED <<ulIsr, ulHw>>
  BY DEF UlWaited, UlMain, UlInv, UlTyped, UlMType, UlMainPc
<1>2. ulIx' \in UlIxType /\ ulIx'.tx = ulIx.tx /\ ulIx'.cmpr = ulIx.cmpr  BY DEF UlWaited, UlInv, UlTyped, UlIxType
<1>3. ulIsr.pc = "none" /\ ulHw.ier /\ ~ulHw.ls /\ ~ulHw.empty  BY <1>1 DEF UlWaited, UlMain, UlMust, UlInv, UlBegun
<1>4. Len(ulIx.cmpr) = ulSize  BY <1>1 DEF UlWaited, UlInv, UlFlagged, UlRunning
<1>5. ulHw.tx = <<>> /\ ulHw.line = <<>> /\ ulHw.rx = <<>>  BY <1>1, <1>4, UlFullMeansQuiet DEF UlRunning
<1>6. UlTyped'  BY <1>1, <1>2 DEF UlInv, UlTyped
<1>7. UlSent' = UlSent /\ (UlInPlace' <=> UlInPlace)  BY <1>1, <1>2 DEF UlSent, UlInPlace
<1>8. UlCalm' /\ UlBegun' /\ UlWires' /\ UlFilling' /\ UlAlive' /\ UlFlagged' /\ UlEnded' /\ UlBounds'
  BY <1>1, <1>2, <1>3, <1>4, <1>5
  DEF UlInv, UlCalm, UlBegun, UlWires, UlFilling, UlAlive, UlFlagged, UlEnded, UlBounds, UlRunning, UlFresh
<1>9. UlChain'  BY <1>1, <1>2, <1>7 DEF UlInv, UlChain, UlRunning
<1> QED  BY <1>6, <1>8, <1>9 DEF UlInv

LEMMA UlComparesRight == ASSUME UlInv, ulM.pc = "compare" PROVE ulIx.cmpr = UlPattern <=> ~ulM.fault
<1>1. ulIx.cmpr \in Seq(Int) /\ Len(ulIx.cmpr) = ulSize /\ ulSize \in Nat  BY UlConstants DEF UlInv, UlTyped, UlIxType, UlEnded
<1>2. ASSUME ~ulM.fault PROVE ulIx.cmpr = UlPattern
  <2>1. UlCounts(ulIx.cmpr, 0)  BY <1>2 DEF UlInv, UlChain, UlInPlace
  <2>2. \A k \in 1 .. ulSize : ulIx.cmpr[k] = k - 1  BY <1>1, <2>1 DEF UlCounts
  <2>3. ulIx.cmpr \in [1 .. ulSize -> Int]  BY <1>1
  <2> QED  BY <2>2, <2>3 DEF UlPattern
<1>3. ASSUME ulM.fault PROVE ulIx.cmpr # UlPattern
  <2>1. ulHw.rx = <<>> /\ ulHw.tx = <<>> /\ ulHw.line = <<>> /\ ulIx.tx = ulSize  BY <1>1, UlFullMeansQuiet
  <2>2. ~UlSpoilt(ulHw.rx)  BY <2>1 DEF UlSpoilt
  <2>3. UlSent = ulSize  BY <1>1, <2>1 DEF UlSent
  <2>4. UlSpoilt(ulIx.cmpr)  BY <1>1, <1>3, <2>1, <2>2, <2>3 DEF UlInv, UlChain
  <2>5. PICK k \in 1 .. ulSize : ulIx.cmpr[k] = -1  BY <1>1, <2>4 DEF UlSpoilt
  <2>6. UlPattern[k] = k - 1  BY <1>1 DEF UlPattern
  <2> QED  BY <1>1, <2>5, <2>6
<1> QED  BY <1>2, <1>3

LEMMA UlCompareKeeps == ASSUME UlInv, socle_uart_compare_memory PROVE UlInv'
<1>1. /\ ulM' \in UlMType /\ ulM.pc = "compare" /\ ulM'.pc = "end" /\ ulM'.fault = ulM.fault
      /\ (ulM'.err # 0 <=> ulIx.cmpr # UlPattern) /\ UNCHANGED <<ulIsr, ulIx, ulHw>>
  <2> DEFINE err == IF ulIx.cmpr = UlPattern THEN 0 ELSE -1
  <2>1. err \in {0, -1} /\ (err # 0 <=> ulIx.cmpr # UlPattern)  OBVIOUS
  <2>2. ulM' = [ulM EXCEPT !.pc = "end", !.err = err] /\ ulM.pc = "compare" /\ UNCHANGED <<ulIsr, ulIx, ulHw>>
    BY DEF socle_uart_compare_memory
  <2> HIDE DEF err
  <2>3. ulM' \in UlMType /\ ulM'.pc = "end" /\ ulM'.fault = ulM.fault /\ ulM'.err = err
    BY <2>1, <2>2 DEF UlInv, UlTyped, UlMType, UlMainPc
  <2> QED  BY <2>1, <2>2, <2>3
<1>2. ulM'.err # 0 <=> ulM'.fault  BY <1>1, UlComparesRight
<1>3. UlTyped'  BY <1>1 DEF UlInv, UlTyped
<1>4. UlCalm' /\ UlBegun' /\ UlWires' /\ UlChain' /\ UlFilling' /\ UlAlive' /\ UlFlagged' /\ UlEnded' /\ UlBounds'
  BY <1>1, <1>2 DEF UlInv, UlCalm, UlBegun, UlWires, UlChain, UlFilling, UlAlive, UlFlagged, UlEnded, UlBounds, UlRunning, UlFresh
<1> QED  BY <1>3, <1>4 DEF UlInv

(* The handler.  It runs only between the trigger and the end of the wait. *)
LEMMA UlChainStays ==
  ASSUME UlChain, UNCHANGED ulM, ulIx'.tx = ulIx.tx, ulIx'.cmpr = ulIx.cmpr, ulHw'.rx = ulHw.rx, ulHw'.line = ulHw.line,
         ulHw'.tx = ulHw.tx, ulHw'.ls => ulHw.ls
  PROVE  UlChain'
<1>1. UlSent' = UlSent  BY DEF UlSent
<1>2. UlInPlace' <=> UlInPlace  BY <1>1 DEF UlInPlace
<1> QED  BY <1>1, <1>2 DEF UlChain, UlRunning

LEMMA UlIsrMovesKeeps ==
  ASSUME UlInv, socle_uart_isr \/ UlReportsData \/ UlReportsNone \/ UlFilled
  PROVE  UlInv'
<1>1. /\ UNCHANGED <<ulM, ulIx, ulHw>> /\ ulIsr' \in UlIsrType /\ ulIsr'.pc # "fill"
      /\ (ulIsr.pc = "fill" => ulIsr.left = 0) /\ (ulIsr.pc = "drain" => ulIsr'.pc = "drain")
  BY DEF socle_uart_isr, UlReportsData, UlReportsNone, UlFilled, UlIsrAt, UlIsrTo, UlInv, UlTyped, UlIsrType, UlIsr
<1>2. UlRunning
  <2>1. CASE socle_uart_isr
    <3>1. SUFFICES ASSUME ~UlRunning PROVE FALSE  OBVIOUS
    <3>2. ulHw.rx = <<>> /\ Len(ulHw.rx) = 0 /\ ~ulHw.ls /\ ~(ulHw.ier /\ ulHw.empty)  BY <3>1 DEF UlInv, UlCalm
    <3> QED  BY <2>1, <3>2, UlConstants DEF socle_uart_isr, UlMust, UlTimeout
  <2>2. CASE ~socle_uart_isr
    BY <2>2 DEF UlReportsData, UlReportsNone, UlFilled, UlIsrAt, UlInv, UlCalm
  <2> QED  BY <2>1, <2>2
<1>3. UlTyped'  BY <1>1 DEF UlInv, UlTyped
<1>4. UlChain'  BY <1>1, UlChainStays DEF UlInv
<1>5. UlFilling'
  <2>1. ulIsr.pc = "fill" => UlWhole(ulIx.tx)
    <3>1. ulIx.tx \in Nat  BY DEF UlInv, UlTyped, UlIxType
    <3>2. ulIsr.pc = "fill" => ulIx.tx + ulIsr.left = ulIx.tx  BY <1>1, <3>1
    <3> QED  BY <1>2, <3>2 DEF UlInv, UlFilling
  <2> QED  BY <1>1, <1>2, <2>1 DEF UlInv, UlFilling
<1>6. UlCalm' /\ UlBegun' /\ UlWires' /\ UlAlive' /\ UlFlagged' /\ UlEnded' /\ UlBounds'
  BY <1>1, <1>2 DEF UlInv, UlCalm, UlBegun, UlWires, UlAlive, UlFlagged, UlEnded, UlBounds, UlRunning, UlFresh
<1> QED  BY <1>3, <1>4, <1>5, <1>6 DEF UlInv

LEMMA UlLineStatusKeeps == ASSUME UlInv, socle_uart_show_lsr_error PROVE UlInv'
<1>1. /\ UNCHANGED ulM /\ ulIsr' \in UlIsrType /\ ulIsr.pc = "iir" /\ ulIsr'.pc = "none" /\ ulHw.ls
  BY DEF socle_uart_show_lsr_error, UlIsrAt, UlIsrTo, UlInv, UlTyped, UlIsrType, UlIsr
<1>2. ulIx' \in UlIxType /\ ulIx'.tx = ulIx.tx /\ ulIx'.cmpr = ulIx.cmpr /\ ulIx'.flag = -1 /\ ulIx'.made = ulIx.made
  BY DEF socle_uart_show_lsr_error, UlInv, UlTyped, UlIxType
<1>3. /\ ulHw' \in UlHwType /\ ulHw'.tx = ulHw.tx /\ ulHw'.line = ulHw.line /\ ulHw'.rx = ulHw.rx
      /\ ~ulHw'.ls /\ ulHw'.ier = ulHw.ier /\ ulHw'.empty = ulHw.empty
  BY DEF socle_uart_show_lsr_error, UlInv, UlTyped, UlHwType
<1>4. UlRunning  BY <1>1 DEF UlInv, UlCalm
<1>5. ulM.fault  BY <1>1, <1>4 DEF UlInv, UlChain
<1>6. UlTyped'  BY <1>1, <1>2, <1>3 DEF UlInv, UlTyped
<1>7. UlChain'  BY <1>1, <1>2, <1>3, UlChainStays DEF UlInv
<1>8. UlCalm' /\ UlBegun' /\ UlWires' /\ UlFilling' /\ UlAlive' /\ UlFlagged' /\ UlEnded' /\ UlBounds'
  BY <1>1, <1>2, <1>3, <1>4, <1>5
  DEF UlInv, UlCalm, UlBegun, UlWires, UlFilling, UlAlive, UlFlagged, UlEnded, UlBounds, UlRunning, UlFresh
<1> QED  BY <1>6, <1>7, <1>8 DEF UlInv

(* A byte goes from the receive FIFO into the compare buffer.              *)
LEMMA UlDrainsKeeps == ASSUME UlInv, UlDrains PROVE UlInv'
<1> DEFINE byte == Head(ulHw.rx)
           cmpr == Append(ulIx.cmpr, byte)
           rx   == Tail(ulHw.rx)
<1>1. UNCHANGED <<ulM, ulIsr>> /\ ulIsr.pc = "drain" /\ ulHw.rx # <<>>  BY DEF UlDrains, UlIsrAt
<1>2. /\ ulIx \in UlIxType /\ ulHw \in UlHwType /\ ulIx.cmpr \in Seq(Int) /\ ulHw.rx \in Seq(Int) /\ ulIx.tx \in Nat
      /\ Len(ulHw.line) \in Nat /\ Len(ulHw.tx) \in Nat
  BY DEF UlInv, UlTyped, UlIxType, UlHwType
<1>3. /\ byte \in Int /\ cmpr \in Seq(Int) /\ rx \in Seq(Int)
      /\ Len(cmpr) = Len(ulIx.cmpr) + 1 /\ Len(ulHw.rx) = Len(rx) + 1 /\ Len(rx) \in Nat
  BY <1>1, <1>2
<1>4. ulIx' = [ulIx EXCEPT !.cmpr = cmpr] /\ ulHw' = [ulHw EXCEPT !.rx = rx, !.ls = FALSE]  BY DEF UlDrains
<1>5. UlRunning  BY <1>1 DEF UlInv, UlCalm
<1>6. ASSUME ~ulM.fault PROVE byte = Len(ulIx.cmpr) /\ UlCounts(rx, Len(ulIx.cmpr) + 1) /\ UlCounts(cmpr, 0)
  <2>1. UlCounts(ulHw.rx, Len(ulIx.cmpr)) /\ UlCounts(ulIx.cmpr, 0)  BY <1>5, <1>6 DEF UlInv, UlChain, UlInPlace
  <2>2. Len(ulIx.cmpr) \in Nat  BY <1>2
  <2>3. byte = Len(ulIx.cmpr) /\ UlCounts(rx, Len(ulIx.cmpr) + 1)  BY <1>1, <1>2, <2>1, <2>2, UlCountsTail
  <2>4. byte = 0 + Len(ulIx.cmpr)  BY <2>2, <2>3
  <2>5. UlCounts(cmpr, 0)  BY <1>2, <2>1, <2>4, UlCountsMore
  <2> QED  BY <2>3, <2>5
<1>7. UlSpoilt(ulIx.cmpr) \/ UlSpoilt(ulHw.rx) => UlSpoilt(cmpr) \/ UlSpoilt(rx)
  <2>1. UlSpoilt(ulIx.cmpr) => UlSpoilt(cmpr)  BY <1>2, <1>3, UlSpoiltMore
  <2>2. UlSpoilt(ulHw.rx) => byte = -1 \/ UlSpoilt(rx)  BY <1>1, <1>2, UlSpoiltTail
  <2>3. byte = -1 => UlSpoilt(cmpr)  BY <1>2, <1>3, UlSpoiltMore
  <2> QED  BY <2>1, <2>2, <2>3
<1> HIDE DEF byte, cmpr, rx
<1>8. ulIx' \in UlIxType /\ ulIx'.tx = ulIx.tx /\ ulIx'.cmpr = cmpr /\ ulIx'.flag = ulIx.flag /\ ulIx'.made = ulIx.made
  BY <1>2, <1>3, <1>4 DEF UlIxType
<1>9. /\ ulHw' \in UlHwType /\ ulHw'.tx = ulHw.tx /\ ulHw'.line = ulHw.line /\ ulHw'.rx = rx
      /\ ~ulHw'.ls /\ ulHw'.ier = ulHw.ier /\ ulHw'.empty = ulHw.empty
  BY <1>2, <1>3, <1>4 DEF UlHwType
<1>10. UlTyped'  BY <1>1, <1>8, <1>9 DEF UlInv, UlTyped
<1>11. UlSent' = UlSent /\ Len(ulIx.cmpr) + Len(ulHw.rx) = Len(cmpr) + Len(rx)
  <2> DEFINE c == Len(ulIx.cmpr)
             r == Len(rx)
             l == Len(ulHw.line)
             t == Len(ulHw.tx)
  <2>1. c \in Nat /\ r \in Nat /\ l \in Nat /\ t \in Nat  BY <1>2, <1>3
  <2>2. UlSent' = (c + 1) + r + l + t /\ UlSent = c + (r + 1) + l + t  BY <1>3, <1>8, <1>9 DEF UlSent
  <2>3. Len(ulIx.cmpr) + Len(ulHw.rx) = c + (r + 1) /\ Len(cmpr) + Len(rx) = (c + 1) + r  BY <1>3
  <2> HIDE DEF c, r, l, t
  <2>4. (c + 1) + r = c + (r + 1)  BY <2>1
  <2> QED  BY <2>1, <2>2, <2>3, <2>4
<1>12. ~ulM.fault => UlInPlace'
  <2>1. SUFFICES ASSUME ~ulM.fault PROVE UlInPlace'  OBVIOUS
  <2>2. UlInPlace  BY <1>5, <2>1 DEF UlInv, UlChain
  <2>3. Len(ulIx.cmpr) + Len(ulHw.rx) = Len(cmpr) + Len(rx)  BY <1>11
  <2>4. UlSent' = ulIx'.tx  BY <1>8, <1>11, <2>2 DEF UlInPlace
  <2>5. UlCounts(cmpr, 0) /\ UlCounts(rx, Len(cmpr))  BY <1>3, <1>6, <2>1
  <2> QED  BY <1>8, <1>9, <2>2, <2>3, <2>4, <2>5 DEF UlInPlace
<1>13. UlChain'
  BY <1>1, <1>5, <1>7, <1>8, <1>9, <1>11, <1>12 DEF UlInv, UlChain, UlRunning
<1>14. Len(cmpr) <= ulSize
  <2>1. UlSent <= ulIx.tx /\ ulIx.tx <= ulSize  BY <1>5 DEF UlInv, UlChain, UlBounds
  <2> DEFINE c == Len(ulIx.cmpr)
             r == Len(rx)
             l == Len(ulHw.line)
             t == Len(ulHw.tx)
             n == ulIx.tx
  <2>2. c \in Nat /\ r \in Nat /\ l \in Nat /\ t \in Nat /\ n \in Nat /\ n <= ulSize /\ Len(cmpr) = c + 1  BY <1>2, <1>3, <2>1
  <2>3. c + (r + 1) + l + t <= n  BY <1>3, <2>1 DEF UlSent
  <2>4. ulSize \in Nat  BY UlConstants
  <2> HIDE DEF c, r, l, t, n
  <2> QED  BY <2>2, <2>3, <2>4
<1>15. Len(ulIx.cmpr) # ulSize  BY <1>2, <1>3, <1>14, UlConstants
<1>16. UlFlagged'
  <2>1. ulIx.flag # 1  BY <1>5, <1>15 DEF UlInv, UlFlagged
  <2> QED  BY <1>1, <1>8, <2>1 DEF UlFlagged
<1>17. UlCalm' /\ UlBegun' /\ UlWires' /\ UlFilling' /\ UlAlive' /\ UlEnded' /\ UlBounds'
  BY <1>1, <1>5, <1>8, <1>9, <1>14 DEF UlInv, UlCalm, UlBegun, UlWires, UlFilling, UlAlive, UlEnded, UlBounds, UlRunning, UlFresh
<1> QED  BY <1>10, <1>13, <1>16, <1>17 DEF UlInv

LEMMA UlDrainedKeeps == ASSUME UlInv, UlDrained PROVE UlInv'
<1>1. UNCHANGED ulM /\ ulIsr.pc = "drain" /\ ulHw.rx = <<>>  BY DEF UlDrained, UlIsrAt
<1>2. /\ ulHw' \in UlHwType /\ ulHw'.tx = ulHw.tx /\ ulHw'.line = ulHw.line /\ ulHw'.rx = ulHw.rx
      /\ ~ulHw'.ls /\ ulHw'.ier = ulHw.ier /\ ulHw'.empty = ulHw.empty
  BY DEF UlDrained, UlInv, UlTyped, UlHwType
<1>3. UlRunning  BY <1>1 DEF UlInv, UlCalm
<1>4. /\ ulIsr' \in UlIsrType /\ ulIsr'.pc \in {"none", "iir"}
      /\ ulIx' \in UlIxType /\ ulIx'.tx = ulIx.tx /\ ulIx'.cmpr = ulIx.cmpr /\ ulIx'.made = ulIx.made
      /\ (Len(ulIx.cmpr) = ulSize => ulIx'.flag = 1) /\ (Len(ulIx.cmpr) # ulSize => ulIx'.flag = ulIx.flag)
  <2>1. CASE Len(ulIx.cmpr) = ulSize  BY <2>1 DEF UlDrained, UlIsrTo, UlInv, UlTyped, UlIsrType, UlIsr, UlIxType
  <2>2. CASE Len(ulIx.cmpr) # ulSize  BY <2>2 DEF UlDrained, UlIsrTo, UlInv, UlTyped, UlIsrType, UlIsr, UlIxType
  <2> QED  BY <2>1, <2>2
<1>5. UlTyped'  BY <1>1, <1>2, <1>4 DEF UlInv, UlTyped
<1>6. UlChain'  BY <1>1, <1>2, <1>4, UlChainStays DEF UlInv
<1>7. UlCalm' /\ UlBegun' /\ UlWires' /\ UlFilling' /\ UlAlive' /\ UlFlagged' /\ UlEnded' /\ UlBounds'
  BY <1>1, <1>2, <1>3, <1>4
  DEF UlInv, UlCalm, UlBegun, UlWires, UlFilling, UlAlive, UlFlagged, UlEnded, UlBounds, UlRunning, UlFresh
<1> QED  BY <1>5, <1>6, <1>7 DEF UlInv

(* The handler finds the transmit FIFO empty: there is room for the bytes  *)
(* that it is going to write, and the pattern has as many left.            *)
LEMMA UlRoomFits ==
  ASSUME UlInv, UlRunning, ulIsr.pc # "fill", ulIx.tx < ulSize
  PROVE  /\ UlRoom(ulIx.tx) \in Nat /\ UlRoom(ulIx.tx) > 0 /\ UlRoom(ulIx.tx) <= ulFifo
         /\ UlWhole(ulIx.tx + UlRoom(ulIx.tx)) /\ ulIx.tx + UlRoom(ulIx.tx) <= ulSize
<1>1. ulFifo \in Nat /\ ulFifo >= 2 /\ ulSize \in Nat  BY UlConstants
<1>2. ulIx.tx \in Nat /\ (ulIx.tx = 1 \/ UlWhole(ulIx.tx))  BY DEF UlInv, UlTyped, UlIxType, UlFilling
<1>3. CASE ulIx.tx = 1
  <2>1. UlRoom(ulIx.tx) = ulFifo - 1  BY <1>3 DEF UlRoom
  <2>2. ulIx.tx + UlRoom(ulIx.tx) = ulFifo  BY <1>1, <1>3, <2>1
  <2> QED  BY <1>1, <2>1, <2>2, UlWholes
<1>4. CASE UlWhole(ulIx.tx)
  <2>1. ulIx.tx # 1  BY <1>4, UlWholes
  <2>2. UlRoom(ulIx.tx) = ulFifo  BY <2>1 DEF UlRoom
  <2> QED  BY <1>1, <1>2, <1>4, <2>2, UlWholes
<1> QED  BY <1>2, <1>3, <1>4

LEMMA UlReportsEmptyKeeps == ASSUME UlInv, UlReportsEmpty PROVE UlInv'
<1>1. UNCHANGED ulM /\ ulIsr.pc = "iir" /\ ulHw.empty  BY DEF UlReportsEmpty, UlIsrAt
<1>2. UlRunning /\ ulHw.tx = <<>> /\ Len(ulHw.tx) = 0  BY <1>1 DEF UlInv, UlCalm, UlWires
<1>3. /\ ulHw' \in UlHwType /\ ulHw'.tx = ulHw.tx /\ ulHw'.line = ulHw.line /\ ulHw'.rx = ulHw.rx
      /\ ulHw'.ls = ulHw.ls /\ ulHw'.ier = ulHw.ier /\ ~ulHw'.empty
  BY DEF UlReportsEmpty, UlInv, UlTyped, UlHwType
<1>4. ulIx.tx \in Nat /\ ulIx.tx <= ulSize /\ ulSize \in Nat  BY UlConstants DEF UlInv, UlTyped, UlIxType, UlBounds
<1>5. UNCHANGED ulIx  BY <1>4 DEF UlReportsEmpty
<1>6. /\ ulIsr' \in UlIsrType
      /\ \/ ulIx.tx = ulSize /\ ulIsr'.pc = "none"
         \/ ulIx.tx < ulSize /\ ulIsr'.pc = "fill" /\ ulIsr'.left = UlRoom(ulIx.tx)
  <2>1. CASE ulIx.tx >= ulSize
    <3>1. ulIsr' = [ulIsr EXCEPT !.pc = "none"]  BY <2>1 DEF UlReportsEmpty
    <3>2. ulIsr' \in UlIsrType /\ ulIsr'.pc = "none"  BY <3>1 DEF UlInv, UlTyped, UlIsrType, UlIsr
    <3>3. ulIx.tx = ulSize  BY <1>4, <2>1
    <3> QED  BY <3>2, <3>3
  <2>2. CASE ulIx.tx < ulSize
    <3>1. ulIsr' = [pc |-> "fill", left |-> UlRoom(ulIx.tx)]  BY <1>4, <2>2 DEF UlReportsEmpty
    <3>2. UlRoom(ulIx.tx) \in Nat  BY <1>1, <1>2, <2>2, UlRoomFits
    <3> QED  BY <2>2, <3>1, <3>2 DEF UlIsrType, UlIsr
  <2> QED  BY <1>4, <2>1, <2>2
<1>7. UlTyped'  BY <1>1, <1>3, <1>5, <1>6 DEF UlInv, UlTyped
<1>8. UlChain'  BY <1>1, <1>3, <1>5, UlChainStays DEF UlInv
<1>9. UlFilling' /\ UlAlive'
  <2>1. CASE ulIx.tx = ulSize /\ ulIsr'.pc = "none"
    BY <1>1, <1>2, <1>5, <2>1 DEF UlFilling, UlAlive, UlInv
  <2>2. CASE ulIx.tx < ulSize /\ ulIsr'.pc = "fill" /\ ulIsr'.left = UlRoom(ulIx.tx)
    <3> DEFINE room == UlRoom(ulIx.tx)
    <3>1. /\ room \in Nat /\ room > 0 /\ room <= ulFifo /\ UlWhole(ulIx.tx + room) /\ ulIx.tx + room <= ulSize
      BY <1>1, <1>2, <2>2, UlRoomFits
    <3>2. ulIsr'.left = room /\ ulIsr'.pc = "fill" /\ ulIx'.tx = ulIx.tx /\ Len(ulHw'.tx) = 0
      BY <1>2, <1>3, <1>5, <2>2
    <3> HIDE DEF room
    <3>3. Len(ulHw'.tx) + ulIsr'.left <= ulFifo /\ ulIsr'.left > 0  BY <3>1, <3>2
    <3> QED  BY <3>1, <3>2, <3>3 DEF UlFilling, UlAlive
  <2> QED  BY <1>6, <2>1, <2>2
<1>10. UlCalm' /\ UlBegun' /\ UlWires' /\ UlFlagged' /\ UlEnded' /\ UlBounds'
  BY <1>1, <1>2, <1>3, <1>5, <1>6 DEF UlInv, UlCalm, UlBegun, UlWires, UlFlagged, UlEnded, UlBounds, UlRunning, UlFresh
<1> QED  BY <1>7, <1>8, <1>9, <1>10 DEF UlInv

LEMMA UlFillsKeeps == ASSUME UlInv, UlFills PROVE UlInv'
<1>1. UNCHANGED ulM /\ ulIsr.pc = "fill" /\ ulIsr.left > 0 /\ ulIsr.left \in Nat /\ UlWrites(ulIx, ulHw)
  BY DEF UlFills, UlIsrAt, UlInv, UlTyped, UlIsrType
<1>2. UlRunning  BY <1>1 DEF UlInv, UlCalm
<1>3. ulIx.made  BY <1>2 DEF UlInv, UlBegun
<1>4. /\ ulIx.tx \in Nat /\ Len(ulHw.tx) \in Nat /\ Len(ulHw.line) \in Nat /\ Len(ulHw.rx) \in Nat /\ Len(ulIx.cmpr) \in Nat
      /\ ulHw.tx \in Seq(Int)
  BY DEF UlInv, UlTyped, UlIxType, UlHwType
<1>5. Len(ulHw.tx) + ulIsr.left <= ulFifo /\ ulIx.tx + ulIsr.left <= ulSize /\ UlWhole(ulIx.tx + ulIsr.left)
  BY <1>1, <1>2 DEF UlInv, UlFilling
<1>6. Len(ulHw.tx) < ulFifo  BY <1>1, <1>4, <1>5, UlConstants
<1>7. /\ ulIx' \in UlIxType /\ ulHw' \in UlHwType
      /\ ulIx'.tx = ulIx.tx + 1 /\ ulIx'.cmpr = ulIx.cmpr /\ ulIx'.flag = ulIx.flag /\ ulIx'.made
      /\ ulHw'.tx = Append(ulHw.tx, ulIx.tx) /\ ulHw'.tx # <<>> /\ Len(ulHw'.tx) = Len(ulHw.tx) + 1
      /\ ulHw'.line = ulHw.line /\ ulHw'.rx = ulHw.rx /\ ulHw'.ls = ulHw.ls /\ ulHw'.ier = ulHw.ier /\ ~ulHw'.empty
  BY <1>1, <1>3, <1>6, UlWritesNext DEF UlInv
<1>8. ulIsr' \in UlIsrType /\ ulIsr'.pc = "fill" /\ ulIsr'.left = ulIsr.left - 1
  <2> DEFINE left == ulIsr.left - 1
  <2>1. left \in Nat /\ ulIsr' = [ulIsr EXCEPT !.left = left]  BY <1>1 DEF UlFills
  <2> HIDE DEF left
  <2>2. ulIsr' \in UlIsrType /\ ulIsr'.pc = "fill" /\ ulIsr'.left = left  BY <1>1, <2>1 DEF UlInv, UlTyped, UlIsrType
  <2> QED  BY <2>2 DEF left
<1>9. UlTyped'  BY <1>1, <1>7, <1>8 DEF UlInv, UlTyped
<1> DEFINE from == Len(ulIx.cmpr) + Len(ulHw.rx) + Len(ulHw.line)
<1>10. from \in Nat /\ UlSent = from + Len(ulHw.tx) /\ UlSent' = from + (Len(ulHw.tx) + 1)
  <2>1. UlSent = from + Len(ulHw.tx) /\ UlSent' = from + (Len(ulHw.tx) + 1)  BY <1>7 DEF UlSent
  <2> DEFINE c == Len(ulIx.cmpr)
             r == Len(ulHw.rx)
             l == Len(ulHw.line)
  <2>2. c \in Nat /\ r \in Nat /\ l \in Nat /\ from = c + r + l  BY <1>4
  <2> HIDE DEF c, r, l
  <2>3. c + r + l \in Nat  BY <2>2
  <2> QED  BY <2>1, <2>2, <2>3
<1> HIDE DEF from
<1>11. UlSent \in Nat /\ UlSent' = UlSent + 1
  <2> DEFINE t == Len(ulHw.tx)
  <2>1. t \in Nat /\ UlSent = from + t /\ UlSent' = from + (t + 1)  BY <1>4, <1>10
  <2> HIDE DEF t
  <2>2. from + t \in Nat /\ from + (t + 1) = (from + t) + 1  BY <1>10, <2>1
  <2> QED  BY <2>1, <2>2
<1>12. ~ulM.fault => UlInPlace'
  <2>1. SUFFICES ASSUME ~ulM.fault PROVE UlInPlace'  OBVIOUS
  <2>2. UlInPlace  BY <1>2, <2>1 DEF UlInv, UlChain
  <2>3. UlCounts(ulHw.tx, from) /\ ulIx.tx = from + Len(ulHw.tx)  BY <1>10, <2>2 DEF UlInPlace, from
  <2>4. UlCounts(Append(ulHw.tx, ulIx.tx), from)  BY <1>4, <1>10, <2>3, UlCountsMore
  <2>5. UlSent' = ulIx'.tx  BY <1>7, <1>11, <2>2 DEF UlInPlace
  <2> QED  BY <1>7, <2>2, <2>4, <2>5 DEF UlInPlace, from
<1>13. UlChain'
  <2>1. UlSent <= ulIx.tx => UlSent' <= ulIx'.tx  BY <1>4, <1>7, <1>11
  <2>2. UlSent < ulIx.tx => UlSent' < ulIx'.tx  BY <1>4, <1>7, <1>11
  <2> QED  BY <1>1, <1>2, <1>7, <1>12, <2>1, <2>2 DEF UlInv, UlChain
<1>14. UlFilling'
  <2>1. ulIx'.tx + ulIsr'.left = ulIx.tx + ulIsr.left  BY <1>1, <1>4, <1>7, <1>8
  <2>2. Len(ulHw'.tx) + ulIsr'.left <= ulFifo  BY <1>1, <1>4, <1>5, <1>7, <1>8
  <2> QED  BY <1>5, <1>8, <2>1, <2>2 DEF UlFilling
<1>15. ulIx'.tx <= ulSize  BY <1>1, <1>4, <1>5, <1>7, UlConstants
<1>16. UlCalm' /\ UlBegun' /\ UlWires' /\ UlAlive' /\ UlFlagged' /\ UlEnded' /\ UlBounds'
  BY <1>1, <1>2, <1>7, <1>8, <1>15 DEF UlInv, UlCalm, UlBegun, UlWires, UlAlive, UlFlagged, UlEnded, UlBounds, UlRunning, UlFresh
<1> QED  BY <1>9, <1>13, <1>14, <1>16 DEF UlInv

LEMMA UlOneByte == ASSUME NEW s \in Seq(Int), s # <<>>, Len(s) <= 1
                   PROVE  Len(s) = 1 /\ s[1] \in Int /\ s = <<s[1]>>
<1> DEFINE n == Len(s)
<1>1. n \in Nat /\ n # 0 /\ n <= 1  BY EmptySeq
<1> HIDE DEF n
<1>2. n = 1  BY <1>1
<1> QED  BY <1>2 DEF n

LEMMA UlSumNat == \A a, b \in Nat : a + b \in Nat
OBVIOUS

LEMMA UlAppendOne == ASSUME NEW s \in Seq(Int), NEW b \in Int PROVE Append(s, b) = s \o <<b>>
OBVIOUS

(* The UART: a byte goes on the line, and arrives, is lost or is spoilt.   *)
LEMMA UlShiftsKeeps == ASSUME UlInv, UlShifts PROVE UlInv'
<1> DEFINE byte == Head(ulHw.tx)
           line == <<byte>>
           tx   == Tail(ulHw.tx)
           more == ulHw.empty \/ Len(ulHw.tx) = 1
<1>1. UNCHANGED <<ulM, ulIx, ulIsr>> /\ ulHw.line = <<>> /\ ulHw.tx # <<>>  BY DEF UlShifts
<1>2. ulHw \in UlHwType /\ ulHw.tx \in Seq(Int) /\ Len(ulHw.rx) \in Nat /\ Len(ulIx.cmpr) \in Nat
  BY DEF UlInv, UlTyped, UlIxType, UlHwType
<1>3. /\ byte \in Int /\ line \in Seq(Int) /\ Len(line) = 1 /\ line[1] = byte /\ tx \in Seq(Int)
      /\ Len(ulHw.tx) = Len(tx) + 1 /\ Len(tx) \in Nat /\ Len(ulHw.line) = 0
  BY <1>1, <1>2
<1>4. UlRunning /\ ~ulHw.empty  BY <1>1 DEF UlInv, UlCalm, UlWires
<1>5. more \in BOOLEAN /\ (more <=> tx = <<>>)
  <2>1. tx = <<>> <=> Len(tx) = 0  BY <1>3, EmptySeq
  <2>2. Len(tx) = 0 <=> Len(ulHw.tx) = 1
    <3> DEFINE t == Len(tx)
    <3>1. t \in Nat /\ Len(ulHw.tx) = t + 1  BY <1>3
    <3> HIDE DEF t
    <3>2. t = 0 <=> t + 1 = 1  BY <3>1
    <3> QED  BY <3>1, <3>2 DEF t
  <2>3. more <=> Len(ulHw.tx) = 1  BY <1>4
  <2>4. more \in BOOLEAN  OBVIOUS
  <2> QED  BY <2>1, <2>2, <2>3, <2>4
<1>6. UlCounts(line, byte)  BY <1>3 DEF UlCounts
<1>7. ulHw' = [ulHw EXCEPT !.line = line, !.tx = tx, !.empty = more]  BY DEF UlShifts
<1>8. ASSUME NEW n \in Nat, UlCounts(ulHw.tx, n) PROVE byte = n /\ UlCounts(tx, n + 1)
  BY <1>1, <1>2, <1>8, UlCountsTail
<1> HIDE DEF byte, line, tx, more
<1>9. /\ ulHw' \in UlHwType /\ ulHw'.tx = tx /\ ulHw'.line = line /\ ulHw'.rx = ulHw.rx
      /\ ulHw'.ls = ulHw.ls /\ ulHw'.ier = ulHw.ier /\ (ulHw'.empty <=> tx = <<>>)
  <2>1. /\ ulHw' \in UlHwType /\ ulHw'.tx = tx /\ ulHw'.line = line /\ ulHw'.rx = ulHw.rx
        /\ ulHw'.ls = ulHw.ls /\ ulHw'.ier = ulHw.ier /\ ulHw'.empty = more
    BY <1>2, <1>3, <1>5, <1>7 DEF UlHwType
  <2> QED  BY <1>5, <2>1
<1>10. UlTyped'  BY <1>1, <1>9 DEF UlInv, UlTyped
<1> DEFINE from == Len(ulIx.cmpr) + Len(ulHw.rx)
<1>11. from \in Nat  BY <1>2, UlSumNat
<1>12. UlSent = from + 0 + (Len(tx) + 1) /\ UlSent' = from + 1 + Len(tx)
  <2>1. UlSent = from + Len(ulHw.line) + Len(ulHw.tx)  BY DEF UlSent
  <2>2. UlSent' = from + Len(line) + Len(tx)  BY <1>1, <1>9 DEF UlSent
  <2> QED  BY <1>3, <2>1, <2>2
<1>13. UlInPlace => UlCounts(ulHw.tx, from + 0) /\ UlSent = ulIx.tx  BY <1>3 DEF UlInPlace
<1>14. UlInPlace => UlCounts(ulIx.cmpr, 0) /\ UlCounts(ulHw.rx, Len(ulIx.cmpr))  BY DEF UlInPlace
<1>15. UlSent' = ulIx.tx /\ UlCounts(ulIx.cmpr, 0) /\ UlCounts(ulHw.rx, Len(ulIx.cmpr))
         /\ UlCounts(line, from) /\ UlCounts(tx, from + 1)
         => UlInPlace'
  BY <1>1, <1>3, <1>9 DEF UlInPlace
<1> HIDE DEF from
<1>16. UlSent' = UlSent
  <2> DEFINE t == Len(tx)
  <2>1. t \in Nat /\ UlSent = from + 0 + (t + 1) /\ UlSent' = from + 1 + t  BY <1>3, <1>12
  <2> HIDE DEF t
  <2> QED  BY <1>11, <2>1
<1>17. UlInPlace => UlInPlace'
  <2>1. SUFFICES ASSUME UlInPlace PROVE UlInPlace'  OBVIOUS
  <2>2. from + 0 = from  BY <1>11
  <2>3. byte = from /\ UlCounts(tx, from + 1)  BY <1>8, <1>13, <1>11, <2>1, <2>2
  <2> QED  BY <1>6, <1>13, <1>14, <1>15, <1>16, <2>1, <2>3
<1>18. UlChain'  BY <1>1, <1>4, <1>9, <1>16, <1>17 DEF UlInv, UlChain, UlRunning
<1>19. UlFilling'
  <2>1. ulIsr.pc = "fill" => ulIsr.left \in Nat /\ Len(tx) + 1 + ulIsr.left <= ulFifo
    BY <1>3, <1>4 DEF UlInv, UlFilling, UlTyped, UlIsrType
  <2>2. ulIsr.pc = "fill" => Len(tx) + ulIsr.left <= ulFifo  BY <1>3, <2>1, UlConstants
  <2> QED  BY <1>1, <1>4, <1>9, <2>2 DEF UlInv, UlFilling
<1>20. UlWires' /\ UlAlive'
  <2>1. Len(ulHw'.line) = 1  BY <1>3, <1>9
  <2>2. 1 <= 1  OBVIOUS
  <2>3. UlWires'  BY <1>9, <2>1, <2>2 DEF UlWires
  <2>4. UlAlive'  BY <1>9 DEF UlAlive
  <2> QED  BY <2>3, <2>4
<1>21. UlCalm' /\ UlBegun' /\ UlFlagged' /\ UlEnded' /\ UlBounds'
  BY <1>1, <1>4, <1>9 DEF UlInv, UlCalm, UlBegun, UlFlagged, UlEnded, UlBounds, UlRunning, UlFresh
<1> QED  BY <1>10, <1>18, <1>19, <1>21, <1>20 DEF UlInv

LEMMA UlArrivesKeeps == ASSUME UlInv, UlArrives PROVE UlInv'
<1> DEFINE byte == ulHw.line[1]
           room == Len(ulHw.rx) < ulFifo
<1>1. UNCHANGED <<ulIx, ulIsr>> /\ ulHw.line # <<>>  BY DEF UlArrives
<1>2. UlRunning  BY <1>1 DEF UlInv, UlCalm
<1>3. /\ ulM \in UlMType /\ ulHw \in UlHwType /\ ulHw.rx \in Seq(Int) /\ ulHw.line \in Seq(Int)
      /\ Len(ulIx.cmpr) \in Nat /\ Len(ulHw.tx) \in Nat /\ Len(ulHw.rx) \in Nat /\ ulIx.tx \in Nat
  BY DEF UlInv, UlTyped, UlMType, UlIxType, UlHwType
<1>4. byte \in Int /\ ulHw.line = <<byte>> /\ Len(ulHw.line) = 1
  <2>1. Len(ulHw.line) <= 1  BY DEF UlInv, UlWires
  <2> QED  BY <1>1, <1>3, <2>1, UlOneByte
<1> DEFINE from == Len(ulIx.cmpr) + Len(ulHw.rx)
<1>5. from \in Nat  BY <1>3, UlSumNat
<1>6. UlSent = from + 1 + Len(ulHw.tx)
  <2>1. UlSent = from + Len(ulHw.line) + Len(ulHw.tx)  BY DEF UlSent
  <2> QED  BY <1>4, <2>1
<1> DEFINE none == <<>>
<1>7. none \in Seq(Int) /\ ulHw.ls \in BOOLEAN /\ ulHw.closed \in BOOLEAN  BY <1>3 DEF UlHwType
(* Nothing but the line, the receive FIFO and the line status changes.     *)
<1>8. ASSUME ulHw' \in UlHwType, ulHw'.tx = ulHw.tx, ulHw'.line = <<>>, ulHw'.ier = ulHw.ier, ulHw'.empty = ulHw.empty,
             ulM' \in UlMType, ulM'.pc = ulM.pc, ulM.fault => ulM'.fault, UlChain'
      PROVE  UlInv'
  <2>1. UlTyped'  BY <1>1, <1>8 DEF UlInv, UlTyped
  <2>2. Len(ulHw'.line) = 0  BY <1>8
  <2>3. UlCalm' /\ UlBegun' /\ UlWires' /\ UlFilling' /\ UlAlive' /\ UlFlagged' /\ UlEnded' /\ UlBounds'
    BY <1>1, <1>2, <1>8, <2>2
    DEF UlInv, UlCalm, UlBegun, UlWires, UlFilling, UlAlive, UlFlagged, UlEnded, UlBounds, UlRunning, UlFresh
  <2> QED  BY <1>8, <2>1, <2>3 DEF UlInv
<1>9. CASE ulHw.closed /\ room /\ UNCHANGED ulM /\ ulHw' = [ulHw EXCEPT !.line = <<>>, !.rx = @ \o ulHw.line]
  <2> DEFINE rx == Append(ulHw.rx, byte)
  <2>1. rx \in Seq(Int) /\ Len(rx) = Len(ulHw.rx) + 1 /\ rx = ulHw.rx \o ulHw.line
    <3>1. rx \in Seq(Int) /\ Len(rx) = Len(ulHw.rx) + 1  BY <1>3, <1>4
    <3>2. rx = ulHw.rx \o <<byte>>  BY <1>3, <1>4, UlAppendOne
    <3> QED  BY <1>4, <3>1, <3>2
  <2>2. UlSpoilt(ulHw.rx) => UlSpoilt(rx)  BY <1>3, <1>4, UlSpoiltMore
  <2>3. UlInPlace => byte = from /\ UlCounts(rx, Len(ulIx.cmpr))
    <3>1. SUFFICES ASSUME UlInPlace PROVE byte = from /\ UlCounts(rx, Len(ulIx.cmpr))  OBVIOUS
    <3>2. UlCounts(ulHw.line, from) /\ UlCounts(ulHw.rx, Len(ulIx.cmpr))  BY <3>1 DEF UlInPlace
    <3>3. byte = from
      <4>1. 1 \in 1 .. Len(ulHw.line)  BY <1>4
      <4>2. byte = from + 1 - 1  BY <3>2, <4>1 DEF UlCounts
      <4> HIDE DEF byte, from
      <4> QED  BY <1>5, <4>2
    <3> QED  BY <1>3, <3>2, <3>3, UlCountsMore
  <2>4. ulHw' = [ulHw EXCEPT !.line = <<>>, !.rx = rx]  BY <1>9, <2>1
  <2> HIDE DEF rx
  <2>5. /\ ulHw' \in UlHwType /\ ulHw'.tx = ulHw.tx /\ ulHw'.line = <<>> /\ ulHw'.rx = rx
        /\ ulHw'.ls = ulHw.ls /\ ulHw'.ier = ulHw.ier /\ ulHw'.empty = ulHw.empty
    <3>1. ulHw' = [ulHw EXCEPT !.line = none, !.rx = rx]  BY <2>4
    <3> HIDE DEF none
    <3>2. /\ ulHw' \in UlHwType /\ ulHw'.tx = ulHw.tx /\ ulHw'.line = none /\ ulHw'.rx = rx
          /\ ulHw'.ls = ulHw.ls /\ ulHw'.ier = ulHw.ier /\ ulHw'.empty = ulHw.empty
      BY <1>3, <1>7, <2>1, <3>1 DEF UlHwType
    <3> QED  BY <3>2 DEF none
  <2>6. UlSent' = UlSent /\ Len(ulIx.cmpr) + Len(rx) = from + 1
    <3> DEFINE c == Len(ulIx.cmpr)
               r == Len(ulHw.rx)
               t == Len(ulHw.tx)
    <3>1. c \in Nat /\ r \in Nat /\ t \in Nat  BY <1>3
    <3>2. UlSent = c + r + 1 + t /\ UlSent' = c + (r + 1) + 0 + t  BY <1>1, <1>4, <2>1, <2>5 DEF UlSent
    <3>3. Len(ulIx.cmpr) + Len(rx) = c + (r + 1) /\ from + 1 = c + r + 1  BY <2>1
    <3> HIDE DEF c, r, t, from
    <3> QED  BY <3>1, <3>2, <3>3
  <2>7. UlInPlace => UlInPlace'
    <3>1. SUFFICES ASSUME UlInPlace PROVE UlInPlace'  OBVIOUS
    <3>2. UlCounts(ulIx.cmpr, 0) /\ UlSent = ulIx.tx /\ UlCounts(ulHw.tx, from + Len(ulHw.line))  BY <3>1 DEF UlInPlace
    <3>3. from + Len(ulHw.line) = from + 1 + 0  BY <1>4, <1>5
    <3>4. Len(ulHw'.line) = 0 /\ UlCounts(ulHw'.line, from + 1)  BY <2>5 DEF UlCounts
    <3> QED  BY <1>1, <2>3, <2>5, <2>6, <3>1, <3>2, <3>3, <3>4 DEF UlInPlace
  <2>8. UlChain'  BY <1>1, <1>2, <1>9, <2>2, <2>5, <2>6, <2>7 DEF UlInv, UlChain, UlRunning
  <2> QED  BY <1>3, <1>8, <1>9, <2>5, <2>8
(* One is lost or spoilt.                                                  *)
<1>10. ASSUME ulM' = [ulM EXCEPT !.fault = TRUE] PROVE ulM' \in UlMType /\ ulM'.pc = ulM.pc /\ ulM'.fault
  BY <1>3, <1>10 DEF UlMType
<1>11. CASE /\ ~(ulHw.closed /\ room) /\ ulM' = [ulM EXCEPT !.fault = TRUE]
           /\ ulHw' = [ulHw EXCEPT !.line = <<>>, !.ls = @ \/ ulHw.closed]
  <2>1. /\ ulHw' \in UlHwType /\ ulHw'.tx = ulHw.tx /\ ulHw'.line = <<>> /\ ulHw'.rx = ulHw.rx
        /\ ulHw'.ier = ulHw.ier /\ ulHw'.empty = ulHw.empty
    <3> DEFINE ls == ulHw.ls \/ ulHw.closed
    <3>1. ls \in BOOLEAN /\ ulHw' = [ulHw EXCEPT !.line = none, !.ls = ls]  BY <1>11, <1>7
    <3> HIDE DEF ls, none
    <3>2. /\ ulHw' \in UlHwType /\ ulHw'.tx = ulHw.tx /\ ulHw'.line = none /\ ulHw'.rx = ulHw.rx
          /\ ulHw'.ier = ulHw.ier /\ ulHw'.empty = ulHw.empty
      BY <1>3, <1>7, <3>1 DEF UlHwType
    <3> QED  BY <3>2 DEF none
  <2>2. UlSent' < ulIx.tx
    <3> DEFINE t == Len(ulHw.tx)
               n == ulIx.tx
    <3>1. t \in Nat /\ n \in Nat  BY <1>3
    <3>2. UlSent = from + 1 + t /\ UlSent' = from + 0 + t /\ UlSent <= n
      <4>1. UlSent' = from + Len(<<>>) + t  BY <1>1, <2>1 DEF UlSent
      <4> QED  BY <1>2, <1>6, <4>1 DEF UlInv, UlChain
    <3> HIDE DEF t, n, from
    <3>3. from + 0 + t < n  BY <1>5, <3>1, <3>2
    <3> QED  BY <3>2, <3>3 DEF n
  <2>3. UlSent' <= ulIx.tx
    <3>1. UlSent' \in Int  BY <1>1, <1>3, <2>1 DEF UlSent
    <3> QED  BY <1>3, <2>2, <3>1
  <2>4. UlChain'  BY <1>1, <1>10, <1>11, <2>2, <2>3 DEF UlChain
  <2> QED  BY <1>8, <1>10, <1>11, <2>1, <2>4
<1>12. CASE /\ ulHw.closed /\ room /\ ~ulM.fault /\ ulM' = [ulM EXCEPT !.fault = TRUE]
            /\ ulHw' = [ulHw EXCEPT !.line = <<>>, !.rx = Append(@, -1), !.ls = TRUE]
  <2> DEFINE rx == Append(ulHw.rx, -1)
  <2>1. rx \in Seq(Int) /\ Len(rx) = Len(ulHw.rx) + 1  BY <1>3
  <2>2. UlSpoilt(rx)  BY <1>3, UlSpoiltMore
  <2>3. ulHw' = [ulHw EXCEPT !.line = <<>>, !.rx = rx, !.ls = TRUE]  BY <1>12
  <2> HIDE DEF rx
  <2>4. /\ ulHw' \in UlHwType /\ ulHw'.tx = ulHw.tx /\ ulHw'.line = <<>> /\ ulHw'.rx = rx
        /\ ulHw'.ier = ulHw.ier /\ ulHw'.empty = ulHw.empty
    <3>1. ulHw' = [ulHw EXCEPT !.line = none, !.rx = rx, !.ls = TRUE]  BY <2>3
    <3> HIDE DEF none
    <3>2. /\ ulHw' \in UlHwType /\ ulHw'.tx = ulHw.tx /\ ulHw'.line = none /\ ulHw'.rx = rx
          /\ ulHw'.ier = ulHw.ier /\ ulHw'.empty = ulHw.empty
      BY <1>3, <1>7, <2>1, <3>1 DEF UlHwType
    <3> QED  BY <3>2 DEF none
  <2>5. UlSent' = UlSent
    <3> DEFINE c == Len(ulIx.cmpr)
               r == Len(ulHw.rx)
               t == Len(ulHw.tx)
    <3>1. c \in Nat /\ r \in Nat /\ t \in Nat  BY <1>3
    <3>2. UlSent = c + r + 1 + t /\ UlSent' = c + (r + 1) + 0 + t  BY <1>1, <1>4, <2>1, <2>4 DEF UlSent
    <3> HIDE DEF c, r, t
    <3> QED  BY <3>1, <3>2
  <2>6. UlChain'  BY <1>1, <1>2, <1>10, <1>12, <2>2, <2>4, <2>5 DEF UlInv, UlChain
  <2> QED  BY <1>8, <1>10, <1>12, <2>4, <2>6
<1> QED  BY <1>9, <1>11, <1>12 DEF UlArrives

LEMMA UlNextStep == UlInv /\ [UlStep]_ulVars => UlInv'
<1> SUFFICES ASSUME UlInv, [UlStep]_ulVars PROVE UlInv'
  OBVIOUS
<1>1. CASE socle_uart_isr \/ UlReportsData \/ UlReportsNone \/ UlFilled  BY <1>1, UlIsrMovesKeeps
<1>2. CASE socle_uart_show_lsr_error  BY <1>2, UlLineStatusKeeps
<1>3. CASE UlDrains  BY <1>3, UlDrainsKeeps
<1>4. CASE UlDrained  BY <1>4, UlDrainedKeeps
<1>5. CASE UlReportsEmpty  BY <1>5, UlReportsEmptyKeeps
<1>6. CASE UlFills  BY <1>6, UlFillsKeeps
<1>7. CASE UlOpens  BY <1>7, UlOpensKeeps
<1>8. CASE UlCloses \/ UlBackInMenu  BY <1>8, UlMenuKeeps
<1>9. CASE socle_uart_inter_loopback_test  BY <1>9, UlRunKeeps DEF socle_uart_inter_loopback_test
<1>10. CASE socle_uart_ext_loopback_test  BY <1>10, UlRunKeeps DEF socle_uart_ext_loopback_test
<1>11. CASE socle_uart_init_environment  BY <1>11, UlInitKeeps
<1>12. CASE socle_uart_make_test_pattern  BY <1>12, UlMakesKeeps
<1>13. CASE UlTriggers  BY <1>13, UlTriggersKeeps
<1>14. CASE UlEnables  BY <1>14, UlEnablesKeeps
<1>15. CASE UlWaitExpires  BY <1>15, UlExpiresKeeps
<1>16. CASE UlWaited  BY <1>16, UlWaitedKeeps
<1>17. CASE socle_uart_compare_memory  BY <1>17, UlCompareKeeps
<1>18. CASE UlShifts  BY <1>18, UlShiftsKeeps
<1>19. CASE UlArrives  BY <1>19, UlArrivesKeeps
<1>20. CASE UNCHANGED ulVars
  <2>1. UNCHANGED <<ulM, ulIx, ulIsr, ulHw>>  BY <1>20 DEF ulVars
  <2>2. UlTyped'  BY <2>1 DEF UlInv, UlTyped
  <2>3. UlChain'  BY <2>1, UlChainStays DEF UlInv
  <2>4. UlCalm' /\ UlBegun' /\ UlWires' /\ UlFilling' /\ UlAlive' /\ UlFlagged' /\ UlEnded' /\ UlBounds'
    BY <2>1 DEF UlInv, UlCalm, UlBegun, UlWires, UlFilling, UlAlive, UlFlagged, UlEnded, UlBounds, UlRunning, UlFresh
  <2> QED  BY <2>2, <2>3, <2>4 DEF UlInv
<1> QED
  BY <1>1, <1>2, <1>3, <1>4, <1>5, <1>6, <1>7, <1>8, <1>9, <1>10, <1>11, <1>12, <1>13, <1>14, <1>15, <1>16, <1>17, <1>18,
     <1>19, <1>20 DEF UlStep

LEMMA UlBegins == ASSUME NEW pc \in {"off", "idle"}, UlStart(pc) PROVE UlInv
<1>1. ulM \in UlMType /\ ulM.pc \in {"off", "idle"}  BY UlConstants DEF UlStart, UlMType, UlMainPc
<1>2. ulIx \in UlIxType /\ ulIx.tx = 0 /\ ulIx.cmpr = <<>> /\ Len(ulIx.cmpr) = 0
  BY EmptySeq DEF UlStart, UlIxType
<1>3. ulIsr \in UlIsrType /\ ulIsr.pc = "none"  BY DEF UlStart, UlIsrType, UlIsr
<1>4. /\ ulHw \in UlHwType /\ ulHw.tx = <<>> /\ ulHw.line = <<>> /\ ulHw.rx = <<>> /\ ~ulHw.ls /\ ~ulHw.ier /\ Len(ulHw.line) = 0
  BY EmptySeq DEF UlStart, UlHwType
<1>5. UlTyped  BY <1>1, <1>2, <1>3, <1>4 DEF UlTyped
<1>6. UlCalm /\ UlBegun /\ UlWires /\ UlChain /\ UlFilling /\ UlAlive /\ UlFlagged /\ UlEnded /\ UlBounds
  BY <1>1, <1>2, <1>3, <1>4, UlConstants
  DEF UlCalm, UlBegun, UlWires, UlChain, UlFilling, UlAlive, UlFlagged, UlEnded, UlBounds, UlRunning, UlFresh
<1> QED  BY <1>5, <1>6 DEF UlInv

LEMMA UlInvRight == UlInv => UartRight
<1> SUFFICES ASSUME UlInv PROVE UartRight
  OBVIOUS
<1>1. ulM.pc = "end" => (ulM.err # 0) = ulM.fault
  <2>1. ulM.fault \in BOOLEAN  BY DEF UlInv, UlTyped, UlMType
  <2> QED  BY <2>1 DEF UlInv, UlEnded
<1>2. ulM.pc = "wait" /\ UlQuiet /\ ~ulM.fault => ulIx.flag = 1  BY UlNothingLeft
<1>3. ulM.pc \in {"menu", "end"} => ulHw.tx = <<>> /\ ulHw.line = <<>> /\ ulHw.rx = <<>>  BY DEF UlInv, UlCalm, UlRunning
<1>4. ulIx.tx <= ulSize /\ Len(ulIx.cmpr) <= ulSize  BY DEF UlInv, UlBounds
<1> QED  BY <1>1, <1>2, <1>3, <1>4 DEF UartRight

-----------------------------------------------------------------------------
(* The audio tests.  Of a ring, as many periods have been put in as have   *)
(* been played, less those behind which the handler is ahead; each place   *)
(* has the last period of its own.  Of the FIFOs, what is out, in them and *)
(* still to be written are one after the other.                            *)
IsBit(b) == IF b THEN 1 ELSE 0
IsWords == {"loop", "play", "capture"}
IsRings == {"ring", "play dma", "function"}
IsLivePc == {"wait", "run", "gap", "drain"}
IsMType == [pc : {"off", "idle", "end"} \cup IsLivePc,
            test : {"none", "direct", "capture dma"} \cup IsRings \cup IsWords,
            err : Int, gap : BOOLEAN, tests : Nat]
IsPosType == [pcm : Nat, ring : 0 .. isRing - 1, dma : 0 .. isRing - 1]
IsMemType == [ring : [0 .. isRing - 1 -> Int], out : Seq(Int), buf : Seq(Int)]
IsChannelType == [on : BOOLEAN, at : Nat, pages : Nat, int : BOOLEAN]
IsDmaType == [tx : IsChannelType, rx : IsChannelType]
IsFifoType == [tx : Seq(Int), rx : Seq(Int), run : BOOLEAN]
IsTyped == isM \in IsMType /\ isPos \in IsPosType /\ isMem \in IsMemType /\ isDma \in IsDmaType /\ isFifo \in IsFifoType

(* Only what a test uses runs in it, and nothing between tests.            *)
IsUsed ==
  /\ isM.pc = "wait" => isM.test \in IsWords \cup {"direct", "ring"}
  /\ isM.pc = "gap" => isM.test \in {"ring", "play dma", "capture dma"}
  /\ isM.pc = "run" => isM.test \in IsRings \cup {"capture dma"}
  /\ isM.pc = "drain" => isM.test \in {"play dma", "function", "capture dma"} /\ isPos.pcm >= isSize
  /\ isFifo.run => isM.pc = "wait" /\ isM.test \in IsWords
  /\ isDma.tx # IsOff => isM.pc \in IsLivePc /\ isM.test \in IsRings \cup {"direct"}
  /\ isDma.rx # IsOff => isM.pc \in IsLivePc /\ isM.test \in {"direct", "ring", "capture dma"}
  /\ "overrun" \in isFlags => isM.pc = "wait" /\ isM.test \in {"loop", "capture"} /\ ~isFifo.run
(* A ring is played or recorded page by page, and never without a page.    *)
IsPaged ==
  isM.pc \in {"run", "gap"} => IsDir \notin isFlags /\ isDma[IsDir].pages + IsBit(isDma[IsDir].int) = isRing

(* With the FIFOs: the words played, in the FIFO and still to be written   *)
(* are one after the other ...                                             *)
IsFrom(s, n) == \A k \in 1 .. Len(s) : s[k] = n + k
IsPlayed ==
  /\ Len(isMem.out) + Len(isFifo.tx) = isPos.pcm /\ isPos.pcm <= isSize
  /\ IsFrom(isMem.out, 0) /\ IsFrom(isFifo.tx, Len(isMem.out)) /\ Len(isFifo.tx) <= isDepth
  /\ "tx" \in isFlags => isPos.pcm = isSize /\ Len(isFifo.tx) < isDepth /\ ~isFifo.run
IsPlaying == isM.pc = "wait" /\ isM.test = "play" => IsPlayed
(* ... and so are those received, in both FIFOs and still to come, unless  *)
(* one has found the FIFO full.                                            *)
IsKept ==
  /\ IsFrom(isFifo.rx, Len(isMem.buf))
  /\ isM.test = "loop" => Len(isMem.buf) + Len(isFifo.rx) + Len(isFifo.tx) = isPos.pcm
                          /\ IsFrom(isFifo.tx, Len(isMem.buf) + Len(isFifo.rx))
  /\ isM.test = "capture" => Len(isMem.buf) + Len(isFifo.rx) = isPos.pcm
IsTook ==
  /\ Len(isMem.buf) <= isSize /\ IsFrom(isMem.buf, 0) /\ (isM.test = "loop" => isPos.pcm <= isSize)
  /\ "overrun" \notin isFlags => IsKept
  /\ "rx" \in isFlags => ~isFifo.run /\ ("overrun" \in isFlags \/ Len(isMem.buf) = isSize)
IsTaking == isM.pc = "wait" /\ isM.test \in {"loop", "capture"} => IsTook

(* With DMA: IsAt is the place of a period, IsAhead by how many periods    *)
(* the handler is ahead of the main program.  A loop-back is at most one   *)
(* period behind; what is played is in order; of a ring that is refilled,  *)
(* the last isRing periods put in are in their places; the handler is less *)
(* than a ring ahead; and of a recording, the last that came in are there. *)
IsAt(n) == n % isRing
IsAhead == IsAt(isPos.dma - isPos.ring)
IsLooped ==
  /\ isDma.rx.pages + Len(isMem.buf) = isSize
  /\ Len(isMem.out) >= Len(isMem.buf) /\ Len(isMem.out) <= Len(isMem.buf) + 1
  /\ "rx" \in isFlags => Len(isMem.buf) = isSize
  /\ ~isM.gap => IsFrom(isMem.buf, 0)
IsLooping == isM.pc \in {"wait", "run", "gap"} /\ isM.test \in {"direct", "ring"} => IsLooped
IsHeard ==
  /\ isM.test = "direct" /\ Len(isMem.out) < isSize => isDma.tx.at = Len(isMem.out)
  /\ isM.test # "direct" => isDma.tx.at = IsAt(Len(isMem.out))
  /\ ~isM.gap => \A k \in 1 .. Len(isMem.out) : k <= isSize => isMem.out[k] = k
IsHearing == isM.pc \in IsLivePc /\ isM.test \in IsRings \cup {"direct"} => IsHeard
IsInRing == \A q \in Int : isPos.pcm - isRing <= q /\ q < isPos.pcm => isMem.ring[IsAt(q)] = IsSample(q)
IsFed ==
  /\ isPos.pcm >= isRing /\ IsInRing /\ Len(isMem.out) >= isPos.pcm - isRing
  /\ isM.pc \in {"run", "gap"} => Len(isMem.out) = isPos.pcm - isRing + IsAhead + IsBit(isDma.tx.int)
  /\ isM.pc = "wait" => isPos.pcm >= isSize
  /\ isM.pc = "drain" => /\ "tx" \in isFlags /\ isPos.pcm <= isSize + isRing - 2
                         /\ Len(isMem.out) <= isPos.pcm - isRing + 1 + IsBit(isDma.tx.int \/ "tx int" \in isFlags)
IsFeeding == isM.pc \in IsLivePc /\ isM.test \in IsRings /\ ~isM.gap => IsFed
IsCaught ==
  /\ isM.test # "function" => isPos.ring = IsAt(isPos.pcm)
  /\ isM.test = "function" => isPos.ring = isPos.dma
  /\ isDma[IsDir].int => IsAhead <= isRing - 2
  /\ isM.pc = "gap" \/ ("period" \in isFlags /\ isM.test # "function") => IsAhead > 0
  /\ isM.pc = "gap" => isPos.pcm < isSize /\ "period" \notin isFlags
  /\ isM.pc = "run" /\ isPos.pcm >= isSize =>
       /\ IsAhead + IsBit(isDma[IsDir].int) <= 1 /\ isPos.pcm <= isSize + isRing - 2
       /\ isM.test = "function" => ~isDma.tx.int
IsCatching == isM.pc \in {"run", "gap"} /\ ~isM.gap => IsCaught
IsCame == \A q \in Nat : Len(isMem.out) - isRing <= q /\ q < Len(isMem.out) => isMem.ring[IsAt(q)] = q + 1
IsRecorded ==
  /\ Len(isMem.buf) = isPos.pcm /\ IsFrom(isMem.buf, 0)
  /\ isM.pc # "drain" => /\ isDma.rx.at = IsAt(Len(isMem.out)) /\ IsCame
                         /\ Len(isMem.out) = isPos.pcm + IsAhead + IsBit(isDma.rx.int)
IsRecording == isM.pc \in {"run", "gap", "drain"} /\ isM.test = "capture dma" /\ ~isM.gap => IsRecorded
(* What a test leaves when it has ended.                                   *)
IsToldAll ==
  /\ isM.test \in {"play dma", "function"} => IsFrom(isMem.out, 0) /\ Len(isMem.out) \in isSize - isRing .. isSize
  /\ isM.test = "play" => IsFrom(isMem.out, 0) /\ Len(isMem.out) \in isSize - isDepth + 1 .. isSize
  /\ isM.test = "capture dma" => IsFrom(isMem.buf, 0) /\ Len(isMem.buf) >= isSize
  /\ isM.test \in {"loop", "capture", "direct", "ring"} /\ isM.err = 0 => IsFrom(isMem.buf, 0) /\ Len(isMem.buf) = isSize
  /\ isM.test # "none"
IsEnding == isM.pc = "end" /\ ~isM.gap => IsToldAll
IsInv == /\ IsTyped /\ IsUsed /\ IsPaged /\ IsPlaying /\ IsTaking /\ IsLooping
         /\ IsHearing /\ IsFeeding /\ IsCatching /\ IsRecording /\ IsEnding

LEMMA IsConstants == /\ isSize \in Nat /\ isSize >= 1 /\ isRing \in Nat /\ isRing >= 1 /\ isRing < isSize
                     /\ isDepth \in Nat /\ isDepth >= 1 /\ isDepth <= isSize /\ IsHalf \in Nat /\ IsHalf >= 1 /\ isTests \in Nat
<1>1. /\ isSize \in Nat /\ isSize >= 1 /\ isRing \in Nat /\ isRing >= 1 /\ isRing < isSize
      /\ isDepth \in Nat /\ isDepth >= 1 /\ isDepth <= isSize /\ isDepth % 2 = 0 /\ isTests \in Nat
  BY IsAssumption
<1>2. isDepth \div 2 \in Nat /\ isDepth = 2 * (isDepth \div 2)  BY <1>1
<1>3. isDepth \div 2 >= 1  BY <1>1, <1>2
<1> QED  BY <1>1, <1>2, <1>3 DEF IsHalf

(* Places in the ring.                                                     *)
LEMMA IsAtIn == \A n \in Int : IsAt(n) \in 0 .. isRing - 1 /\ \E q \in Int : n = isRing * q + IsAt(n)
<1> SUFFICES ASSUME NEW n \in Int PROVE IsAt(n) \in 0 .. isRing - 1 /\ \E q \in Int : n = isRing * q + IsAt(n)
  OBVIOUS
<1>1. isRing \in Nat /\ isRing >= 1  BY IsConstants
<1>2. n % isRing \in 0 .. isRing - 1  BY <1>1
<1>3. n \div isRing \in Int /\ n = isRing * (n \div isRing) + (n % isRing)  BY <1>1
<1> QED  BY <1>2, <1>3 DEF IsAt

LEMMA IsAtOnce == \A a, b, q \in Int : a \in 0 .. isRing - 1 /\ b \in 0 .. isRing - 1 /\ a = isRing * q + b => a = b
<1> SUFFICES ASSUME NEW a \in Int, NEW b \in Int, NEW q \in Int, a \in 0 .. isRing - 1, b \in 0 .. isRing - 1, a = isRing * q + b
             PROVE  a = b
  OBVIOUS
<1>1. isRing \in Nat /\ isRing >= 1  BY IsConstants
<1>2. CASE q = 0  BY <1>1, <1>2
<1>3. CASE q >= 1
  <2>1. isRing * q >= isRing * 1  BY <1>1, <1>3
  <2> QED  BY <1>1, <2>1
<1>4. CASE q <= -1
  <2>1. isRing * q <= isRing * (-1)  BY <1>1, <1>4
  <2> QED  BY <1>1, <2>1
<1> QED  BY <1>2, <1>3, <1>4

LEMMA IsAtUnique == \A n, q, r \in Int : r \in 0 .. isRing - 1 /\ n = isRing * q + r => IsAt(n) = r
<1> SUFFICES ASSUME NEW n \in Int, NEW q \in Int, NEW r \in Int, r \in 0 .. isRing - 1, n = isRing * q + r
             PROVE  IsAt(n) = r
  OBVIOUS
<1>1. isRing \in Nat /\ isRing >= 1  BY IsConstants
<1>2. PICK p \in Int : n = isRing * p + IsAt(n)  BY IsAtIn
<1>3. IsAt(n) \in 0 .. isRing - 1  BY IsAtIn
<1>4. IsAt(n) = isRing * (q - p) + r  BY <1>1, <1>2, <1>3
<1> QED  BY <1>3, <1>4, IsAtOnce

LEMMA IsAtSame == \A n \in 0 .. isRing - 1 : IsAt(n) = n
<1>1. isRing \in Nat /\ isRing >= 1  BY IsConstants
<1>2. \A n \in 0 .. isRing - 1 : n \in Int /\ n = isRing * 0 + n  BY <1>1
<1> QED  BY <1>2, IsAtUnique

LEMMA IsAtMore == \A a, b \in Int : IsAt(IsAt(a) + b) = IsAt(a + b)
<1> SUFFICES ASSUME NEW a \in Int, NEW b \in Int PROVE IsAt(IsAt(a) + b) = IsAt(a + b)
  OBVIOUS
<1>1. isRing \in Nat /\ isRing >= 1  BY IsConstants
<1>2. PICK p \in Int : a = isRing * p + IsAt(a)  BY IsAtIn
<1>3. IsAt(a) \in Int  BY <1>1, IsAtIn
<1>4. PICK q \in Int : IsAt(a) + b = isRing * q + IsAt(IsAt(a) + b)  BY <1>3, IsAtIn
<1>5. IsAt(IsAt(a) + b) \in 0 .. isRing - 1  BY <1>3, IsAtIn
<1> DEFINE r == IsAt(IsAt(a) + b)
           s == IsAt(a)
<1>6. r \in Int /\ s \in Int /\ r \in 0 .. isRing - 1 /\ a = isRing * p + s /\ s + b = isRing * q + r  BY <1>1, <1>2, <1>3, <1>4, <1>5
<1> HIDE DEF r, s
<1>7. a + b = isRing * (p + q) + r  BY <1>1, <1>6
<1>8. IsAt(a + b) = r  BY <1>6, <1>7, IsAtUnique
<1> QED  BY <1>8 DEF r

LEMMA IsAtApart == \A a, b \in Int : a <= b /\ b < a + isRing /\ IsAt(a) = IsAt(b) => a = b
<1> SUFFICES ASSUME NEW a \in Int, NEW b \in Int, a <= b, b < a + isRing, IsAt(a) = IsAt(b) PROVE a = b
  OBVIOUS
<1>1. isRing \in Nat /\ isRing >= 1  BY IsConstants
<1>2. PICK p \in Int : a = isRing * p + IsAt(a)  BY IsAtIn
<1>3. PICK q \in Int : b = isRing * q + IsAt(a)  BY IsAtIn
<1>4. IsAt(a) \in Int  BY <1>1, IsAtIn
<1>5. b - a = isRing * (q - p) + 0  BY <1>1, <1>2, <1>3, <1>4
<1>6. b - a = 0  BY <1>1, <1>5, IsAtOnce
<1> QED  BY <1>6

LEMMA IsAtRound == \A a \in Int : IsAt(a + isRing) = IsAt(a)
<1> SUFFICES ASSUME NEW a \in Int PROVE IsAt(a + isRing) = IsAt(a)
  OBVIOUS
<1>1. isRing \in Nat /\ isRing >= 1  BY IsConstants
<1>2. PICK p \in Int : a = isRing * p + IsAt(a)  BY IsAtIn
<1>3. IsAt(a) \in 0 .. isRing - 1 /\ IsAt(a) \in Int  BY <1>1, IsAtIn
<1>4. a + isRing = isRing * (p + 1) + IsAt(a)  BY <1>1, <1>2, <1>3
<1>5. a + isRing \in Int /\ p + 1 \in Int  BY <1>1
<1> QED  BY <1>3, <1>4, <1>5, IsAtUnique

(* Sequences that count.                                                   *)
LEMMA IsFromNone == \A n : IsFrom(<<>>, n)
BY DEF IsFrom

LEMMA IsFromTail == ASSUME NEW s \in Seq(Int), s # <<>>, NEW n \in Int, IsFrom(s, n)
                    PROVE  Head(s) = n + 1 /\ IsFrom(Tail(s), n + 1)
BY DEF IsFrom

LEMMA IsLenTail == ASSUME NEW s \in Seq(Int), s # <<>>
                   PROVE  Head(s) \in Int /\ Tail(s) \in Seq(Int) /\ Len(Tail(s)) = Len(s) - 1 /\ Len(s) \in Nat /\ Len(s) >= 1
OBVIOUS

LEMMA IsLenMore == ASSUME NEW s \in Seq(Int), NEW b \in Int
                   PROVE  Append(s, b) \in Seq(Int) /\ Len(Append(s, b)) = Len(s) + 1 /\ Append(s, b)[Len(s) + 1] = b
                          /\ \A k \in 1 .. Len(s) : Append(s, b)[k] = s[k]
OBVIOUS

LEMMA IsFromMore == ASSUME NEW s \in Seq(Int), NEW n \in Int, IsFrom(s, n), NEW b \in Int, b = n + Len(s) + 1
                    PROVE  IsFrom(Append(s, b), n)
<1> DEFINE all == Append(s, b)
           len == Len(s)
<1>1. len \in Nat /\ Len(all) = len + 1 /\ all[len + 1] = b /\ b = n + len + 1
      /\ \A k \in 1 .. len : all[k] = s[k] /\ s[k] = n + k
  BY IsLenMore DEF IsFrom
<1> HIDE DEF all, len
<1>2. ASSUME NEW k \in 1 .. len + 1 PROVE all[k] = n + k
  <2>1. k \in 1 .. len \/ k = len + 1  BY <1>1
  <2> QED  BY <1>1, <2>1
<1> QED  BY <1>1, <1>2 DEF IsFrom, all

LEMMA IsLenJoin == ASSUME NEW s \in Seq(Int), NEW t \in Seq(Int)
                   PROVE  s \o t \in Seq(Int) /\ Len(s \o t) = Len(s) + Len(t)
OBVIOUS

LEMMA IsFromJoin == ASSUME NEW s \in Seq(Int), NEW t \in Seq(Int), NEW n \in Int, NEW m \in Int, m = n + Len(s),
                           IsFrom(s, n), IsFrom(t, m)
                    PROVE  IsFrom(s \o t, n)
<1> DEFINE all == s \o t
           a == Len(s)
           b == Len(t)
<1>1. /\ a \in Nat /\ b \in Nat /\ Len(all) = a + b
      /\ \A k \in 1 .. a : s[k] = n + k
      /\ \A k \in 1 .. b : t[k] = (n + a) + k
  BY DEF IsFrom
<1>2. \A k \in 1 .. a + b : all[k] = IF k <= a THEN s[k] ELSE t[k - a]
  BY <1>1
<1> HIDE DEF all, a, b
<1>3. ASSUME NEW k \in 1 .. a + b PROVE all[k] = n + k
  <2>1. CASE k <= a  BY <1>1, <1>2, <2>1
  <2>2. CASE k > a
    <3>1. k - a \in 1 .. b /\ all[k] = t[k - a]  BY <1>1, <1>2, <2>2
    <3>2. all[k] = (n + a) + (k - a)  BY <1>1, <3>1
    <3> QED  BY <1>1, <3>2
  <2> QED  BY <1>1, <2>1, <2>2
<1> QED  BY <1>1, <1>3 DEF IsFrom, all

LEMMA IsSeqOf == ASSUME NEW n \in Nat, NEW f \in [1 .. n -> Int]
                 PROVE  f \in Seq(Int) /\ Len(f) = n
<1>1. f \in Seq(Int)  BY SeqDef
<1> QED  BY <1>1, LenProperties

LEMMA IsFromParts == ASSUME NEW s \in Seq(Int), NEW n \in Int, IsFrom(s, n), NEW m \in Nat, m <= Len(s)
                     PROVE  /\ SubSeq(s, 1, m) \in Seq(Int) /\ Len(SubSeq(s, 1, m)) = m /\ IsFrom(SubSeq(s, 1, m), n)
                            /\ SubSeq(s, m + 1, Len(s)) \in Seq(Int) /\ Len(SubSeq(s, m + 1, Len(s))) = Len(s) - m
                            /\ IsFrom(SubSeq(s, m + 1, Len(s)), n + m)
<1> DEFINE front == SubSeq(s, 1, m)
           back  == SubSeq(s, m + 1, Len(s))
           len   == Len(s)
<1>1. len \in Nat /\ m <= len /\ \A k \in 1 .. len : s[k] \in Int /\ s[k] = n + k  BY DEF IsFrom
<1>2. front = [k \in 1 .. m |-> s[k]]
  <2>1. front = [k \in 1 .. (m - 1 + 1) |-> s[k + 1 - 1]]  OBVIOUS
  <2>2. \A k \in 1 .. m : k + 1 - 1 = k  OBVIOUS
  <2>3. m - 1 + 1 = m  OBVIOUS
  <2> QED  BY <2>1, <2>2, <2>3
<1>3. back = [k \in 1 .. len - m |-> s[m + k]]
  <2>1. back = [k \in 1 .. (len - (m + 1) + 1) |-> s[k + (m + 1) - 1]]  OBVIOUS
  <2>2. \A k \in 1 .. len - m : k + (m + 1) - 1 = m + k  BY <1>1
  <2>3. len - (m + 1) + 1 = len - m  BY <1>1
  <2> QED  BY <2>1, <2>2, <2>3
<1> HIDE DEF front, back, len
<1>4. front \in [1 .. m -> Int] /\ \A k \in 1 .. m : front[k] = n + k  BY <1>1, <1>2
<1>5. len - m \in Nat /\ back \in [1 .. len - m -> Int] /\ \A k \in 1 .. len - m : back[k] = (n + m) + k
  <2>1. \A k \in 1 .. len - m : m + k \in 1 .. len  BY <1>1
  <2>2. \A k \in 1 .. len - m : s[m + k] \in Int /\ s[m + k] = n + (m + k)  BY <1>1, <2>1
  <2>3. \A k \in 1 .. len - m : n + (m + k) = (n + m) + k  BY <1>1
  <2> QED  BY <1>1, <1>3, <2>2, <2>3
<1>6. front \in Seq(Int) /\ Len(front) = m  BY <1>4, IsSeqOf
<1>7. back \in Seq(Int) /\ Len(back) = len - m  BY <1>5, IsSeqOf
<1> QED  BY <1>4, <1>5, <1>6, <1>7 DEF IsFrom, front, back, len

(* A test begins.                                                          *)
LEMMA IsKeyStarts ==
  ASSUME IsInv, NEW test, NEW pc, NEW flags, NEW pos, NEW mem, NEW dma, NEW fifo, IsKey(test, pc, flags, pos, mem, dma, fifo)
  PROVE  /\ test \in {"direct", "capture dma"} \cup IsRings \cup IsWords /\ pc \in {"wait", "run"}
         /\ pos \in IsPosType /\ mem \in IsMemType /\ dma \in IsDmaType /\ fifo \in IsFifoType
         => /\ IsTyped' /\ isM'.pc = pc /\ isM'.test = test /\ ~isM'.gap /\ isFlags' = isFlags \ flags
            /\ isPos' = pos /\ isMem' = mem /\ isDma' = dma /\ isFifo' = fifo
            /\ isDma.tx = IsOff /\ isDma.rx = IsOff /\ ~isFifo.run /\ "overrun" \notin isFlags
<1>1. isM \in IsMType /\ isM.pc = "idle" /\ isM.tests > 0  BY DEF IsKey, IsInv, IsTyped
<1>2. /\ isM' = [pc |-> pc, test |-> test, err |-> 0, gap |-> FALSE, tests |-> isM.tests - 1]
      /\ isFlags' = isFlags \ flags /\ isPos' = pos /\ isMem' = mem /\ isDma' = dma /\ isFifo' = fifo
  BY DEF IsKey
<1> DEFINE tests == isM.tests - 1
<1>3. tests \in Nat
  <2>1. isM.tests \in Nat /\ isM.tests > 0  BY <1>1 DEF IsMType
  <2> QED  BY <2>1
<1>4. isDma.tx = IsOff /\ isDma.rx = IsOff /\ ~isFifo.run /\ "overrun" \notin isFlags
  BY <1>1 DEF IsInv, IsUsed, IsLivePc
<1>5. isM'.pc = pc /\ isM'.test = test /\ ~isM'.gap  BY <1>2
<1>6. ASSUME test \in {"direct", "capture dma"} \cup IsRings \cup IsWords, pc \in {"wait", "run"}
      PROVE  isM' \in IsMType
  <2>1. pc \in {"off", "idle", "end"} \cup IsLivePc  BY <1>6 DEF IsLivePc
  <2>2. test \in {"none", "direct", "capture dma"} \cup IsRings \cup IsWords  BY <1>6
  <2>3. isM' = [pc |-> pc, test |-> test, err |-> 0, gap |-> FALSE, tests |-> tests]  BY <1>2
  <2> DEFINE pcs == {"off", "idle", "end"} \cup IsLivePc
             all == {"none", "direct", "capture dma"} \cup IsRings \cup IsWords
  <2>4. pc \in pcs /\ test \in all  BY <2>1, <2>2
  <2>5. IsMType = [pc : pcs, test : all, err : Int, gap : BOOLEAN, tests : Nat]  BY DEF IsMType
  <2> HIDE DEF tests, pcs, all
  <2> QED  BY <1>3, <2>3, <2>4, <2>5
<1>7. ASSUME pos \in IsPosType, mem \in IsMemType, dma \in IsDmaType, fifo \in IsFifoType, isM' \in IsMType PROVE IsTyped'
  BY <1>2, <1>7 DEF IsTyped
<1> QED  BY <1>2, <1>4, <1>5, <1>6, <1>7

LEMMA IsBeginTypes ==
  ASSUME IsInv
  PROVE  /\ IsZero \in IsPosType /\ isPos \in IsPosType /\ \A n \in Nat : [IsZero EXCEPT !.pcm = n] \in IsPosType
         /\ IsSilent \in IsMemType /\ IsSilent.out = <<>> /\ IsSilent.buf = <<>>
         /\ isDma \in IsDmaType /\ \A n \in Nat : IsChannel(n) \in IsChannelType
         /\ IsOff \in IsChannelType
         /\ IsIdleFifo \in IsFifoType /\ ~IsIdleFifo.run
<1>1. isRing \in Nat /\ isRing >= 1  BY IsConstants
<1>2. isPos \in IsPosType /\ isMem \in IsMemType /\ isDma \in IsDmaType  BY DEF IsInv, IsTyped
<1>3. <<>> \in Seq(Int)  BY EmptySeq
<1>4. IsSilent \in IsMemType /\ IsSilent.out = <<>> /\ IsSilent.buf = <<>>  BY <1>2, <1>3 DEF IsSilent, IsMemType
<1>5. IsIdleFifo \in IsFifoType /\ ~IsIdleFifo.run  BY <1>3 DEF IsIdleFifo, IsFifoType
<1>6. IsZero \in IsPosType /\ \A n \in Nat : [IsZero EXCEPT !.pcm = n] \in IsPosType  BY <1>1 DEF IsZero, IsPosType
<1>7. IsOff \in IsChannelType /\ \A n \in Nat : IsChannel(n) \in IsChannelType  BY DEF IsOff, IsChannel, IsChannelType
<1> QED  BY <1>2, <1>4, <1>5, <1>6, <1>7

(* The FIFO of a loop-back or a playing begins with the first samples.     *)
LEMMA IsFirstWords ==
  ASSUME NEW n \in Nat, n <= isSize
  PROVE  IsRunning(n) \in IsFifoType /\ IsRunning(n).run /\ IsRunning(n).rx = <<>> /\ Len(IsRunning(n).tx) = n
         /\ IsFrom(IsRunning(n).tx, 0)
<1> DEFINE words == [k \in 1 .. n |-> IsSample(k - 1)]
<1>1. isSize \in Nat  BY IsConstants
<1>2. \A k \in 1 .. n : IsSample(k - 1) = k  BY <1>1 DEF IsSample
<1>3. words \in [1 .. n -> Int] /\ \A k \in 1 .. n : words[k] = 0 + k  BY <1>2
<1> HIDE DEF words
<1>4. words \in Seq(Int) /\ Len(words) = n  BY <1>3, IsSeqOf
<1>5. IsFrom(words, 0)  BY <1>3, <1>4 DEF IsFrom
<1>6. <<>> \in Seq(Int)  BY EmptySeq
<1>7. IsRunning(n) = [tx |-> words, rx |-> <<>>, run |-> TRUE]  BY DEF IsRunning, words
<1> QED  BY <1>4, <1>5, <1>6, <1>7 DEF IsFifoType

LEMMA IsLoopKey == ASSUME IsInv, socle_i2s_normal_internal_loopback PROVE IsInv'
<1> DEFINE pos == [IsZero EXCEPT !.pcm = isDepth]
<1>1. isDepth \in Nat /\ isDepth <= isSize /\ isSize \in Nat  BY IsConstants
<1>2. IsRunning(isDepth) \in IsFifoType /\ IsRunning(isDepth).rx = <<>> /\ Len(IsRunning(isDepth).tx) = isDepth
      /\ IsFrom(IsRunning(isDepth).tx, 0)
  BY <1>1, IsFirstWords
<1>3. pos \in IsPosType /\ pos.pcm = isDepth  BY <1>1, IsBeginTypes DEF IsZero
<1>4. IsKey("loop", "wait", {"tx", "rx"}, pos, IsSilent, isDma, IsRunning(isDepth))
  BY DEF socle_i2s_normal_internal_loopback
<1> HIDE DEF pos
<1>5. /\ IsTyped' /\ isM'.pc = "wait" /\ isM'.test = "loop" /\ ~isM'.gap /\ isFlags' = isFlags \ {"tx", "rx"}
      /\ isPos' = pos /\ isMem' = IsSilent /\ isDma' = isDma /\ isFifo' = IsRunning(isDepth)
      /\ isDma.tx = IsOff /\ isDma.rx = IsOff /\ ~isFifo.run /\ "overrun" \notin isFlags
  <2>1. "loop" \in {"direct", "capture dma"} \cup IsRings \cup IsWords  BY DEF IsWords
  <2> QED  BY <1>2, <1>3, <1>4, <2>1, IsBeginTypes, IsKeyStarts
<1>6. IsUsed'  BY <1>5 DEF IsUsed, IsWords
<1>7. IsTook'
  <2>1. isMem'.buf = <<>> /\ isFifo'.rx = <<>> /\ Len(isMem'.buf) = 0 /\ Len(isFifo'.rx) = 0
    BY <1>2, <1>5, IsBeginTypes
  <2>2. IsFrom(isMem'.buf, 0) /\ IsFrom(isFifo'.rx, 0)  BY <2>1, IsFromNone
  <2>3. Len(isFifo'.tx) = isDepth /\ IsFrom(isFifo'.tx, 0 + 0) /\ isPos'.pcm = isDepth  BY <1>2, <1>3, <1>5
  <2>4. IsKept'  BY <1>1, <1>5, <2>1, <2>2, <2>3 DEF IsKept
  <2> QED  BY <1>1, <1>5, <2>1, <2>2, <2>3, <2>4 DEF IsTook
<1>8. IsPaged' /\ IsPlaying' /\ IsTaking' /\ IsLooping' /\ IsHearing' /\ IsFeeding' /\ IsCatching' /\ IsRecording' /\ IsEnding'
  BY <1>5, <1>7 DEF IsPaged, IsPlaying, IsTaking, IsLooping, IsHearing, IsFeeding, IsCatching, IsRecording, IsEnding, IsRings
<1> QED  BY <1>5, <1>6, <1>8 DEF IsInv

LEMMA IsPlayKey == ASSUME IsInv, socle_i2s_play_pcm_normal \/ socle_i2s_capture_pcm_normal PROVE IsInv'
<1>1. isDepth \in Nat /\ isDepth >= 1 /\ isSize \in Nat /\ 0 <= isSize /\ 0 \in Nat /\ 0 <= isDepth  BY IsConstants
<1>2. IsRunning(0) \in IsFifoType /\ IsRunning(0).rx = <<>> /\ Len(IsRunning(0).tx) = 0 /\ IsFrom(IsRunning(0).tx, 0)
  BY <1>1, IsFirstWords
<1>3. PICK test \in {"play", "capture"} :
        /\ IsTyped' /\ isM'.pc = "wait" /\ isM'.test = test /\ ~isM'.gap
        /\ isFlags' = isFlags \ {IF test = "play" THEN "tx" ELSE "rx"}
        /\ isPos' = IsZero /\ isMem' = IsSilent /\ isDma' = isDma /\ isFifo' = IsRunning(0)
        /\ isDma.tx = IsOff /\ isDma.rx = IsOff /\ ~isFifo.run /\ "overrun" \notin isFlags
  <2>1. CASE socle_i2s_play_pcm_normal
    <3>1. IsKey("play", "wait", {"tx"}, IsZero, IsSilent, isDma, IsRunning(0))  BY <2>1 DEF socle_i2s_play_pcm_normal
    <3>2. "play" \in {"direct", "capture dma"} \cup IsRings \cup IsWords  BY DEF IsWords
    <3> QED  BY <1>2, <3>1, <3>2, IsBeginTypes, IsKeyStarts
  <2>2. CASE socle_i2s_capture_pcm_normal
    <3>1. IsKey("capture", "wait", {"rx"}, IsZero, IsSilent, isDma, IsRunning(0))  BY <2>2 DEF socle_i2s_capture_pcm_normal
    <3>2. "capture" \in {"direct", "capture dma"} \cup IsRings \cup IsWords  BY DEF IsWords
    <3> QED  BY <1>2, <3>1, <3>2, IsBeginTypes, IsKeyStarts
  <2> QED  BY <2>1, <2>2
<1>4. IsUsed'  BY <1>3 DEF IsUsed, IsWords
<1>5. /\ Len(isMem'.out) = 0 /\ Len(isMem'.buf) = 0 /\ Len(isFifo'.rx) = 0 /\ Len(isFifo'.tx) = 0 /\ isPos'.pcm = 0
      /\ IsFrom(isMem'.out, 0) /\ IsFrom(isMem'.buf, 0) /\ IsFrom(isFifo'.rx, 0) /\ IsFrom(isFifo'.tx, 0)
  <2>1. isMem'.out = <<>> /\ isMem'.buf = <<>> /\ isFifo'.rx = <<>>  BY <1>2, <1>3, IsBeginTypes
  <2> QED  BY <1>2, <1>3, <2>1, IsFromNone DEF IsZero
<1>6. isM'.test = "play" => IsPlayed'  BY <1>1, <1>3, <1>5 DEF IsPlayed
<1>7. isM'.test = "capture" => IsTook'  BY <1>1, <1>3, <1>5 DEF IsTook, IsKept
<1>8. IsPaged' /\ IsPlaying' /\ IsTaking' /\ IsLooping' /\ IsHearing' /\ IsFeeding' /\ IsCatching' /\ IsRecording' /\ IsEnding'
  BY <1>3, <1>6, <1>7 DEF IsPaged, IsPlaying, IsTaking, IsLooping, IsHearing, IsFeeding, IsCatching, IsRecording, IsEnding, IsRings
<1> QED  BY <1>3, <1>4, <1>8 DEF IsInv

LEMMA IsDirectKey == ASSUME IsInv, socle_i2s_hwdma_panther7_hdma_direct PROVE IsInv'
<1> DEFINE dma == [tx |-> IsChannel(isSize), rx |-> IsChannel(isSize)]
<1>1. isSize \in Nat /\ isSize >= 1  BY IsConstants
<1>2. dma \in IsDmaType /\ dma.rx.pages = isSize /\ dma.tx.at = 0  BY <1>1, IsBeginTypes DEF IsDmaType, IsChannel
<1>3. IsKey("direct", "wait", {"tx", "rx"}, isPos, IsSilent, dma, IsIdleFifo)
  BY DEF socle_i2s_hwdma_panther7_hdma_direct
<1> HIDE DEF dma
<1>4. /\ IsTyped' /\ isM'.pc = "wait" /\ isM'.test = "direct" /\ ~isM'.gap /\ isFlags' = isFlags \ {"tx", "rx"}
      /\ isPos' = isPos /\ isMem' = IsSilent /\ isDma' = dma /\ isFifo' = IsIdleFifo
      /\ isDma.tx = IsOff /\ isDma.rx = IsOff /\ ~isFifo.run /\ "overrun" \notin isFlags
  BY <1>2, <1>3, IsBeginTypes, IsKeyStarts
<1>5. IsUsed'  BY <1>4, IsBeginTypes DEF IsUsed, IsLivePc
<1>6. Len(isMem'.out) = 0 /\ Len(isMem'.buf) = 0 /\ IsFrom(isMem'.buf, 0)
  <2>1. isMem'.out = <<>> /\ isMem'.buf = <<>>  BY <1>4, IsBeginTypes
  <2> QED  BY <2>1, IsFromNone
<1>7. IsLooped'  BY <1>1, <1>2, <1>4, <1>6 DEF IsLooped
<1>8. IsHeard'  BY <1>1, <1>2, <1>4, <1>6 DEF IsHeard
<1>9. IsPaged' /\ IsPlaying' /\ IsTaking' /\ IsLooping' /\ IsHearing' /\ IsFeeding' /\ IsCatching' /\ IsRecording' /\ IsEnding'
  BY <1>4, <1>7, <1>8 DEF IsPaged, IsPlaying, IsTaking, IsLooping, IsHearing, IsFeeding, IsCatching, IsRecording, IsEnding, IsRings
<1> QED  BY <1>4, <1>5, <1>9 DEF IsInv

(* The ring begins with its first periods.                                 *)
LEMMA IsRingStarts ==
  ASSUME IsInv, NEW test \in IsRings, NEW flags, NEW rx \in IsChannelType,
         IsKey(test, "run", flags, [IsZero EXCEPT !.pcm = IsFirst(test).pcm], IsPrimed(test),
               [tx |-> IsChannel(isRing), rx |-> rx], IsIdleFifo),
         {"tx", "period"} \subseteq flags \/ (test = "function" /\ "tx" \in flags),
         test = "ring" => rx.pages = isSize /\ "rx" \in flags,
         test # "ring" => rx = IsOff
  PROVE  IsInv'
<1> DEFINE pos == [IsZero EXCEPT !.pcm = isRing]
           mem == [IsSilent EXCEPT !.ring = IsFilled]
           dma == [tx |-> IsChannel(isRing), rx |-> rx]
<1>1. isRing \in Nat /\ isRing >= 1 /\ isSize \in Nat /\ isRing < isSize  BY IsConstants
<1>2. pos \in IsPosType /\ pos.pcm = isRing /\ pos.ring = 0 /\ pos.dma = 0  BY <1>1, IsBeginTypes DEF IsZero
<1>3. mem \in IsMemType /\ mem.ring = IsFilled /\ mem.out = <<>> /\ mem.buf = <<>>
  <2>1. IsFilled \in [0 .. isRing - 1 -> Int]  BY <1>1 DEF IsFilled, IsSample
  <2> QED  BY <2>1, IsBeginTypes DEF IsMemType
<1>4. dma \in IsDmaType /\ dma.rx = rx /\ dma.tx.pages = isRing /\ dma.tx.at = 0 /\ dma.tx.int = FALSE
  BY <1>1, IsBeginTypes DEF IsDmaType, IsChannel
<1>5. IsKey(test, "run", flags, pos, mem, dma, IsIdleFifo)  BY DEF IsFirst, IsPrimed
<1>6. test \in {"ring", "play dma", "function"}  BY DEF IsRings
<1> HIDE DEF pos, mem, dma
<1>7. /\ IsTyped' /\ isM'.pc = "run" /\ isM'.test = test /\ ~isM'.gap /\ isFlags' = isFlags \ flags
      /\ isPos' = pos /\ isMem' = mem /\ isDma' = dma /\ isFifo' = IsIdleFifo
      /\ isDma.tx = IsOff /\ isDma.rx = IsOff /\ ~isFifo.run /\ "overrun" \notin isFlags
  BY <1>2, <1>3, <1>4, <1>5, IsBeginTypes, IsKeyStarts
<1>8. IsUsed'  BY <1>4, <1>6, <1>7, IsBeginTypes DEF IsUsed, IsLivePc, IsRings
<1>9. IsDir' = "tx"  BY <1>6, <1>7 DEF IsDir
<1>10. isDma'[IsDir'].pages = isRing /\ isDma'[IsDir'].int = FALSE  BY <1>4, <1>7, <1>9 DEF IsDmaType
<1>11. IsPaged'  BY <1>1, <1>7, <1>9, <1>10 DEF IsPaged, IsBit
<1>12. Len(isMem'.out) = 0 /\ Len(isMem'.buf) = 0 /\ IsFrom(isMem'.buf, 0)  BY <1>3, <1>7, IsFromNone
<1>13. IsAt(0) = 0 /\ IsAt(isRing) = 0 /\ IsAhead' = 0
  <2>1. IsAt(0) = 0  BY <1>1, IsAtSame
  <2>2. IsAt(0 + isRing) = 0  BY <2>1, IsAtRound
  <2> QED  BY <1>1, <1>2, <1>7, <2>1, <2>2 DEF IsAhead
<1>14. IsHeard'
  <2>1. isDma'.tx.at = IsAt(Len(isMem'.out))  BY <1>4, <1>7, <1>12, <1>13
  <2>2. \A k \in 1 .. Len(isMem'.out) : FALSE  BY <1>12
  <2> QED  BY <1>6, <1>7, <2>1, <2>2 DEF IsHeard
<1>15. IsInRing'
  <2>1. SUFFICES ASSUME NEW q \in Int, isRing - isRing <= q, q < isRing PROVE IsFilled[IsAt(q)] = IsSample(q)
    BY <1>2, <1>3, <1>7 DEF IsInRing
  <2>2. q \in 0 .. isRing - 1  BY <1>1, <2>1
  <2> QED  BY <2>2, IsAtSame DEF IsFilled
<1>16. IsFed'  BY <1>1, <1>2, <1>4, <1>7, <1>12, <1>13, <1>15 DEF IsFed, IsBit
<1>17. IsCaught'
  <2>1. isPos'.ring = isPos'.dma /\ isPos'.ring = IsAt(isPos'.pcm) /\ isPos'.pcm < isSize  BY <1>1, <1>2, <1>7, <1>13
  <2>2. "period" \in isFlags' => isM'.test = "function"  BY <1>7
  <2> QED  BY <1>1, <1>2, <1>7, <1>10, <2>1, <2>2 DEF IsCaught
<1>18. test = "ring" => IsLooped'  BY <1>1, <1>4, <1>7, <1>12 DEF IsLooped
<1>19. IsPlaying' /\ IsTaking' /\ IsLooping' /\ IsHearing' /\ IsFeeding' /\ IsCatching' /\ IsRecording' /\ IsEnding'
  BY <1>6, <1>7, <1>14, <1>16, <1>17, <1>18 DEF IsPlaying, IsTaking, IsLooping, IsHearing, IsFeeding, IsCatching, IsRecording, IsEnding
<1> QED  BY <1>7, <1>8, <1>11, <1>19 DEF IsInv

LEMMA IsRingKey ==
  ASSUME IsInv, \/ socle_i2s_hwdma_panther7_hdma_ring_buffer \/ socle_i2s_play_pcm_hwdma_panther7_hdma
                \/ socle_audio_codec_function_test
  PROVE  IsInv'
<1>1. CASE socle_i2s_hwdma_panther7_hdma_ring_buffer
  <2>1. isSize \in Nat /\ IsChannel(isSize) \in IsChannelType /\ IsChannel(isSize).pages = isSize
    BY IsConstants, IsBeginTypes DEF IsChannel
  <2>2. "ring" \in IsRings  BY DEF IsRings
  <2>3. IsKey("ring", "run", {"tx", "rx", "period"}, [IsZero EXCEPT !.pcm = IsFirst("ring").pcm], IsPrimed("ring"),
              [tx |-> IsChannel(isRing), rx |-> IsChannel(isSize)], IsIdleFifo)
    BY <1>1 DEF socle_i2s_hwdma_panther7_hdma_ring_buffer
  <2> QED  BY <2>1, <2>2, <2>3, IsRingStarts
<1>2. CASE socle_i2s_play_pcm_hwdma_panther7_hdma \/ socle_audio_codec_function_test
  <2>1. isM.pc = "idle"  BY <1>2 DEF socle_i2s_play_pcm_hwdma_panther7_hdma, socle_audio_codec_function_test, IsKey
  <2>2. isDma.rx = IsOff /\ isDma \in IsDmaType  BY <2>1 DEF IsInv, IsUsed, IsTyped, IsLivePc
  <2>3. [isDma EXCEPT !.tx = IsChannel(isRing)] = [tx |-> IsChannel(isRing), rx |-> IsOff]
    BY <2>2 DEF IsDmaType
  <2>4. IsOff \in IsChannelType  BY IsBeginTypes
  <2>5. CASE socle_i2s_play_pcm_hwdma_panther7_hdma
    <3>1. IsKey("play dma", "run", {"tx", "tx int", "period"}, [IsZero EXCEPT !.pcm = IsFirst("play dma").pcm], IsPrimed("play dma"),
                [tx |-> IsChannel(isRing), rx |-> IsOff], IsIdleFifo)
      BY <2>3, <2>5 DEF socle_i2s_play_pcm_hwdma_panther7_hdma
    <3>2. "play dma" \in IsRings  BY DEF IsRings
    <3> QED  BY <2>4, <3>1, <3>2, IsRingStarts
  <2>6. CASE socle_audio_codec_function_test
    <3>1. IsKey("function", "run", {"tx"}, [IsZero EXCEPT !.pcm = IsFirst("function").pcm], IsPrimed("function"),
                [tx |-> IsChannel(isRing), rx |-> IsOff], IsIdleFifo)
      BY <2>3, <2>6 DEF socle_audio_codec_function_test
    <3>2. "function" \in IsRings  BY DEF IsRings
    <3> QED  BY <2>4, <3>1, <3>2, IsRingStarts
  <2> QED  BY <1>2, <2>5, <2>6
<1> QED  BY <1>1, <1>2

LEMMA IsCaptureKey == ASSUME IsInv, socle_i2s_capture_pcm_hwdma_panther7_hdma PROVE IsInv'
<1> DEFINE dma == [isDma EXCEPT !.rx = IsChannel(isRing)]
<1>1. isRing \in Nat /\ isRing >= 1 /\ isSize \in Nat /\ isSize >= 1  BY IsConstants
<1>2. dma \in IsDmaType /\ dma.tx = isDma.tx /\ dma.rx.pages = isRing /\ dma.rx.at = 0 /\ dma.rx.int = FALSE
  BY <1>1, IsBeginTypes DEF IsDmaType, IsChannel
<1>3. IsKey("capture dma", "run", {"rx", "rx int", "period"}, IsZero, IsSilent, dma, IsIdleFifo)
  BY DEF socle_i2s_capture_pcm_hwdma_panther7_hdma
<1> HIDE DEF dma
<1>4. /\ IsTyped' /\ isM'.pc = "run" /\ isM'.test = "capture dma" /\ ~isM'.gap /\ isFlags' = isFlags \ {"rx", "rx int", "period"}
      /\ isPos' = IsZero /\ isMem' = IsSilent /\ isDma' = dma /\ isFifo' = IsIdleFifo
      /\ isDma.tx = IsOff /\ isDma.rx = IsOff /\ ~isFifo.run /\ "overrun" \notin isFlags
  BY <1>2, <1>3, IsBeginTypes, IsKeyStarts
<1>5. IsUsed'  BY <1>2, <1>4, IsBeginTypes DEF IsUsed, IsLivePc
<1>6. IsDir' = "rx"  BY <1>4 DEF IsDir
<1>7. isDma'[IsDir'].pages = isRing /\ isDma'[IsDir'].int = FALSE  BY <1>2, <1>4, <1>6 DEF IsDmaType
<1>8. IsPaged'
  <2>1. IsDir' \notin isFlags'  BY <1>4, <1>6
  <2>2. isRing + 0 = isRing  BY <1>1
  <2> QED  BY <1>7, <2>1, <2>2 DEF IsPaged, IsBit
<1>9. Len(isMem'.out) = 0 /\ Len(isMem'.buf) = 0 /\ IsFrom(isMem'.buf, 0)
  <2>1. isMem'.out = <<>> /\ isMem'.buf = <<>>  BY <1>4, IsBeginTypes
  <2> QED  BY <2>1, IsFromNone
<1>10. isPos'.pcm = 0 /\ isPos'.ring = 0 /\ isPos'.dma = 0 /\ IsAt(0) = 0 /\ IsAhead' = 0
  <2>1. IsAt(0) = 0  BY <1>1, IsAtSame
  <2>2. isPos'.pcm = 0 /\ isPos'.ring = 0 /\ isPos'.dma = 0  BY <1>4 DEF IsZero
  <2> QED  BY <2>1, <2>2 DEF IsAhead
<1>11. IsRecorded'
  <2>1. isDma'.rx.at = IsAt(Len(isMem'.out)) /\ isDma'.rx.int = FALSE  BY <1>2, <1>4, <1>9, <1>10
  <2>2. IsCame'  BY <1>1, <1>9 DEF IsCame
  <2>3. Len(isMem'.out) = isPos'.pcm + IsAhead' + IsBit(isDma'.rx.int)  BY <1>9, <1>10, <2>1 DEF IsBit
  <2> QED  BY <1>9, <1>10, <2>1, <2>2, <2>3 DEF IsRecorded
<1>12. IsCaught'
  <2>1. isPos'.ring = IsAt(isPos'.pcm) /\ isPos'.pcm < isSize  BY <1>1, <1>10
  <2>2. "period" \notin isFlags' /\ isM'.pc = "run" /\ isM'.test = "capture dma"  BY <1>4
  <2>3. ~(isPos'.pcm >= isSize)  BY <1>1, <1>10
  <2> QED  BY <1>7, <2>1, <2>2, <2>3 DEF IsCaught
<1>13. IsPlaying' /\ IsTaking' /\ IsLooping' /\ IsHearing' /\ IsFeeding' /\ IsCatching' /\ IsRecording' /\ IsEnding'
  BY <1>4, <1>11, <1>12 DEF IsPlaying, IsTaking, IsLooping, IsHearing, IsFeeding, IsCatching, IsRecording, IsEnding, IsRings
<1> QED  BY <1>4, <1>5, <1>8, <1>13 DEF IsInv

(* The main program.                                                       *)
LEMMA IsGoesTo ==
  ASSUME IsInv, NEW pc \in {"idle", "end"} \cup IsLivePc, IsGoes(pc)
  PROVE  /\ isM' \in IsMType /\ isM'.pc = pc /\ isM'.test = isM.test /\ isM'.gap = isM.gap /\ isM'.err = isM.err
         /\ isM \in IsMType /\ IsDir' = IsDir
<1>1. isM \in IsMType  BY DEF IsInv, IsTyped
<1>2. isM' = [isM EXCEPT !.pc = pc]  BY DEF IsGoes
<1> DEFINE pcs == {"off", "idle", "end"} \cup IsLivePc
<1>3. pc \in pcs  OBVIOUS
<1> HIDE DEF pcs
<1>4. isM' \in IsMType /\ isM'.pc = pc /\ isM'.test = isM.test /\ isM'.gap = isM.gap /\ isM'.err = isM.err
  BY <1>1, <1>2, <1>3 DEF IsMType, pcs
<1> QED  BY <1>1, <1>4 DEF IsDir

LEMMA IsSeesKeeps == ASSUME IsInv, IsSeesPeriod PROVE IsInv'
<1>1. /\ isM.pc = "run" /\ isM.test # "function" /\ isPos.pcm < isSize /\ "period" \in isFlags
      /\ isFlags' = isFlags \ {"period"} /\ IsGoes("gap") /\ UNCHANGED <<isPos, isMem, isDma, isFifo>>
  BY DEF IsSeesPeriod
<1>2. /\ isM' \in IsMType /\ isM'.pc = "gap" /\ isM'.test = isM.test /\ isM'.gap = isM.gap /\ isM'.err = isM.err
      /\ isM \in IsMType /\ IsDir' = IsDir
  BY <1>1, IsGoesTo DEF IsLivePc
<1>3. IsTyped'  BY <1>1, <1>2 DEF IsInv, IsTyped
<1>4. IsUsed' /\ isM.test \in {"ring", "play dma", "capture dma"}  BY <1>1, <1>2 DEF IsInv, IsUsed, IsLivePc, IsRings
<1>5. IsPaged'
  <2>1. IsDir \notin isFlags'  BY <1>1 DEF IsInv, IsPaged
  <2> QED  BY <1>1, <1>2, <2>1 DEF IsInv, IsPaged
<1>6. IsLooping'  BY <1>1, <1>2 DEF IsInv, IsLooping, IsLooped
<1>7. IsHearing'  BY <1>1, <1>2 DEF IsInv, IsHearing, IsHeard, IsLivePc
<1>8. IsAhead' = IsAhead  BY <1>1 DEF IsAhead
<1>9. IsFeeding'  BY <1>1, <1>2, <1>8 DEF IsInv, IsFeeding, IsFed, IsInRing, IsLivePc
<1>10. IsCatching'  BY <1>1, <1>2, <1>8 DEF IsInv, IsCatching, IsCaught
<1>11. IsRecording'  BY <1>1, <1>2, <1>8 DEF IsInv, IsRecording, IsRecorded, IsCame
<1>12. IsPlaying' /\ IsTaking' /\ IsEnding'  BY <1>2 DEF IsPlaying, IsTaking, IsEnding
<1> QED  BY <1>3, <1>4, <1>5, <1>6, <1>7, <1>9, <1>10, <1>11, <1>12 DEF IsInv

LEMMA IsCopiedKeeps == ASSUME IsInv, IsCopied PROVE IsInv'
<1>1. /\ isM.pc = "run" /\ isPos.pcm >= isSize /\ UNCHANGED <<isPos, isMem, isDma, isFifo>>
      /\ \/ isM.test = "ring" /\ IsGoes("wait") /\ UNCHANGED isFlags
         \/ isM.test # "ring" /\ IsGoes("drain") /\ isFlags' = isFlags \cup {IsDir}
  BY DEF IsCopied
<1>2. IsAhead' = IsAhead /\ IsAhead \in 0 .. isRing - 1 /\ isPos.pcm \in Nat /\ isRing \in Nat /\ isSize \in Nat
  <2>1. isPos.dma - isPos.ring \in Int /\ isPos.pcm \in Nat  BY IsConstants DEF IsInv, IsTyped, IsPosType
  <2> QED  BY <1>1, <2>1, IsAtIn, IsConstants DEF IsAhead
<1>3. CASE isM.test = "ring" /\ IsGoes("wait") /\ UNCHANGED isFlags
  <2>1. /\ isM' \in IsMType /\ isM'.pc = "wait" /\ isM'.test = "ring" /\ isM'.gap = isM.gap
        /\ isM \in IsMType
    BY <1>3, IsGoesTo DEF IsLivePc
  <2>2. IsTyped'  BY <1>1, <2>1 DEF IsInv, IsTyped
  <2>3. IsUsed'  BY <1>1, <1>3, <2>1 DEF IsInv, IsUsed, IsLivePc, IsRings
  <2>4. IsLooping'  BY <1>1, <1>3, <2>1 DEF IsInv, IsLooping, IsLooped
  <2>5. IsHearing'  BY <1>1, <1>3, <2>1 DEF IsInv, IsHearing, IsHeard, IsLivePc
  <2>6. IsFeeding'  BY <1>1, <1>2, <1>3, <2>1 DEF IsInv, IsFeeding, IsFed, IsInRing, IsLivePc
  <2>7. IsPaged' /\ IsPlaying' /\ IsTaking' /\ IsCatching' /\ IsRecording' /\ IsEnding'
    BY <2>1 DEF IsPaged, IsPlaying, IsTaking, IsCatching, IsRecording, IsEnding
  <2> QED  BY <2>2, <2>3, <2>4, <2>5, <2>6, <2>7 DEF IsInv
<1>4. CASE isM.test # "ring" /\ IsGoes("drain") /\ isFlags' = isFlags \cup {IsDir}
  <2>1. /\ isM' \in IsMType /\ isM'.pc = "drain" /\ isM'.test = isM.test /\ isM'.gap = isM.gap
        /\ isM \in IsMType
    BY <1>4, IsGoesTo DEF IsLivePc
  <2>2. isM.test \in {"play dma", "function", "capture dma"}  BY <1>1, <1>4 DEF IsInv, IsUsed, IsRings
  <2>3. IsTyped'  BY <1>1, <2>1 DEF IsInv, IsTyped
  <2>4. IsDir \in {"tx", "rx"}  BY DEF IsDir
  <2>5. IsUsed'  BY <1>1, <1>4, <2>1, <2>2, <2>4 DEF IsInv, IsUsed, IsLivePc, IsRings
  <2>6. IsHearing'  BY <1>1, <1>4, <2>1 DEF IsInv, IsHearing, IsHeard, IsLivePc
  <2>7. IsFeeding'
    <3>1. SUFFICES ASSUME isM.test \in {"play dma", "function"}, ~isM.gap PROVE IsFed'
      BY <2>1, <2>2 DEF IsFeeding, IsRings
    <3>2. IsFed /\ IsCaught  BY <1>1, <3>1 DEF IsInv, IsFeeding, IsCatching, IsLivePc, IsRings
    <3>3. isDma[IsDir] = isDma.tx  BY <3>1 DEF IsDir
    <3>4. /\ isPos.pcm >= isRing /\ IsInRing /\ Len(isMem.out) >= isPos.pcm - isRing
          /\ Len(isMem.out) = isPos.pcm - isRing + IsAhead + IsBit(isDma.tx.int)
          /\ IsAhead + IsBit(isDma.tx.int) <= 1 /\ isPos.pcm <= isSize + isRing - 2
      BY <1>1, <3>2, <3>3 DEF IsFed, IsCaught
    <3>5. /\ IsBit(isDma.tx.int) \in {0, 1} /\ IsBit(isDma'.tx.int \/ "tx int" \in isFlags') \in {0, 1}
      BY DEF IsBit
    <3>6. Len(isMem'.out) <= isPos'.pcm - isRing + 1 + IsBit(isDma'.tx.int \/ "tx int" \in isFlags')
      <4> DEFINE len == Len(isMem.out)
                 b   == IsBit(isDma.tx.int)
                 c   == IsBit(isDma'.tx.int \/ "tx int" \in isFlags')
      <4>1. len = isPos.pcm - isRing + IsAhead + b /\ IsAhead + b <= 1 /\ b \in {0, 1} /\ c \in {0, 1}  BY <3>4, <3>5
      <4>2. isMem' = isMem /\ isPos' = isPos  BY <1>1
      <4> HIDE DEF len, b, c
      <4>3. len <= isPos.pcm - isRing + 1 + c  BY <1>2, <4>1
      <4> QED  BY <4>2, <4>3 DEF len, c
    <3>7. IsInRing'  BY <1>1, <3>4 DEF IsInRing
    <3>8. "tx" \in isFlags'  BY <1>4, <3>1 DEF IsDir
    <3> QED  BY <1>1, <2>1, <3>4, <3>6, <3>7, <3>8 DEF IsFed
  <2>8. IsRecording'  BY <1>1, <2>1 DEF IsInv, IsRecording, IsRecorded
  <2>9. IsPaged' /\ IsPlaying' /\ IsTaking' /\ IsLooping' /\ IsCatching' /\ IsEnding'
    BY <2>1 DEF IsPaged, IsPlaying, IsTaking, IsLooping, IsCatching, IsEnding
  <2> QED  BY <2>3, <2>5, <2>6, <2>7, <2>8, <2>9 DEF IsInv
<1> QED  BY <1>1, <1>3, <1>4

LEMMA IsDrainedKeeps == ASSUME IsInv, IsDrained PROVE IsInv'
<1>1. /\ isM.pc = "drain" /\ IsGoes("end") /\ isDma' = [isDma EXCEPT ![IsDir] = IsOff]
      /\ UNCHANGED <<isFlags, isPos, isMem, isFifo>>
  BY DEF IsDrained
<1>2. /\ isM' \in IsMType /\ isM'.pc = "end" /\ isM'.test = isM.test /\ isM'.gap = isM.gap /\ isM \in IsMType
  BY <1>1, IsGoesTo
<1>3. isM.test \in {"play dma", "function", "capture dma"} /\ isPos.pcm >= isSize  BY <1>1 DEF IsInv, IsUsed
<1>4. isDma' \in IsDmaType /\ isDma'.tx = IsOff /\ isDma'.rx = IsOff
  <2>1. isDma \in IsDmaType /\ IsOff \in IsChannelType  BY IsBeginTypes DEF IsInv, IsTyped
  <2>2. CASE isM.test = "capture dma"
    <3>1. IsDir = "rx" /\ isDma.tx = IsOff  BY <2>2 DEF IsDir, IsInv, IsUsed, IsRings
    <3> QED  BY <1>1, <2>1, <3>1 DEF IsDmaType
  <2>3. CASE isM.test # "capture dma"
    <3>1. IsDir = "tx" /\ isDma.rx = IsOff  BY <1>3, <2>3 DEF IsDir, IsInv, IsUsed
    <3> QED  BY <1>1, <2>1, <3>1 DEF IsDmaType
  <2> QED  BY <2>2, <2>3
<1>5. IsTyped'  BY <1>1, <1>2, <1>4 DEF IsInv, IsTyped
<1>6. IsUsed'  BY <1>1, <1>2, <1>4 DEF IsInv, IsUsed
<1>7. IsEnding'
  <2>1. SUFFICES ASSUME ~isM.gap PROVE IsToldAll'  BY <1>2 DEF IsEnding
  <2>2. isRing \in Nat /\ isSize \in Nat /\ isPos.pcm \in Nat /\ isMem.out \in Seq(Int)
    BY IsConstants DEF IsInv, IsTyped, IsPosType, IsMemType
  <2>3. CASE isM.test \in {"play dma", "function"}
    <3>1. IsFed /\ IsHeard  BY <1>1, <2>1, <2>3 DEF IsInv, IsFeeding, IsHearing, IsLivePc, IsRings
    <3> DEFINE len == Len(isMem.out)
               b   == IsBit(isDma.tx.int \/ "tx int" \in isFlags)
    <3>2. len \in Nat  BY <2>2
    <3>3. len >= isPos.pcm - isRing /\ isPos.pcm <= isSize + isRing - 2 /\ len <= isPos.pcm - isRing + 1 + b
      BY <1>1, <3>1 DEF IsFed
    <3>4. len \in Nat /\ len >= isPos.pcm - isRing /\ isPos.pcm <= isSize + isRing - 2 /\ len <= isPos.pcm - isRing + 1 + b
      BY <3>2, <3>3
    <3>5. b \in {0, 1}  BY DEF IsBit
    <3>6. \A k \in 1 .. len : k <= isSize => isMem.out[k] = k  BY <2>1, <3>1 DEF IsHeard
    <3> HIDE DEF len, b
    <3>7. len \in isSize - isRing .. isSize
      <4> DEFINE pcm == isPos.pcm
      <4>1. pcm \in Nat /\ pcm >= isSize /\ isRing \in Nat /\ isSize \in Nat  BY <1>3, <2>2
      <4>2. len \in Nat /\ len >= pcm - isRing /\ pcm <= isSize + isRing - 2 /\ len <= pcm - isRing + 1 + b  BY <3>4
      <4> HIDE DEF pcm
      <4> QED  BY <3>5, <4>1, <4>2
    <3>8. \A k \in 1 .. len : isMem.out[k] = 0 + k  BY <2>2, <3>6, <3>7
    <3> QED  BY <1>1, <1>2, <2>3, <3>7, <3>8 DEF IsToldAll, IsFrom, len
  <2>4. CASE isM.test = "capture dma"
    <3>1. Len(isMem.buf) = isPos.pcm /\ IsFrom(isMem.buf, 0)  BY <1>1, <2>1, <2>4 DEF IsInv, IsRecording, IsRecorded
    <3> QED  BY <1>1, <1>2, <1>3, <2>4, <3>1 DEF IsToldAll
  <2> QED  BY <1>3, <2>3, <2>4
<1>8. IsPaged' /\ IsPlaying' /\ IsTaking' /\ IsLooping' /\ IsHearing' /\ IsFeeding' /\ IsCatching' /\ IsRecording'
  BY <1>2 DEF IsPaged, IsPlaying, IsTaking, IsLooping, IsHearing, IsFeeding, IsCatching, IsRecording, IsLivePc
<1> QED  BY <1>5, <1>6, <1>7, <1>8 DEF IsInv

LEMMA IsWaitedKeeps == ASSUME IsInv, IsWaited PROVE IsInv'
<1> DEFINE flag == IF isM.test = "play" THEN "tx" ELSE "rx"
           err  == IF "overrun" \in isFlags THEN -1
                   ELSE IF isM.test \in {"loop", "direct", "ring"} THEN socle_i2s_compare_memory ELSE 0
<1>1. /\ isM.pc = "wait" /\ flag \in isFlags
      /\ isDma' = [tx |-> IsOff, rx |-> IsOff] /\ isFifo' = [isFifo EXCEPT !.run = FALSE]
      /\ isM' = [isM EXCEPT !.pc = "end", !.err = err]
      /\ isFlags' = isFlags \ {"overrun"} /\ UNCHANGED <<isPos, isMem>>
  BY DEF IsWaited
<1>2. err \in Int /\ (err = 0 => "overrun" \notin isFlags)
  <2>1. socle_i2s_compare_memory \in {-1, 0}  BY DEF socle_i2s_compare_memory
  <2> QED  BY <2>1
<1>3. isM.test \in IsWords \cup {"direct", "ring"}  BY <1>1 DEF IsInv, IsUsed
<1> HIDE DEF err
<1>4. isM' \in IsMType /\ isM'.pc = "end" /\ isM'.test = isM.test /\ isM'.gap = isM.gap /\ isM'.err = err
  <2>1. isM \in IsMType  BY DEF IsInv, IsTyped
  <2> QED  BY <1>1, <1>2, <2>1 DEF IsMType
<1>5. isFifo' \in IsFifoType /\ ~isFifo'.run  BY <1>1 DEF IsInv, IsTyped, IsFifoType
<1>6. isDma' \in IsDmaType /\ isDma'.tx = IsOff /\ isDma'.rx = IsOff  BY <1>1, IsBeginTypes DEF IsDmaType
<1>7. IsTyped'  BY <1>1, <1>4, <1>5, <1>6 DEF IsInv, IsTyped
<1>8. IsUsed'  BY <1>1, <1>4, <1>5, <1>6 DEF IsUsed
<1>9. IsEnding'
  <2>1. SUFFICES ASSUME ~isM.gap PROVE IsToldAll'  BY <1>4 DEF IsEnding
  <2>2. CASE isM.test = "play"
    <3>1. IsPlayed /\ "tx" \in isFlags  BY <1>1, <2>2 DEF IsInv, IsPlaying
    <3> DEFINE len == Len(isMem.out)
               left == Len(isFifo.tx)
    <3>2. len \in Nat /\ left \in Nat /\ isSize \in Nat /\ isDepth \in Nat
      BY IsConstants DEF IsInv, IsTyped, IsMemType, IsFifoType
    <3>3. len + left = isSize /\ left < isDepth /\ IsFrom(isMem.out, 0)  BY <3>1 DEF IsPlayed
    <3>4. len \in isSize - isDepth + 1 .. isSize
      <4> HIDE DEF len, left
      <4> QED  BY <3>2, <3>3
    <3> QED  BY <1>1, <1>4, <2>2, <3>3, <3>4 DEF IsToldAll
  <2>3. CASE isM.test \in {"loop", "capture"}
    <3>1. IsTook /\ "rx" \in isFlags  BY <1>1, <2>3 DEF IsInv, IsTaking
    <3> QED  BY <1>1, <1>2, <1>4, <2>3, <3>1 DEF IsToldAll, IsTook
  <2>4. CASE isM.test \in {"direct", "ring"}
    <3>1. IsLooped /\ "rx" \in isFlags  BY <1>1, <2>4 DEF IsInv, IsLooping
    <3> QED  BY <1>1, <1>4, <2>1, <2>4, <3>1 DEF IsToldAll, IsLooped
  <2> QED  BY <1>3, <2>2, <2>3, <2>4 DEF IsWords
<1>10. IsPaged' /\ IsPlaying' /\ IsTaking' /\ IsLooping' /\ IsHearing' /\ IsFeeding' /\ IsCatching' /\ IsRecording'
  BY <1>4 DEF IsPaged, IsPlaying, IsTaking, IsLooping, IsHearing, IsFeeding, IsCatching, IsRecording, IsLivePc
<1> QED  BY <1>7, <1>8, <1>9, <1>10 DEF IsInv

LEMMA IsMenuKeeps == ASSUME IsInv, IsBackInMenu PROVE IsInv'
<1>1. isM.pc = "end" /\ IsGoes("idle") /\ UNCHANGED <<isFlags, isPos, isMem, isDma, isFifo>>  BY DEF IsBackInMenu
<1>2. isM' \in IsMType /\ isM'.pc = "idle" /\ isM'.test = isM.test  BY <1>1, IsGoesTo
<1>3. IsTyped'  BY <1>1, <1>2 DEF IsInv, IsTyped
<1>4. IsUsed'  BY <1>1, <1>2 DEF IsInv, IsUsed, IsLivePc
<1>5. IsPaged' /\ IsPlaying' /\ IsTaking' /\ IsLooping' /\ IsHearing' /\ IsFeeding' /\ IsCatching' /\ IsRecording' /\ IsEnding'
  BY <1>2 DEF IsPaged, IsPlaying, IsTaking, IsLooping, IsHearing, IsFeeding, IsCatching, IsRecording, IsEnding, IsLivePc
<1> QED  BY <1>3, <1>4, <1>5 DEF IsInv

(* The handlers, with the FIFOs, and the wire.                             *)
LEMMA IsSamplesFrom ==
  ASSUME NEW from \in Nat, NEW n \in Nat, from + n <= isSize
  PROVE  IsSamples(from, n) \in Seq(Int) /\ Len(IsSamples(from, n)) = n /\ IsFrom(IsSamples(from, n), from)
<1> DEFINE words == IsSamples(from, n)
<1>1. isSize \in Nat  BY IsConstants
<1>2. words = [j \in 1 .. n |-> IsSample(from + j - 1)]  BY DEF IsSamples
<1>3. \A j \in 1 .. n : from + j - 1 < isSize /\ (from + j - 1) + 1 = from + j /\ from + j \in Int  BY <1>1
<1>4. \A j \in 1 .. n : IsSample(from + j - 1) = from + j  BY <1>3 DEF IsSample
<1> HIDE DEF words
<1>5. words \in [1 .. n -> Int] /\ \A j \in 1 .. n : words[j] = from + j  BY <1>2, <1>3, <1>4
<1>6. words \in Seq(Int) /\ Len(words) = n  BY <1>5, IsSeqOf
<1> QED  BY <1>5, <1>6 DEF IsFrom, words

LEMMA IsAtMostOf == ASSUME NEW a \in Int, NEW b \in Int
                    PROVE  IsAtMost(a, b) \in {a, b} /\ IsAtMost(a, b) <= a /\ IsAtMost(a, b) <= b /\ IsAtMost(a, b) \in Int
BY DEF IsAtMost

LEMMA IsWordsFrame ==
  ASSUME IsInv, isFifo.run, UNCHANGED <<isM, isDma>>
  PROVE  /\ isPos' \in IsPosType /\ isMem' \in IsMemType /\ isFifo' \in IsFifoType
         /\ "overrun" \in isFlags' => isM.test \in {"loop", "capture"} /\ ~isFifo'.run
         /\ IsPlaying' /\ IsTaking'
         => IsInv'
<1>1. isM.pc = "wait" /\ isM.test \in IsWords  BY DEF IsInv, IsUsed
<1>2. ASSUME isPos' \in IsPosType, isMem' \in IsMemType, isFifo' \in IsFifoType PROVE IsTyped'
  BY <1>2 DEF IsInv, IsTyped
<1>3. ASSUME "overrun" \in isFlags' => isM.test \in {"loop", "capture"} /\ ~isFifo'.run PROVE IsUsed'
  BY <1>1, <1>3 DEF IsInv, IsUsed, IsLivePc
<1>4. IsPaged' /\ IsLooping' /\ IsHearing' /\ IsFeeding' /\ IsCatching' /\ IsRecording' /\ IsEnding'
  BY <1>1 DEF IsPaged, IsLooping, IsHearing, IsFeeding, IsCatching, IsRecording, IsEnding, IsWords, IsRings
<1> QED  BY <1>2, <1>3, <1>4 DEF IsInv

LEMMA IsPlayIsrKeeps == ASSUME IsInv, socle_i2s_play_pcm_isr PROVE IsInv'
<1> DEFINE len  == Len(isFifo.tx)
           n    == IsAtMost(isSize - isPos.pcm, isDepth - Len(isFifo.tx))
           ends == Len(isFifo.tx) + n < isDepth
           tx   == isFifo.tx \o IsSamples(isPos.pcm, n)
<1>1. /\ isM.test = "play" /\ isFifo.run
      /\ isPos' = [isPos EXCEPT !.pcm = @ + n] /\ isFifo' = [isFifo EXCEPT !.tx = tx, !.run = ~ends]
      /\ isFlags' = (IF ends THEN isFlags \cup {"tx"} ELSE isFlags) /\ UNCHANGED <<isMem, isM, isDma>>
  BY DEF socle_i2s_play_pcm_isr, IsHandles
<1>2. isM.pc = "wait" /\ "overrun" \notin isFlags  BY <1>1 DEF IsInv, IsUsed
<1>3. IsPlayed  BY <1>1, <1>2 DEF IsInv, IsPlaying
<1>4. /\ isPos \in IsPosType /\ isMem \in IsMemType /\ isFifo \in IsFifoType
      /\ isPos.pcm \in Nat /\ isMem.out \in Seq(Int) /\ isFifo.tx \in Seq(Int)
  BY DEF IsInv, IsTyped, IsPosType, IsMemType, IsFifoType
<1> DEFINE pcm == isPos.pcm
           out == Len(isMem.out)
<1>5. len \in Nat /\ out \in Nat /\ pcm \in Nat /\ isSize \in Nat /\ isDepth \in Nat
  BY <1>4, IsConstants
<1>6. out + len = pcm /\ pcm <= isSize /\ len <= isDepth  BY <1>3 DEF IsPlayed
<1>7. n \in Int /\ n \in {isSize - pcm, isDepth - len} /\ n <= isSize - pcm /\ n <= isDepth - len
  <2>1. isSize - pcm \in Int /\ isDepth - len \in Int  BY <1>5
  <2> QED  BY <2>1, IsAtMostOf
<1> DEFINE next == pcm + n
<1>8. /\ n \in Nat /\ pcm + n <= isSize /\ len + n <= isDepth /\ next \in Nat /\ (ends => pcm + n = isSize)
      /\ ends \in BOOLEAN
  <2>1. ends <=> len + n < isDepth  OBVIOUS
  <2>2. ends \in BOOLEAN  OBVIOUS
  <2> HIDE DEF len, out, pcm, n, ends
  <2> QED  BY <1>5, <1>6, <1>7, <2>1, <2>2 DEF next
<1>9. IsSamples(pcm, n) \in Seq(Int) /\ Len(IsSamples(pcm, n)) = n /\ IsFrom(IsSamples(pcm, n), pcm)
  BY <1>5, <1>8, IsSamplesFrom
<1>10. tx \in Seq(Int) /\ Len(tx) = len + n  BY <1>4, <1>9, IsLenJoin
<1>11. IsFrom(tx, out)
  <2>1. IsFrom(isFifo.tx, out) /\ IsFrom(IsSamples(pcm, n), pcm)  BY <1>3, <1>9 DEF IsPlayed
  <2>2. pcm = out + Len(isFifo.tx) /\ out \in Int /\ pcm \in Int
    <3>1. pcm = out + len /\ out \in Int /\ pcm \in Int
      <4> HIDE DEF pcm, out, len
      <4> QED  BY <1>5, <1>6
    <3> QED  BY <3>1
  <2> DEFINE more == IsSamples(pcm, n)
  <2>3. more \in Seq(Int) /\ IsFrom(more, pcm) /\ tx = isFifo.tx \o more  BY <1>9
  <2> HIDE DEF more, pcm, out, tx
  <2> QED  BY <1>4, <2>1, <2>2, <2>3, IsFromJoin
<1>12. isPos' \in IsPosType /\ isPos'.pcm = next /\ isFifo' \in IsFifoType /\ isFifo'.tx = tx /\ (ends => ~isFifo'.run)
  <2>1. isPos' = [isPos EXCEPT !.pcm = next] /\ isFifo' = [isFifo EXCEPT !.tx = tx, !.run = ~ends]  BY <1>1
  <2> HIDE DEF next, tx, ends
  <2> QED  BY <1>4, <1>8, <1>10, <2>1 DEF IsPosType, IsFifoType
<1>13. IsPlayed'
  <2>1. Len(isMem'.out) + Len(isFifo'.tx) = isPos'.pcm /\ isPos'.pcm <= isSize
    <3>1. Len(isMem'.out) = out /\ Len(isFifo'.tx) = len + n  BY <1>1, <1>10, <1>12
    <3>2. out + (len + n) = next /\ next <= isSize
      <4> HIDE DEF len, out, pcm, n
      <4> QED  BY <1>5, <1>6, <1>8 DEF next
    <3> QED  BY <1>12, <3>1, <3>2
  <2>2. Len(isFifo'.tx) <= isDepth  BY <1>8, <1>10, <1>12
  <2>3. "tx" \notin isFlags  BY <1>1, <1>3 DEF IsPlayed
  <2>4. "tx" \in isFlags' => ends  BY <1>1, <2>3
  <2>5. "tx" \in isFlags' => isPos'.pcm = isSize /\ Len(isFifo'.tx) < isDepth /\ ~isFifo'.run
    BY <1>8, <1>10, <1>12, <2>4
  <2>6. IsFrom(isMem'.out, 0) /\ IsFrom(isFifo'.tx, Len(isMem'.out))  BY <1>1, <1>3, <1>11, <1>12 DEF IsPlayed
  <2> QED  BY <2>1, <2>2, <2>5, <2>6 DEF IsPlayed
<1>14. IsPlaying' /\ IsTaking' /\ "overrun" \notin isFlags'  BY <1>1, <1>2, <1>13 DEF IsPlaying, IsTaking
<1> QED  BY <1>1, <1>4, <1>12, <1>14, IsWordsFrame

LEMMA IsTakenRight ==
  ASSUME NEW buf \in Seq(Int), NEW fifo \in IsFifoType,
         Len(fifo.rx) >= IsHalf, Len(buf) <= isSize, IsFrom(buf, 0), IsFrom(fifo.rx, Len(buf))
  PROVE  LET t == IsTaken(buf, fifo)
         IN /\ t.buf \in Seq(Int) /\ t.fifo \in IsFifoType /\ t.fifo.tx = fifo.tx
            /\ Len(t.buf) <= isSize /\ Len(t.buf) >= Len(buf) /\ IsFrom(t.buf, 0) /\ IsFrom(t.fifo.rx, Len(t.buf))
            /\ Len(t.buf) + Len(t.fifo.rx) = Len(buf) + Len(fifo.rx)
            /\ (t.all => Len(t.buf) = isSize /\ ~t.fifo.run) /\ (t.fifo.run => fifo.run)
<1> DEFINE n     == IsAtMost(isSize - Len(buf), IsHalf)
           front == SubSeq(fifo.rx, 1, n)
           back  == SubSeq(fifo.rx, n + 1, Len(fifo.rx))
           all   == buf \o front
           t     == IsTaken(buf, fifo)
           a     == Len(buf)
           b     == Len(fifo.rx)
<1>1. fifo.rx \in Seq(Int) /\ fifo.run \in BOOLEAN  BY DEF IsFifoType
<1>2. a \in Nat /\ b \in Nat /\ isSize \in Nat /\ IsHalf \in Nat /\ b >= IsHalf /\ a <= isSize
  BY <1>1, IsConstants
<1>3. n \in {isSize - a, IsHalf} /\ n <= isSize - a /\ n <= IsHalf
  <2>1. isSize - a \in Int /\ IsHalf \in Int  BY <1>2
  <2> QED  BY <2>1, IsAtMostOf
<1>4. n \in Nat /\ n <= b /\ a + n <= isSize /\ (n < IsHalf => a + n = isSize)
  <2> HIDE DEF n, a, b
  <2> QED  BY <1>2, <1>3
<1>5. front \in Seq(Int) /\ Len(front) = n /\ IsFrom(front, a) /\ back \in Seq(Int) /\ Len(back) = b - n /\ IsFrom(back, a + n)
  <2>1. a \in Int  BY <1>2
  <2> QED  BY <1>1, <1>4, <2>1, IsFromParts
<1>6. all \in Seq(Int) /\ Len(all) = a + n  BY <1>5, IsLenJoin
<1>7. IsFrom(all, 0)
  <2>1. front \in Seq(Int) /\ IsFrom(front, a) /\ a \in Int /\ a = 0 + Len(buf) /\ 0 \in Int  BY <1>2, <1>5
  <2> HIDE DEF front, a
  <2> QED  BY <2>1, IsFromJoin
<1>8. /\ t.buf = all /\ t.fifo = [fifo EXCEPT !.rx = back, !.run = @ /\ n = IsHalf] /\ t.all = (n < IsHalf)
  BY DEF IsTaken
<1>9. /\ t.fifo \in IsFifoType /\ t.fifo.tx = fifo.tx /\ t.fifo.rx = back /\ (t.fifo.run <=> fifo.run /\ n = IsHalf)
  <2> DEFINE run == fifo.run /\ n = IsHalf
  <2>1. run \in BOOLEAN /\ t.fifo = [fifo EXCEPT !.rx = back, !.run = run]  BY <1>1, <1>8
  <2> HIDE DEF t, back, run
  <2>2. t.fifo \in IsFifoType /\ t.fifo.tx = fifo.tx /\ t.fifo.rx = back /\ (t.fifo.run <=> run)
    BY <1>5, <2>1 DEF IsFifoType
  <2> QED  BY <2>2 DEF run
<1>10. (a + n) + (b - n) = a + b /\ a + n >= a /\ (n < IsHalf => ~(n = IsHalf))
  <2> HIDE DEF n, a, b
  <2> QED  BY <1>2, <1>4
<1> HIDE DEF t
<1>11. Len(t.buf) = a + n /\ Len(t.fifo.rx) = b - n  BY <1>5, <1>6, <1>8, <1>9
<1> QED  BY <1>4, <1>5, <1>6, <1>7, <1>8, <1>9, <1>10, <1>11 DEF t

LEMMA IsCaptureIsrKeeps == ASSUME IsInv, socle_i2s_capture_isr PROVE IsInv'
<1> DEFINE t == IsTaken(isMem.buf, isFifo)
<1>1. /\ isM.test = "capture" /\ isFifo.run /\ Len(isFifo.rx) >= IsHalf
      /\ isPos' = isPos /\ isMem' = [isMem EXCEPT !.buf = t.buf] /\ isFifo' = t.fifo
      /\ isFlags' = (IF t.all THEN isFlags \cup {"rx"} ELSE isFlags) /\ UNCHANGED <<isM, isDma>>
  BY DEF socle_i2s_capture_isr, IsHandles, IsRxTrigger
<1>2. isM.pc = "wait" /\ "overrun" \notin isFlags  BY <1>1 DEF IsInv, IsUsed
<1>3. IsTook /\ IsKept  BY <1>1, <1>2 DEF IsInv, IsTaking, IsTook
<1>4. isPos \in IsPosType /\ isMem \in IsMemType /\ isFifo \in IsFifoType /\ isMem.buf \in Seq(Int)
  BY DEF IsInv, IsTyped, IsMemType
<1>5. /\ t.buf \in Seq(Int) /\ t.fifo \in IsFifoType
      /\ Len(t.buf) <= isSize /\ IsFrom(t.buf, 0) /\ IsFrom(t.fifo.rx, Len(t.buf))
      /\ Len(t.buf) + Len(t.fifo.rx) = Len(isMem.buf) + Len(isFifo.rx)
      /\ (t.all => Len(t.buf) = isSize /\ ~t.fifo.run)
  <2>1. Len(isMem.buf) <= isSize /\ IsFrom(isMem.buf, 0) /\ IsFrom(isFifo.rx, Len(isMem.buf))  BY <1>3 DEF IsTook, IsKept
  <2> QED  BY <1>1, <1>4, <2>1, IsTakenRight
<1> HIDE DEF t
<1>6. isMem' \in IsMemType /\ isMem'.buf = t.buf  BY <1>1, <1>4, <1>5 DEF IsMemType
<1>7. IsKept'
  <2>1. Len(isMem.buf) + Len(isFifo.rx) = isPos.pcm  BY <1>1, <1>3 DEF IsKept
  <2> QED  BY <1>1, <1>5, <1>6, <2>1 DEF IsKept
<1>8. IsTook'
  <2>1. "rx" \notin isFlags  BY <1>1, <1>3 DEF IsTook
  <2>2. "rx" \in isFlags' => t.all  BY <1>1, <2>1
  <2> QED  BY <1>1, <1>5, <1>6, <1>7, <2>2 DEF IsTook
<1>9. IsPlaying' /\ IsTaking' /\ "overrun" \notin isFlags'  BY <1>1, <1>2, <1>8 DEF IsPlaying, IsTaking
<1> QED  BY <1>1, <1>4, <1>5, <1>6, <1>9, IsWordsFrame

LEMMA IsLoopbackIsrKeeps == ASSUME IsInv, socle_i2s_loopback_isr PROVE IsInv'
<1> DEFINE sends  == Len(isFifo.tx) <= 1
           n      == IF sends THEN IsAtMost(isSize - isPos.pcm, IsHalf) ELSE 0
           allOut == sends /\ n < IsHalf
           allIn  == allOut /\ Len(isMem.buf) = isSize
           tx     == isFifo.tx \o IsSamples(isPos.pcm, n)
           sent   == [isFifo EXCEPT !.tx = tx, !.run = ~allIn]
           t      == IF IsRxTrigger THEN IsTaken(isMem.buf, sent) ELSE [buf |-> isMem.buf, fifo |-> sent, all |-> FALSE]
<1>1. /\ isM.test = "loop" /\ isFifo.run
      /\ isPos' = [isPos EXCEPT !.pcm = @ + n] /\ isMem' = [isMem EXCEPT !.buf = t.buf] /\ isFifo' = t.fifo
      /\ isFlags' = isFlags \cup (IF allOut THEN {"tx"} ELSE {}) \cup (IF allIn \/ t.all THEN {"rx"} ELSE {})
      /\ UNCHANGED <<isM, isDma>>
  BY DEF socle_i2s_loopback_isr, IsHandles
<1>2. isM.pc = "wait" /\ "overrun" \notin isFlags  BY <1>1 DEF IsInv, IsUsed
<1>3. IsTook /\ IsKept  BY <1>1, <1>2 DEF IsInv, IsTaking, IsTook
<1>4. /\ isPos \in IsPosType /\ isMem \in IsMemType /\ isFifo \in IsFifoType
      /\ isPos.pcm \in Nat /\ isMem.buf \in Seq(Int) /\ isFifo.tx \in Seq(Int) /\ isFifo.rx \in Seq(Int)
  BY DEF IsInv, IsTyped, IsPosType, IsMemType, IsFifoType
<1> DEFINE pcm == isPos.pcm
           b   == Len(isMem.buf)
           r   == Len(isFifo.rx)
           x   == Len(isFifo.tx)
           next == pcm + n
<1>5. b \in Nat /\ r \in Nat /\ x \in Nat /\ pcm \in Nat /\ isSize \in Nat /\ IsHalf \in Nat  BY <1>4, IsConstants
<1>6. /\ b <= isSize /\ IsFrom(isMem.buf, 0) /\ pcm <= isSize
      /\ IsFrom(isFifo.rx, b) /\ (b + r) + x = pcm /\ IsFrom(isFifo.tx, b + r)
  BY <1>1, <1>3 DEF IsTook, IsKept
<1>7. n \in Nat /\ next <= isSize /\ next \in Nat
  <2>1. isSize - pcm \in Int /\ IsHalf \in Int  BY <1>5
  <2>2. IsAtMost(isSize - pcm, IsHalf) \in {isSize - pcm, IsHalf} /\ IsAtMost(isSize - pcm, IsHalf) <= isSize - pcm
    BY <2>1, IsAtMostOf
  <2> DEFINE m == IsAtMost(isSize - pcm, IsHalf)
  <2>3. n = m \/ n = 0  OBVIOUS
  <2> HIDE DEF m, n, pcm
  <2> QED  BY <1>5, <1>6, <2>2, <2>3 DEF m, next
<1>8. IsSamples(pcm, n) \in Seq(Int) /\ Len(IsSamples(pcm, n)) = n /\ IsFrom(IsSamples(pcm, n), pcm)
  BY <1>5, <1>7, IsSamplesFrom
<1>9. tx \in Seq(Int) /\ Len(tx) = x + n  BY <1>4, <1>8, IsLenJoin
<1>10. IsFrom(tx, b + r)
  <2> DEFINE more == IsSamples(pcm, n)
             m    == b + r
  <2>1. more \in Seq(Int) /\ IsFrom(more, pcm) /\ tx = isFifo.tx \o more  BY <1>8
  <2>2. pcm \in Int /\ m \in Int /\ IsFrom(isFifo.tx, m) /\ pcm = m + Len(isFifo.tx)
    <3>1. pcm \in Int /\ b + r \in Int /\ pcm = (b + r) + x
      <4> HIDE DEF pcm, b, r, x
      <4> QED  BY <1>5, <1>6
    <3> QED  BY <1>6, <3>1
  <2> HIDE DEF more, pcm, m, tx
  <2>3. IsFrom(tx, m)  BY <1>4, <2>1, <2>2, IsFromJoin
  <2> QED  BY <2>3 DEF m
<1>11. sent \in IsFifoType /\ sent.tx = tx /\ sent.rx = isFifo.rx /\ (sent.run <=> ~allIn)
  <2>1. allIn \in BOOLEAN  OBVIOUS
  <2> HIDE DEF tx, allIn
  <2> QED  BY <1>4, <1>9, <2>1 DEF IsFifoType
<1> HIDE DEF sent
<1>12. /\ t.buf \in Seq(Int) /\ t.fifo \in IsFifoType /\ t.fifo.tx = tx
       /\ Len(t.buf) <= isSize /\ Len(t.buf) >= b /\ IsFrom(t.buf, 0) /\ IsFrom(t.fifo.rx, Len(t.buf))
       /\ Len(t.buf) + Len(t.fifo.rx) = b + r
       /\ (t.all => Len(t.buf) = isSize /\ ~t.fifo.run) /\ (t.fifo.run => ~allIn)
  <2>1. CASE IsRxTrigger
    <3>1. t = IsTaken(isMem.buf, sent) /\ Len(sent.rx) >= IsHalf  BY <1>11, <2>1 DEF IsRxTrigger
    <3>2. IsFrom(sent.rx, Len(isMem.buf))  BY <1>6, <1>11
    <3>3. Len(sent.rx) = r /\ Len(isMem.buf) = b  BY <1>11
    <3> HIDE DEF t, allIn, tx, b, r
    <3>4. isMem.buf \in Seq(Int) /\ Len(isMem.buf) <= isSize /\ IsFrom(isMem.buf, 0) /\ sent \in IsFifoType
      BY <1>4, <1>6, <1>11, <3>3
    <3>5. /\ t.buf \in Seq(Int) /\ t.fifo \in IsFifoType /\ t.fifo.tx = sent.tx
          /\ Len(t.buf) <= isSize /\ Len(t.buf) >= Len(isMem.buf) /\ IsFrom(t.buf, 0) /\ IsFrom(t.fifo.rx, Len(t.buf))
          /\ Len(t.buf) + Len(t.fifo.rx) = Len(isMem.buf) + Len(sent.rx)
          /\ (t.all => Len(t.buf) = isSize /\ ~t.fifo.run) /\ (t.fifo.run => sent.run)
      BY <3>1, <3>2, <3>4, IsTakenRight
    <3> QED  BY <1>11, <3>3, <3>5
  <2>2. CASE ~IsRxTrigger
    <3>1. t = [buf |-> isMem.buf, fifo |-> sent, all |-> FALSE]  BY <2>2
    <3>2. t.buf = isMem.buf /\ t.fifo = sent /\ t.all = FALSE  BY <3>1
    <3>3. Len(t.fifo.rx) = r /\ Len(t.buf) = b  BY <1>11, <3>2
    <3> HIDE DEF t, allIn, tx, b, r
    <3>4. t.buf \in Seq(Int) /\ t.fifo \in IsFifoType /\ t.fifo.tx = tx /\ t.fifo.rx = isFifo.rx
          /\ IsFrom(t.buf, 0) /\ IsFrom(t.fifo.rx, b) /\ (t.fifo.run <=> ~allIn)
      BY <1>4, <1>6, <1>11, <3>2
    <3> QED  BY <1>5, <1>6, <3>2, <3>3, <3>4
  <2> QED  BY <2>1, <2>2
<1>13. allIn => b = isSize  OBVIOUS
<1> HIDE DEF t, allIn
<1>14. isMem' \in IsMemType /\ isMem'.buf = t.buf  BY <1>1, <1>4, <1>12 DEF IsMemType
<1>15. isPos' \in IsPosType /\ isPos'.pcm = next
  <2>1. isPos' = [isPos EXCEPT !.pcm = next]  BY <1>1
  <2> HIDE DEF next
  <2> QED  BY <1>4, <1>7, <2>1 DEF IsPosType
<1>16. IsKept'
  <2> DEFINE c == Len(t.buf)
             s == Len(t.fifo.rx)
  <2>1. c + s = b + r  BY <1>12
  <2>2. (b + r) + (x + n) = next
    <3> HIDE DEF b, r, x, pcm, n
    <3> QED  BY <1>5, <1>6, <1>7 DEF next
  <2>3. c + s + Len(tx) = next  BY <1>9, <2>1, <2>2
  <2>4. IsFrom(tx, c + s)  BY <1>10, <2>1
  <2>5. isM'.test = "loop" /\ isFifo' = t.fifo /\ isFifo'.tx = tx  BY <1>1, <1>12
  <2> HIDE DEF tx, next
  <2> QED  BY <1>12, <1>14, <1>15, <2>3, <2>4, <2>5 DEF IsKept
<1>17. IsTook'
  <2>1. "rx" \notin isFlags  BY <1>1, <1>3 DEF IsTook
  <2>2. "rx" \in isFlags' => allIn \/ t.all  BY <1>1, <2>1
  <2>3. allIn \/ t.all => Len(t.buf) = isSize /\ ~t.fifo.run
    <3>1. allIn => Len(t.buf) = isSize
      <4> DEFINE c == Len(t.buf)
      <4>1. c \in Nat /\ c <= isSize /\ c >= b  BY <1>12
      <4> HIDE DEF c, b
      <4>2. allIn => c = isSize  BY <1>5, <1>13, <4>1
      <4> QED  BY <4>2 DEF c
    <3> QED  BY <1>12, <3>1
  <2> QED  BY <1>1, <1>7, <1>12, <1>14, <1>15, <1>16, <2>2, <2>3 DEF IsTook
<1>18. IsPlaying' /\ IsTaking' /\ "overrun" \notin isFlags'  BY <1>1, <1>2, <1>17 DEF IsPlaying, IsTaking
<1> QED  BY <1>1, <1>12, <1>14, <1>15, <1>18, IsWordsFrame

LEMMA IsWordTypes ==
  ASSUME IsInv
  PROVE  /\ isPos \in IsPosType /\ isMem \in IsMemType /\ isFifo \in IsFifoType /\ isPos.pcm \in Nat
         /\ isMem.out \in Seq(Int) /\ isMem.buf \in Seq(Int) /\ isFifo.tx \in Seq(Int) /\ isFifo.rx \in Seq(Int)
BY DEF IsInv, IsTyped, IsPosType, IsMemType, IsFifoType

LEMMA IsWordPlays ==
  ASSUME IsInv, isFifo.run, isM.test = "play", isFifo.tx # <<>>, isPos' = isPos, isFlags' = isFlags, UNCHANGED <<isM, isDma>>,
         isMem' = [isMem EXCEPT !.out = Append(@, Head(isFifo.tx))], isFifo' = [isFifo EXCEPT !.tx = Tail(@)]
  PROVE  IsInv'
<1>1. isM.pc = "wait" /\ "overrun" \notin isFlags  BY DEF IsInv, IsUsed
<1>2. IsPlayed  BY <1>1 DEF IsInv, IsPlaying
<1> DEFINE out  == Append(isMem.out, Head(isFifo.tx))
           tx   == Tail(isFifo.tx)
           a    == Len(isMem.out)
           b    == Len(isFifo.tx)
<1>3. Head(isFifo.tx) \in Int /\ tx \in Seq(Int) /\ Len(tx) = b - 1 /\ b \in Nat /\ b >= 1 /\ a \in Nat
  BY IsWordTypes, IsLenTail
<1>4. out \in Seq(Int) /\ Len(out) = a + 1  BY <1>3, IsWordTypes, IsLenMore
<1>5. IsFrom(isMem.out, 0) /\ IsFrom(isFifo.tx, a) /\ a + b = isPos.pcm /\ isPos.pcm <= isSize /\ b <= isDepth
      /\ ("tx" \notin isFlags)
  BY <1>2 DEF IsPlayed
<1>6. Head(isFifo.tx) = a + 1 /\ IsFrom(tx, a + 1)
  <2>1. a \in Int  BY <1>3
  <2> QED  BY <1>5, <2>1, IsWordTypes, IsFromTail
<1>7. IsFrom(out, 0)
  <2>1. 0 \in Int /\ Head(isFifo.tx) = 0 + Len(isMem.out) + 1  BY <1>3, <1>6
  <2> QED  BY <1>3, <1>5, <2>1, IsWordTypes, IsFromMore
<1>8. (a + 1) + (b - 1) = isPos.pcm /\ b - 1 <= isDepth
  <2>1. isDepth \in Nat /\ isPos.pcm \in Nat  BY IsConstants, IsWordTypes
  <2> HIDE DEF a, b
  <2> QED  BY <1>3, <1>5, <2>1
<1>9. isMem' = [isMem EXCEPT !.out = out] /\ isFifo' = [isFifo EXCEPT !.tx = tx]  OBVIOUS
<1>10. isMem' \in IsMemType /\ isMem'.out = out /\ isFifo' \in IsFifoType /\ isFifo'.tx = tx
  <2> HIDE DEF out, tx
  <2> QED  BY <1>3, <1>4, <1>9, IsWordTypes DEF IsMemType, IsFifoType
<1>11. IsPlayed'
  <2> HIDE DEF out, tx
  <2> QED  BY <1>3, <1>4, <1>5, <1>6, <1>7, <1>8, <1>10 DEF IsPlayed
<1>12. IsPlaying' /\ IsTaking' /\ "overrun" \notin isFlags'  BY <1>1, <1>11 DEF IsPlaying, IsTaking
<1> QED  BY <1>10, <1>12, IsWordTypes, IsWordsFrame

LEMMA IsWordComes ==
  ASSUME IsInv, isFifo.run, isM.test \in {"loop", "capture"}, isFlags' = isFlags, isMem' = isMem, UNCHANGED <<isM, isDma>>,
         NEW word, NEW tx, NEW pcm,
         isM.test = "loop" => isFifo.tx # <<>> /\ word = Head(isFifo.tx) /\ tx = Tail(isFifo.tx) /\ pcm = isPos.pcm,
         isM.test = "capture" => word = isPos.pcm + 1 /\ tx = isFifo.tx /\ pcm = isPos.pcm + 1,
         isPos' = [isPos EXCEPT !.pcm = pcm], isFifo' = [isFifo EXCEPT !.tx = tx, !.rx = Append(@, word)]
  PROVE  IsInv'
<1>1. isM.pc = "wait" /\ "overrun" \notin isFlags  BY DEF IsInv, IsUsed
<1>2. IsTook /\ IsKept  BY <1>1 DEF IsInv, IsTaking, IsTook
<1> DEFINE rx == Append(isFifo.rx, word)
           b  == Len(isMem.buf)
           r  == Len(isFifo.rx)
           x  == Len(isFifo.tx)
           p  == isPos.pcm
<1>3. b \in Nat /\ r \in Nat /\ x \in Nat /\ p \in Nat  BY IsWordTypes
<1>4. tx \in Seq(Int) /\ word \in Int /\ pcm \in Nat
  <2>1. CASE isM.test = "loop"  BY <2>1, IsWordTypes, IsLenTail
  <2>2. CASE isM.test = "capture"  BY <2>2, IsWordTypes
  <2> QED  BY <2>1, <2>2
<1>5. rx \in Seq(Int) /\ Len(rx) = r + 1  BY <1>4, IsWordTypes, IsLenMore
<1>6. word = b + r + 1
      /\ (isM.test = "loop" => Len(tx) = x - 1 /\ IsFrom(tx, (b + r) + 1) /\ (b + r) + x = p /\ pcm = p)
      /\ (isM.test = "capture" => b + r = p /\ pcm = p + 1)
  <2>1. CASE isM.test = "loop"
    <3>1. (b + r) + x = p /\ IsFrom(isFifo.tx, b + r)  BY <1>2, <2>1 DEF IsKept
    <3>2. b + r \in Int  BY <1>3
    <3>3. word = (b + r) + 1 /\ IsFrom(tx, (b + r) + 1)  BY <2>1, <3>1, <3>2, IsWordTypes, IsFromTail
    <3>4. Len(tx) = x - 1 /\ pcm = p  BY <2>1, IsWordTypes, IsLenTail
    <3> HIDE DEF b, r, x, p
    <3> QED  BY <1>3, <2>1, <3>1, <3>3, <3>4
  <2>2. CASE isM.test = "capture"
    <3>1. b + r = p /\ word = p + 1 /\ pcm = p + 1  BY <1>2, <2>2 DEF IsKept
    <3> HIDE DEF b, r, x, p
    <3> QED  BY <1>3, <2>2, <3>1
  <2> QED  BY <2>1, <2>2
<1>7. IsFrom(rx, b)
  <2>1. b \in Int /\ word = b + Len(isFifo.rx) + 1 /\ IsFrom(isFifo.rx, b)  BY <1>2, <1>3, <1>6 DEF IsKept
  <2> HIDE DEF b
  <2> QED  BY <1>4, <2>1, IsWordTypes, IsFromMore
<1>8. isPos' \in IsPosType /\ isPos'.pcm = pcm  BY <1>4, IsWordTypes DEF IsPosType
<1>9. isFifo' \in IsFifoType /\ isFifo'.tx = tx /\ isFifo'.rx = rx /\ isFifo'.run = isFifo.run
  <2>1. isFifo' = [isFifo EXCEPT !.tx = tx, !.rx = rx]  OBVIOUS
  <2> HIDE DEF rx
  <2> QED  BY <1>4, <1>5, <2>1, IsWordTypes DEF IsFifoType
<1>10. /\ isM.test = "loop" => b + (r + 1) + Len(tx) = pcm /\ IsFrom(tx, b + (r + 1))
       /\ isM.test = "capture" => b + (r + 1) = pcm
  <2> HIDE DEF b, r, x, p
  <2>1. (b + r) + 1 = b + (r + 1)  BY <1>3
  <2>2. isM.test = "loop" => b + (r + 1) + (x - 1) = p  BY <1>3, <1>6
  <2> QED  BY <1>3, <1>6, <2>1, <2>2
<1>11. IsKept'
  <2> HIDE DEF rx
  <2> QED  BY <1>5, <1>7, <1>8, <1>9, <1>10 DEF IsKept
<1>12. IsTook'
  <2>1. "rx" \notin isFlags  BY <1>2 DEF IsTook
  <2>2. isM.test = "loop" => pcm = p /\ p <= isSize  BY <1>2, <1>6 DEF IsTook
  <2>3. Len(isMem'.buf) <= isSize /\ IsFrom(isMem'.buf, 0)  BY <1>2 DEF IsTook
  <2> QED  BY <1>1, <1>8, <1>11, <2>1, <2>2, <2>3 DEF IsTook
<1>13. IsPlaying' /\ IsTaking' /\ "overrun" \notin isFlags'  BY <1>1, <1>12 DEF IsPlaying, IsTaking
<1> QED  BY <1>8, <1>9, <1>13, IsWordTypes, IsWordsFrame

LEMMA IsWordLost ==
  ASSUME IsInv, isFifo.run, isM.test \in {"loop", "capture"}, isFlags' = isFlags \cup {"rx", "overrun"},
         isMem' = isMem, UNCHANGED <<isM, isDma>>,
         NEW tx \in Seq(Int), NEW pcm \in Nat, isM.test = "loop" => pcm = isPos.pcm,
         isPos' = [isPos EXCEPT !.pcm = pcm], isFifo' = [isFifo EXCEPT !.tx = tx, !.rx = <<>>, !.run = FALSE]
  PROVE  IsInv'
<1>1. isM.pc = "wait"  BY DEF IsInv, IsUsed
<1>2. IsTook  BY <1>1 DEF IsInv, IsTaking
<1>3. isPos' \in IsPosType /\ isPos'.pcm = pcm  BY IsWordTypes DEF IsPosType
<1>4. isFifo' \in IsFifoType /\ ~isFifo'.run
  <2>1. <<>> \in Seq(Int)  BY EmptySeq
  <2> QED  BY <2>1, IsWordTypes DEF IsFifoType
<1>5. IsTook'  BY <1>2, <1>3, <1>4 DEF IsTook
<1>6. IsPlaying' /\ IsTaking'  BY <1>5 DEF IsPlaying, IsTaking
<1> QED  BY <1>3, <1>4, <1>6, IsWordTypes, IsWordsFrame

LEMMA IsWordKeeps == ASSUME IsInv, IsWord PROVE IsInv'
<1> DEFINE word == IF isM.test = "capture" THEN isPos.pcm + 1 ELSE Head(isFifo.tx)
           sent == IF isM.test = "capture" THEN isFifo ELSE [isFifo EXCEPT !.tx = Tail(@)]
           pos  == IF isM.test = "capture" THEN [isPos EXCEPT !.pcm = @ + 1] ELSE isPos
           tx   == IF isM.test = "capture" THEN isFifo.tx ELSE Tail(isFifo.tx)
           pcm  == IF isM.test = "capture" THEN isPos.pcm + 1 ELSE isPos.pcm
<1>1. /\ isFifo.run /\ (isM.test # "capture" => isFifo.tx # <<>>)
      /\ \/ isM.test = "play" /\ IsHandles(pos, [isMem EXCEPT !.out = Append(@, word)], sent, isFlags)
         \/ isM.test # "play" /\ IsHandles(pos, isMem, [sent EXCEPT !.rx = Append(@, word)], isFlags)
         \/ isM.test # "play" /\ IsHandles(pos, isMem, [sent EXCEPT !.rx = <<>>, !.run = FALSE], isFlags \cup {"rx", "overrun"})
  BY DEF IsWord
<1>2. isM.test \in {"play", "loop", "capture"}  BY <1>1 DEF IsInv, IsUsed, IsWords
<1>3. pos = [isPos EXCEPT !.pcm = pcm]  BY IsWordTypes DEF IsPosType
<1>4. tx \in Seq(Int) /\ pcm \in Nat
  <2>1. CASE isM.test = "capture"  BY <2>1, IsWordTypes
  <2>2. CASE isM.test # "capture"  BY <1>1, <2>2, IsWordTypes, IsLenTail
  <2> QED  BY <2>1, <2>2
<1>5. CASE isM.test = "play" /\ IsHandles(pos, [isMem EXCEPT !.out = Append(@, word)], sent, isFlags)
  BY <1>1, <1>5, IsWordPlays DEF IsHandles
<1>6. CASE isM.test # "play" /\ IsHandles(pos, isMem, [sent EXCEPT !.rx = Append(@, word)], isFlags)
  <2>1. [sent EXCEPT !.rx = Append(@, word)] = [isFifo EXCEPT !.tx = tx, !.rx = Append(@, word)]
    BY IsWordTypes DEF IsFifoType
  <2>2. /\ isPos' = [isPos EXCEPT !.pcm = pcm] /\ isMem' = isMem /\ isFlags' = isFlags /\ UNCHANGED <<isM, isDma>>
        /\ isFifo' = [isFifo EXCEPT !.tx = tx, !.rx = Append(@, word)]
    BY <1>3, <1>6, <2>1 DEF IsHandles
  <2>3. isM.test = "loop" => isFifo.tx # <<>> /\ word = Head(isFifo.tx) /\ tx = Tail(isFifo.tx) /\ pcm = isPos.pcm
    BY <1>1
  <2>4. isM.test = "capture" => word = isPos.pcm + 1 /\ tx = isFifo.tx /\ pcm = isPos.pcm + 1  OBVIOUS
  <2>5. isM.test \in {"loop", "capture"}  BY <1>2, <1>6
  <2> HIDE DEF word, tx, pcm
  <2> QED  BY <1>1, <2>2, <2>3, <2>4, <2>5, IsWordComes
<1>7. CASE isM.test # "play" /\ IsHandles(pos, isMem, [sent EXCEPT !.rx = <<>>, !.run = FALSE], isFlags \cup {"rx", "overrun"})
  <2>1. [sent EXCEPT !.rx = <<>>, !.run = FALSE] = [isFifo EXCEPT !.tx = tx, !.rx = <<>>, !.run = FALSE]
    BY IsWordTypes DEF IsFifoType
  <2>2. /\ isPos' = [isPos EXCEPT !.pcm = pcm] /\ isMem' = isMem /\ isFlags' = isFlags \cup {"rx", "overrun"}
        /\ UNCHANGED <<isM, isDma>> /\ isFifo' = [isFifo EXCEPT !.tx = tx, !.rx = <<>>, !.run = FALSE]
    BY <1>3, <1>7, <2>1 DEF IsHandles
  <2>3. isM.test = "loop" => pcm = isPos.pcm  OBVIOUS
  <2>4. isM.test \in {"loop", "capture"}  BY <1>2, <1>7
  <2> HIDE DEF tx, pcm
  <2> QED  BY <1>1, <1>4, <2>2, <2>3, <2>4, IsWordLost
<1> QED  BY <1>1, <1>5, <1>6, <1>7

(* The main program refills the ring, or empties it.                       *)
LEMMA IsAheadIn ==
  ASSUME IsInv
  PROVE  /\ isPos \in IsPosType /\ isPos.pcm \in Nat /\ isPos.ring \in 0 .. isRing - 1 /\ isPos.dma \in 0 .. isRing - 1
         /\ isPos.ring \in Int /\ isPos.dma \in Int /\ IsAhead \in 0 .. isRing - 1 /\ IsAhead \in Int
         /\ isRing \in Nat /\ isRing >= 1 /\ isSize \in Nat /\ isRing < isSize
<1>1. isRing \in Nat /\ isRing >= 1 /\ isSize \in Nat /\ isRing < isSize  BY IsConstants
<1>2. isPos \in IsPosType /\ isPos.pcm \in Nat /\ isPos.ring \in 0 .. isRing - 1 /\ isPos.dma \in 0 .. isRing - 1
  BY DEF IsInv, IsTyped, IsPosType
<1>3. isPos.ring \in Int /\ isPos.dma \in Int  BY <1>1, <1>2
<1>4. IsAhead \in 0 .. isRing - 1  BY <1>3, IsAtIn DEF IsAhead
<1> QED  BY <1>1, <1>2, <1>3, <1>4

IsRefilled(ring, base, pcm, n) ==
  [k \in DOMAIN ring |-> IF \E j \in 0 .. n - 1 : IsAt(base + j) = k
     THEN IsSample(pcm + (CHOOSE j \in 0 .. n - 1 : IsAt(base + j) = k)) ELSE ring[k]]

LEMMA IsRefill ==
  ASSUME NEW ring \in [0 .. isRing - 1 -> Int], NEW pcm \in Nat, NEW n \in Nat, n <= isRing, NEW base \in Int,
         \A j \in Int : IsAt(base + j) = IsAt(pcm + j),
         \A q \in Int : pcm - isRing <= q /\ q < pcm => ring[IsAt(q)] = IsSample(q)
  PROVE  \A q \in Int : pcm + n - isRing <= q /\ q < pcm + n => IsRefilled(ring, base, pcm, n)[IsAt(q)] = IsSample(q)
<1> DEFINE new == IsRefilled(ring, base, pcm, n)
<1> SUFFICES ASSUME NEW q \in Int, pcm + n - isRing <= q, q < pcm + n PROVE new[IsAt(q)] = IsSample(q)
  OBVIOUS
<1> DEFINE k == IsAt(q)
           c == CHOOSE j \in 0 .. n - 1 : IsAt(base + j) = k
<1>1. isRing \in Nat /\ isRing >= 1  BY IsConstants
<1>2. k \in 0 .. isRing - 1 /\ k \in DOMAIN ring  BY IsAtIn
<1>3. new[k] = IF \E j \in 0 .. n - 1 : IsAt(base + j) = k THEN IsSample(pcm + c) ELSE ring[k]
  <2> HIDE DEF k
  <2> QED  BY <1>2 DEF IsRefilled
<1> HIDE DEF new
<1>4. CASE q >= pcm
  <2>1. q - pcm \in 0 .. n - 1 /\ pcm + (q - pcm) = q /\ q - pcm \in Int  BY <1>4
  <2>2. IsAt(base + (q - pcm)) = k  BY <2>1
  <2>3. \E j \in 0 .. n - 1 : IsAt(base + j) = k  BY <2>1, <2>2
  <2>4. c \in 0 .. n - 1 /\ IsAt(base + c) = k  BY <2>3
  <2> HIDE DEF c
  <2>5. c \in Int /\ pcm + c \in Int /\ IsAt(pcm + c) = IsAt(q)  BY <2>4
  <2>6. pcm + c = q
    <3>1. CASE pcm + c <= q
      <4>1. q < (pcm + c) + isRing  BY <1>1, <1>4, <2>4
      <4> QED  BY <2>5, <3>1, <4>1, IsAtApart
    <3>2. CASE q <= pcm + c
      <4>1. pcm + c < q + isRing  BY <1>1, <1>4, <2>4
      <4> QED  BY <2>5, <3>2, <4>1, IsAtApart
    <3> QED  BY <2>5, <3>1, <3>2
  <2> QED  BY <1>3, <2>3, <2>6
<1>5. CASE q < pcm
  <2>1. ASSUME NEW j \in 0 .. n - 1, IsAt(base + j) = k PROVE FALSE
    <3>1. j \in Int /\ pcm + j \in Int /\ IsAt(q) = IsAt(pcm + j)  BY <2>1
    <3>2. q <= pcm + j /\ pcm + j < q + isRing /\ q # pcm + j  BY <1>1, <1>5
    <3> QED  BY <3>1, <3>2, IsAtApart
  <2>2. new[k] = ring[k]  BY <1>3, <2>1
  <2>3. pcm - isRing <= q  BY <1>1
  <2> QED  BY <1>5, <2>2, <2>3
<1> QED  BY <1>4, <1>5

LEMMA IsRefillIn ==
  ASSUME NEW ring \in [0 .. isRing - 1 -> Int], NEW pcm \in Nat, NEW n \in Nat, NEW base \in Int
  PROVE  IsRefilled(ring, base, pcm, n) \in [0 .. isRing - 1 -> Int]
<1> SUFFICES ASSUME NEW k \in 0 .. isRing - 1, \E j \in 0 .. n - 1 : IsAt(base + j) = k
             PROVE  IsSample(pcm + (CHOOSE j \in 0 .. n - 1 : IsAt(base + j) = k)) \in Int
  BY DEF IsRefilled
<1> DEFINE c == CHOOSE j \in 0 .. n - 1 : IsAt(base + j) = k
<1>1. c \in 0 .. n - 1  OBVIOUS
<1> HIDE DEF c
<1>2. IsSample(pcm + c) \in Int  BY <1>1 DEF IsSample
<1> QED  BY <1>2 DEF c

(* How far the main program goes, when it has come in time.                *)
LEMMA IsOffsetIn ==
  ASSUME IsInv
  PROVE  /\ IsOffset(isPos.dma) \in Nat /\ IsOffset(isPos.dma) <= isRing
         /\ IsAhead > 0 => IsOffset(isPos.dma) = IsAhead /\ IsAt(isPos.ring + IsAhead) = isPos.dma
<1>1. /\ isPos.ring \in Int /\ isPos.dma \in Int /\ IsAhead \in 0 .. isRing - 1 /\ isRing \in Nat /\ isRing >= 1
      /\ isPos.dma \in 0 .. isRing - 1
  BY IsAheadIn
<1>2. IsOffset(isPos.dma) = IF isPos.dma = isPos.ring THEN isRing ELSE IsAhead  BY DEF IsOffset, IsAhead, IsAt
<1>3. isPos.dma = isPos.ring => IsAhead = 0
  <2>1. isPos.dma = isPos.ring => isPos.dma - isPos.ring = 0  BY <1>1
  <2>2. IsAt(0) = 0  BY <1>1, IsAtSame
  <2> QED  BY <2>1, <2>2 DEF IsAhead
<1>4. IsAt(isPos.ring + IsAhead) = isPos.dma
  <2> DEFINE d == isPos.dma - isPos.ring
  <2>1. d \in Int /\ IsAhead = IsAt(d) /\ d + isPos.ring = isPos.dma  BY <1>1 DEF IsAhead
  <2>2. IsAt(IsAt(d) + isPos.ring) = IsAt(d + isPos.ring)
    <3> HIDE DEF d
    <3> QED  BY <1>1, <2>1, IsAtMore
  <2>3. IsAt(isPos.dma) = isPos.dma  BY <1>1, IsAtSame
  <2>4. isPos.ring + IsAhead = IsAt(d) + isPos.ring  BY <1>1, <2>1
  <2> QED  BY <2>1, <2>2, <2>3, <2>4
<1> QED  BY <1>1, <1>2, <1>3, <1>4

LEMMA IsAccessKeeps == ASSUME IsInv, socle_i2s_access_ring_buffer PROVE IsInv'
<1> DEFINE n    == IsOffset(isPos.dma)
           ring == IsRefilled(isMem.ring, isPos.ring, isPos.pcm, n)
           more == [j \in 1 .. n |-> isMem.ring[IsAt(isPos.ring + (j - 1))]]
           pcm  == isPos.pcm
           next == isPos.pcm + n
           to   == IsAt(isPos.ring + n)
<1>1. /\ isM.pc = "gap" /\ IsGoes("run") /\ UNCHANGED <<isFlags, isDma, isFifo>>
      /\ isPos' = [isPos EXCEPT !.ring = to, !.pcm = next]
      /\ isMem' = IF isM.test = "capture dma" THEN [isMem EXCEPT !.buf = @ \o more] ELSE [isMem EXCEPT !.ring = ring]
  BY DEF socle_i2s_access_ring_buffer, IsAt, IsRefilled
<1>2. /\ isM' \in IsMType /\ isM'.pc = "run" /\ isM'.test = isM.test /\ isM'.gap = isM.gap
      /\ isM \in IsMType /\ IsDir' = IsDir
  BY <1>1, IsGoesTo DEF IsLivePc
<1>3. isM.test \in {"ring", "play dma", "capture dma"}  BY <1>1 DEF IsInv, IsUsed
<1>4. n \in Nat /\ n <= isRing /\ pcm \in Nat /\ next \in Nat /\ to \in 0 .. isRing - 1
  <2>1. n \in Nat /\ n <= isRing /\ pcm \in Nat /\ isPos.ring \in Int  BY IsOffsetIn, IsAheadIn
  <2>2. isPos.ring + n \in Int  BY <2>1
  <2> QED  BY <2>1, <2>2, IsAtIn
<1>5. isMem \in IsMemType /\ isMem.ring \in [0 .. isRing - 1 -> Int] /\ isMem.buf \in Seq(Int) /\ isMem.out \in Seq(Int)
  BY DEF IsInv, IsTyped, IsMemType
<1>6. ring \in [0 .. isRing - 1 -> Int]
  <2>1. isPos.pcm \in Nat /\ isPos.ring \in Int  BY IsAheadIn
  <2> HIDE DEF n
  <2> QED  BY <1>4, <1>5, <2>1, IsRefillIn
<1>7. more \in [1 .. n -> Int] /\ more \in Seq(Int) /\ Len(more) = n
  <2>1. \A j \in 1 .. n : isMem.ring[IsAt(isPos.ring + (j - 1))] \in Int
    <3> SUFFICES ASSUME NEW j \in 1 .. n PROVE isMem.ring[IsAt(isPos.ring + (j - 1))] \in Int
      OBVIOUS
    <3>1. isPos.ring + (j - 1) \in Int  BY <1>4, IsAheadIn
    <3>2. IsAt(isPos.ring + (j - 1)) \in 0 .. isRing - 1  BY <3>1, IsAtIn
    <3> QED  BY <1>5, <3>2
  <2>2. more \in [1 .. n -> Int]  BY <2>1
  <2> QED  BY <1>4, <2>2, IsSeqOf
<1>8. isPos' \in IsPosType /\ isPos'.pcm = next /\ isPos'.ring = to /\ isPos'.dma = isPos.dma
  <2> HIDE DEF next, to
  <2> QED  BY <1>1, <1>4, IsAheadIn DEF IsPosType
<1>9. /\ isMem' \in IsMemType /\ isMem'.out = isMem.out
      /\ isM.test = "capture dma" => isMem'.buf = isMem.buf \o more /\ isMem'.ring = isMem.ring
      /\ isM.test # "capture dma" => isMem'.buf = isMem.buf /\ isMem'.ring = ring
  <2>1. isMem.buf \o more \in Seq(Int)  BY <1>5, <1>7, IsLenJoin
  <2> DEFINE buf == isMem.buf \o more
  <2>2. isMem' = IF isM.test = "capture dma" THEN [isMem EXCEPT !.buf = buf] ELSE [isMem EXCEPT !.ring = ring]
    BY <1>1
  <2>3. buf \in Seq(Int)  BY <2>1
  <2> HIDE DEF ring, more, buf
  <2>4. /\ isMem' \in IsMemType /\ isMem'.out = isMem.out
        /\ isM.test = "capture dma" => isMem'.buf = buf /\ isMem'.ring = isMem.ring
        /\ isM.test # "capture dma" => isMem'.buf = isMem.buf /\ isMem'.ring = ring
    BY <1>5, <1>6, <2>2, <2>3 DEF IsMemType
  <2> QED  BY <2>4 DEF buf
<1> HIDE DEF ring, more, n, next, to, pcm
<1>10. IsTyped'  BY <1>1, <1>2, <1>8, <1>9 DEF IsInv, IsTyped
<1>11. IsUsed'  BY <1>1, <1>2, <1>3 DEF IsInv, IsUsed, IsLivePc, IsRings
<1>12. IsPaged'  BY <1>1, <1>2 DEF IsInv, IsPaged
<1>13. IsLooping'  BY <1>1, <1>2, <1>9 DEF IsInv, IsLooping, IsLooped
<1>14. IsHearing'  BY <1>1, <1>2, <1>9 DEF IsInv, IsHearing, IsHeard, IsLivePc
<1>15. ASSUME ~isM.gap
       PROVE  /\ n = IsAhead /\ n > 0 /\ isPos.ring = IsAt(pcm) /\ to = isPos.dma /\ to = IsAt(next) /\ IsAhead' = 0
              /\ pcm < isSize /\ "period" \notin isFlags
              /\ (isDma[IsDir].int => n <= isRing - 2) /\ isRing >= 2 /\ next = pcm + n
              /\ \A j \in Int : IsAt(isPos.ring + j) = IsAt(pcm + j)
  <2>1. IsCaught  BY <1>1, <1>15 DEF IsInv, IsCatching
  <2>2. /\ IsAhead > 0 /\ isPos.ring = IsAt(pcm) /\ pcm < isSize /\ "period" \notin isFlags
        /\ (isDma[IsDir].int => IsAhead <= isRing - 2)
    BY <1>1, <1>3, <2>1 DEF IsCaught, pcm
  <2>3. n = IsAhead /\ to = isPos.dma  BY <2>2, IsOffsetIn DEF n, to
  <2>4. \A j \in Int : IsAt(isPos.ring + j) = IsAt(pcm + j)  BY <1>4, <2>2, IsAtMore
  <2>5. to = IsAt(next) /\ next = pcm + n  BY <1>4, <2>4 DEF to, next, pcm
  <2>6. IsAhead' = 0
    <3>1. isPos'.dma - isPos'.ring = 0  BY <1>8, <2>3, IsAheadIn
    <3>2. IsAt(0) = 0  BY IsAheadIn, IsAtSame
    <3> QED  BY <3>1, <3>2 DEF IsAhead
  <2>7. isRing >= 2  BY <2>2, IsAheadIn
  <2> QED  BY <2>2, <2>3, <2>4, <2>5, <2>6, <2>7
<1>16. isDma[IsDir].int \in BOOLEAN /\ IsDir \in {"tx", "rx"}
  BY DEF IsDir, IsInv, IsTyped, IsDmaType, IsChannelType
<1> DEFINE bit == IsBit(isDma[IsDir].int)
           len == Len(isMem.out)
<1>17. bit \in {0, 1} /\ (bit = 1 => isDma[IsDir].int) /\ len \in Nat /\ isSize \in Nat /\ isRing \in Nat
  BY <1>5, <1>16, IsAheadIn DEF IsBit
<1>18. ASSUME ~isM.gap
       PROVE  /\ isRing <= pcm => isRing <= next
              /\ next <= isSize + isRing - 2 /\ next = pcm + n /\ n <= isRing - 1 /\ (bit = 1 => n <= isRing - 2)
  <2>1. n \in Nat /\ n > 0 /\ n <= isRing - 1 /\ pcm < isSize /\ next = pcm + n /\ (bit = 1 => n <= isRing - 2)
    BY <1>4, <1>15, <1>17, <1>18, IsAheadIn
  <2> HIDE DEF bit, len
  <2> QED  BY <1>4, <1>17, <2>1
<1>19. IsFeeding'
  <2>1. SUFFICES ASSUME isM.test \in {"ring", "play dma"}, ~isM.gap PROVE IsFed'
    BY <1>2, <1>3 DEF IsFeeding, IsRings
  <2>2. IsFed  BY <1>1, <2>1 DEF IsInv, IsFeeding, IsLivePc, IsRings
  <2>3. isDma[IsDir] = isDma.tx /\ isM.test # "capture dma"  BY <2>1 DEF IsDir
  <2>4. pcm >= isRing /\ IsInRing /\ len = pcm - isRing + n + bit
    BY <1>1, <1>15, <2>1, <2>2, <2>3 DEF IsFed, pcm
  <2>5. IsInRing'
    <3>1. \A q \in Int : pcm - isRing <= q /\ q < pcm => isMem.ring[IsAt(q)] = IsSample(q)  BY <2>4 DEF IsInRing, pcm
    <3>2. \A j \in Int : IsAt(isPos.ring + j) = IsAt(pcm + j)  BY <1>15, <2>1
    <3>3. \A q \in Int : pcm + n - isRing <= q /\ q < pcm + n => ring[IsAt(q)] = IsSample(q)
      <4>1. ring = IsRefilled(isMem.ring, isPos.ring, pcm, n)  BY DEF ring, pcm
      <4>2. isPos.ring \in Int  BY IsAheadIn
      <4>3. \A q \in Int : pcm + n - isRing <= q /\ q < pcm + n => IsRefilled(isMem.ring, isPos.ring, pcm, n)[IsAt(q)] = IsSample(q)
        BY <1>4, <1>5, <3>1, <3>2, <4>2, IsRefill
      <4> QED  BY <4>1, <4>3
    <3>4. isMem'.ring = ring /\ isPos'.pcm = pcm + n  BY <1>8, <1>9, <1>15, <2>1, <2>3
    <3>5. \A q \in Int : isPos'.pcm - isRing <= q /\ q < isPos'.pcm => isMem'.ring[IsAt(q)] = IsSample(q)
      <4> SUFFICES ASSUME NEW q \in Int, isPos'.pcm - isRing <= q, q < isPos'.pcm PROVE isMem'.ring[IsAt(q)] = IsSample(q)
        OBVIOUS
      <4>1. isPos'.pcm = pcm + n /\ isMem'.ring = ring  BY <3>4
      <4>2. pcm + n - isRing <= q /\ q < pcm + n  BY <1>4, <1>17, <4>1
      <4> QED  BY <3>3, <4>1, <4>2
    <3> QED  BY <3>5 DEF IsInRing
  <2>6. len >= next - isRing /\ len = next - isRing + 0 + bit /\ next >= isRing
    <3>1. next = pcm + n  BY <1>15, <2>1
    <3> HIDE DEF bit, len
    <3> QED  BY <1>4, <1>17, <2>4, <3>1
  <2>7. isM'.pc = "run" /\ isMem'.out = isMem.out /\ isPos'.pcm = next /\ IsAhead' = 0 /\ IsBit(isDma'.tx.int) = bit
    BY <1>1, <1>2, <1>8, <1>9, <1>15, <2>1, <2>3
  <2> QED  BY <2>5, <2>6, <2>7 DEF IsFed
<1>20. IsCatching'
  <2>1. SUFFICES ASSUME ~isM.gap PROVE IsCaught'  BY <1>2 DEF IsCatching
  <2>2. isPos'.ring = IsAt(isPos'.pcm) /\ IsAhead' = 0 /\ "period" \notin isFlags' /\ 0 <= isRing - 2
    <3>1. to = IsAt(next) /\ IsAhead' = 0 /\ "period" \notin isFlags /\ isRing >= 2  BY <1>15, <2>1
    <3>2. 0 <= isRing - 2  BY <1>17, <3>1
    <3> QED  BY <1>1, <1>8, <3>1, <3>2
  <2>3. IsAhead' + IsBit(isDma'[IsDir'].int) <= 1 /\ isPos'.pcm <= isSize + isRing - 2
    <3>1. IsBit(isDma'[IsDir'].int) = bit  BY <1>1, <1>2
    <3>2. bit <= 1 /\ 0 + bit = bit  BY <1>17
    <3> HIDE DEF bit
    <3> QED  BY <1>8, <1>18, <2>1, <2>2, <3>1, <3>2
  <2> QED  BY <1>2, <1>3, <2>2, <2>3 DEF IsCaught
<1>21. IsRecording'
  <2>1. SUFFICES ASSUME isM.test = "capture dma", ~isM.gap PROVE IsRecorded'  BY <1>2 DEF IsRecording
  <2>2. IsRecorded  BY <1>1, <2>1 DEF IsInv, IsRecording
  <2>3. isDma[IsDir] = isDma.rx  BY <2>1 DEF IsDir
  <2>4. Len(isMem.buf) = pcm /\ IsFrom(isMem.buf, 0) /\ IsCame /\ isDma.rx.at = IsAt(len) /\ len = pcm + n + bit
    BY <1>1, <1>15, <2>1, <2>2, <2>3 DEF IsRecorded, pcm
  <2>5. len - isRing <= pcm /\ pcm + n <= len
    <3>1. n <= isRing - 1 /\ (bit = 1 => n <= isRing - 2) /\ bit \in {0, 1} /\ len = pcm + n + bit
      BY <1>17, <1>18, <2>1, <2>4
    <3> HIDE DEF bit, len
    <3> QED  BY <1>4, <1>17, <3>1
  <2>6. \A j \in 1 .. n : more[j] = pcm + j
    <3> SUFFICES ASSUME NEW j \in 1 .. n PROVE more[j] = pcm + j
      OBVIOUS
    <3>1. more[j] = isMem.ring[IsAt(isPos.ring + (j - 1))]  BY DEF more
    <3>2. j - 1 \in Int  BY <1>4
    <3>3. IsAt(isPos.ring + (j - 1)) = IsAt(pcm + (j - 1))  BY <1>15, <2>1, <3>2
    <3>4. pcm + (j - 1) \in Nat /\ len - isRing <= pcm + (j - 1) /\ pcm + (j - 1) < len /\ (pcm + (j - 1)) + 1 = pcm + j
      <4> HIDE DEF len
      <4> QED  BY <1>4, <1>17, <2>5
    <3>5. isMem.ring[IsAt(pcm + (j - 1))] = (pcm + (j - 1)) + 1  BY <2>4, <3>4 DEF IsCame
    <3> QED  BY <3>1, <3>3, <3>4, <3>5
  <2>7. IsFrom(more, pcm)  BY <1>7, <2>6 DEF IsFrom
  <2>8. IsFrom(isMem.buf \o more, 0) /\ Len(isMem.buf \o more) = next
    <3>1. pcm \in Int /\ pcm = 0 + Len(isMem.buf) /\ 0 \in Int  BY <1>4, <2>4
    <3>2. IsFrom(isMem.buf \o more, 0)  BY <1>5, <1>7, <2>4, <2>7, <3>1, IsFromJoin
    <3>3. Len(isMem.buf \o more) = pcm + n  BY <1>5, <1>7, <2>4, IsLenJoin
    <3> QED  BY <1>15, <2>1, <3>2, <3>3
  <2>9. IsCame'  BY <1>9, <2>1, <2>4 DEF IsCame
  <2>10. len = next + 0 + bit
    <3>1. next = pcm + n  BY <1>15, <2>1
    <3> HIDE DEF bit, len
    <3> QED  BY <1>4, <1>17, <2>4, <3>1
  <2>11. isMem'.out = isMem.out /\ isMem'.buf = isMem.buf \o more /\ isPos'.pcm = next /\ IsAhead' = 0 /\ IsBit(isDma'.rx.int) = bit
         /\ isDma' = isDma
    BY <1>1, <1>8, <1>9, <1>15, <2>1, <2>3
  <2> QED  BY <2>4, <2>8, <2>9, <2>10, <2>11 DEF IsRecorded
<1>22. IsPlaying' /\ IsTaking' /\ IsEnding'  BY <1>2 DEF IsPlaying, IsTaking, IsEnding
<1> QED  BY <1>10, <1>11, <1>12, <1>13, <1>14, <1>19, <1>20, <1>21, <1>22 DEF IsInv

(* A period is done.                                                       *)
LEMMA IsDmaIn ==
  ASSUME IsInv
  PROVE  /\ isDma \in IsDmaType /\ isDma.tx \in IsChannelType /\ isDma.rx \in IsChannelType
         /\ isDma.tx.at \in Nat /\ isDma.rx.at \in Nat /\ isDma.tx.pages \in Nat /\ isDma.rx.pages \in Nat
         /\ isDma.tx.int \in BOOLEAN /\ isDma.rx.int \in BOOLEAN
         /\ (isDma.tx.int \/ isDma.tx.on) => isM.pc \in IsLivePc /\ isM.test \in IsRings \cup {"direct"} /\ isDma.tx # IsOff
         /\ (isDma.rx.int \/ isDma.rx.on)
            => isM.pc \in IsLivePc /\ isM.test \in {"direct", "ring", "capture dma"} /\ isDma.rx # IsOff
<1>1. isDma \in IsDmaType /\ isDma.tx \in IsChannelType /\ isDma.rx \in IsChannelType  BY DEF IsInv, IsTyped, IsDmaType
<1>2. (isDma.tx.int \/ isDma.tx.on => isDma.tx # IsOff) /\ (isDma.rx.int \/ isDma.rx.on => isDma.rx # IsOff)  BY DEF IsOff
<1> QED  BY <1>1, <1>2 DEF IsChannelType, IsInv, IsUsed

LEMMA IsDoneRight ==
  ASSUME IsInv, NEW again \in BOOLEAN
  PROVE  /\ IsDone("tx", again) => /\ isDma' \in IsDmaType /\ isDma'.rx = isDma.rx /\ ~isDma'.tx.int /\ isDma'.tx.at = isDma.tx.at
                                   /\ isDma'.tx.pages = IF again THEN isDma.tx.pages + 1 ELSE isDma.tx.pages
         /\ IsDone("rx", again) => /\ isDma' \in IsDmaType /\ isDma'.tx = isDma.tx /\ ~isDma'.rx.int /\ isDma'.rx.at = isDma.rx.at
                                   /\ isDma'.rx.pages = IF again THEN isDma.rx.pages + 1 ELSE isDma.rx.pages
<1>1. isDma \in IsDmaType /\ isDma.tx \in IsChannelType /\ isDma.rx \in IsChannelType
      /\ isDma.tx.pages \in Nat /\ isDma.rx.pages \in Nat
  BY IsDmaIn
<1> DEFINE p == IF again THEN isDma.tx.pages + 1 ELSE isDma.tx.pages
           q == IF again THEN isDma.rx.pages + 1 ELSE isDma.rx.pages
<1>2. p \in Nat /\ q \in Nat  BY <1>1
<1>3. ASSUME IsDone("tx", again)
      PROVE  isDma' \in IsDmaType /\ isDma'.rx = isDma.rx /\ ~isDma'.tx.int /\ isDma'.tx.at = isDma.tx.at /\ isDma'.tx.pages = p
  <2>1. isDma' = [isDma EXCEPT !["tx"].int = FALSE, !["tx"].pages = p]  BY <1>3 DEF IsDone
  <2> HIDE DEF p
  <2> QED  BY <1>1, <1>2, <2>1 DEF IsDmaType, IsChannelType
<1>4. ASSUME IsDone("rx", again)
      PROVE  isDma' \in IsDmaType /\ isDma'.tx = isDma.tx /\ ~isDma'.rx.int /\ isDma'.rx.at = isDma.rx.at /\ isDma'.rx.pages = q
  <2>1. isDma' = [isDma EXCEPT !["rx"].int = FALSE, !["rx"].pages = q]  BY <1>4 DEF IsDone
  <2> HIDE DEF q
  <2> QED  BY <1>1, <1>2, <2>1 DEF IsDmaType, IsChannelType
<1> QED  BY <1>3, <1>4

(* A page after the last ends nothing but the waiting for it.              *)
LEMMA IsLastPage ==
  ASSUME IsInv, NEW dir \in {"tx", "rx"}, dir = IsDir, isDma[dir].int, dir \in isFlags, isM' = isM, isPos' = isPos, isMem' = isMem,
         isFifo' = isFifo, isFlags' = isFlags \cup {IsInt(dir)}, IsDone(dir, FALSE)
  PROVE  IsInv'
<1>1. isM.pc \in {"wait", "drain"} /\ isM.test \in IsRings \cup {"direct", "capture dma"}
  <2>1. isM.pc \notin {"run", "gap"}  BY DEF IsInv, IsPaged
  <2>2. isM.pc \in IsLivePc /\ isM.test \in IsRings \cup {"direct", "capture dma"}  BY IsDmaIn DEF IsRings
  <2> QED  BY <2>1, <2>2 DEF IsLivePc
<1>2. isDma' \in IsDmaType /\ ~isDma'[dir].int
      /\ isDma'.tx.at = isDma.tx.at /\ isDma'.rx.pages = isDma.rx.pages
  BY IsDoneRight
<1>3. (dir = "tx" => isDma'.rx = isDma.rx) /\ (dir = "rx" => isDma'.tx = isDma.tx)  BY IsDoneRight
<1>4. IsTyped'  BY <1>2 DEF IsInv, IsTyped
<1>5. IsInt(dir) \in {"tx int", "rx int"}  BY DEF IsInt
<1>6. IsUsed'
  <2>1. isDma'.tx # IsOff => isM.pc \in IsLivePc /\ isM.test \in IsRings \cup {"direct"}
    BY <1>3, IsDmaIn DEF IsInv, IsUsed
  <2>2. isDma'.rx # IsOff => isM.pc \in IsLivePc /\ isM.test \in {"direct", "ring", "capture dma"}
    BY <1>3, IsDmaIn DEF IsInv, IsUsed
  <2> QED  BY <1>1, <1>5, <2>1, <2>2 DEF IsInv, IsUsed
<1>7. IsLooping'  BY <1>1, <1>2, <1>5 DEF IsInv, IsLooping, IsLooped
<1>8. IsHearing'  BY <1>2 DEF IsInv, IsHearing, IsHeard
<1>9. IsFeeding'
  <2>1. SUFFICES ASSUME isM.test \in IsRings, ~isM.gap PROVE IsFed'  BY DEF IsFeeding
  <2>2. IsFed /\ dir = "tx"  BY <1>1, <2>1 DEF IsInv, IsFeeding, IsDir, IsRings, IsLivePc
  <2>3. "tx int" \in isFlags'  BY <2>2 DEF IsInt
  <2>4. IsInRing' /\ IsBit(isDma'.tx.int \/ "tx int" \in isFlags') = 1 /\ (IsBit(isDma.tx.int \/ "tx int" \in isFlags) = 1)
    BY <2>2, <2>3 DEF IsFed, IsInRing, IsBit
  <2> QED  BY <1>1, <2>2, <2>4 DEF IsFed
<1>10. IsRecording'  BY <1>1 DEF IsInv, IsRecording, IsRecorded
<1>11. IsPaged' /\ IsPlaying' /\ IsTaking' /\ IsCatching' /\ IsEnding'
  BY <1>1 DEF IsPaged, IsPlaying, IsTaking, IsCatching, IsEnding, IsWords, IsRings
<1> QED  BY <1>4, <1>6, <1>7, <1>8, <1>9, <1>10, <1>11 DEF IsInv

(* A page goes into the ring, or out of it: the handler is one ahead.      *)
LEMMA IsNextPage ==
  ASSUME IsInv, NEW dir \in {"tx", "rx"}, dir = IsDir, isM.test # "function", isDma[dir].int, dir \notin isFlags, isMem' = isMem,
         isFifo' = isFifo, isPos' = [isPos EXCEPT !.dma = (@ + 1) % isRing], isFlags' = isFlags \cup {"period"}, IsDone(dir, TRUE),
         isM' = [isM EXCEPT !.gap = @ \/ isM.pc = "gap"]
  PROVE  IsInv'
<1> DEFINE gap == isM.gap \/ isM.pc = "gap"
           dma == IsAt(isPos.dma + 1)
<1>1. isM.pc \in IsLivePc /\ isM.test \in {"ring", "play dma", "direct", "capture dma"}  BY IsDmaIn DEF IsRings
<1>2. /\ isDma' \in IsDmaType /\ ~isDma'[dir].int /\ isDma'[dir].pages = isDma[dir].pages + 1
      /\ isDma'.tx.at = isDma.tx.at /\ isDma'.rx.at = isDma.rx.at
  BY IsDoneRight
<1>3. (dir = "tx" => isDma'.rx = isDma.rx) /\ (dir = "rx" => isDma'.tx = isDma.tx)  BY IsDoneRight
<1>4. isM' \in IsMType /\ isM'.pc = isM.pc /\ isM'.test = isM.test /\ (isM'.gap <=> gap) /\ isM'.err = isM.err
  <2>1. isM \in IsMType /\ gap \in BOOLEAN  BY DEF IsInv, IsTyped
  <2>2. isM' = [isM EXCEPT !.gap = gap]  OBVIOUS
  <2> HIDE DEF gap
  <2> QED  BY <2>1, <2>2 DEF IsMType
<1>5. isPos' \in IsPosType /\ isPos'.pcm = isPos.pcm /\ isPos'.ring = isPos.ring /\ isPos'.dma = dma
  <2>1. isPos.dma + 1 \in Int  BY IsAheadIn
  <2>2. dma \in 0 .. isRing - 1  BY <2>1, IsAtIn
  <2>3. isPos' = [isPos EXCEPT !.dma = dma]  BY DEF IsAt
  <2> HIDE DEF dma
  <2> QED  BY <2>2, <2>3, IsAheadIn DEF IsPosType
<1>6. IsDir' = IsDir  BY <1>4 DEF IsDir
<1>7. IsTyped'  BY <1>2, <1>4, <1>5 DEF IsInv, IsTyped
<1>8. IsUsed'
  <2>1. isDma'.tx # IsOff => isM.pc \in IsLivePc /\ isM.test \in IsRings \cup {"direct"}
    BY <1>3, IsDmaIn DEF IsInv, IsUsed
  <2>2. isDma'.rx # IsOff => isM.pc \in IsLivePc /\ isM.test \in {"direct", "ring", "capture dma"}
    BY <1>3, IsDmaIn DEF IsInv, IsUsed
  <2> QED  BY <1>4, <1>5, <2>1, <2>2 DEF IsInv, IsUsed
<1>9. IsPaged'
  <2>1. SUFFICES ASSUME isM.pc \in {"run", "gap"} PROVE IsPaged'  BY <1>4 DEF IsPaged
  <2>2. isDma[dir].pages + 1 = isRing  BY <2>1 DEF IsInv, IsPaged, IsBit
  <2>3. isDma'[dir].pages + IsBit(isDma'[dir].int) = isRing  BY <1>2, <2>2, IsAheadIn DEF IsBit
  <2> QED  BY <1>4, <1>6, <2>3 DEF IsPaged
<1>10. IsLooping'
  <2>1. isM.test \in {"direct", "ring"} => isDma'.rx = isDma.rx  BY <1>3 DEF IsDir
  <2> QED  BY <1>4, <2>1 DEF IsInv, IsLooping, IsLooped
<1>11. IsHearing'  BY <1>2, <1>4 DEF IsInv, IsHearing, IsHeard
<1>12. ASSUME isM.pc = "run", ~gap PROVE IsCaught /\ IsAhead' = IsAhead + 1 /\ IsAhead + 1 \in Int /\ IsAhead >= 0
  <2>1. IsCaught  BY <1>12 DEF IsInv, IsCatching
  <2>2. IsAhead <= isRing - 2 /\ IsAhead >= 0 /\ IsAhead + 1 \in 0 .. isRing - 1 /\ IsAhead + 1 \in Int  BY <2>1, IsAheadIn DEF IsCaught
  <2> DEFINE d == isPos.dma - isPos.ring
  <2>3. d \in Int /\ IsAhead = IsAt(d) /\ isPos.dma + 1 \in Int /\ -isPos.ring \in Int  BY IsAheadIn DEF IsAhead
  <2>4. IsAhead' = IsAt(dma - isPos.ring)  BY <1>5 DEF IsAhead
  <2>5. IsAt(dma + (-isPos.ring)) = IsAt((isPos.dma + 1) + (-isPos.ring))  BY <2>3, IsAtMore
  <2>6. dma + (-isPos.ring) = dma - isPos.ring /\ (isPos.dma + 1) + (-isPos.ring) = d + 1
    <3>1. dma \in Int  BY <1>5, <1>7, IsAheadIn DEF IsTyped, IsPosType
    <3> HIDE DEF dma
    <3> QED  BY <3>1, IsAheadIn
  <2>7. IsAt(d + 1) = IsAt(IsAt(d) + 1)
    <3> HIDE DEF d
    <3> QED  BY <2>3, IsAtMore
  <2>8. IsAt(IsAt(d) + 1) = IsAhead + 1
    <3>1. IsAt(IsAhead + 1) = IsAhead + 1  BY <2>2, IsAtSame
    <3> QED  BY <2>3, <3>1
  <2> QED  BY <2>1, <2>2, <2>4, <2>5, <2>6, <2>7, <2>8
<1>13. IsFeeding'
  <2>1. SUFFICES ASSUME isM.test \in IsRings, ~gap PROVE IsFed'  BY <1>4 DEF IsFeeding
  <2>2. IsFed /\ dir = "tx"  BY <1>1, <2>1 DEF IsInv, IsFeeding, IsDir, IsRings
  <2>3. IsInRing' /\ isPos'.pcm >= isRing /\ Len(isMem'.out) >= isPos'.pcm - isRing /\ isM.pc # "drain"
        /\ (isM.pc = "wait" => isPos'.pcm >= isSize)
    BY <1>5, <2>2 DEF IsFed, IsInRing
  <2>4. ASSUME isM.pc = "run" PROVE Len(isMem'.out) = isPos'.pcm - isRing + IsAhead' + IsBit(isDma'.tx.int)
    <3> DEFINE len == Len(isMem.out)
    <3>1. len = isPos.pcm - isRing + IsAhead + 1  BY <2>2, <2>4 DEF IsFed, IsBit
    <3>2. IsAhead' = IsAhead + 1 /\ IsBit(isDma'.tx.int) = 0  BY <1>2, <1>12, <2>1, <2>2, <2>4 DEF IsBit
    <3> HIDE DEF len
    <3>3. len = isPos.pcm - isRing + (IsAhead + 1) + 0  BY <3>1, IsAheadIn
    <3> QED  BY <1>5, <3>2, <3>3 DEF len
  <2> QED  BY <1>4, <2>1, <2>3, <2>4 DEF IsFed
<1>14. IsCatching'
  <2>1. SUFFICES ASSUME isM.pc = "run", ~gap PROVE IsCaught'  BY <1>4 DEF IsCatching
  <2>2. IsCaught /\ IsAhead' = IsAhead + 1 /\ IsAhead + 1 \in Int /\ IsAhead >= 0  BY <1>12, <2>1
  <2>3. ~isDma'[IsDir'].int /\ IsBit(isDma'[IsDir'].int) = 0  BY <1>2, <1>6 DEF IsBit
  <2>4. IsAhead' > 0  BY <2>2, IsAheadIn
  <2>5. isPos.pcm >= isSize => IsAhead' + IsBit(isDma'[IsDir'].int) <= 1 /\ isPos.pcm <= isSize + isRing - 2
    <3>1. isPos.pcm >= isSize => IsAhead + 1 <= 1 /\ isPos.pcm <= isSize + isRing - 2  BY <2>1, <2>2 DEF IsCaught, IsBit
    <3> QED  BY <2>2, <2>3, <3>1
  <2>6. isPos.ring = IsAt(isPos.pcm)  BY <2>2 DEF IsCaught
  <2> QED  BY <1>4, <1>5, <2>1, <2>3, <2>4, <2>5, <2>6 DEF IsCaught
<1>15. IsRecording'
  <2>1. SUFFICES ASSUME isM.pc \in {"run", "gap", "drain"}, isM.test = "capture dma", ~gap PROVE IsRecorded'
    BY <1>4 DEF IsRecording
  <2>2. IsRecorded /\ dir = "rx"  BY <2>1 DEF IsInv, IsRecording, IsDir
  <2>3. CASE isM.pc = "drain"  BY <1>4, <1>5, <2>2, <2>3 DEF IsRecorded
  <2>4. CASE isM.pc = "run"
    <3> DEFINE len == Len(isMem.out)
    <3>1. len = isPos.pcm + IsAhead + 1  BY <2>2, <2>4 DEF IsRecorded, IsBit
    <3>2. IsAhead' = IsAhead + 1 /\ IsBit(isDma'.rx.int) = 0  BY <1>2, <1>12, <2>1, <2>2, <2>4 DEF IsBit
    <3> HIDE DEF len
    <3>3. len = isPos.pcm + (IsAhead + 1) + 0  BY <3>1, IsAheadIn
    <3>4. IsCame'  BY <2>2, <2>4 DEF IsRecorded, IsCame
    <3> QED  BY <1>2, <1>4, <1>5, <2>2, <2>4, <3>2, <3>3, <3>4 DEF IsRecorded, len
  <2> QED  BY <2>1, <2>3, <2>4
<1>16. IsPlaying' /\ IsTaking' /\ IsEnding'  BY <1>1, <1>4 DEF IsPlaying, IsTaking, IsEnding, IsLivePc
<1> QED  BY <1>7, <1>8, <1>9, <1>10, <1>11, <1>13, <1>14, <1>15, <1>16 DEF IsInv

LEMMA IsCompleteKeeps == ASSUME IsInv, socle_i2s_tx_dma_play_complete \/ socle_i2s_rx_dma_capture_complete PROVE IsInv'
<1>1. PICK dir \in {"tx", "rx"} : dir = IsDir /\ isM.test # "function" /\ IsComplete(dir)
  <2>1. CASE socle_i2s_tx_dma_play_complete
    <3>1. isM.test # "function" /\ IsComplete("tx") /\ isDma["tx"].int  BY <2>1 DEF socle_i2s_tx_dma_play_complete, IsComplete
    <3>2. IsDir = "tx"  BY <3>1, IsDmaIn DEF IsDir, IsRings
    <3> QED  BY <3>1, <3>2
  <2>2. CASE socle_i2s_rx_dma_capture_complete
    <3>1. IsDir = "rx" /\ isM.test # "function"  BY <2>2 DEF socle_i2s_rx_dma_capture_complete, IsDir
    <3> QED  BY <2>2, <3>1 DEF socle_i2s_rx_dma_capture_complete
  <2> QED  BY <2>1, <2>2
<1>2. CASE dir \in isFlags
  <2>1. /\ isDma[dir].int /\ isM' = isM /\ isPos' = isPos /\ isMem' = isMem /\ isFifo' = isFifo
        /\ isFlags' = isFlags \cup {IsInt(dir)} /\ IsDone(dir, FALSE)
    BY <1>1, <1>2 DEF IsComplete
  <2> QED  BY <1>1, <1>2, <2>1, IsLastPage
<1>3. CASE dir \notin isFlags
  <2>1. /\ isDma[dir].int /\ isMem' = isMem /\ isFifo' = isFifo /\ isPos' = [isPos EXCEPT !.dma = (@ + 1) % isRing]
        /\ isFlags' = isFlags \cup {"period"} /\ IsDone(dir, TRUE) /\ isM' = [isM EXCEPT !.gap = @ \/ isM.pc = "gap"]
    BY <1>1, <1>3 DEF IsComplete
  <2> QED  BY <1>1, <1>3, <2>1, IsNextPage
<1> QED  BY <1>2, <1>3

(* The loop-back notices the last page only.                               *)
LEMMA IsPageKeeps == ASSUME IsInv, socle_i2s_rx_dma_page_interrupt PROVE IsInv'
<1>1. /\ isM.test \in {"direct", "ring"} /\ isDma.rx.int /\ IsDone("rx", FALSE)
      /\ isFlags' = (IF isDma.rx.pages = 0 THEN isFlags \cup {"rx"} ELSE isFlags)
      /\ isM' = isM /\ isPos' = isPos /\ isMem' = isMem /\ isFifo' = isFifo
  BY DEF socle_i2s_rx_dma_page_interrupt
<1>2. isDma' \in IsDmaType /\ isDma'.tx = isDma.tx /\ ~isDma'.rx.int /\ isDma'.rx.at = isDma.rx.at /\ isDma'.rx.pages = isDma.rx.pages
  BY <1>1, IsDoneRight
<1>3. isM.pc \in {"wait", "run", "gap"}  BY <1>1, IsDmaIn DEF IsLivePc, IsInv, IsUsed
<1>4. IsTyped'  BY <1>1, <1>2 DEF IsInv, IsTyped
<1>5. IsUsed'
  <2>1. isDma'.rx # IsOff => isM.pc \in IsLivePc /\ isM.test \in {"direct", "ring", "capture dma"}  BY <1>1, IsDmaIn
  <2> QED  BY <1>1, <1>2, <2>1 DEF IsInv, IsUsed
<1>6. IsDir = "tx" /\ IsDir' = "tx"  BY <1>1 DEF IsDir
<1>7. IsPaged'
  <2>1. isDma'[IsDir'] = isDma[IsDir]  BY <1>2, <1>6
  <2>2. IsDir' \in isFlags' => IsDir \in isFlags  BY <1>1, <1>6
  <2> QED  BY <1>1, <2>1, <2>2 DEF IsInv, IsPaged
<1>8. IsLooping'
  <2>1. IsLooped  BY <1>1, <1>3 DEF IsInv, IsLooping
  <2>2. isMem.buf \in Seq(Int) /\ Len(isMem.buf) \in Nat  BY DEF IsInv, IsTyped, IsMemType
  <2>3. isDma.rx.pages = 0 => Len(isMem.buf) = isSize
    <3> DEFINE len == Len(isMem.buf)
    <3>1. isDma.rx.pages + len = isSize  BY <2>1 DEF IsLooped
    <3>2. len \in Nat  BY <2>2
    <3> HIDE DEF len
    <3>3. isDma.rx.pages = 0 => len = isSize  BY <3>1, <3>2
    <3> QED  BY <3>3 DEF len
  <2>4. IsLooped'  BY <1>1, <1>2, <2>1, <2>3 DEF IsLooped
  <2> QED  BY <2>4 DEF IsLooping
<1>9. IsHearing'  BY <1>1, <1>2 DEF IsInv, IsHearing, IsHeard
<1>10. IsFeeding'  BY <1>1, <1>2, <1>3 DEF IsInv, IsFeeding, IsFed, IsInRing, IsAhead, IsLivePc
<1>11. IsCatching'
  <2>1. isDma'[IsDir'] = isDma[IsDir] /\ IsAhead' = IsAhead  BY <1>1, <1>2, <1>6 DEF IsAhead
  <2>2. ("period" \in isFlags' <=> "period" \in isFlags)  BY <1>1
  <2> QED  BY <1>1, <1>2, <2>1, <2>2 DEF IsInv, IsCatching, IsCaught
<1>12. IsPlaying' /\ IsTaking' /\ IsRecording' /\ IsEnding'
  BY <1>1, <1>3 DEF IsPlaying, IsTaking, IsRecording, IsEnding
<1> QED  BY <1>4, <1>5, <1>7, <1>8, <1>9, <1>10, <1>11, <1>12 DEF IsInv

(* The handler of the function test puts the next sample into the ring.    *)
LEMMA IsFunKeeps == ASSUME IsInv, socle_i2s_tx_dma_play_fun_complete PROVE IsInv'
<1>1. isM.test = "function" /\ isDma.tx.int /\ isM' = isM /\ isFifo' = isFifo /\ IsDir = "tx" /\ IsDir' = "tx"
  BY DEF socle_i2s_tx_dma_play_fun_complete, IsDir
<1>2. CASE "tx" \in isFlags
  <2>1. isFlags' = isFlags \cup {IsInt("tx")} /\ IsDone("tx", FALSE) /\ isPos' = isPos /\ isMem' = isMem
    BY <1>2 DEF socle_i2s_tx_dma_play_fun_complete, IsInt
  <2>2. "tx" \in {"tx", "rx"} /\ isDma["tx"].int  BY <1>1
  <2> QED  BY <1>1, <1>2, <2>1, <2>2, IsLastPage
<1>3. CASE "tx" \notin isFlags
  <2> DEFINE pcm  == isPos.pcm
             next == isPos.pcm + 1
             ring == [isMem.ring EXCEPT ![IsAt(pcm)] = IsSample(pcm)]
             len  == Len(isMem.out)
  <2>1. /\ isMem' = [isMem EXCEPT !.ring = ring] /\ isPos' = [isPos EXCEPT !.pcm = next]
        /\ IsDone("tx", TRUE) /\ isFlags' = isFlags
    <3>1. /\ isMem' = [isMem EXCEPT !.ring[isPos.pcm % isRing] = IsSample(isPos.pcm)] /\ isPos' = [isPos EXCEPT !.pcm = @ + 1]
          /\ IsDone("tx", TRUE) /\ isFlags' = isFlags
      BY <1>3 DEF socle_i2s_tx_dma_play_fun_complete
    <3> QED  BY <3>1 DEF IsAt
  <2>2. isM.pc \in IsLivePc  BY <1>1, IsDmaIn
  <2>3. /\ isDma' \in IsDmaType /\ isDma'.rx = isDma.rx /\ ~isDma'.tx.int /\ isDma'.tx.at = isDma.tx.at
        /\ isDma'.tx.pages = isDma.tx.pages + 1
    BY <2>1, IsDoneRight
  <2>4. pcm \in Nat /\ next \in Nat /\ IsAt(pcm) \in 0 .. isRing - 1 /\ IsSample(pcm) \in Int
    <3>1. pcm \in Nat /\ pcm \in Int  BY IsAheadIn
    <3> HIDE DEF pcm
    <3> QED  BY <3>1, IsAtIn DEF IsSample, pcm
  <2>5. isMem \in IsMemType /\ isMem.ring \in [0 .. isRing - 1 -> Int] /\ len \in Nat  BY DEF IsInv, IsTyped, IsMemType
  <2>6. /\ isMem' \in IsMemType /\ isMem'.ring = ring /\ isMem'.out = isMem.out /\ isMem'.buf = isMem.buf
        /\ isPos' \in IsPosType /\ isPos'.pcm = next /\ isPos'.ring = isPos.ring /\ isPos'.dma = isPos.dma
    <3>1. ring \in [0 .. isRing - 1 -> Int]  BY <2>4, <2>5
    <3> HIDE DEF ring, next, pcm
    <3> QED  BY <2>1, <2>4, <2>5, <3>1, IsAheadIn DEF IsMemType, IsPosType
  <2>7. IsTyped'  BY <1>1, <2>3, <2>6 DEF IsInv, IsTyped
  <2>8. isM.pc = "run" \/ isM.gap
    <3>1. isM.pc \in {"run", "drain"}  BY <1>1, <2>2 DEF IsInv, IsUsed, IsLivePc, IsWords
    <3>2. isM.pc = "drain" /\ ~isM.gap => "tx" \in isFlags  BY <1>1 DEF IsInv, IsFeeding, IsFed, IsLivePc, IsRings
    <3> QED  BY <1>3, <3>1, <3>2
  <2>9. IsUsed'
    <3>1. isDma'.tx # IsOff => isM.pc \in IsLivePc /\ isM.test \in IsRings \cup {"direct"}  BY <1>1, <2>2 DEF IsRings
    <3>2. isM.pc = "drain" => isPos'.pcm >= isSize
      <4>1. isM.pc = "drain" => pcm >= isSize  BY DEF IsInv, IsUsed
      <4> HIDE DEF pcm
      <4> QED  BY <2>4, <2>6, <4>1, IsAheadIn DEF next, pcm
    <3> QED  BY <1>1, <2>1, <2>3, <3>1, <3>2 DEF IsInv, IsUsed
  <2>10. IsPaged'
    <3>1. SUFFICES ASSUME isM.pc \in {"run", "gap"} PROVE IsPaged'  BY <1>1 DEF IsPaged
    <3>2. isDma.tx.pages + 1 = isRing  BY <1>1, <3>1 DEF IsInv, IsPaged, IsBit
    <3>3. isDma'[IsDir'].pages + IsBit(isDma'[IsDir'].int) = isRing  BY <1>1, <2>3, <3>2, IsAheadIn DEF IsBit
    <3> QED  BY <1>1, <1>3, <2>1, <3>3 DEF IsPaged
  <2>11. IsHearing'  BY <1>1, <2>3, <2>6 DEF IsInv, IsHearing, IsHeard
  <2>12. ASSUME ~isM.gap
         PROVE  /\ IsFed /\ isPos.ring = isPos.dma /\ IsAhead' = 0 /\ IsAhead = 0 /\ pcm < isSize /\ 2 <= isRing /\ isM.pc = "run"
                /\ len = pcm - isRing + 1 /\ next <= isSize
    <3>1. isM.pc = "run"  BY <2>8, <2>12
    <3>2. IsFed /\ IsCaught  BY <1>1, <2>12, <3>1 DEF IsInv, IsFeeding, IsCatching, IsLivePc, IsRings
    <3>3. isPos.ring = isPos.dma /\ IsAhead <= isRing - 2 /\ ~(pcm >= isSize)  BY <1>1, <3>1, <3>2 DEF IsCaught
    <3>4. isPos.dma - isPos.ring = 0 /\ IsAt(0) = 0  BY <3>3, IsAheadIn, IsAtSame
    <3>5. IsAhead = 0 /\ IsAhead' = 0  BY <2>6, <3>4 DEF IsAhead
    <3>6. len = pcm - isRing + 0 + 1  BY <1>1, <3>1, <3>2, <3>5 DEF IsFed, IsBit
    <3> HIDE DEF len, pcm
    <3>7. isSize \in Nat /\ isRing \in Nat  BY IsAheadIn
    <3>8. pcm < isSize /\ 2 <= isRing /\ len = pcm - isRing + 1  BY <2>4, <2>5, <3>3, <3>5, <3>6, <3>7
    <3>9. next <= isSize  BY <2>4, <3>7, <3>8 DEF next, pcm
    <3> QED  BY <3>1, <3>2, <3>3, <3>5, <3>8, <3>9
  <2>13. IsFeeding'
    <3>1. SUFFICES ASSUME ~isM.gap PROVE IsFed'  BY <1>1 DEF IsFeeding
    <3>2. pcm >= isRing /\ IsInRing  BY <2>12, <3>1 DEF IsFed, pcm
    <3>3. IsInRing'
      <4>1. SUFFICES ASSUME NEW q \in Int, next - isRing <= q, q < next PROVE ring[IsAt(q)] = IsSample(q)
        BY <2>6 DEF IsInRing
      <4>2. IsAt(q) \in 0 .. isRing - 1 /\ DOMAIN isMem.ring = 0 .. isRing - 1  BY <2>5, IsAtIn
      <4>3. CASE q = pcm  BY <2>4, <4>2, <4>3
      <4>4. CASE q # pcm
        <5>1. pcm - isRing <= q /\ q < pcm /\ pcm < q + isRing /\ q <= pcm /\ pcm \in Int
          <6>1. isRing \in Nat  BY IsAheadIn
          <6> QED  BY <2>4, <4>1, <4>4, <6>1
        <5>2. IsAt(q) # IsAt(pcm)
          <6> HIDE DEF pcm
          <6> QED  BY <4>4, <5>1, IsAtApart
        <5>3. isMem.ring[IsAt(q)] = IsSample(q)  BY <3>2, <5>1 DEF IsInRing
        <5> QED  BY <4>2, <5>2, <5>3
      <4> QED  BY <4>3, <4>4
    <3>4. next >= isRing /\ len = next - isRing + 0 + 0 /\ len >= next - isRing
      <4>1. len = pcm - isRing + 1  BY <2>12, <3>1
      <4>2. next = pcm + 1  OBVIOUS
      <4> HIDE DEF len, pcm, next
      <4> QED  BY <2>4, <3>2, <4>1, <4>2, IsAheadIn
    <3>5. IsBit(isDma'.tx.int) = 0 /\ IsAhead' = 0 /\ isM'.pc = "run"  BY <1>1, <2>3, <2>12, <3>1 DEF IsBit
    <3> HIDE DEF next, pcm, ring
    <3> QED  BY <2>6, <3>3, <3>4, <3>5 DEF IsFed
  <2>14. IsCatching'
    <3>1. SUFFICES ASSUME ~isM.gap PROVE IsCaught'  BY <1>1 DEF IsCatching
    <3>2. isPos'.ring = isPos'.dma /\ IsAhead' = 0 /\ next <= isSize /\ 2 <= isRing /\ isM'.pc = "run"
      BY <1>1, <2>6, <2>12, <3>1
    <3>3. ~isDma'[IsDir'].int /\ IsBit(isDma'[IsDir'].int) = 0 /\ 0 + 0 <= 1  BY <1>1, <2>3 DEF IsBit
    <3>4. next <= isSize + isRing - 2
      <4> HIDE DEF next
      <4> QED  BY <2>4, <3>2, IsAheadIn
    <3> HIDE DEF next
    <3> QED  BY <1>1, <2>6, <3>2, <3>3, <3>4 DEF IsCaught
  <2>15. IsPlaying' /\ IsTaking' /\ IsLooping' /\ IsRecording' /\ IsEnding'
    BY <1>1, <2>2 DEF IsPlaying, IsTaking, IsLooping, IsRecording, IsEnding, IsLivePc
  <2> QED  BY <2>7, <2>9, <2>10, <2>11, <2>13, <2>14, <2>15 DEF IsInv
<1> QED  BY <1>2, <1>3

(* A period of the DMA.                                                    *)
LEMMA IsRunsIn ==
  ASSUME IsInv, NEW dir \in {"tx", "rx"}, IsRuns(dir)
  PROVE  /\ isM.pc \in IsLivePc /\ isDma[dir].on /\ isDma[dir].pages > 0 /\ ~isDma[dir].int
         /\ isM.pc \in {"run", "gap"} => IsAhead <= isRing - 2
         /\ isM.pc = "run" => isPos.pcm < isSize
         /\ isM.pc = "drain" => IsInt(IsDir) \notin isFlags
<1>1. isDma[dir].on /\ isDma[dir].pages > 0 /\ ~isDma[dir].int /\ IsInTime /\ ~IsUnnoticed  BY DEF IsRuns
<1>2. isM.pc \in IsLivePc  BY <1>1, IsDmaIn
<1>3. isM.pc \in {"run", "gap"} => IsAhead < isRing - 1  BY <1>1 DEF IsInTime, IsAhead, IsAt
<1>4. isM.pc = "run" => isPos.pcm < isSize  BY <1>1, IsAheadIn DEF IsUnnoticed
<1>5. isM.pc = "drain" => IsInt(IsDir) \notin isFlags  BY <1>1 DEF IsUnnoticed
<1> QED  BY <1>1, <1>2, <1>3, <1>4, <1>5, IsAheadIn

LEMMA IsMovesTo ==
  ASSUME NEW c \in IsChannelType, NEW size \in Nat \ {0}, c.pages > 0
  PROVE  /\ IsMoves(c, size) \in IsChannelType /\ IsMoves(c, size).int /\ IsMoves(c, size).at = (c.at + 1) % size
         /\ IsMoves(c, size).pages = c.pages - 1 /\ IsMoves(c, size).pages + 1 = c.pages
<1> DEFINE at == (c.at + 1) % size
           pages == c.pages - 1
<1>1. c.at \in Nat /\ c.pages \in Nat  BY DEF IsChannelType
<1>2. at \in Nat /\ pages \in Nat /\ pages + 1 = c.pages  BY <1>1
<1>3. IsMoves(c, size) = [on |-> TRUE, at |-> at, pages |-> pages, int |-> TRUE]  BY DEF IsMoves
<1> HIDE DEF at, pages
<1>4. IsMoves(c, size) \in IsChannelType /\ IsMoves(c, size).int /\ IsMoves(c, size).at = at /\ IsMoves(c, size).pages = pages
  BY <1>2, <1>3 DEF IsChannelType
<1> QED  BY <1>2, <1>4 DEF at, pages

(* What the DMA takes from the ring next is the sample that follows.       *)
LEMMA IsNextSample ==
  ASSUME IsInv, ~isM.gap, IsRuns("tx"), isM.test \in {"direct", "ring"} => Len(isMem.out) <= Len(isMem.buf),
         Len(isMem.out) < isSize
  PROVE  IF isM.test = "direct" THEN IsSample(isDma.tx.at) = Len(isMem.out) + 1
         ELSE isMem.ring[isDma.tx.at] = Len(isMem.out) + 1
<1> DEFINE len == Len(isMem.out)
           buf == Len(isMem.buf)
           pcm == isPos.pcm
<1>1. len \in Nat /\ buf \in Nat /\ pcm \in Nat /\ isRing \in Nat /\ isRing >= 1 /\ isSize \in Nat /\ IsAhead \in Int
  BY IsAheadIn DEF IsInv, IsTyped, IsMemType
<1>2. isM.pc \in IsLivePc /\ isM.test \in IsRings \cup {"direct"}
  <2>1. isDma.tx.on  BY DEF IsRuns
  <2> QED  BY <2>1, IsDmaIn
<1>3. IsHeard  BY <1>2 DEF IsInv, IsHearing
<1>4. IsSample(len) = len + 1
  <2> HIDE DEF len
  <2>1. len < isSize  BY DEF len
  <2> QED  BY <2>1 DEF IsSample
<1>5. CASE isM.test = "direct"
  <2>1. isDma.tx.at = len  BY <1>3, <1>5 DEF IsHeard
  <2> QED  BY <1>4, <1>5, <2>1
<1>6. CASE isM.test # "direct"
  <2>1. isDma.tx.at = IsAt(len) /\ IsFed  BY <1>2, <1>3, <1>6 DEF IsHeard, IsInv, IsFeeding
  <2>2. len >= pcm - isRing  BY <2>1 DEF IsFed
  <2>3. "tx" \in {"tx", "rx"} /\ ~isDma.tx.int  BY DEF IsRuns
  <2>4. isM.test # "capture dma"  BY <1>2, <1>6 DEF IsRings
  <2>5. len < pcm
    <3>1. CASE isM.pc \in {"run", "gap"}
      <4>1. len = pcm - isRing + IsAhead + 0  BY <2>1, <2>3, <3>1 DEF IsFed, IsBit
      <4>2. IsAhead <= isRing - 2  BY <2>3, <3>1, IsRunsIn
      <4> HIDE DEF len, pcm
      <4> QED  BY <1>1, <4>1, <4>2
    <3>2. CASE isM.pc = "wait"
      <4>1. len < isSize /\ pcm >= isSize  BY <2>1, <3>2 DEF IsFed
      <4> HIDE DEF len, pcm
      <4> QED  BY <1>1, <4>1
    <3>3. CASE isM.pc = "drain"
      <4>1. "tx int" \notin isFlags  BY <2>3, <2>4, <3>3, IsRunsIn DEF IsInt, IsDir
      <4>2. len <= pcm - isRing + 1 + 0 /\ pcm <= isSize + isRing - 2  BY <2>1, <2>3, <3>3, <4>1 DEF IsFed, IsBit
      <4>3. pcm >= isSize  BY <3>3 DEF IsInv, IsUsed
      <4> HIDE DEF len, pcm
      <4> QED  BY <1>1, <4>2, <4>3
    <3> QED  BY <1>2, <3>1, <3>2, <3>3 DEF IsLivePc
  <2>6. isMem.ring[IsAt(len)] = IsSample(len)
    <3>1. \A q \in Int : pcm - isRing <= q /\ q < pcm => isMem.ring[IsAt(q)] = IsSample(q)  BY <2>1 DEF IsFed, IsInRing
    <3> HIDE DEF len, pcm
    <3> QED  BY <1>1, <2>2, <2>5, <3>1
  <2> QED  BY <1>4, <1>6, <2>1, <2>6
<1> QED  BY <1>5, <1>6

LEMMA IsTxMoves ==
  ASSUME IsInv, IsTxPeriod
  PROVE  /\ isM' = isM /\ isFlags' = isFlags /\ isPos' = isPos /\ isFifo' = isFifo /\ IsRuns("tx")
         /\ isM.pc \in IsLivePc /\ isM.test \in IsRings \cup {"direct"}
         /\ isM.test \in {"direct", "ring"} => Len(isMem.out) <= Len(isMem.buf)
         /\ isDma' \in IsDmaType /\ isDma'.rx = isDma.rx /\ isDma'.tx.int /\ isDma'.tx.pages + 1 = isDma.tx.pages
         /\ isDma'.tx.at = (isDma.tx.at + 1) % (IF isM.test = "direct" THEN isSize ELSE isRing)
         /\ isMem' \in IsMemType /\ isMem'.ring = isMem.ring /\ isMem'.buf = isMem.buf
         /\ Len(isMem'.out) = Len(isMem.out) + 1 /\ \A k \in 1 .. Len(isMem.out) : isMem'.out[k] = isMem.out[k]
         /\ isMem'.out[Len(isMem.out) + 1] = IF isM.test = "direct" THEN IsSample(isDma.tx.at) ELSE isMem.ring[isDma.tx.at]
<1> DEFINE size == IF isM.test = "direct" THEN isSize ELSE isRing
           word == IF isM.test = "direct" THEN IsSample(isDma.tx.at) ELSE isMem.ring[isDma.tx.at]
           tx   == IsMoves(isDma.tx, size)
           out  == Append(isMem.out, word)
<1>1. /\ isM' = isM /\ isFlags' = isFlags /\ isPos' = isPos /\ isFifo' = isFifo /\ IsRuns("tx")
      /\ isM.test \in {"direct", "ring"} => Len(isMem.out) <= Len(isMem.buf)
      /\ isDma' = [isDma EXCEPT !.tx = tx] /\ isMem' = [isMem EXCEPT !.out = out]
  BY DEF IsTxPeriod
<1>2. isM.pc \in IsLivePc /\ isM.test \in IsRings \cup {"direct"} /\ isDma.tx.pages > 0 /\ isDma["tx"].on
  <2>1. isDma.tx.on /\ isDma.tx.pages > 0  BY <1>1 DEF IsRuns
  <2> QED  BY <2>1, IsDmaIn
<1>3. size \in Nat \ {0}  BY IsConstants
<1>4. isMem \in IsMemType /\ isMem.ring \in [0 .. isRing - 1 -> Int] /\ isMem.out \in Seq(Int)  BY DEF IsInv, IsTyped, IsMemType
<1>5. word \in Int
  <2>1. CASE isM.test = "direct"
    <3>1. isDma.tx.at \in Nat  BY IsDmaIn
    <3> QED  BY <2>1, <3>1 DEF IsSample
  <2>2. CASE isM.test # "direct"
    <3>1. isDma.tx.at = IsAt(Len(isMem.out))  BY <1>2, <2>2 DEF IsInv, IsHearing, IsHeard
    <3>2. Len(isMem.out) \in Int  BY <1>4
    <3>3. isDma.tx.at \in 0 .. isRing - 1  BY <3>1, <3>2, IsAtIn
    <3> QED  BY <1>4, <2>2, <3>3
  <2> QED  BY <2>1, <2>2
<1>6. tx \in IsChannelType /\ tx.int /\ tx.at = (isDma.tx.at + 1) % size /\ tx.pages + 1 = isDma.tx.pages
  <2> HIDE DEF size
  <2> QED  BY <1>2, <1>3, IsDmaIn, IsMovesTo
<1>7. /\ out \in Seq(Int) /\ Len(out) = Len(isMem.out) + 1 /\ out[Len(isMem.out) + 1] = word
      /\ \A k \in 1 .. Len(isMem.out) : out[k] = isMem.out[k]
  <2> HIDE DEF word
  <2> QED  BY <1>4, <1>5, IsLenMore
<1> HIDE DEF tx, out
<1>8. isDma' \in IsDmaType /\ isDma'.rx = isDma.rx /\ isDma'.tx = tx  BY <1>1, <1>6, IsDmaIn DEF IsDmaType
<1>9. isMem' \in IsMemType /\ isMem'.ring = isMem.ring /\ isMem'.buf = isMem.buf /\ isMem'.out = out
  BY <1>1, <1>4, <1>7 DEF IsMemType
<1> QED  BY <1>1, <1>2, <1>6, <1>7, <1>8, <1>9

LEMMA IsTxKeeps == ASSUME IsInv, IsTxPeriod PROVE IsInv'
<1> DEFINE len == Len(isMem.out)
           pcm == isPos.pcm
<1>1. /\ isM' = isM /\ isFlags' = isFlags /\ isPos' = isPos /\ isFifo' = isFifo /\ IsRuns("tx")
      /\ isM.pc \in IsLivePc /\ isM.test \in IsRings \cup {"direct"}
      /\ isM.test \in {"direct", "ring"} => len <= Len(isMem.buf)
      /\ isDma' \in IsDmaType /\ isDma'.rx = isDma.rx /\ isDma'.tx.int /\ isDma'.tx.pages + 1 = isDma.tx.pages
      /\ isDma'.tx.at = (isDma.tx.at + 1) % (IF isM.test = "direct" THEN isSize ELSE isRing)
      /\ isMem' \in IsMemType /\ isMem'.ring = isMem.ring /\ isMem'.buf = isMem.buf
      /\ Len(isMem'.out) = len + 1 /\ \A k \in 1 .. len : isMem'.out[k] = isMem.out[k]
      /\ isMem'.out[len + 1] = IF isM.test = "direct" THEN IsSample(isDma.tx.at) ELSE isMem.ring[isDma.tx.at]
  BY IsTxMoves
<1>2. /\ ~isDma.tx.int /\ isDma.tx.pages > 0 /\ isDma.tx.on
      /\ isM.pc \in {"run", "gap"} => IsAhead <= isRing - 2
      /\ isM.pc = "run" => pcm < isSize
      /\ isM.pc = "drain" => IsInt(IsDir) \notin isFlags
  <2>1. "tx" \in {"tx", "rx"}  OBVIOUS
  <2> QED  BY <1>1, <2>1, IsRunsIn
<1>3. IsDir = "tx" /\ IsDir' = "tx" /\ IsAhead' = IsAhead  BY <1>1 DEF IsDir, IsRings, IsAhead
<1>4. len \in Nat /\ Len(isMem.buf) \in Nat /\ pcm \in Nat /\ isRing \in Nat /\ isRing >= 1 /\ isSize \in Nat /\ isSize >= 1
      /\ IsAhead \in Int
  BY IsAheadIn DEF IsInv, IsTyped, IsMemType
<1> HIDE DEF len, pcm
<1>5. IsTyped'  BY <1>1 DEF IsInv, IsTyped
<1>6. IsUsed'  BY <1>1 DEF IsInv, IsUsed
<1>7. IsPaged'
  <2>1. SUFFICES ASSUME isM.pc \in {"run", "gap"} PROVE IsPaged'  BY <1>1 DEF IsPaged
  <2>2. isDma.tx.pages + 0 = isRing /\ "tx" \notin isFlags  BY <1>2, <1>3, <2>1 DEF IsInv, IsPaged, IsBit
  <2>3. isDma.tx.pages \in Nat  BY IsDmaIn
  <2>4. isDma'.tx.pages + 1 = isRing  BY <1>1, <1>4, <2>2, <2>3
  <2> QED  BY <1>1, <1>3, <2>2, <2>4 DEF IsPaged, IsBit
<1>8. IsLooping'
  <2>1. SUFFICES ASSUME isM.pc \in {"wait", "run", "gap"}, isM.test \in {"direct", "ring"} PROVE IsLooped'
    BY <1>1 DEF IsLooping
  <2>2. IsLooped /\ len <= Len(isMem.buf)  BY <1>1, <2>1 DEF IsInv, IsLooping
  <2>3. Len(isMem'.out) >= Len(isMem'.buf) /\ Len(isMem'.out) <= Len(isMem'.buf) + 1
    <3> DEFINE buf == Len(isMem.buf)
    <3>1. buf <= len /\ len <= buf /\ buf \in Nat  BY <1>4, <2>2 DEF IsLooped, len
    <3>2. Len(isMem'.out) = len + 1 /\ Len(isMem'.buf) = buf  BY <1>1
    <3> HIDE DEF buf
    <3> QED  BY <1>4, <3>1, <3>2
  <2> QED  BY <1>1, <2>2, <2>3 DEF IsLooped
<1>9. IsHearing'
  <2>1. IsHeard  BY <1>1 DEF IsInv, IsHearing
  <2>2. ASSUME isM.test = "direct", len + 1 < isSize PROVE isDma'.tx.at = len + 1
    <3>1. len < isSize  BY <1>4, <2>2
    <3>2. isDma.tx.at = len  BY <2>1, <2>2, <3>1 DEF IsHeard, len
    <3>3. isDma'.tx.at = (len + 1) % isSize  BY <1>1, <2>2, <3>2
    <3>4. (len + 1) % isSize = len + 1
      <4> DEFINE a == len + 1
      <4>1. a \in Nat /\ a < isSize  BY <1>4, <2>2
      <4> HIDE DEF a
      <4>2. a % isSize = a  BY <1>4, <4>1
      <4> QED  BY <4>2 DEF a
    <3> QED  BY <3>3, <3>4
  <2>3. ASSUME isM.test # "direct" PROVE isDma'.tx.at = IsAt(len + 1)
    <3>1. isDma.tx.at = IsAt(len)  BY <2>1, <2>3 DEF IsHeard, len
    <3>2. isDma'.tx.at = IsAt(IsAt(len) + 1)  BY <1>1, <2>3, <3>1 DEF IsAt
    <3>3. len \in Int /\ 1 \in Int  BY <1>4
    <3> QED  BY <3>2, <3>3, IsAtMore
  <2>4. ASSUME ~isM.gap, NEW k \in 1 .. len + 1, k <= isSize PROVE isMem'.out[k] = k
    <3>1. CASE k \in 1 .. len
      <4>1. isMem.out[k] = k  BY <2>1, <2>4, <3>1 DEF IsHeard, len
      <4> QED  BY <1>1, <3>1, <4>1
    <3>2. CASE k = len + 1
      <4>1. len < isSize  BY <1>4, <2>4, <3>2
      <4>2. IF isM.test = "direct" THEN IsSample(isDma.tx.at) = len + 1 ELSE isMem.ring[isDma.tx.at] = len + 1
        BY <1>1, <2>4, <4>1, IsNextSample DEF len
      <4> QED  BY <1>1, <3>2, <4>2
    <3> QED  BY <1>4, <3>1, <3>2
  <2>5. IsHeard'  BY <1>1, <2>2, <2>3, <2>4 DEF IsHeard
  <2> QED  BY <2>5 DEF IsHearing
<1>10. IsFeeding'
  <2>1. SUFFICES ASSUME isM.test \in IsRings, ~isM.gap PROVE IsFed'  BY <1>1 DEF IsFeeding
  <2>2. IsFed  BY <1>1, <2>1 DEF IsInv, IsFeeding
  <2>3. len >= pcm - isRing => len + 1 >= pcm - isRing  BY <1>4
  <2>4. isM.pc \in {"run", "gap"} => len + 1 = pcm - isRing + IsAhead + 1
    <3>1. isM.pc \in {"run", "gap"} => len = pcm - isRing + IsAhead + 0  BY <1>2, <2>2 DEF IsFed, IsBit, len, pcm
    <3> QED  BY <1>4, <3>1
  <2>5. isM.pc = "drain" => len + 1 <= pcm - isRing + 1 + 1
    <3>1. isM.pc = "drain" => "tx int" \notin isFlags  BY <1>2, <1>3 DEF IsInt
    <3>2. isM.pc = "drain" => len <= pcm - isRing + 1 + 0  BY <1>2, <2>2, <3>1 DEF IsFed, IsBit, len, pcm
    <3> QED  BY <1>4, <3>2
  <2>6. IsBit(isDma'.tx.int) = 1 /\ IsBit(isDma'.tx.int \/ "tx int" \in isFlags') = 1  BY <1>1 DEF IsBit
  <2>7. IsInRing' /\ len >= pcm - isRing  BY <1>1, <2>2 DEF IsFed, IsInRing, len, pcm
  <2>8. isPos'.pcm = pcm /\ isPos.pcm = pcm  BY <1>1 DEF pcm
  <2> QED  BY <1>1, <1>3, <2>2, <2>3, <2>4, <2>5, <2>6, <2>7, <2>8 DEF IsFed
<1>11. IsCatching'
  <2>1. SUFFICES ASSUME isM.pc \in {"run", "gap"}, ~isM.gap PROVE IsCaught'  BY <1>1 DEF IsCatching
  <2>2. IsCaught  BY <2>1 DEF IsInv, IsCatching
  <2>3. isM.pc = "run" => ~(isPos.pcm >= isSize)  BY <1>2, <1>4 DEF pcm
  <2> QED  BY <1>1, <1>2, <1>3, <2>1, <2>2, <2>3 DEF IsCaught
<1>12. IsPlaying' /\ IsTaking' /\ IsRecording' /\ IsEnding'
  BY <1>1 DEF IsPlaying, IsTaking, IsRecording, IsEnding, IsRings, IsLivePc
<1> QED  BY <1>5, <1>6, <1>7, <1>8, <1>9, <1>10, <1>11, <1>12 DEF IsInv

(* ... and of the channel that receives: into the ring of a recording ...  *)
IsRecords == isM.test = "capture dma"
LEMMA IsRxTakes ==
  ASSUME IsInv, IsRxPeriod, IsRecords
  PROVE  IsInv'
<1> DEFINE len  == Len(isMem.out)
           rx   == IsMoves(isDma.rx, isRing)
           ring == [isMem.ring EXCEPT ![isDma.rx.at] = len + 1]
           out  == Append(isMem.out, 0)
<1>1. /\ IsRuns("rx") /\ isM' = isM /\ isFlags' = isFlags /\ isFifo' = isFifo /\ isPos' = isPos
      /\ isDma' = [isDma EXCEPT !.rx = rx] /\ isMem' = [isMem EXCEPT !.ring = ring, !.out = out]
  BY DEF IsRxPeriod, IsRecords
<1>2. IsDir = "rx" /\ IsDir' = "rx" /\ IsAhead' = IsAhead  BY <1>1 DEF IsDir, IsAhead, IsRecords
<1>3. /\ ~isDma.rx.int /\ isDma.rx.pages > 0 /\ isM.pc \in IsLivePc
      /\ isM.pc \in {"run", "gap"} => IsAhead <= isRing - 2
      /\ isM.pc = "run" => isPos.pcm < isSize
  <2>1. "rx" \in {"tx", "rx"}  OBVIOUS
  <2> QED  BY <1>1, <2>1, IsRunsIn
<1>4. isM.pc \in {"run", "gap", "drain"}  BY <1>3 DEF IsInv, IsUsed, IsLivePc, IsWords, IsRecords
<1>5. isMem \in IsMemType /\ isMem.ring \in [0 .. isRing - 1 -> Int] /\ isMem.out \in Seq(Int) /\ len \in Nat
  BY DEF IsInv, IsTyped, IsMemType
<1>6. rx \in IsChannelType /\ rx.int /\ rx.at = IsAt(isDma.rx.at + 1) /\ rx.pages + 1 = isDma.rx.pages
  <2>1. isRing \in Nat \ {0}  BY IsConstants
  <2> QED  BY <1>3, <2>1, IsDmaIn, IsMovesTo DEF IsAt
<1>7. out \in Seq(Int) /\ Len(out) = len + 1
  <2>1. 0 \in Int  OBVIOUS
  <2> QED  BY <1>5, <2>1, IsLenMore
<1>8. ring \in [0 .. isRing - 1 -> Int]
  <2>1. len + 1 \in Int  BY <1>5
  <2> HIDE DEF len
  <2> QED  BY <1>5, <2>1
<1> HIDE DEF rx, out, ring
<1>9. isDma' \in IsDmaType /\ isDma'.tx = isDma.tx /\ isDma'.rx = rx  BY <1>1, <1>6, IsDmaIn DEF IsDmaType
<1>10. isMem' \in IsMemType /\ isMem'.ring = ring /\ isMem'.buf = isMem.buf /\ isMem'.out = out
  BY <1>1, <1>5, <1>7, <1>8 DEF IsMemType
<1>11. IsTyped'  BY <1>1, <1>9, <1>10 DEF IsInv, IsTyped
<1>12. IsUsed'  BY <1>1, <1>3, <1>9 DEF IsInv, IsUsed, IsRecords
<1>13. IsPaged'
  <2>1. SUFFICES ASSUME isM.pc \in {"run", "gap"} PROVE IsPaged'  BY <1>1 DEF IsPaged
  <2>2. isDma.rx.pages + 0 = isRing /\ "rx" \notin isFlags  BY <1>2, <1>3, <2>1 DEF IsInv, IsPaged, IsBit
  <2>3. isDma.rx.pages \in Nat  BY IsDmaIn
  <2>4. isDma'.rx.pages + 1 = isRing  BY <1>6, <1>9, <2>2, <2>3, IsAheadIn
  <2> QED  BY <1>1, <1>2, <1>6, <1>9, <2>2, <2>4 DEF IsPaged, IsBit
<1>14. IsCatching'
  <2>1. SUFFICES ASSUME isM.pc \in {"run", "gap"}, ~isM.gap PROVE IsCaught'  BY <1>1 DEF IsCatching
  <2>2. IsCaught  BY <2>1 DEF IsInv, IsCatching
  <2>3. isM.pc = "run" => ~(isPos.pcm >= isSize)  BY <1>3, IsAheadIn
  <2> QED  BY <1>1, <1>2, <1>3, <2>1, <2>2, <2>3 DEF IsCaught
<1>15. IsRecording'
  <2>1. SUFFICES ASSUME ~isM.gap PROVE IsRecorded'  BY <1>1 DEF IsRecording
  <2>2. IsRecorded  BY <1>4, <2>1 DEF IsInv, IsRecording, IsRecords
  <2>3. ASSUME isM.pc # "drain"
        PROVE  isDma'.rx.at = IsAt(len + 1) /\ IsCame' /\ len + 1 = isPos.pcm + IsAhead + IsBit(isDma'.rx.int)
    <3>1. isDma.rx.at = IsAt(len) /\ IsCame /\ len = isPos.pcm + IsAhead + 0  BY <1>3, <2>2, <2>3 DEF IsRecorded, IsBit
    <3>2. isDma'.rx.at = IsAt(len + 1)
      <4>1. len \in Int /\ 1 \in Int  BY <1>5
      <4>2. IsAt(IsAt(len) + 1) = IsAt(len + 1)
        <5> HIDE DEF len
        <5> QED  BY <4>1, IsAtMore
      <4>3. isDma'.rx.at = IsAt(isDma.rx.at + 1)  BY <1>6, <1>9
      <4>4. IsAt(isDma.rx.at + 1) = IsAt(IsAt(len) + 1)  BY <3>1
      <4> QED  BY <4>2, <4>3, <4>4
    <3>3. IsCame'
      <4> DEFINE all == len + 1
      <4>1. Len(isMem'.out) = all /\ isMem'.ring = ring  BY <1>7, <1>10
      <4>2. SUFFICES ASSUME NEW q \in Nat, all - isRing <= q, q < all PROVE ring[IsAt(q)] = q + 1
        <5> HIDE DEF all, len
        <5> QED  BY <4>1 DEF IsCame
      <4>3. q \in Int /\ IsAt(q) \in 0 .. isRing - 1 /\ DOMAIN isMem.ring = 0 .. isRing - 1
        <5>1. q \in Int  OBVIOUS
        <5>2. IsAt(q) \in 0 .. isRing - 1  BY <5>1, IsAtIn
        <5> QED  BY <1>5, <5>1, <5>2
      <4>4. ring = [isMem.ring EXCEPT ![IsAt(len)] = len + 1]  BY <3>1 DEF ring
      <4>5. CASE q = len
        <5> HIDE DEF len
        <5> QED  BY <4>3, <4>4, <4>5
      <4>6. CASE q # len
        <5>1. len - isRing <= q /\ q < len /\ len < q + isRing /\ q <= len /\ len \in Int
          <6> HIDE DEF len
          <6> QED  BY <1>5, <4>2, <4>6, IsAheadIn
        <5>2. IsAt(q) # IsAt(len)
          <6> HIDE DEF len
          <6> QED  BY <4>3, <4>6, <5>1, IsAtApart
        <5>3. isMem.ring[IsAt(q)] = q + 1  BY <3>1, <5>1 DEF IsCame
        <5> HIDE DEF len
        <5> QED  BY <4>3, <4>4, <5>2, <5>3
      <4> QED  BY <4>5, <4>6
    <3>4. IsBit(isDma'.rx.int) = 1  BY <1>6, <1>9 DEF IsBit
    <3>5. len + 1 = isPos.pcm + IsAhead + 1
      <4> HIDE DEF len
      <4> QED  BY <1>5, <3>1, IsAheadIn
    <3> QED  BY <3>2, <3>3, <3>4, <3>5
  <2>4. Len(isMem'.out) = len + 1  BY <1>7, <1>10
  <2> QED  BY <1>1, <1>2, <1>10, <2>2, <2>3, <2>4 DEF IsRecorded
<1>16. IsPlaying' /\ IsTaking' /\ IsLooping' /\ IsHearing' /\ IsFeeding' /\ IsEnding'
  BY <1>1, <1>3 DEF IsPlaying, IsTaking, IsLooping, IsHearing, IsFeeding, IsEnding, IsRings, IsLivePc, IsRecords
<1> QED  BY <1>11, <1>12, <1>13, <1>14, <1>15, <1>16 DEF IsInv

(* ... or behind what a loop-back has received.                            *)
LEMMA IsRxLoops ==
  ASSUME IsInv, IsRxPeriod, ~IsRecords
  PROVE  IsInv'
<1> DEFINE len  == Len(isMem.out)
           n    == Len(isMem.buf)
           word == isMem.out[n + 1]
           rx   == IsMoves(isDma.rx, isSize)
           buf  == Append(isMem.buf, word)
<1>1. /\ IsRuns("rx") /\ isM' = isM /\ isFlags' = isFlags /\ isFifo' = isFifo /\ isPos' = isPos /\ len > n
      /\ isDma' = [isDma EXCEPT !.rx = rx] /\ isMem' = [isMem EXCEPT !.buf = buf]
  BY DEF IsRxPeriod, IsRecords
<1>2. ~isDma.rx.int /\ isDma.rx.pages > 0 /\ isM.pc \in IsLivePc /\ isDma.rx.on
  <2>1. "rx" \in {"tx", "rx"}  OBVIOUS
  <2> QED  BY <1>1, <2>1, IsRunsIn
<1>3. isM.test \in {"direct", "ring"} /\ isM.pc \in {"wait", "run", "gap"}
  BY <1>2, IsDmaIn DEF IsInv, IsUsed, IsLivePc, IsRecords
<1>4. IsDir = "tx" /\ IsDir' = "tx" /\ IsAhead' = IsAhead  BY <1>1, <1>3 DEF IsDir, IsAhead
<1>5. isMem \in IsMemType /\ isMem.out \in Seq(Int) /\ isMem.buf \in Seq(Int) /\ len \in Nat /\ n \in Nat
  BY DEF IsInv, IsTyped, IsMemType
<1>6. rx \in IsChannelType /\ rx.int /\ rx.pages + 1 = isDma.rx.pages
  <2>1. isSize \in Nat \ {0}  BY IsConstants
  <2> QED  BY <1>2, <2>1, IsDmaIn, IsMovesTo
<1>7. n + 1 \in 1 .. len /\ word \in Int
  <2>1. n + 1 \in 1 .. len
    <3> HIDE DEF len, n
    <3> QED  BY <1>1, <1>5
  <2> QED  BY <1>5, <2>1
<1>8. buf \in Seq(Int) /\ Len(buf) = n + 1
  <2> HIDE DEF word
  <2> QED  BY <1>5, <1>7, IsLenMore
<1>9. IsLooped  BY <1>3 DEF IsInv, IsLooping
<1>10. isDma.rx.pages + n = isSize /\ len <= n + 1 /\ ("rx" \notin isFlags) /\ n + 1 <= isSize
  <2>1. isDma.rx.pages + n = isSize /\ len <= n + 1 /\ ("rx" \in isFlags => n = isSize)  BY <1>9 DEF IsLooped
  <2>2. isDma.rx.pages \in Nat  BY IsDmaIn
  <2> HIDE DEF len, n
  <2> QED  BY <1>2, <1>5, <2>1, <2>2, IsConstants
<1>11. ~isM.gap => IsFrom(buf, 0)
  <2>1. SUFFICES ASSUME ~isM.gap PROVE IsFrom(buf, 0)  OBVIOUS
  <2>2. IsHeard  BY <1>2, <1>3 DEF IsInv, IsHearing, IsRings
  <2>3. word = n + 1  BY <1>7, <1>10, <2>1, <2>2 DEF IsHeard
  <2>4. IsFrom(isMem.buf, 0) /\ 0 \in Int  BY <1>9, <2>1 DEF IsLooped
  <2>5. word = 0 + Len(isMem.buf) + 1  BY <1>5, <2>3
  <2> HIDE DEF word
  <2> QED  BY <1>5, <1>7, <2>4, <2>5, IsFromMore
<1> HIDE DEF rx, buf
<1>12. isDma' \in IsDmaType /\ isDma'.tx = isDma.tx /\ isDma'.rx = rx  BY <1>1, <1>6, IsDmaIn DEF IsDmaType
<1>13. isMem' \in IsMemType /\ isMem'.ring = isMem.ring /\ isMem'.buf = buf /\ isMem'.out = isMem.out
  BY <1>1, <1>5, <1>8 DEF IsMemType
<1>14. IsTyped'  BY <1>1, <1>12, <1>13 DEF IsInv, IsTyped
<1>15. IsUsed'  BY <1>1, <1>2, <1>3, <1>12 DEF IsInv, IsUsed
<1>16. IsPaged'
  <2>1. isDma'[IsDir'] = isDma[IsDir]  BY <1>4, <1>12
  <2> QED  BY <1>1, <1>4, <2>1 DEF IsInv, IsPaged
<1>17. IsLooping'
  <2>1. isDma'.rx.pages + (n + 1) = isSize /\ len >= n + 1 /\ len <= (n + 1) + 1
    <3>1. isDma'.rx.pages + 1 = isDma.rx.pages /\ isDma'.rx.pages \in Nat /\ len > n  BY <1>1, <1>6, <1>12 DEF IsChannelType
    <3> DEFINE p == isDma.rx.pages
               r == isDma'.rx.pages
    <3>2. r + 1 = p /\ r \in Nat /\ len > n /\ p + n = isSize /\ len <= n + 1 /\ isSize \in Nat  BY <1>10, <3>1, IsConstants
    <3>3. p \in Nat  BY IsDmaIn
    <3> HIDE DEF len, n, p
    <3>4. r + (n + 1) = isSize /\ len >= n + 1 /\ len <= (n + 1) + 1
      <4> HIDE DEF r
      <4> QED  BY <1>5, <3>2, <3>3
    <3> QED  BY <3>4
  <2>2. Len(isMem'.buf) = n + 1 /\ Len(isMem'.out) = len  BY <1>8, <1>13
  <2> HIDE DEF len, n
  <2> QED  BY <1>1, <1>10, <1>11, <1>13, <2>1, <2>2 DEF IsLooping, IsLooped
<1>18. IsHearing'  BY <1>1, <1>12, <1>13 DEF IsInv, IsHearing, IsHeard
<1>19. IsFeeding'  BY <1>1, <1>4, <1>12, <1>13 DEF IsInv, IsFeeding, IsFed, IsInRing
<1>20. IsCatching'
  <2>1. isDma'[IsDir'] = isDma[IsDir]  BY <1>4, <1>12
  <2> QED  BY <1>1, <1>4, <2>1 DEF IsInv, IsCatching, IsCaught
<1>21. IsPlaying' /\ IsTaking' /\ IsRecording' /\ IsEnding'
  BY <1>1, <1>3 DEF IsPlaying, IsTaking, IsRecording, IsEnding
<1> QED  BY <1>14, <1>15, <1>16, <1>17, <1>18, <1>19, <1>20, <1>21 DEF IsInv

LEMMA IsNextStep == IsInv /\ [IsStep]_isVars => IsInv'
<1>1. ASSUME IsInv, IsStep PROVE IsInv'
  BY <1>1, IsLoopKey, IsPlayKey, IsDirectKey, IsRingKey, IsCaptureKey, IsSeesKeeps, IsAccessKeeps, IsCopiedKeeps, IsDrainedKeeps,
     IsWaitedKeeps, IsMenuKeeps, IsPlayIsrKeeps, IsCaptureIsrKeeps, IsLoopbackIsrKeeps, IsWordKeeps, IsCompleteKeeps, IsPageKeeps,
     IsFunKeeps, IsTxKeeps, IsRxTakes, IsRxLoops DEF IsStep
<1>2. ASSUME IsInv, UNCHANGED isVars PROVE IsInv'
  <2>1. isM' = isM /\ isFlags' = isFlags /\ isPos' = isPos /\ isMem' = isMem /\ isDma' = isDma /\ isFifo' = isFifo
    BY <1>2 DEF isVars
  <2>2. IsDir' = IsDir /\ IsAhead' = IsAhead  BY <2>1 DEF IsDir, IsAhead
  <2>3. IsTyped' /\ IsUsed' /\ IsPaged'  BY <1>2, <2>1, <2>2 DEF IsInv, IsTyped, IsUsed, IsPaged
  <2>4. IsPlaying' /\ IsTaking'  BY <1>2, <2>1 DEF IsInv, IsPlaying, IsPlayed, IsTaking, IsTook, IsKept
  <2>5. IsLooping' /\ IsHearing'  BY <1>2, <2>1 DEF IsInv, IsLooping, IsLooped, IsHearing, IsHeard
  <2>6. IsFeeding'  BY <1>2, <2>1, <2>2 DEF IsInv, IsFeeding, IsFed, IsInRing
  <2>7. IsCatching'  BY <1>2, <2>1, <2>2 DEF IsInv, IsCatching, IsCaught
  <2>8. IsRecording'  BY <1>2, <2>1, <2>2 DEF IsInv, IsRecording, IsRecorded, IsCame
  <2>9. IsEnding'  BY <1>2, <2>1 DEF IsInv, IsEnding, IsToldAll
  <2> QED  BY <2>3, <2>4, <2>5, <2>6, <2>7, <2>8, <2>9 DEF IsInv
<1> QED  BY <1>1, <1>2

LEMMA IsBegins == ASSUME NEW pc \in {"off", "idle"}, IsStart(pc) PROVE IsInv
<1>1. /\ isM = [pc |-> pc, test |-> "none", err |-> 0, gap |-> FALSE, tests |-> isTests]
      /\ isFlags = {} /\ isPos = [pcm |-> 0, ring |-> 0, dma |-> 0]
      /\ isMem = [ring |-> [k \in 0 .. isRing - 1 |-> 0], out |-> <<>>, buf |-> <<>>]
      /\ isDma = [tx |-> IsOff, rx |-> IsOff] /\ isFifo = [tx |-> <<>>, rx |-> <<>>, run |-> FALSE]
  BY DEF IsStart
<1>2. isM.pc = pc /\ isDma.tx = IsOff /\ isDma.rx = IsOff /\ ~isFifo.run  BY <1>1
<1>3. IsTyped
  <2>1. <<>> \in Seq(Int) /\ isRing \in Nat /\ isRing >= 1 /\ isTests \in Nat  BY EmptySeq, IsConstants
  <2>2. isM \in IsMType
    <3> DEFINE pcs == {"off", "idle", "end"} \cup IsLivePc
               all == {"none", "direct", "capture dma"} \cup IsRings \cup IsWords
    <3>1. pc \in pcs /\ "none" \in all  OBVIOUS
    <3>2. IsMType = [pc : pcs, test : all, err : Int, gap : BOOLEAN, tests : Nat]  BY DEF IsMType
    <3> HIDE DEF pcs, all
    <3> QED  BY <1>1, <2>1, <3>1, <3>2
  <2>3. isPos \in IsPosType /\ isMem \in IsMemType /\ isFifo \in IsFifoType
    BY <1>1, <2>1 DEF IsPosType, IsMemType, IsFifoType
  <2>4. isDma \in IsDmaType  BY <1>1 DEF IsDmaType, IsOff, IsChannelType
  <2> QED  BY <2>2, <2>3, <2>4 DEF IsTyped
<1>4. IsUsed  BY <1>1, <1>2 DEF IsUsed
<1>5. IsPaged /\ IsPlaying /\ IsTaking /\ IsLooping /\ IsHearing /\ IsFeeding /\ IsCatching /\ IsRecording /\ IsEnding
  BY <1>2 DEF IsPaged, IsPlaying, IsTaking, IsLooping, IsHearing, IsFeeding, IsCatching, IsRecording, IsEnding, IsLivePc
<1> QED  BY <1>3, <1>4, <1>5 DEF IsInv

LEMMA IsCounts == ASSUME NEW s \in Seq(Int) PROVE IsFrom(s, 0) => IsOrdered(s)
<1>1. DOMAIN s = 1 .. Len(s) /\ Len(s) \in Nat  OBVIOUS
<1>2. \A k \in 1 .. Len(s) : 0 + k = k  BY <1>1
<1> QED  BY <1>1, <1>2 DEF IsFrom, IsOrdered

LEMMA IsInvRight == IsInv => I2sRight
<1> SUFFICES ASSUME IsInv PROVE I2sRight
  OBVIOUS
<1>1. isM.test \in {"none", "direct", "capture dma", "ring", "play dma", "function", "loop", "play", "capture"}
  BY DEF IsInv, IsTyped, IsMType, IsRings, IsWords
<1>2. (IsFrom(isMem.out, 0) => IsOrdered(isMem.out)) /\ (IsFrom(isMem.buf, 0) => IsOrdered(isMem.buf))
  BY IsCounts DEF IsInv, IsTyped, IsMemType
<1>3. ASSUME isM.pc = "end", ~isM.gap
      PROVE  CASE isM.test \in {"play dma", "function"} -> IsOrdered(isMem.out) /\ Len(isMem.out) \in isSize - isRing .. isSize
               [] isM.test = "play" -> IsOrdered(isMem.out) /\ Len(isMem.out) \in isSize - isDepth + 1 .. isSize
               [] isM.test = "capture dma" -> IsOrdered(isMem.buf) /\ Len(isMem.buf) >= isSize
               [] OTHER -> isM.err = 0 => IsOrdered(isMem.buf) /\ Len(isMem.buf) = isSize
  <2>1. IsToldAll  BY <1>3 DEF IsInv, IsEnding
  <2>2. CASE isM.test \in {"play dma", "function"}  BY <1>2, <2>1, <2>2 DEF IsToldAll
  <2>3. CASE isM.test = "play"  BY <1>2, <2>1, <2>3 DEF IsToldAll
  <2>4. CASE isM.test = "capture dma"  BY <1>2, <2>1, <2>4 DEF IsToldAll
  <2>5. CASE isM.test \in {"loop", "capture", "direct", "ring"}
    <3>1. isM.err = 0 => IsOrdered(isMem.buf) /\ Len(isMem.buf) = isSize  BY <1>2, <2>1, <2>5 DEF IsToldAll
    <3> QED  BY <2>5, <3>1
  <2>6. isM.test # "none"  BY <2>1 DEF IsToldAll
  <2> QED  BY <1>1, <2>2, <2>3, <2>4, <2>5, <2>6
<1>4. ASSUME isM.pc \in {"run", "drain"}, isPos.pcm < isSize PROVE isDma[IsDir].int \/ isDma[IsDir].pages > 0
  <2>1. isM.pc = "run"
    <3>1. isM.pc = "drain" => isPos.pcm >= isSize  BY DEF IsInv, IsUsed
    <3> QED  BY <1>4, <3>1, IsAheadIn
  <2>2. isDma[IsDir].pages + IsBit(isDma[IsDir].int) = isRing  BY <2>1 DEF IsInv, IsPaged
  <2>3. IsDir \in {"tx", "rx"}  BY DEF IsDir
  <2>4. isDma[IsDir].pages \in Nat  BY <2>3, IsDmaIn
  <2> QED  BY <2>2, <2>4, IsAheadIn DEF IsBit
<1> QED  BY <1>3, <1>4 DEF I2sRight

-----------------------------------------------------------------------------
(* The NOR flash.  Once a sector has been found erased the flash is idle,  *)
(* and after that it does only what the test has told it: so every unit is *)
(* programmed where the sector is erased, and what is pending when a test  *)
(* ends with an error is within the sectors of the test.                   *)
NrInSector == {"erase", "reset", "verify", "program", "poll"}
NrLive == NrInSector \cup {"check", "end"}
NrTyped ==
  /\ nrM \in [pc : {"off", "idle"} \cup NrLive, test : {"none", "rw", "write", "erase", "all"}, sector : Int, end : Int, at : Int,
              offset : Int, data : Int, temp : {nrM.temp}, polls : Int, ret : Int, left : Int]
  /\ nrMode \in {1, 2}
  /\ nrChip \in [busy : {"no", "erase", "program", "stuck"}, set : SUBSET NrAll, at : Int, data : Int]
  /\ nrWas \in [cells : {nrWas.cells}, busy : BOOLEAN, from : Int]
NrFilled ==
  /\ nrM.pc # "off" => nrCells \in [NrAll -> Int]
  /\ nrChip.busy \in {"program", "stuck"} => nrChip.at \in NrAll
  /\ nrM.pc = "off" => nrChip.busy = "no"
(* The sectors of a test, and the one it has come to.                      *)
NrTestSectors == {a \in NrAll : NrSectorOf(a) \in nrWas.from .. nrM.end}
NrBounds ==
  /\ nrM.pc \in NrInSector =>
       /\ nrM.test \in {"rw", "write", "erase"}
       /\ nrWas.from \in Nat /\ nrWas.from <= nrM.sector /\ nrM.sector <= nrM.end /\ nrM.end < FLASH_TOTAL_SEC_NUM
       /\ nrM.test # "rw" => nrWas.from = nrM.end
  /\ nrM.pc \in {"program", "poll"} => nrM.at \in NrUnits(nrM.sector) /\ nrM.test # "erase"
  /\ nrM.pc = "check" => nrM.test = "all"
(* The copy is of what the sector held, but for what is written.           *)
NrCopied == nrM.pc \in NrInSector \cup {"end"} /\ nrM.test = "write" /\ (nrM.pc = "end" => nrM.ret = 0) =>
  /\ nrM.temp \in [NrUnits(nrM.sector) -> Int] /\ nrM.offset \in NrUnits(nrM.sector)
  /\ nrM.temp[nrM.offset] = nrM.data
  /\ ~nrWas.busy => \A a \in NrUnits(nrM.sector) \ {nrM.offset} : nrM.temp[a] = nrWas.cells[a]
(* What is to be in the units of the sector.                               *)
NrWanted(a) == IF nrM.test = "rw" THEN NrPattern(nrM.sector, a) ELSE nrM.temp[a]
NrKnown == ~nrWas.busy \/ nrM.sector > nrWas.from
NrObeys ==
  /\ nrM.pc = "erase" /\ NrKnown => nrChip.busy = "no"
  /\ nrM.pc \in {"reset", "verify"} /\ NrKnown => nrChip.busy = "no" \/ (nrChip.busy = "erase" /\ nrChip.set \subseteq NrUnits(nrM.sector))
  /\ nrM.pc = "program" => nrChip.busy = "no"
  /\ nrM.pc = "poll" =>
       \/ nrChip.busy = "no" /\ nrCells[nrM.at] = NrWanted(nrM.at)
       \/ nrChip.busy \in {"program", "stuck"} /\ nrChip.at = nrM.at /\ nrChip.data = NrWanted(nrM.at) /\ nrCells[nrM.at] = NrErased
  /\ nrM.pc = "end" /\ nrM.ret = 0 => nrChip.busy = "no"
  /\ nrM.pc = "end" /\ ~nrWas.busy /\ nrM.test # "all" =>
       /\ nrChip.busy = "erase" => nrChip.set \subseteq NrTestSectors
       /\ nrChip.busy \in {"program", "stuck"} => nrChip.at \in NrTestSectors
(* What the sectors and those before it hold.                              *)
NrBehind == nrM.pc \in NrInSector /\ nrM.test = "rw" =>
  \A a \in NrAll : nrWas.from <= NrSectorOf(a) /\ NrSectorOf(a) < nrM.sector => nrCells[a] = NrPattern(NrSectorOf(a), a)
NrWithin == nrM.pc \in {"program", "poll"} => \A a \in NrUnits(nrM.sector) :
  /\ a < nrM.at => nrCells[a] = NrWanted(a)
  /\ a > nrM.at \/ (a = nrM.at /\ nrM.pc = "program") => nrCells[a] = NrErased
NrOutside == nrM.pc \in NrInSector \cup {"end"} /\ nrM.test # "all" /\ ~nrWas.busy =>
  \A a \in NrAll \ NrTestSectors : nrCells[a] = nrWas.cells[a]
NrInv == /\ NrTyped /\ NrFilled /\ NrBounds /\ NrCopied /\ NrObeys /\ NrBehind /\ NrWithin /\ NrOutside /\ NorRight

LEMMA NrConstants == /\ nrSec \in Nat /\ nrSize \in Nat /\ nrSec >= 16 /\ nrSec < nrSize
                     /\ \E n \in Nat : n >= 2 /\ nrSec = 8 * n /\ nrSec \div 8 = n /\ n % 2 = 0
                     /\ \E n \in Nat : n >= 2 /\ nrSize = nrSec * n /\ FLASH_TOTAL_SEC_NUM = n + 7
<1>1. nrSec \in Nat /\ nrSize \in Nat /\ nrSec # 0 /\ nrSec % 16 = 0 /\ nrSize % nrSec = 0 /\ nrSec < nrSize  BY NrAssumption
<1>2. nrSec >= 16  BY <1>1
<1>3. \E n \in Nat : n >= 2 /\ nrSec = 8 * n /\ nrSec \div 8 = n /\ n % 2 = 0
  <2> DEFINE n == nrSec \div 8
  <2>1. n \in Nat /\ n >= 2 /\ nrSec = 8 * n /\ n % 2 = 0  BY <1>1
  <2> HIDE DEF n
  <2> QED  BY <2>1 DEF n
<1> DEFINE m == nrSize \div nrSec
<1>4. m \in Nat /\ nrSize = nrSec * m  BY <1>1
<1>5. m # 0 /\ m # 1  BY <1>1, <1>4
<1>6. FLASH_TOTAL_SEC_NUM = m + 7  BY DEF FLASH_TOTAL_SEC_NUM
<1> HIDE DEF m
<1>7. m >= 2  BY <1>4, <1>5
<1> QED  BY <1>1, <1>2, <1>3, <1>4, <1>6, <1>7

LEMMA NrDivIs == ASSUME NEW n \in Nat, NEW d \in Nat \ {0}, NEW q \in Nat, d * q <= n, n < d * q + d
                 PROVE  n \div d = q
<1> DEFINE p == n \div d
<1>1. p \in Nat /\ d * p <= n /\ n < d * p + d  OBVIOUS
<1> HIDE DEF p
<1>2. p < q + 1
  <2> SUFFICES ASSUME p >= q + 1 PROVE FALSE  BY <1>1
  <2>1. PICK r \in Nat : p = q + 1 + r  BY <1>1
  <2>2. d * p = d * q + d + d * r /\ d * r >= 0  BY <2>1
  <2> QED  BY <1>1, <2>2
<1>3. q < p + 1
  <2> SUFFICES ASSUME q >= p + 1 PROVE FALSE  BY <1>1
  <2>1. PICK r \in Nat : q = p + 1 + r  BY <1>1
  <2>2. d * q = d * p + d + d * r /\ d * r >= 0  BY <1>1, <2>1
  <2> QED  BY <1>1, <2>2
<1> QED  BY <1>1, <1>2, <1>3 DEF p

(* A sector lies within the flash, and its units are those whose sector    *)
(* it is.                                                                  *)
LEMMA NrSectorShape ==
  ASSUME NEW s \in Nat, s < FLASH_TOTAL_SEC_NUM
  PROVE  /\ NrFirst(s) \in Nat /\ NrLength(s) \in Nat /\ NrLength(s) >= 2 /\ NrFirst(s) % 2 = 0 /\ NrLength(s) % 2 = 0
         /\ NrFirst(s) + NrLength(s) <= nrSize
<1>1. PICK n \in Nat : n >= 2 /\ nrSec = 8 * n /\ nrSec \div 8 = n /\ n % 2 = 0  BY NrConstants
<1>2. PICK m \in Nat : m >= 2 /\ nrSize = nrSec * m /\ FLASH_TOTAL_SEC_NUM = m + 7  BY NrConstants
<1>3. PICK h \in Nat : n = 2 * h  BY <1>1
<1>4. CASE s < 8
  <2>1. NrFirst(s) = n * s /\ NrLength(s) = n  BY <1>1, <1>4 DEF NrFirst, NrLength, NrSmall
  <2>2. n * s = 2 * (h * s) /\ h * s \in Nat  BY <1>3
  <2>3. n * s + n <= 8 * n
    <3>1. s \in 0 .. 7  BY <1>4
    <3> QED  BY <3>1
  <2>4. 8 * n <= nrSize  BY <1>1, NrConstants
  <2> DEFINE f == n * s
  <2>5. f \in Nat /\ f % 2 = 0 /\ f + n <= nrSize
    <3>1. nrSize \in Nat  BY NrConstants
    <3> QED  BY <1>1, <2>2, <2>3, <2>4, <3>1
  <2> HIDE DEF f
  <2>6. NrFirst(s) = f /\ NrLength(s) = n  BY <2>1 DEF f
  <2> QED  BY <1>1, <2>5, <2>6
<1>5. CASE s >= 8
  <2>1. NrFirst(s) = nrSec * (s - 7) /\ NrLength(s) = nrSec  BY <1>5 DEF NrFirst, NrLength, NrSmall
  <2>2. PICK t \in Nat : s = t + 7 /\ t + 1 <= m  BY <1>2, <1>5
  <2>3. PICK r \in Nat : m = t + 1 + r  BY <2>2
  <2>4. nrSec * m = nrSec * t + nrSec + nrSec * r /\ nrSec * r >= 0 /\ nrSec \in Nat  BY <2>3, NrConstants
  <2>5. nrSec * t = 2 * (8 * h * t) /\ 8 * h * t \in Nat  BY <1>1, <1>3
  <2>6. s - 7 = t  BY <2>2
  <2> QED  BY <1>1, <1>2, <2>1, <2>4, <2>5, <2>6
<1> QED  BY <1>4, <1>5

LEMMA NrUnitsIn ==
  ASSUME nrMode \in {1, 2}, NEW s \in Nat, s < FLASH_TOTAL_SEC_NUM, NEW a \in NrUnits(s)
  PROVE  a \in NrAll /\ NrSectorOf(a) = s
<1>1. a \in NrAll /\ a \in Nat /\ a >= NrFirst(s) /\ a < NrFirst(s) + NrLength(s)  BY DEF NrUnits, NrAll
<1>2. PICK n \in Nat : n >= 2 /\ nrSec = 8 * n /\ nrSec \div 8 = n /\ n % 2 = 0  BY NrConstants
<1>3. CASE s < 8
  <2>1. NrFirst(s) = n * s /\ NrLength(s) = n  BY <1>2, <1>3 DEF NrFirst, NrLength, NrSmall
  <2>2. n * s <= a /\ a < n * s + n  BY <1>1, <2>1
  <2>3. n * s + n <= 8 * n
    <3>1. s \in 0 .. 7  BY <1>3
    <3> QED  BY <3>1
  <2>4. a < nrSec  BY <1>1, <1>2, <2>2, <2>3
  <2>5. a \div n = s  BY <1>1, <1>2, <2>2, NrDivIs
  <2> QED  BY <1>1, <1>2, <2>4, <2>5 DEF NrSectorOf
<1>4. CASE s >= 8
  <2>1. NrFirst(s) = nrSec * (s - 7) /\ NrLength(s) = nrSec  BY <1>4 DEF NrFirst, NrLength, NrSmall
  <2>2. PICK t \in Nat : s = t + 7 /\ t >= 1  BY <1>4
  <2>3. s - 7 = t  BY <2>2
  <2>4. nrSec * t <= a /\ a < nrSec * t + nrSec  BY <1>1, <2>1, <2>3
  <2>5. nrSec \in Nat \ {0}  BY NrConstants
  <2>6. a \div nrSec = t  BY <1>1, <2>2, <2>4, <2>5, NrDivIs
  <2>7. nrSec * t >= nrSec  BY <2>2, <2>5
  <2>8. ~(a < nrSec)  BY <1>1, <2>4, <2>5, <2>7
  <2> QED  BY <1>1, <2>2, <2>6, <2>8 DEF NrSectorOf
<1> QED  BY <1>3, <1>4

LEMMA NrUnitsAll ==
  ASSUME NEW a \in 0 .. nrSize - 1
  PROVE  /\ NrSectorOf(a) \in Nat /\ NrSectorOf(a) < FLASH_TOTAL_SEC_NUM
         /\ a >= NrFirst(NrSectorOf(a)) /\ a < NrFirst(NrSectorOf(a)) + NrLength(NrSectorOf(a))
<1>1. PICK n \in Nat : n >= 2 /\ nrSec = 8 * n /\ nrSec \div 8 = n /\ n % 2 = 0  BY NrConstants
<1>2. PICK m \in Nat : m >= 2 /\ nrSize = nrSec * m /\ FLASH_TOTAL_SEC_NUM = m + 7  BY NrConstants
<1>3. a \in Nat /\ a < nrSize /\ nrSec \in Nat \ {0}  BY NrConstants
<1>4. CASE a < nrSec
  <2> DEFINE s == a \div n
  <2>1. s \in Nat /\ n * s <= a /\ a < n * s + n  BY <1>1, <1>3
  <2>2. NrSectorOf(a) = s  BY <1>1, <1>4 DEF NrSectorOf
  <2> HIDE DEF s
  <2>3. s < 8
    <3> SUFFICES ASSUME s >= 8 PROVE FALSE  BY <2>1
    <3>1. PICK r \in Nat : s = 8 + r  BY <2>1
    <3>2. n * s = 8 * n + n * r /\ n * r >= 0  BY <3>1
    <3> QED  BY <1>1, <1>3, <1>4, <2>1, <3>2
  <2>4. NrFirst(s) = n * s /\ NrLength(s) = n  BY <1>1, <2>3 DEF NrFirst, NrLength, NrSmall
  <2> QED  BY <1>2, <2>1, <2>2, <2>3, <2>4
<1>5. CASE a >= nrSec
  <2> DEFINE t == a \div nrSec
  <2>1. t \in Nat /\ nrSec * t <= a /\ a < nrSec * t + nrSec  BY <1>3
  <2>2. NrSectorOf(a) = t + 7  BY <1>3, <1>5 DEF NrSectorOf
  <2> HIDE DEF t
  <2>3. t # 0  BY <1>3, <1>5, <2>1
  <2>4. t < m
    <3> SUFFICES ASSUME t >= m PROVE FALSE  BY <1>2, <2>1
    <3>1. PICK r \in Nat : t = m + r  BY <2>1
    <3>2. nrSec * t = nrSec * m + nrSec * r /\ nrSec * r >= 0  BY <1>3, <3>1
    <3> QED  BY <1>2, <1>3, <2>1, <3>2
  <2>5. NrFirst(t + 7) = nrSec * t /\ NrLength(t + 7) = nrSec
    <3> DEFINE s == t + 7
    <3>1. ~(s < 8) /\ s - 7 = t  BY <2>1, <2>3
    <3> HIDE DEF s
    <3>2. NrFirst(s) = nrSec * t /\ NrLength(s) = nrSec  BY <3>1 DEF NrFirst, NrLength, NrSmall
    <3> QED  BY <3>2 DEF s
  <2> QED  BY <1>2, <2>1, <2>2, <2>4, <2>5
<1> QED  BY <1>3, <1>4, <1>5

LEMMA NrSectorUnits ==
  ASSUME nrMode \in {1, 2}
  PROVE  /\ \A s \in Nat : s < FLASH_TOTAL_SEC_NUM => NrUnits(s) = {a \in NrAll : NrSectorOf(a) = s}
         /\ \A a \in NrAll : a \in Nat /\ NrSectorOf(a) \in Nat /\ NrSectorOf(a) < FLASH_TOTAL_SEC_NUM
<1>1. \A a \in NrAll : a \in 0 .. nrSize - 1  BY DEF NrAll
<1>2. ASSUME NEW a \in NrAll
      PROVE  /\ NrSectorOf(a) \in Nat /\ NrSectorOf(a) < FLASH_TOTAL_SEC_NUM
             /\ a \in NrUnits(NrSectorOf(a))
  BY <1>1, NrUnitsAll DEF NrUnits
<1>3. ASSUME NEW s \in Nat, s < FLASH_TOTAL_SEC_NUM PROVE NrUnits(s) = {a \in NrAll : NrSectorOf(a) = s}
  <2>1. \A a \in NrUnits(s) : a \in NrAll /\ NrSectorOf(a) = s  BY <1>3, NrUnitsIn
  <2>2. \A a \in NrAll : NrSectorOf(a) = s => a \in NrUnits(s)  BY <1>2
  <2> QED  BY <2>1, <2>2
<1> QED  BY <1>1, <1>2, <1>3

(* The units of a sector, one after the other.                             *)
LEMMA NrUnitFirst ==
  ASSUME nrMode \in {1, 2}, NEW s \in Nat, s < FLASH_TOTAL_SEC_NUM
  PROVE  NrFirst(s) \in NrUnits(s) /\ NrFirst(s) \in Nat /\ \A a \in NrUnits(s) : a \in Nat /\ a >= NrFirst(s)
<1>1. /\ NrFirst(s) \in Nat /\ NrLength(s) \in Nat /\ NrLength(s) >= 2 /\ NrFirst(s) % 2 = 0
      /\ NrFirst(s) + NrLength(s) <= nrSize /\ nrSize \in Nat
  BY NrSectorShape, NrConstants
<1> DEFINE f == NrFirst(s)
           l == NrLength(s)
<1>2. f \in Nat /\ l \in Nat /\ l >= 2 /\ f % 2 = 0 /\ f + l <= nrSize /\ nrSize \in Nat  BY <1>1
<1> HIDE DEF f, l
<1>3. f \in 0 .. nrSize - 1 /\ f < f + l  BY <1>2
<1>4. f % nrMode = 0
  <2>1. CASE nrMode = 1  BY <1>2, <2>1
  <2>2. CASE nrMode = 2  BY <1>2, <2>2
  <2> QED  BY <2>1, <2>2
<1>5. \A a \in NrUnits(s) : a \in Nat /\ a >= f  BY DEF NrUnits, NrAll, f
<1> QED  BY <1>2, <1>3, <1>4, <1>5 DEF f, l, NrUnits, NrAll

LEMMA NrUnitNext ==
  ASSUME nrMode \in {1, 2}, NEW s \in Nat, s < FLASH_TOTAL_SEC_NUM, NEW u \in NrUnits(s)
  PROVE  /\ u + nrMode < NrFirst(s) + NrLength(s) =>
              u + nrMode \in NrUnits(s) /\ \A a \in NrUnits(s) : a < u + nrMode => a < u \/ a = u
         /\ ~(u + nrMode < NrFirst(s) + NrLength(s)) => \A a \in NrUnits(s) : a < u \/ a = u
<1>1. /\ NrFirst(s) \in Nat /\ NrLength(s) \in Nat /\ NrLength(s) % 2 = 0 /\ NrFirst(s) % 2 = 0
      /\ NrFirst(s) + NrLength(s) <= nrSize /\ nrSize \in Nat
  BY NrSectorShape, NrConstants
<1> DEFINE f == NrFirst(s)
           l == NrLength(s)
<1>2. f \in Nat /\ l \in Nat /\ l % 2 = 0 /\ f % 2 = 0 /\ f + l <= nrSize /\ nrSize \in Nat  BY <1>1
<1>3. \A a : a \in NrUnits(s) <=> a \in 0 .. nrSize - 1 /\ a % nrMode = 0 /\ a >= f /\ a < f + l  BY DEF NrUnits, NrAll
<1> HIDE DEF f, l
<1>4. u \in Nat /\ u % nrMode = 0 /\ u >= f /\ u < f + l  BY <1>3
<1>5. ASSUME NEW a \in NrUnits(s), a < u + nrMode PROVE a < u \/ a = u
  <2>1. a \in Nat /\ a % nrMode = 0  BY <1>3
  <2>2. CASE nrMode = 1  BY <1>4, <1>5, <2>1, <2>2
  <2>3. CASE nrMode = 2  BY <1>4, <1>5, <2>1, <2>3
  <2> QED  BY <2>2, <2>3
<1>6. ASSUME u + nrMode < f + l PROVE u + nrMode \in NrUnits(s)
  <2>1. u + nrMode \in 0 .. nrSize - 1 /\ u + nrMode >= f  BY <1>2, <1>4, <1>6
  <2>2. (u + nrMode) % nrMode = 0
    <3>1. CASE nrMode = 1  BY <1>4, <3>1
    <3>2. CASE nrMode = 2  BY <1>4, <3>2
    <3> QED  BY <3>1, <3>2
  <2> QED  BY <1>3, <1>6, <2>1, <2>2
<1>7. ASSUME ~(u + nrMode < f + l), NEW a \in NrUnits(s) PROVE a < u \/ a = u
  <2>1. a < f + l /\ a \in Nat  BY <1>3
  <2>2. a < u + nrMode  BY <1>2, <1>4, <1>7, <2>1
  <2> QED  BY <1>5, <2>2
<1> QED  BY <1>5, <1>6, <1>7 DEF f, l

LEMMA NrStill ==
  ASSUME nrMode' = nrMode
  PROVE  /\ NrAll' = NrAll /\ NrErased' = NrErased /\ NrUnits(nrM.sector)' = NrUnits(nrM'.sector)
         /\ \A a : NrPattern(nrM.sector, a)' = NrPattern(nrM'.sector, a)
         /\ \A a : NrPattern(NrSectorOf(a), a)' = NrPattern(NrSectorOf(a), a)
<1>1. NrAll' = NrAll /\ NrErased' = NrErased  BY DEF NrAll, NrErased
<1>2. NrUnits(nrM.sector)' = NrUnits(nrM'.sector)  BY <1>1 DEF NrUnits
<1>3. \A a : NrPattern(nrM.sector, a)' = NrPattern(nrM'.sector, a)  BY DEF NrPattern
<1>4. \A a : NrPattern(NrSectorOf(a), a)' = NrPattern(NrSectorOf(a), a)  BY DEF NrPattern
<1> QED  BY <1>1, <1>2, <1>3, <1>4

LEMMA NrTypes == ASSUME nrMode \in {1, 2} PROVE NrErased \in Int /\ \A s \in Int : \A a \in NrAll : NrPattern(s, a) \in Int
<1>1. NrErased \in Int  BY DEF NrErased
<1>2. ASSUME NEW s \in Int PROVE NrFirst(s) \in Int
  <2>1. PICK n \in Nat : n >= 2 /\ nrSec = 8 * n /\ nrSec \div 8 = n /\ n % 2 = 0  BY NrConstants
  <2>2. nrSec \in Nat  BY NrConstants
  <2> QED  BY <2>1, <2>2 DEF NrFirst, NrLength
<1>3. ASSUME NEW s \in Int, NEW a \in NrAll PROVE NrPattern(s, a) \in Int
  <2>1. a \in Int  BY NrConstants DEF NrAll
  <2> DEFINE f == NrFirst(s)
  <2>2. f \in Int  BY <1>2
  <2>3. NrPattern(s, a) = IF nrMode = 1 THEN (a - f) % 256 ELSE ((a - f) \div 2) % 65536  BY DEF NrPattern
  <2> HIDE DEF f
  <2> QED  BY <2>1, <2>2, <2>3
<1> QED  BY <1>1, <1>3

LEMMA NrEndRight ==
  ASSUME NrOutside, nrM.pc = "end", nrM.ret # 0 PROVE NorRight
BY DEF NrOutside, NorRight, NrTouched, NrTestSectors, NrInSector

(* The flash finishes what it is at.                                       *)
LEMMA NrFinishesStep == NrInv /\ NrFinishes => NrInv'
<1> SUFFICES ASSUME NrInv, NrFinishes PROVE NrInv'
  OBVIOUS
<1>1. nrM' = nrM /\ nrMode' = nrMode /\ nrWas' = nrWas /\ nrMode \in {1, 2}  BY DEF NrFinishes, NrInv, NrTyped
<1>2. /\ NrAll' = NrAll /\ NrErased' = NrErased /\ NrUnits(nrM.sector)' = NrUnits(nrM.sector)
      /\ \A a : NrPattern(nrM.sector, a)' = NrPattern(nrM.sector, a)
      /\ \A a : NrPattern(NrSectorOf(a), a)' = NrPattern(NrSectorOf(a), a)
  BY <1>1, NrStill
<1>3. \A a : NrWanted(a)' = NrWanted(a)  BY <1>1, <1>2 DEF NrWanted
<1>4. NrTestSectors' = NrTestSectors  BY <1>1, <1>2 DEF NrTestSectors
<1>5. /\ \A s \in Nat : s < FLASH_TOTAL_SEC_NUM => NrUnits(s) = {a \in NrAll : NrSectorOf(a) = s}
      /\ \A a \in NrAll : a \in Nat /\ NrSectorOf(a) \in Nat /\ NrSectorOf(a) < FLASH_TOTAL_SEC_NUM
  BY <1>1, NrSectorUnits
<1>6. NrErased \in Int  BY <1>1, NrTypes
<1>7. nrChip.busy # "no" /\ nrM.pc # "off" /\ nrCells \in [NrAll -> Int]  BY DEF NrFinishes, NrInv, NrFilled
<1>8. FLASH_TOTAL_SEC_NUM \in Int  BY NrConstants
<1>9. nrM.pc \in NrInSector => NrUnits(nrM.sector) = {a \in NrAll : NrSectorOf(a) = nrM.sector} /\ NrUnits(nrM.sector) \subseteq NrTestSectors
  <2> SUFFICES ASSUME nrM.pc \in NrInSector
               PROVE  NrUnits(nrM.sector) = {a \in NrAll : NrSectorOf(a) = nrM.sector} /\ NrUnits(nrM.sector) \subseteq NrTestSectors
    OBVIOUS
  <2>1. nrM.sector \in Nat /\ nrM.sector < FLASH_TOTAL_SEC_NUM /\ nrM.sector \in nrWas.from .. nrM.end
    BY <1>8 DEF NrInv, NrTyped, NrBounds
  <2> QED  BY <1>5, <2>1 DEF NrTestSectors
<1>10. NrBounds' /\ NrCopied'
  <2>1. NrBounds'  BY <1>1, <1>2 DEF NrInv, NrBounds
  <2>2. NrCopied'  BY <1>1, <1>2 DEF NrInv, NrCopied
  <2> QED  BY <2>1, <2>2
<1>11. CASE nrChip.busy = "erase" /\ nrChip' = NrIdle /\ nrCells' = [a \in NrAll |-> IF a \in nrChip.set THEN NrErased ELSE nrCells[a]]
  <2>1. nrChip'.busy = "no" /\ nrChip' \in [busy : {"no", "erase", "program", "stuck"}, set : SUBSET NrAll, at : Int, data : Int]
    BY <1>11 DEF NrIdle
  <2>2. nrM.pc \notin {"program", "poll"} /\ ~(nrM.pc = "end" /\ nrM.ret = 0)  BY <1>11 DEF NrInv, NrObeys
  <2>3. NrTyped' /\ NrFilled'
    <3>1. nrCells' \in [NrAll -> Int]  BY <1>6, <1>7, <1>11
    <3> QED  BY <1>1, <1>2, <2>1, <3>1 DEF NrInv, NrTyped, NrFilled
  <2>4. NrObeys'  BY <1>1, <2>1, <2>2 DEF NrObeys
  <2>5. NrBehind'
    <3> SUFFICES ASSUME nrM.pc \in NrInSector, nrM.test = "rw", NEW a \in NrAll, nrWas.from <= NrSectorOf(a), NrSectorOf(a) < nrM.sector
                 PROVE  nrCells'[a] = NrPattern(NrSectorOf(a), a)
      BY <1>1, <1>2 DEF NrBehind
    <3>1. NrKnown  BY <1>5 DEF NrKnown, NrInv, NrTyped
    <3>2. nrChip.set \subseteq NrUnits(nrM.sector)  BY <1>11, <2>2, <3>1 DEF NrInv, NrObeys, NrInSector
    <3>3. a \notin nrChip.set
      <4>1. NrSectorOf(a) # nrM.sector  BY <1>5 DEF NrInv, NrTyped
      <4> QED  BY <1>9, <3>2, <4>1
    <3>4. nrCells[a] = NrPattern(NrSectorOf(a), a)  BY DEF NrInv, NrBehind
    <3> QED  BY <1>11, <3>3, <3>4
  <2>6. NrWithin'  BY <1>1, <2>2 DEF NrWithin
  <2>7. NrOutside'
    <3> SUFFICES ASSUME nrM.pc \in NrInSector \cup {"end"}, nrM.test # "all", ~nrWas.busy, NEW a \in NrAll \ NrTestSectors
                 PROVE  nrCells'[a] = nrWas.cells[a]
      BY <1>1, <1>2, <1>4 DEF NrOutside
    <3>1. nrChip.set \subseteq NrTestSectors
      <4>1. CASE nrM.pc = "end"  BY <1>11, <4>1 DEF NrInv, NrObeys
      <4>2. CASE nrM.pc # "end"  BY <1>9, <1>11, <2>2, <4>2 DEF NrInv, NrObeys, NrInSector, NrKnown
      <4> QED  BY <4>1, <4>2
    <3>2. nrCells[a] = nrWas.cells[a]  BY DEF NrInv, NrOutside
    <3> QED  BY <1>11, <3>1, <3>2
  <2>8. NorRight'
    <3>1. CASE nrM.pc = "end"
      <4>1. nrM'.pc = "end" /\ nrM'.ret # 0  BY <1>1, <2>2, <3>1
      <4> QED  BY <2>7, <4>1 DEF NrOutside, NorRight, NrTouched, NrTestSectors, NrInSector
    <3>2. CASE nrM.pc # "end"  BY <1>1, <3>2 DEF NorRight
    <3> QED  BY <3>1, <3>2
  <2> QED  BY <1>10, <2>3, <2>4, <2>5, <2>6, <2>7, <2>8 DEF NrInv
<1>12. CASE /\ nrChip.busy = "program" /\ nrChip' = NrIdle
            /\ nrCells' = [nrCells EXCEPT ![nrChip.at] = IF @ = NrErased THEN nrChip.data ELSE 0]
  <2>1. nrChip'.busy = "no" /\ nrChip' \in [busy : {"no", "erase", "program", "stuck"}, set : SUBSET NrAll, at : Int, data : Int]
    BY <1>12 DEF NrIdle
  <2>2. nrM.pc # "program" /\ ~(nrM.pc = "end" /\ nrM.ret = 0) /\ nrChip.at \in NrAll  BY <1>12 DEF NrInv, NrObeys, NrFilled
  <2>3. \A a \in NrAll : nrCells'[a] = IF a = nrChip.at THEN (IF nrCells[a] = NrErased THEN nrChip.data ELSE 0) ELSE nrCells[a]
    BY <1>7, <1>12
  <2>4. NrTyped' /\ NrFilled'
    <3>1. nrCells' \in [NrAll -> Int]
      <4>1. nrChip.data \in Int  BY DEF NrInv, NrTyped
      <4>2. (IF nrCells[nrChip.at] = NrErased THEN nrChip.data ELSE 0) \in Int  BY <4>1
      <4> QED  BY <1>7, <1>12, <2>2, <4>2
    <3> QED  BY <1>1, <1>2, <2>1, <3>1 DEF NrInv, NrTyped, NrFilled
  <2>5. NrUnits(nrM.sector) \subseteq NrAll  BY DEF NrUnits
  <2>6. NrObeys'
    <3>1. nrM.pc = "poll" => nrCells'[nrM.at] = NrWanted(nrM.at)
      BY <1>12, <2>3, <2>5 DEF NrInv, NrObeys, NrBounds
    <3>2. nrM.pc = "poll" => nrCells'[nrM'.at] = NrWanted(nrM.at)'  BY <1>1, <1>3, <3>1
    <3> QED  BY <1>1, <2>1, <2>2, <3>2 DEF NrObeys
  <2>7. nrM.pc \in NrInSector /\ nrM.pc # "poll" => ~NrKnown  BY <1>12, <2>2 DEF NrInv, NrObeys, NrInSector
  <2>8. NrBehind'
    <3> SUFFICES ASSUME nrM.pc \in NrInSector, nrM.test = "rw", NEW a \in NrAll, nrWas.from <= NrSectorOf(a), NrSectorOf(a) < nrM.sector
                 PROVE  nrCells'[a] = NrPattern(NrSectorOf(a), a)
      BY <1>1, <1>2 DEF NrBehind
    <3>1. NrKnown  BY <1>5 DEF NrKnown, NrInv, NrTyped
    <3>2. nrM.pc = "poll" /\ nrChip.at \in NrUnits(nrM.sector)  BY <1>12, <2>7, <3>1 DEF NrInv, NrObeys, NrBounds
    <3>3. a # nrChip.at
      <4>1. NrSectorOf(a) # nrM.sector  BY <1>5 DEF NrInv, NrTyped
      <4> QED  BY <1>9, <3>2, <4>1
    <3>4. nrCells[a] = NrPattern(NrSectorOf(a), a)  BY DEF NrInv, NrBehind
    <3> QED  BY <2>3, <3>3, <3>4
  <2>9. NrWithin'
    <3> SUFFICES ASSUME nrM.pc = "poll", NEW a \in NrUnits(nrM.sector)
                 PROVE  (a < nrM.at => nrCells'[a] = NrWanted(a)) /\ (a > nrM.at => nrCells'[a] = NrErased)
      BY <1>1, <1>2, <1>3, <2>2 DEF NrWithin
    <3>1. nrChip.at = nrM.at  BY <1>12 DEF NrInv, NrObeys
    <3>2. a \in NrAll /\ a \in Int /\ nrM.at \in Int  BY <1>5, <2>5 DEF NrInv, NrTyped
    <3>3. a # nrM.at => nrCells'[a] = nrCells[a]  BY <2>3, <3>1, <3>2
    <3> QED  BY <3>2, <3>3 DEF NrInv, NrWithin
  <2>10. NrOutside'
    <3> SUFFICES ASSUME nrM.pc \in NrInSector \cup {"end"}, nrM.test # "all", ~nrWas.busy, NEW a \in NrAll \ NrTestSectors
                 PROVE  nrCells'[a] = nrWas.cells[a]
      BY <1>1, <1>2, <1>4 DEF NrOutside
    <3>1. nrChip.at \in NrTestSectors
      <4>1. CASE nrM.pc = "end"  BY <1>12, <4>1 DEF NrInv, NrObeys
      <4>2. CASE nrM.pc # "end"
        <5>1. nrM.pc = "poll"  BY <2>7, <4>2 DEF NrKnown
        <5> QED  BY <1>9, <1>12, <5>1 DEF NrInv, NrObeys, NrInSector, NrBounds
      <4> QED  BY <4>1, <4>2
    <3>2. nrCells[a] = nrWas.cells[a]  BY DEF NrInv, NrOutside
    <3> QED  BY <2>3, <3>1, <3>2
  <2>11. NorRight'
    <3>1. CASE nrM.pc = "end"
      <4>1. nrM'.pc = "end" /\ nrM'.ret # 0  BY <1>1, <2>2, <3>1
      <4> QED  BY <2>10, <4>1 DEF NrOutside, NorRight, NrTouched, NrTestSectors, NrInSector
    <3>2. CASE nrM.pc # "end"  BY <1>1, <3>2 DEF NorRight
    <3> QED  BY <3>1, <3>2
  <2> QED  BY <1>10, <2>4, <2>6, <2>8, <2>9, <2>10, <2>11 DEF NrInv
<1>13. CASE nrChip.busy = "program" /\ nrChip' = [nrChip EXCEPT !.busy = "stuck"] /\ nrCells' = nrCells
  <2>1. /\ nrChip'.busy = "stuck" /\ nrChip'.set = nrChip.set /\ nrChip'.at = nrChip.at /\ nrChip'.data = nrChip.data
        /\ nrChip' \in [busy : {"no", "erase", "program", "stuck"}, set : SUBSET NrAll, at : Int, data : Int]
    BY <1>13 DEF NrInv, NrTyped
  <2>2. NrTyped' /\ NrFilled'  BY <1>1, <1>2, <1>13, <2>1 DEF NrInv, NrTyped, NrFilled
  <2>3. NrObeys'
    <3>1. nrM.pc = "poll" => nrChip'.at = nrM'.at /\ nrChip'.data = NrWanted(nrM.at)' /\ nrCells'[nrM'.at] = NrErased'
      BY <1>1, <1>2, <1>3, <1>13, <2>1 DEF NrInv, NrObeys
    <3> QED  BY <1>1, <1>4, <1>13, <2>1, <3>1 DEF NrInv, NrObeys, NrKnown
  <2>4. NrBehind' /\ NrWithin' /\ NrOutside'
    <3>1. NrBehind'  BY <1>1, <1>2, <1>13 DEF NrInv, NrBehind
    <3>2. NrWithin'  BY <1>1, <1>2, <1>3, <1>13 DEF NrInv, NrWithin
    <3>3. NrOutside'  BY <1>1, <1>2, <1>4, <1>13 DEF NrInv, NrOutside
    <3> QED  BY <3>1, <3>2, <3>3
  <2>5. NorRight'
    <3>1. NrTouched' = NrTouched  BY <1>1, <1>2 DEF NrTouched
    <3> QED  BY <1>1, <1>2, <1>13, <3>1 DEF NrInv, NorRight
  <2> QED  BY <1>10, <2>2, <2>3, <2>4, <2>5 DEF NrInv
<1> QED  BY <1>11, <1>12, <1>13 DEF NrFinishes

(* A test begins: it knows the flash if that is not busy.                  *)
LEMMA NrHereIn ==
  ASSUME nrMode \in {1, 2}, NEW o \in {1, nrSec + 2},
         NEW s, s = NrSectorOf(o), NEW h, h = NrFirst(s) + ((o % NrLength(s)) \div nrMode) * nrMode
  PROVE  s \in Nat /\ s < FLASH_TOTAL_SEC_NUM /\ h \in NrUnits(s)
<1>1. o \in 0 .. nrSize - 1
  <2>1. nrSec \in Nat /\ nrSize \in Nat /\ nrSec >= 16 /\ nrSec < nrSize  BY NrConstants
  <2>2. PICK n \in Nat : n >= 2 /\ nrSize = nrSec * n /\ FLASH_TOTAL_SEC_NUM = n + 7  BY NrConstants
  <2>3. nrSize >= 2 * nrSec
    <3>1. PICK r \in Nat : n = 2 + r  BY <2>2
    <3>2. nrSec * n = 2 * nrSec + nrSec * r /\ nrSec * r >= 0  BY <2>1, <3>1
    <3> QED  BY <2>1, <2>2, <3>2
  <2> QED  BY <2>1, <2>3
<1>2. s \in Nat /\ s < FLASH_TOTAL_SEC_NUM  BY <1>1, NrUnitsAll
<1> DEFINE f == NrFirst(s)
           l == NrLength(s)
<1>3. f \in Nat /\ l \in Nat /\ l >= 2 /\ f % 2 = 0 /\ f + l <= nrSize /\ nrSize \in Nat  BY <1>2, NrSectorShape, NrConstants
<1>4. o >= f /\ o < f + l /\ (o = 1 => f = 0) /\ (o # 1 => f = nrSec /\ l = nrSec)
  <2>1. o >= f /\ o < f + l  BY <1>1, NrUnitsAll
  <2>2. PICK n \in Nat : n >= 2 /\ nrSec = 8 * n /\ nrSec \div 8 = n /\ n % 2 = 0  BY NrConstants
  <2>3. ASSUME o = 1 PROVE f = 0
    <3>1. s = 1 \div n  BY <2>2, <2>3 DEF NrSectorOf
    <3>2. 1 \div n = 0  BY <2>2, NrDivIs
    <3> QED  BY <2>2, <3>1, <3>2 DEF NrFirst, NrSmall, NrLength
  <2>4. ASSUME o # 1 PROVE f = nrSec /\ l = nrSec
    <3>1. o = nrSec + 2 /\ nrSec \in Nat /\ nrSec >= 16  BY <2>4, NrConstants
    <3>2. o \div nrSec = 1  BY <3>1, NrDivIs
    <3>3. s = 8  BY <3>1, <3>2 DEF NrSectorOf
    <3> QED  BY <3>1, <3>3 DEF NrFirst, NrSmall, NrLength
  <2> QED  BY <2>1, <2>3, <2>4
<1>5. h = f + ((o % l) \div nrMode) * nrMode  OBVIOUS
<1>6. \A a : a \in NrUnits(s) <=> a \in 0 .. nrSize - 1 /\ a % nrMode = 0 /\ a >= f /\ a < f + l  BY DEF NrUnits, NrAll
<1> HIDE DEF f, l
<1>7. nrSec \in Nat /\ nrSec >= 16 /\ nrSec % 2 = 0
  <2>1. PICK n \in Nat : nrSec = 8 * n  BY NrConstants
  <2> QED  BY <2>1, NrConstants
<1>8. CASE o = 1
  <2>1. 1 % l = 1  BY <1>3
  <2>2. h = 0 \/ (h = 1 /\ nrMode = 1)  BY <1>4, <1>5, <1>8, <2>1
  <2> QED  BY <1>2, <1>3, <1>4, <1>6, <1>8, <2>2
<1>9. CASE o # 1
  <2>1. o = nrSec + 2 /\ f = nrSec /\ l = nrSec  BY <1>4, <1>9
  <2>2. (nrSec + 2) % nrSec = 2
    <3>1. (nrSec + 2) \div nrSec = 1  BY <1>7, NrDivIs
    <3>2. nrSec + 2 = (nrSec * ((nrSec + 2) \div nrSec)) + ((nrSec + 2) % nrSec)  BY <1>7
    <3>3. (nrSec + 2) % nrSec \in Int  BY <1>7
    <3> QED  BY <1>7, <3>1, <3>2, <3>3
  <2>3. h = nrSec + 2
    <3>1. h = nrSec + (2 \div nrMode) * nrMode  BY <1>5, <2>1, <2>2
    <3>2. nrMode = 1 \/ nrMode = 2  OBVIOUS
    <3> QED  BY <1>7, <3>1, <3>2
  <2>4. h % nrMode = 0
    <3>1. CASE nrMode = 1  BY <1>7, <2>3, <3>1
    <3>2. CASE nrMode = 2  BY <1>7, <2>3, <3>2
    <3> QED  BY <3>1, <3>2
  <2>5. h \in 0 .. nrSize - 1 /\ h >= f /\ h < f + l  BY <1>3, <1>4, <1>7, <2>1, <2>3
  <2> QED  BY <1>2, <1>6, <2>4, <2>5
<1> QED  BY <1>8, <1>9

LEMMA NrBegun ==
  ASSUME NrInv, nrM.pc = "idle", nrMode' = nrMode, nrCells' = nrCells, nrChip' = nrChip,
         nrWas' = [cells |-> nrCells, busy |-> nrChip.busy # "no", from |-> nrM'.sector],
         nrM' \in [pc : {"erase"}, test : {"rw", "write", "erase"}, sector : Nat, end : Nat, at : {0}, offset : Int, data : Int,
                   temp : {nrM'.temp}, polls : {0}, ret : {0}, left : Int],
         nrM'.sector <= nrM'.end, nrM'.end < FLASH_TOTAL_SEC_NUM, nrM'.test # "rw" => nrM'.sector = nrM'.end,
         nrM'.test = "write" =>
           /\ nrM'.temp \in [NrUnits(nrM'.sector) -> Int] /\ nrM'.offset \in NrUnits(nrM'.sector) /\ nrM'.temp[nrM'.offset] = nrM'.data
           /\ nrChip.busy = "no" => \A a \in NrUnits(nrM'.sector) \ {nrM'.offset} : nrM'.temp[a] = nrCells[a]
  PROVE  NrInv'
<1>1. /\ nrM'.pc = "erase" /\ nrM'.test \in {"rw", "write", "erase"} /\ nrM'.sector \in Nat /\ nrM'.end \in Nat
      /\ nrWas'.cells = nrCells /\ nrWas'.busy = (nrChip.busy # "no") /\ nrWas'.from = nrM'.sector
      /\ nrMode \in {1, 2} /\ nrChip.busy \in {"no", "erase", "program", "stuck"}
  BY DEF NrInv, NrTyped
<1>2. /\ NrAll' = NrAll /\ NrErased' = NrErased /\ NrUnits(nrM.sector)' = NrUnits(nrM'.sector)
      /\ \A a : NrPattern(NrSectorOf(a), a)' = NrPattern(NrSectorOf(a), a)
  BY NrStill
<1>3. NrTyped'
  <2>1. nrM' \in [pc : {"off", "idle"} \cup NrLive, test : {"none", "rw", "write", "erase", "all"}, sector : Int, end : Int, at : Int,
                  offset : Int, data : Int, temp : {nrM'.temp}, polls : Int, ret : Int, left : Int]
    BY DEF NrLive, NrInSector
  <2>2. nrWas' \in [cells : {nrWas'.cells}, busy : BOOLEAN, from : Int]  BY <1>1
  <2>3. nrMode' \in {1, 2} /\ nrChip' \in [busy : {"no", "erase", "program", "stuck"}, set : SUBSET NrAll', at : Int, data : Int]
    BY <1>1, <1>2 DEF NrInv, NrTyped
  <2> QED  BY <2>1, <2>2, <2>3 DEF NrTyped
<1>4. NrFilled'  BY <1>1, <1>2 DEF NrInv, NrFilled
<1>5. NrBounds'  BY <1>1 DEF NrBounds, NrInSector
<1>6. NrCopied'  BY <1>1, <1>2 DEF NrCopied, NrInSector
<1>7. NrObeys'
  <2>1. ~(nrM'.sector > nrWas'.from)  BY <1>1
  <2>2. ~nrWas'.busy => nrChip'.busy = "no"  BY <1>1
  <2>3. NrKnown' => nrChip'.busy = "no"  BY <2>1, <2>2 DEF NrKnown
  <2> QED  BY <1>1, <2>3 DEF NrObeys
<1>8. NrBehind'
  <2>1. \A a \in NrAll : ~(nrM'.sector <= NrSectorOf(a) /\ NrSectorOf(a) < nrM'.sector)
    <3>1. \A a \in NrAll : NrSectorOf(a) \in Nat  BY <1>1, NrSectorUnits
    <3> QED  BY <1>1, <3>1
  <2> QED  BY <1>1, <1>2, <2>1 DEF NrBehind
<1>9. NrWithin' /\ NrOutside' /\ NorRight'
  <2>1. NrWithin' /\ NorRight'  BY <1>1 DEF NrWithin, NorRight
  <2>2. NrOutside'  BY <1>1, <1>2 DEF NrOutside
  <2> QED  BY <2>1, <2>2
<1> QED  BY <1>3, <1>4, <1>5, <1>6, <1>7, <1>8, <1>9 DEF NrInv

LEMMA NrReads == NrInv /\ nrM.pc # "off" => \A a \in NrAll : NrRead(a) \in Int /\ (nrChip.busy = "no" => NrRead(a) = nrCells[a])
<1> SUFFICES ASSUME NrInv, nrM.pc # "off", NEW a \in NrAll PROVE NrRead(a) \in Int /\ (nrChip.busy = "no" => NrRead(a) = nrCells[a])
  OBVIOUS
<1>1. nrCells[a] \in Int /\ nrChip.data \in Int  BY DEF NrInv, NrTyped, NrFilled
<1>2. NrOther7(nrChip.data) \in Int  BY <1>1 DEF NrOther7
<1> QED  BY <1>1, <1>2 DEF NrRead

LEMMA NrStarts == NrInv /\ (nor_mxic_sector_rw \/ nor_mxic_write \/ nor_mxic_erase_sector \/ nor_mxic_erase_all) => NrInv'
<1> SUFFICES ASSUME NrInv, nor_mxic_sector_rw \/ nor_mxic_write \/ nor_mxic_erase_sector \/ nor_mxic_erase_all PROVE NrInv'
  OBVIOUS
<1>1. nrM.pc = "idle" /\ nrM.left \in Int /\ nrMode \in {1, 2} /\ nrMode' = nrMode /\ nrCells' = nrCells
  BY DEF nor_mxic_sector_rw, nor_mxic_write, nor_mxic_erase_sector, nor_mxic_erase_all, NrBegins, NrInv, NrTyped
<1>2. PICK n \in Nat : n >= 2 /\ nrSize = nrSec * n /\ FLASH_TOTAL_SEC_NUM = n + 7  BY NrConstants
<1>3. CASE nor_mxic_sector_rw
  <2>1. PICK start \in {FLASH_TOTAL_SEC_NUM - 2, FLASH_TOTAL_SEC_NUM - 1} :
          NrBegins([NrDone EXCEPT !.pc = "erase", !.test = "rw", !.sector = start, !.end = FLASH_TOTAL_SEC_NUM - 1])
    BY <1>3 DEF nor_mxic_sector_rw
  <2>2. start \in Nat /\ FLASH_TOTAL_SEC_NUM - 1 \in Nat /\ start <= FLASH_TOTAL_SEC_NUM - 1 /\ FLASH_TOTAL_SEC_NUM - 1 < FLASH_TOTAL_SEC_NUM
    BY <1>2
  <2>3. nrM' = [pc |-> "erase", test |-> "rw", sector |-> start, end |-> FLASH_TOTAL_SEC_NUM - 1, at |-> 0, offset |-> 0, data |-> 0, temp |-> <<>>, polls |-> 0, ret |-> 0, left |-> nrM.left - 1]
    BY <2>1 DEF NrBegins, NrDone
  <2>4. /\ nrM' \in [pc : {"erase"}, test : {"rw", "write", "erase"}, sector : Nat, end : Nat, at : {0}, offset : Int, data : Int,
                     temp : {nrM'.temp}, polls : {0}, ret : {0}, left : Int]
        /\ nrM'.sector = start /\ nrM'.end = FLASH_TOTAL_SEC_NUM - 1 /\ nrM'.test = "rw"
    BY <1>1, <2>2, <2>3
  <2>5. nrWas' = [cells |-> nrCells, busy |-> nrChip.busy # "no", from |-> nrM'.sector]  BY <2>1, <2>4 DEF NrBegins, NrDone
  <2> QED  BY <1>1, <1>3, <2>2, <2>4, <2>5, NrBegun DEF nor_mxic_sector_rw
<1>4. CASE nor_mxic_erase_sector
  <2>1. PICK offset \in {0, nrSec - 1, nrSec} :
          NrBegins([NrDone EXCEPT !.pc = "erase", !.test = "erase", !.sector = NrSectorOf(offset), !.end = NrSectorOf(offset)])
    BY <1>4 DEF nor_mxic_erase_sector
  <2>2. NrSectorOf(offset) \in Nat /\ NrSectorOf(offset) < FLASH_TOTAL_SEC_NUM
    <3>1. offset \in 0 .. nrSize - 1  BY NrConstants
    <3> QED  BY <3>1, NrUnitsAll
  <2> DEFINE s == NrSectorOf(offset)
  <2>3. s \in Nat /\ s < FLASH_TOTAL_SEC_NUM /\ s <= s  BY <2>2
  <2>4. NrBegins([NrDone EXCEPT !.pc = "erase", !.test = "erase", !.sector = s, !.end = s])  BY <2>1
  <2> HIDE DEF s
  <2>5. nrM' = [pc |-> "erase", test |-> "erase", sector |-> s, end |-> s, at |-> 0, offset |-> 0, data |-> 0, temp |-> <<>>, polls |-> 0, ret |-> 0, left |-> nrM.left - 1]
    BY <2>4 DEF NrBegins, NrDone
  <2>6. /\ nrM' \in [pc : {"erase"}, test : {"rw", "write", "erase"}, sector : Nat, end : Nat, at : {0}, offset : Int, data : Int,
                     temp : {nrM'.temp}, polls : {0}, ret : {0}, left : Int]
        /\ nrM'.sector = s /\ nrM'.end = s /\ nrM'.test = "erase"
    BY <1>1, <2>3, <2>5
  <2>7. nrWas' = [cells |-> nrCells, busy |-> nrChip.busy # "no", from |-> nrM'.sector]  BY <2>4, <2>6 DEF NrBegins, NrDone
  <2> QED  BY <1>1, <1>4, <2>3, <2>6, <2>7, NrBegun DEF nor_mxic_erase_sector
<1>5. CASE nor_mxic_write
  <2>1. PICK o \in {1, nrSec + 2} : \E data \in {5} :
          LET sector == NrSectorOf(o)
              here == NrFirst(sector) + ((o % NrLength(sector)) \div nrMode) * nrMode
          IN NrBegins([NrDone EXCEPT !.pc = "erase", !.test = "write", !.sector = sector, !.end = sector, !.offset = here, !.data = data,
                                     !.temp = [a \in NrUnits(sector) |-> IF a = here THEN data ELSE NrRead(a)]])
    BY <1>5 DEF nor_mxic_write
  <2> DEFINE s == NrSectorOf(o)
             h == NrFirst(s) + ((o % NrLength(s)) \div nrMode) * nrMode
  <2>2. NrBegins([NrDone EXCEPT !.pc = "erase", !.test = "write", !.sector = s, !.end = s, !.offset = h, !.data = 5,
                                !.temp = [a \in NrUnits(s) |-> IF a = h THEN 5 ELSE NrRead(a)]])
    BY <2>1
  <2>3. s \in Nat /\ s < FLASH_TOTAL_SEC_NUM /\ h \in NrUnits(s)  BY <1>1, NrHereIn
  <2> HIDE DEF s, h
  <2> DEFINE temp == [a \in NrUnits(s) |-> IF a = h THEN 5 ELSE NrRead(a)]
  <2>4. \A a \in NrUnits(s) : a \in NrAll  BY DEF NrUnits
  <2>5. /\ temp \in [NrUnits(s) -> Int] /\ temp[h] = 5
        /\ nrChip.busy = "no" => \A a \in NrUnits(s) \ {h} : temp[a] = nrCells[a]
    BY <1>1, <2>3, <2>4, NrReads
  <2>6. h \in Int  BY <2>3 DEF NrUnits, NrAll
  <2>7. nrM' = [pc |-> "erase", test |-> "write", sector |-> s, end |-> s, at |-> 0, offset |-> h, data |-> 5, temp |-> temp, polls |-> 0, ret |-> 0, left |-> nrM.left - 1]
    BY <2>2 DEF NrBegins, NrDone
  <2>8. nrWas' = [cells |-> nrCells, busy |-> nrChip.busy # "no", from |-> s]  BY <2>2 DEF NrBegins, NrDone
  <2> HIDE DEF temp
  <2>9. /\ nrM' \in [pc : {"erase"}, test : {"rw", "write", "erase"}, sector : Nat, end : Nat, at : {0}, offset : Int, data : Int,
                     temp : {nrM'.temp}, polls : {0}, ret : {0}, left : Int]
        /\ nrM'.sector = s /\ nrM'.end = s /\ nrM'.test = "write" /\ nrM'.temp = temp /\ nrM'.offset = h /\ nrM'.data = 5
    BY <1>1, <2>3, <2>6, <2>7
  <2> QED  BY <1>1, <1>5, <2>3, <2>5, <2>8, <2>9, NrBegun DEF nor_mxic_write
<1>6. CASE nor_mxic_erase_all
  <2>1. nrM' = [pc |-> "check", test |-> "all", sector |-> 0, end |-> 0, at |-> 0, offset |-> 0, data |-> 0, temp |-> <<>>, polls |-> 0, ret |-> 0, left |-> nrM.left - 1] /\ nrWas'.busy \in BOOLEAN /\ nrWas'.from = 0
        /\ nrWas' = [cells |-> nrCells, busy |-> nrChip.busy # "no", from |-> 0]
    BY <1>6 DEF nor_mxic_erase_all, NrBegins, NrDone
  <2>2. nrM' \in [pc : {"off", "idle"} \cup NrLive, test : {"none", "rw", "write", "erase", "all"}, sector : Int, end : Int, at : Int,
                  offset : Int, data : Int, temp : {nrM'.temp}, polls : Int, ret : Int, left : Int]
        /\ nrM'.pc = "check" /\ nrM'.test = "all"
    BY <1>1, <2>1 DEF NrLive, NrInSector
  <2>3. NrAll' = NrAll  BY <1>1, NrStill
  <2>4. /\ nrChip' \in [busy : {"no", "erase", "program", "stuck"}, set : SUBSET NrAll, at : Int, data : Int]
        /\ nrChip'.busy \in {"program", "stuck"} => nrChip' = nrChip
    <3>1. nrChip \in [busy : {"no", "erase", "program", "stuck"}, set : SUBSET NrAll, at : Int, data : Int]  BY DEF NrInv, NrTyped
    <3>2. CASE nrChip.busy = "no"
      <4>1. nrChip' = [busy |-> "erase", set |-> NrAll, at |-> 0, data |-> 0]
        BY <1>6, <3>2 DEF nor_mxic_erase_all, NrTakes, NrIdle
      <4> QED  BY <4>1
    <3>3. CASE nrChip.busy # "no"
      <4>1. nrChip' = nrChip  BY <1>6, <3>3 DEF nor_mxic_erase_all, NrTakes
      <4> QED  BY <3>1, <4>1
    <3> QED  BY <3>2, <3>3
  <2>5. NrTyped'
    <3>1. nrWas' \in [cells : {nrWas'.cells}, busy : BOOLEAN, from : Int]  BY <2>1
    <3> QED  BY <1>1, <2>2, <2>3, <2>4, <3>1 DEF NrTyped
  <2>6. NrFilled'  BY <1>1, <2>2, <2>3, <2>4 DEF NrInv, NrFilled
  <2>7. NrBounds' /\ NrCopied' /\ NrObeys' /\ NrBehind' /\ NrWithin' /\ NrOutside' /\ NorRight'
    BY <2>2 DEF NrBounds, NrCopied, NrObeys, NrBehind, NrWithin, NrOutside, NorRight, NrInSector
  <2> QED  BY <2>5, <2>6, <2>7 DEF NrInv
<1> QED  BY <1>3, <1>4, <1>5, <1>6

LEMMA NrFacts ==
  ASSUME NrInv
  PROVE  /\ nrMode \in {1, 2} /\ NrErased \in Int
         /\ \A a \in NrAll : a \in Nat /\ NrSectorOf(a) \in Nat /\ NrSectorOf(a) < FLASH_TOTAL_SEC_NUM
         /\ nrM.pc \in NrInSector =>
              /\ nrM.sector \in Nat /\ nrM.sector < FLASH_TOTAL_SEC_NUM /\ nrM.sector \in nrWas.from .. nrM.end
              /\ NrUnits(nrM.sector) = {a \in NrAll : NrSectorOf(a) = nrM.sector} /\ NrUnits(nrM.sector) \subseteq NrTestSectors
              /\ (nrM.test # "rw" => NrUnits(nrM.sector) = NrTestSectors)
<1>1. nrMode \in {1, 2}  BY DEF NrInv, NrTyped
<1>2. /\ \A s \in Nat : s < FLASH_TOTAL_SEC_NUM => NrUnits(s) = {a \in NrAll : NrSectorOf(a) = s}
      /\ \A a \in NrAll : a \in Nat /\ NrSectorOf(a) \in Nat /\ NrSectorOf(a) < FLASH_TOTAL_SEC_NUM
  BY <1>1, NrSectorUnits
<1>3. ASSUME nrM.pc \in NrInSector
      PROVE  /\ nrM.sector \in Nat /\ nrM.sector < FLASH_TOTAL_SEC_NUM /\ nrM.sector \in nrWas.from .. nrM.end
             /\ NrUnits(nrM.sector) = {a \in NrAll : NrSectorOf(a) = nrM.sector} /\ NrUnits(nrM.sector) \subseteq NrTestSectors
             /\ (nrM.test # "rw" => NrUnits(nrM.sector) = NrTestSectors)
  <2>1. FLASH_TOTAL_SEC_NUM \in Int  BY NrConstants
  <2>2. nrM.sector \in Nat /\ nrM.sector < FLASH_TOTAL_SEC_NUM /\ nrM.sector \in nrWas.from .. nrM.end
    BY <1>3, <2>1 DEF NrInv, NrTyped, NrBounds
  <2>3. NrUnits(nrM.sector) = {a \in NrAll : NrSectorOf(a) = nrM.sector}  BY <1>2, <2>2
  <2>4. NrUnits(nrM.sector) \subseteq NrTestSectors  BY <2>2, <2>3 DEF NrTestSectors
  <2>5. ASSUME nrM.test # "rw" PROVE NrUnits(nrM.sector) = NrTestSectors
    <3>1. nrWas.from = nrM.end /\ nrM.end = nrM.sector  BY <1>3, <2>2, <2>5 DEF NrInv, NrTyped, NrBounds
    <3>2. \A a \in NrAll : NrSectorOf(a) \in nrWas.from .. nrM.end => NrSectorOf(a) = nrM.sector  BY <1>2, <2>2, <3>1
    <3> QED  BY <2>3, <2>4, <3>2 DEF NrTestSectors
  <2> QED  BY <2>2, <2>3, <2>4, <2>5
<1> QED  BY <1>1, <1>2, <1>3, NrTypes

(* A step within a sector keeps all that is known, but for what the flash  *)
(* has been told and the units that are done.                              *)
LEMMA NrMoves ==
  ASSUME NrInv, nrM.pc \in NrInSector, NEW pc \in NrInSector, NEW at \in Int, NEW polls \in Int,
         nrM' = [nrM EXCEPT !.pc = pc, !.at = at, !.polls = polls],
         nrMode' = nrMode, nrCells' = nrCells, nrWas' = nrWas,
         nrChip' \in [busy : {"no", "erase", "program", "stuck"}, set : SUBSET NrAll, at : Int, data : Int],
         nrChip'.busy \in {"program", "stuck"} => nrChip'.at \in NrAll,
         pc \in {"program", "poll"} => at \in NrUnits(nrM.sector) /\ nrM.test # "erase",
         NrObeys', NrWithin'
  PROVE  NrInv'
<1>1. /\ nrM'.pc = pc /\ nrM'.at = at /\ nrM'.test = nrM.test /\ nrM'.sector = nrM.sector /\ nrM'.end = nrM.end
      /\ nrM'.offset = nrM.offset /\ nrM'.data = nrM.data /\ nrM'.temp = nrM.temp
  BY DEF NrInv, NrTyped
<1>2. /\ NrAll' = NrAll /\ NrUnits(nrM.sector)' = NrUnits(nrM.sector) /\ NrTestSectors' = NrTestSectors
      /\ \A a : NrPattern(NrSectorOf(a), a)' = NrPattern(NrSectorOf(a), a)
  <2>1. /\ NrAll' = NrAll /\ NrUnits(nrM.sector)' = NrUnits(nrM.sector)
        /\ \A a : NrPattern(NrSectorOf(a), a)' = NrPattern(NrSectorOf(a), a)
    BY <1>1, NrStill
  <2> QED  BY <1>1, <2>1 DEF NrTestSectors
<1>3. NrTyped'
  <2>1. nrM' \in [pc : {"off", "idle"} \cup NrLive, test : {"none", "rw", "write", "erase", "all"}, sector : Int, end : Int, at : Int,
                  offset : Int, data : Int, temp : {nrM'.temp}, polls : Int, ret : Int, left : Int]
    BY <1>1 DEF NrInv, NrTyped, NrLive
  <2> QED  BY <1>2, <2>1 DEF NrInv, NrTyped
<1>4. NrFilled'  BY <1>1, <1>2 DEF NrInv, NrFilled, NrInSector
<1>5. NrBounds'
  <2>1. nrM'.pc \in {"program", "poll"} => nrM'.at \in NrUnits(nrM.sector)' /\ nrM'.test # "erase"  BY <1>1, <1>2
  <2>2. nrM'.pc # "check"  BY <1>1 DEF NrInSector
  <2> QED  BY <1>1, <2>1, <2>2 DEF NrInv, NrBounds
<1>6. NrCopied'  BY <1>1, <1>2 DEF NrInv, NrCopied, NrInSector
<1>7. NrBehind' /\ NrOutside' /\ NorRight'
  <2>1. NrBehind'  BY <1>1, <1>2 DEF NrInv, NrBehind
  <2>2. NrOutside'  BY <1>1, <1>2 DEF NrInv, NrOutside
  <2>3. NorRight'  BY <1>1 DEF NorRight, NrInSector
  <2> QED  BY <2>1, <2>2, <2>3
<1> QED  BY <1>3, <1>4, <1>5, <1>6, <1>7 DEF NrInv

(* A test of sectors ends.                                                 *)
LEMMA NrEnding ==
  ASSUME NrInv, nrM.pc \in {"verify", "poll"}, NEW ret \in Int, nrM' = [nrM EXCEPT !.pc = "end", !.ret = ret],
         nrMode' = nrMode, nrCells' = nrCells, nrWas' = nrWas, nrChip' = nrChip,
         ret = 0 =>
           /\ nrChip.busy = "no"
           /\ nrM.test = "rw" => \A a \in NrTestSectors : nrCells[a] = NrPattern(NrSectorOf(a), a)
           /\ nrM.test = "write" => nrCells[nrM.offset] = nrM.data /\
                (~nrWas.busy => \A a \in NrUnits(nrM.sector) \ {nrM.offset} : nrCells[a] = nrWas.cells[a])
           /\ nrM.test = "erase" => \A a \in NrUnits(nrM.sector) : nrCells[a] = NrErased
  PROVE  NrInv'
<1>1. /\ nrM'.pc = "end" /\ nrM'.ret = ret /\ nrM'.test = nrM.test /\ nrM'.sector = nrM.sector /\ nrM'.end = nrM.end
      /\ nrM'.offset = nrM.offset /\ nrM'.data = nrM.data /\ nrM'.temp = nrM.temp
      /\ nrM.pc \in NrInSector /\ nrM.test \in {"rw", "write", "erase"}
  BY DEF NrInv, NrTyped, NrBounds, NrInSector
<1>2. /\ NrAll' = NrAll /\ NrErased' = NrErased /\ NrUnits(nrM.sector)' = NrUnits(nrM.sector) /\ NrTestSectors' = NrTestSectors
      /\ \A a : NrPattern(NrSectorOf(a), a)' = NrPattern(NrSectorOf(a), a)
  <2>1. /\ NrAll' = NrAll /\ NrErased' = NrErased /\ NrUnits(nrM.sector)' = NrUnits(nrM.sector)
        /\ \A a : NrPattern(NrSectorOf(a), a)' = NrPattern(NrSectorOf(a), a)
    BY <1>1, NrStill
  <2> QED  BY <1>1, <2>1 DEF NrTestSectors
<1>3. /\ NrUnits(nrM.sector) \subseteq NrTestSectors /\ (nrM.test # "rw" => NrUnits(nrM.sector) = NrTestSectors)
  BY <1>1, NrFacts
<1>4. NrTyped'
  <2>1. nrM' \in [pc : {"off", "idle"} \cup NrLive, test : {"none", "rw", "write", "erase", "all"}, sector : Int, end : Int, at : Int,
                  offset : Int, data : Int, temp : {nrM'.temp}, polls : Int, ret : Int, left : Int]
    BY <1>1 DEF NrInv, NrTyped, NrLive
  <2> QED  BY <1>2, <2>1 DEF NrInv, NrTyped
<1>5. NrFilled'  BY <1>1, <1>2 DEF NrInv, NrFilled
<1>6. NrBounds' /\ NrBehind' /\ NrWithin'  BY <1>1 DEF NrBounds, NrBehind, NrWithin, NrInSector
<1>7. NrCopied'  BY <1>1, <1>2 DEF NrInv, NrCopied
<1>8. NrOutside'  BY <1>1, <1>2 DEF NrInv, NrOutside
<1>9. NrObeys'
  <2>1. ASSUME ~nrWas.busy
        PROVE  /\ nrChip.busy = "erase" => nrChip.set \subseteq NrTestSectors
               /\ nrChip.busy \in {"program", "stuck"} => nrChip.at \in NrTestSectors
    <3>1. CASE nrM.pc = "verify"  BY <1>3, <2>1, <3>1 DEF NrInv, NrObeys, NrKnown
    <3>2. CASE nrM.pc = "poll"  BY <1>3, <2>1, <3>2 DEF NrInv, NrObeys, NrBounds
    <3> QED  BY <3>1, <3>2
  <2> QED  BY <1>1, <1>2, <2>1 DEF NrObeys
<1>10. NorRight'
  <2>1. CASE ret # 0
    <3>1. nrM'.pc = "end" /\ nrM'.ret # 0  BY <1>1, <2>1
    <3> QED  BY <1>8, <3>1 DEF NrOutside, NorRight, NrTouched, NrTestSectors, NrInSector
  <2>2. CASE ret = 0
    <3>1. nrM.test = "rw" => \A a \in NrAll' : NrSectorOf(a) \in nrWas'.from .. nrM'.end => nrCells'[a] = NrPattern(NrSectorOf(a), a)'
      BY <1>1, <1>2, <2>2 DEF NrTestSectors
    <3>2. NrTouched' = IF nrM.test = "write" THEN {nrM.offset} ELSE NrTestSectors
      BY <1>1, <1>2, <2>2 DEF NrTouched, NrTestSectors
    <3>3. nrM.test = "erase" => \A a \in NrTouched' : nrCells'[a] = NrErased'  BY <1>2, <1>3, <2>2, <3>2
    <3>4. ASSUME ~nrWas.busy, NEW a \in NrAll, a \notin NrTouched' PROVE nrCells[a] = nrWas.cells[a]
      <4>1. CASE a \in NrTestSectors  BY <1>1, <1>3, <2>2, <3>2, <3>4, <4>1
      <4>2. CASE a \notin NrTestSectors  BY <1>1, <3>4, <4>2 DEF NrInv, NrOutside
      <4> QED  BY <4>1, <4>2
    <3> QED  BY <1>1, <1>2, <2>2, <3>1, <3>3, <3>4 DEF NorRight
  <2> QED  BY <2>1, <2>2
<1> QED  BY <1>4, <1>5, <1>6, <1>7, <1>8, <1>9, <1>10 DEF NrInv

LEMMA NrErasesStep == NrInv /\ NrErases => NrInv'
<1> SUFFICES ASSUME NrInv, NrErases PROVE NrInv'
  OBVIOUS
<1>1. /\ nrM.pc = "erase" /\ nrM.pc \in NrInSector /\ nrM' = [nrM EXCEPT !.pc = "reset", !.at = nrM.at, !.polls = nrM.polls]
      /\ nrM.at \in Int /\ nrM.polls \in Int /\ nrMode' = nrMode /\ nrCells' = nrCells /\ nrWas' = nrWas
      /\ nrM'.pc = "reset" /\ nrM'.sector = nrM.sector
  BY DEF NrErases, NrInv, NrTyped, NrInSector
<1>2. /\ nrChip.busy = "no" => nrChip' = [busy |-> "erase", set |-> NrUnits(nrM.sector), at |-> 0, data |-> 0]
      /\ nrChip.busy # "no" => nrChip' = nrChip
  BY DEF NrErases, NrTakes, NrIdle
<1>3. NrUnits(nrM.sector) \subseteq NrAll  BY DEF NrUnits
<1>4. /\ nrChip' \in [busy : {"no", "erase", "program", "stuck"}, set : SUBSET NrAll, at : Int, data : Int]
      /\ nrChip'.busy \in {"program", "stuck"} => nrChip'.at \in NrAll
  <2>1. CASE nrChip.busy = "no"  BY <1>2, <1>3, <2>1
  <2>2. CASE nrChip.busy # "no"  BY <1>2, <2>2 DEF NrInv, NrTyped, NrFilled
  <2> QED  BY <2>1, <2>2
<1>5. NrUnits(nrM.sector)' = NrUnits(nrM.sector)  BY <1>1, NrStill
<1>6. NrObeys'
  <2>1. NrKnown' => nrChip.busy = "no"  BY <1>1 DEF NrInv, NrObeys, NrKnown
  <2>2. NrKnown' => nrChip'.busy = "erase" /\ nrChip'.set \subseteq NrUnits(nrM.sector)'  BY <1>2, <1>5, <2>1
  <2> QED  BY <1>1, <2>2 DEF NrObeys
<1>7. NrWithin'  BY <1>1 DEF NrWithin
<1> QED
  <2>1. "reset" \in NrInSector  BY DEF NrInSector
  <2> QED  BY <1>1, <1>4, <1>6, <1>7, <2>1, NrMoves

LEMMA NrResetsStep == NrInv /\ NrResets => NrInv'
<1> SUFFICES ASSUME NrInv, NrResets PROVE NrInv'
  OBVIOUS
<1>1. /\ nrM.pc = "reset" /\ nrM.pc \in NrInSector /\ nrM' = [nrM EXCEPT !.pc = "verify", !.at = nrM.at, !.polls = nrM.polls]
      /\ nrM.at \in Int /\ nrM.polls \in Int /\ nrMode' = nrMode /\ nrCells' = nrCells /\ nrWas' = nrWas
      /\ nrM'.pc = "verify" /\ nrM'.sector = nrM.sector
  BY DEF NrResets, NrInv, NrTyped, NrInSector
<1>2. nrChip' = nrChip \/ nrChip' = [busy |-> "no", set |-> {}, at |-> 0, data |-> 0]  BY DEF NrResets, NrIdle
<1>3. /\ nrChip' \in [busy : {"no", "erase", "program", "stuck"}, set : SUBSET NrAll, at : Int, data : Int]
      /\ nrChip'.busy \in {"program", "stuck"} => nrChip'.at \in NrAll
  <2>1. CASE nrChip' = nrChip  BY <2>1 DEF NrInv, NrTyped, NrFilled
  <2>2. CASE nrChip' # nrChip  BY <1>2, <2>2
  <2> QED  BY <2>1, <2>2
<1>4. NrUnits(nrM.sector)' = NrUnits(nrM.sector)  BY <1>1, NrStill
<1>5. NrObeys'
  <2>1. NrKnown' => nrChip.busy = "no" \/ (nrChip.busy = "erase" /\ nrChip.set \subseteq NrUnits(nrM.sector))
    BY <1>1 DEF NrInv, NrObeys, NrKnown
  <2>2. NrKnown' => nrChip'.busy = "no" \/ (nrChip'.busy = "erase" /\ nrChip'.set \subseteq NrUnits(nrM.sector)')
    BY <1>2, <1>4, <2>1
  <2> QED  BY <1>1, <2>2 DEF NrObeys
<1>6. NrWithin'  BY <1>1 DEF NrWithin
<1> QED
  <2>1. "verify" \in NrInSector  BY DEF NrInSector
  <2> QED  BY <1>1, <1>3, <1>5, <1>6, <2>1, NrMoves

LEMMA NrVerifies == NrInv /\ mxic_flash_erase_sector => NrInv'
<1> SUFFICES ASSUME NrInv, mxic_flash_erase_sector PROVE NrInv'
  OBVIOUS
<1>1. /\ nrM.pc = "verify" /\ nrM.pc \in NrInSector /\ nrMode' = nrMode /\ nrCells' = nrCells /\ nrWas' = nrWas /\ nrChip' = nrChip
      /\ nrM.at \in Int /\ nrM.polls \in Int
  BY DEF mxic_flash_erase_sector, NrInSector, NrInv, NrTyped
<1>2. CASE ~NrIsErased(NrUnits(nrM.sector))
  <2>1. nrM' = [nrM EXCEPT !.pc = "end", !.ret = -5]  BY <1>2 DEF mxic_flash_erase_sector, NrEnds
  <2>2. -5 \in Int /\ -5 # 0  OBVIOUS
  <2> QED  BY <1>1, <2>1, <2>2, NrEnding
<1>3. CASE NrIsErased(NrUnits(nrM.sector))
  <2>1. nrChip.busy = "no" /\ \A a \in NrUnits(nrM.sector) : nrCells[a] = NrErased  BY <1>3 DEF NrIsErased, NrRead
  <2>2. CASE nrM.test = "erase"
    <3> DEFINE ret == 0
    <3>1. nrM' = [nrM EXCEPT !.pc = "end", !.ret = ret]  BY <1>3, <2>2 DEF mxic_flash_erase_sector, NrEnds
    <3>2. ret \in Int  OBVIOUS
    <3> HIDE DEF ret
    <3>3. nrM.pc \in {"verify", "poll"} /\ nrM.test # "rw" /\ nrM.test # "write"  BY <1>1, <2>2
    <3> QED  BY <1>1, <2>1, <3>1, <3>2, <3>3, NrEnding
  <2>3. CASE nrM.test # "erase"
    <3> DEFINE f == NrFirst(nrM.sector)
    <3>1. nrM' = [nrM EXCEPT !.pc = "program", !.at = f, !.polls = nrM.polls]
      BY <1>1, <1>3, <2>3 DEF mxic_flash_erase_sector, NrInv, NrTyped
    <3>2. f \in NrUnits(nrM.sector) /\ f \in Nat /\ \A a \in NrUnits(nrM.sector) : a \in Nat /\ a >= f
      BY <1>1, NrFacts, NrUnitFirst
    <3> HIDE DEF f
    <3>3. nrM'.pc = "program" /\ nrM'.at = f /\ nrM'.sector = nrM.sector  BY <3>1 DEF NrInv, NrTyped
    <3>4. NrUnits(nrM.sector)' = NrUnits(nrM.sector) /\ NrErased' = NrErased  BY <1>1, <3>3, NrStill
    <3>5. NrObeys'  BY <1>1, <2>1, <3>3 DEF NrObeys
    <3>6. NrWithin'
      <4>1. ASSUME NEW a \in NrUnits(nrM.sector)' PROVE ~(a < nrM'.at) /\ nrCells'[a] = NrErased'
        <5>1. a \in NrUnits(nrM.sector)  BY <3>4
        <5>2. nrCells'[a] = NrErased'  BY <1>1, <2>1, <3>4, <5>1
        <5>3. a \in Nat /\ a >= f /\ f \in Nat  BY <3>2, <5>1
        <5>4. ~(a < f)  BY <5>3
        <5> QED  BY <3>3, <5>2, <5>4
      <4> QED  BY <3>3, <4>1 DEF NrWithin
    <3>7. "program" \in NrInSector /\ f \in Int  BY <3>2 DEF NrInSector
    <3>8. /\ nrChip' \in [busy : {"no", "erase", "program", "stuck"}, set : SUBSET NrAll, at : Int, data : Int]
          /\ nrChip'.busy \in {"program", "stuck"} => nrChip'.at \in NrAll
      BY <1>1 DEF NrInv, NrTyped, NrFilled
    <3> QED  BY <1>1, <2>3, <3>1, <3>2, <3>5, <3>6, <3>7, <3>8, NrMoves
  <2> QED  BY <2>2, <2>3
<1> QED  BY <1>2, <1>3

LEMMA NrChecks == NrInv /\ NrChecksAll => NrInv'
<1> SUFFICES ASSUME NrInv, NrChecksAll PROVE NrInv'
  OBVIOUS
<1>1. /\ nrM.pc = "check" /\ nrM.test = "all" /\ nrMode' = nrMode /\ nrCells' = nrCells /\ nrWas' = nrWas /\ nrChip' = nrChip
  BY DEF NrChecksAll, NrInv, NrBounds
<1> DEFINE ret == IF NrIsErased(NrAll) THEN 0 ELSE -5
<1>2. nrM' = [nrM EXCEPT !.pc = "end", !.ret = ret] /\ ret \in Int  BY DEF NrChecksAll, NrEnds
<1>3. ret = 0 => nrChip.busy = "no" /\ \A a \in NrAll : nrCells[a] = NrErased  BY DEF NrIsErased, NrRead
<1> HIDE DEF ret
<1>4. nrM'.pc = "end" /\ nrM'.ret = ret /\ nrM'.test = "all"  BY <1>1, <1>2 DEF NrInv, NrTyped
<1>5. NrAll' = NrAll /\ NrErased' = NrErased  BY <1>1, NrStill
<1>6. NrTyped' /\ NrFilled'
  <2>1. nrM' \in [pc : {"off", "idle"} \cup NrLive, test : {"none", "rw", "write", "erase", "all"}, sector : Int, end : Int, at : Int,
                  offset : Int, data : Int, temp : {nrM'.temp}, polls : Int, ret : Int, left : Int]
    BY <1>2 DEF NrInv, NrTyped, NrLive
  <2>2. NrTyped'  BY <1>1, <1>5, <2>1 DEF NrInv, NrTyped
  <2>3. NrFilled'  BY <1>1, <1>4, <1>5 DEF NrInv, NrFilled
  <2> QED  BY <2>2, <2>3
<1>7. NrBounds' /\ NrCopied' /\ NrBehind' /\ NrWithin' /\ NrOutside'
  BY <1>4 DEF NrBounds, NrCopied, NrBehind, NrWithin, NrOutside, NrInSector
<1>8. NrObeys'  BY <1>1, <1>3, <1>4 DEF NrObeys
<1>9. NorRight'  BY <1>1, <1>3, <1>4, <1>5 DEF NorRight, NrTouched
<1> QED  BY <1>6, <1>7, <1>8, <1>9 DEF NrInv

(* What a unit is to hold, as the program and as the invariant put it.     *)
LEMMA NrValueIs ==
  ASSUME NrInv, nrM.pc \in {"program", "poll"}
  PROVE  NrValue = NrWanted(nrM.at) /\ \A a \in NrUnits(nrM.sector) : NrWanted(a) \in Int
<1>1. nrM.test \in {"rw", "write"} /\ nrM.sector \in Int  BY DEF NrInv, NrTyped, NrBounds, NrInSector
<1>2. \A a \in NrUnits(nrM.sector) : a \in NrAll  BY DEF NrUnits
<1>3. nrM.test = "write" => \A a \in NrUnits(nrM.sector) : nrM.temp[a] \in Int  BY DEF NrInv, NrCopied, NrInSector
<1>4. NrValue = NrWanted(nrM.at)  BY DEF NrValue, NrWanted
<1>5. \A a \in NrUnits(nrM.sector) : NrWanted(a) \in Int  BY <1>1, <1>2, <1>3, NrFacts, NrTypes DEF NrWanted
<1> QED  BY <1>4, <1>5

LEMMA NrProgramsStep == NrInv /\ NrPrograms => NrInv'
<1> SUFFICES ASSUME NrInv, NrPrograms PROVE NrInv'
  OBVIOUS
<1>1. /\ nrM.pc = "program" /\ nrM.pc \in NrInSector /\ nrM' = [nrM EXCEPT !.pc = "poll", !.at = nrM.at, !.polls = 0]
      /\ nrM.at \in Int /\ nrMode' = nrMode /\ nrCells' = nrCells /\ nrWas' = nrWas
      /\ nrM'.pc = "poll" /\ nrM'.sector = nrM.sector /\ nrM'.at = nrM.at /\ nrM'.test = nrM.test /\ nrM'.temp = nrM.temp
  BY DEF NrPrograms, NrInv, NrTyped, NrInSector
<1>2. nrM.at \in NrUnits(nrM.sector) /\ nrM.test # "erase" /\ nrChip.busy = "no"  BY <1>1 DEF NrInv, NrBounds, NrObeys
<1>3. nrM.at \in NrAll  BY <1>2 DEF NrUnits
<1> DEFINE v == NrWanted(nrM.at)
<1>4. v \in Int /\ NrValue = v  BY <1>1, <1>2, NrValueIs
<1>5. nrChip' = [busy |-> "program", set |-> {}, at |-> nrM.at, data |-> v]
  BY <1>2, <1>4 DEF NrPrograms, NrTakes, NrIdle
<1>6. NrUnits(nrM.sector)' = NrUnits(nrM.sector) /\ NrErased' = NrErased /\ \A a : NrWanted(a)' = NrWanted(a)
  <2>1. NrUnits(nrM.sector)' = NrUnits(nrM.sector) /\ NrErased' = NrErased /\ \A a : NrPattern(nrM.sector, a)' = NrPattern(nrM.sector, a)
    BY <1>1, NrStill
  <2> QED  BY <1>1, <2>1 DEF NrWanted
<1>7. NrWanted(nrM.at)' = v
  <2>1. NrPattern(nrM.sector, nrM.at)' = NrPattern(nrM.sector, nrM.at)  BY <1>1 DEF NrPattern
  <2> QED  BY <1>1, <2>1 DEF NrWanted
<1> HIDE DEF v
<1>8. nrChip' \in [busy : {"no", "erase", "program", "stuck"}, set : SUBSET NrAll, at : Int, data : Int] /\ nrChip'.at \in NrAll
  BY <1>1, <1>3, <1>4, <1>5
<1>9. NrObeys'
  <2>1. nrCells[nrM.at] = NrErased  BY <1>1, <1>2 DEF NrInv, NrWithin
  <2>2. nrChip'.busy = "program" /\ nrChip'.at = nrM'.at /\ nrChip'.data = NrWanted(nrM.at)' /\ nrCells'[nrM'.at] = NrErased'
    BY <1>1, <1>5, <1>6, <1>7, <2>1
  <2> QED  BY <1>1, <2>2 DEF NrObeys
<1>10. NrWithin'  BY <1>1, <1>6 DEF NrInv, NrWithin
<1> QED
  <2> DEFINE polls == 0
  <2>1. "poll" \in NrInSector /\ polls \in Int  BY DEF NrInSector
  <2>2. nrM' = [nrM EXCEPT !.pc = "poll", !.at = nrM.at, !.polls = polls]  BY <1>1
  <2> HIDE DEF polls
  <2>3. /\ nrM.pc \in NrInSector /\ nrM.at \in Int /\ nrMode' = nrMode /\ nrCells' = nrCells /\ nrWas' = nrWas
        /\ nrChip'.busy \in {"program", "stuck"} => nrChip'.at \in NrAll
        /\ "poll" \in {"program", "poll"} => nrM.at \in NrUnits(nrM.sector) /\ nrM.test # "erase"
    BY <1>1, <1>2, <1>8
  <2>4. nrChip' \in [busy : {"no", "erase", "program", "stuck"}, set : SUBSET NrAll, at : Int, data : Int]  BY <1>8
  <2> QED  BY <1>9, <1>10, <2>1, <2>2, <2>3, <2>4, NrMoves

(* The flash answers with the data only when it is programmed.             *)
LEMMA NrAnswer ==
  ASSUME NrInv, nrM.pc = "poll", NrRead(nrM.at) = NrValue
  PROVE  nrChip.busy = "no" /\ \A a \in NrUnits(nrM.sector) : a < nrM.at \/ a = nrM.at => nrCells[a] = NrWanted(a)
<1>1. nrM.at \in NrUnits(nrM.sector)  BY DEF NrInv, NrBounds
<1>2. NrValue = NrWanted(nrM.at) /\ NrWanted(nrM.at) \in Int  BY <1>1, NrValueIs
<1>3. nrChip.busy = "no" /\ nrCells[nrM.at] = NrWanted(nrM.at)
  <2>1. \/ nrChip.busy = "no" /\ nrCells[nrM.at] = NrWanted(nrM.at)
        \/ nrChip.busy \in {"program", "stuck"} /\ nrChip.data = NrWanted(nrM.at)
    BY DEF NrInv, NrObeys
  <2>2. ASSUME nrChip.busy \in {"program", "stuck"}, nrChip.data = NrWanted(nrM.at) PROVE FALSE
    <3> DEFINE d == NrWanted(nrM.at)
    <3>1. d \in Int /\ NrOther7(d) = d  BY <1>2, <2>2 DEF NrRead
    <3> HIDE DEF d
    <3> QED  BY <3>1 DEF NrOther7
  <2> QED  BY <2>1, <2>2
<1>4. \A a \in NrUnits(nrM.sector) : a < nrM.at => nrCells[a] = NrWanted(a)  BY DEF NrInv, NrWithin
<1> QED  BY <1>3, <1>4

(* The unit after it, in an erased cell; or the sector is written.         *)
LEMMA NrUnitAfter ==
  ASSUME NrInv, nrM.pc = "poll", NrRead(nrM.at) = NrValue, nrMode' = nrMode, nrCells' = nrCells, nrWas' = nrWas, nrChip' = nrChip,
         nrM.at + nrMode < NrFirst(nrM.sector) + NrLength(nrM.sector),
         NEW next, next = nrM.at + nrMode, nrM' = [nrM EXCEPT !.pc = "program", !.at = next, !.polls = nrM.polls]
  PROVE  NrInv'
<1>1. /\ nrM.at \in NrUnits(nrM.sector) /\ nrM.test # "erase" /\ nrMode \in {1, 2} /\ nrM.polls \in Int
      /\ nrM.sector \in Nat /\ nrM.sector < FLASH_TOTAL_SEC_NUM /\ nrM.pc \in NrInSector
  BY NrFacts DEF NrInv, NrTyped, NrBounds, NrInSector
<1>2. next \in NrUnits(nrM.sector) /\ \A a \in NrUnits(nrM.sector) : a < next => a < nrM.at \/ a = nrM.at  BY <1>1, NrUnitNext
<1>3. \A a \in NrUnits(nrM.sector) : a \in Nat  BY <1>1, NrUnitFirst
<1>4. nrM.at \in Nat /\ next \in Nat /\ next > nrM.at  BY <1>1, <1>3
<1>6. nrM'.pc = "program" /\ nrM'.at = next /\ nrM'.sector = nrM.sector /\ nrM'.test = nrM.test /\ nrM'.temp = nrM.temp
  BY DEF NrInv, NrTyped
<1>7. NrUnits(nrM.sector)' = NrUnits(nrM.sector) /\ NrErased' = NrErased  BY <1>6, NrStill
<1>8. nrChip.busy = "no" /\ \A a \in NrUnits(nrM.sector) : a < nrM.at \/ a = nrM.at => nrCells[a] = NrWanted(a)  BY NrAnswer
<1>9. NrObeys'  BY <1>6, <1>8 DEF NrObeys
<1>10. NrWithin'
  <2>1. ASSUME NEW a \in NrUnits(nrM.sector), a < next PROVE nrCells'[a] = NrWanted(a)'
    <3>1. nrCells'[a] = NrWanted(a)  BY <1>2, <1>8, <2>1
    <3>2. NrPattern(nrM.sector, a)' = NrPattern(nrM.sector, a)  BY <1>6, NrStill
    <3> QED  BY <1>6, <3>1, <3>2 DEF NrWanted
  <2>2. ASSUME NEW a \in NrUnits(nrM.sector), a > next \/ a = next PROVE nrCells'[a] = NrErased'
    <3>1. a > nrM.at  BY <1>3, <1>4, <2>2
    <3> QED  BY <1>7, <3>1 DEF NrInv, NrWithin
  <2> QED  BY <1>6, <1>7, <2>1, <2>2 DEF NrWithin
<1> QED
  <2>1. /\ "program" \in NrInSector /\ next \in Int
        /\ "program" \in {"program", "poll"} => next \in NrUnits(nrM.sector) /\ nrM.test # "erase"
    BY <1>1, <1>2, <1>4 DEF NrInSector
  <2>2. nrChip' \in [busy : {"no", "erase", "program", "stuck"}, set : SUBSET NrAll, at : Int, data : Int]  BY DEF NrInv, NrTyped
  <2>3. nrChip'.busy \in {"program", "stuck"} => nrChip'.at \in NrAll  BY DEF NrInv, NrFilled
  <2>4. nrM.pc \in NrInSector /\ nrM.polls \in Int  BY <1>1
  <2>5. "program" \in {"program", "poll"} => next \in NrUnits(nrM.sector) /\ nrM.test # "erase"  BY <2>1
  <2>6. "program" \in NrInSector /\ next \in Int  BY <2>1
  <2> QED  BY <1>9, <1>10, <2>2, <2>3, <2>4, <2>5, <2>6, NrMoves

(* The sector after it; or the test has passed.                            *)
LEMMA NrSectorAfter ==
  ASSUME NrInv, nrM.pc = "poll", nrM.test = "rw", nrMode' = nrMode, nrCells' = nrCells, nrWas' = nrWas, nrChip' = nrChip,
         nrChip.busy = "no", \A a \in NrUnits(nrM.sector) : nrCells[a] = NrPattern(nrM.sector, a),
         nrM.sector # nrM.end, nrM' = [nrM EXCEPT !.pc = "erase", !.sector = @ + 1]
  PROVE  NrInv'
<1>1. /\ nrM'.pc = "erase" /\ nrM'.at = nrM.at /\ nrM'.test = "rw" /\ nrM'.sector = nrM.sector + 1 /\ nrM'.end = nrM.end
      /\ nrM.pc \in NrInSector
  BY DEF NrInv, NrTyped, NrInSector
<1>2. /\ NrAll' = NrAll /\ NrTestSectors' = NrTestSectors /\ \A a : NrPattern(NrSectorOf(a), a)' = NrPattern(NrSectorOf(a), a)
  <2>1. NrAll' = NrAll /\ \A a : NrPattern(NrSectorOf(a), a)' = NrPattern(NrSectorOf(a), a)  BY NrStill
  <2> QED  BY <1>1, <2>1 DEF NrTestSectors
<1>3. /\ nrM.sector \in Nat /\ NrUnits(nrM.sector) = {a \in NrAll : NrSectorOf(a) = nrM.sector}
      /\ \A a \in NrAll : NrSectorOf(a) \in Nat
  BY <1>1, NrFacts
<1>4. NrTyped'
  <2>1. nrM.sector + 1 \in Int  BY <1>3
  <2>2. nrM' \in [pc : {"off", "idle"} \cup NrLive, test : {"none", "rw", "write", "erase", "all"}, sector : Int, end : Int, at : Int,
                  offset : Int, data : Int, temp : {nrM'.temp}, polls : Int, ret : Int, left : Int]
    BY <1>1, <2>1 DEF NrInv, NrTyped, NrLive, NrInSector
  <2> QED  BY <1>2, <2>2 DEF NrInv, NrTyped
<1>5. NrFilled'  BY <1>1, <1>2 DEF NrInv, NrFilled
<1>6. NrBounds'
  <2>1. nrWas.from \in Nat /\ nrWas.from <= nrM.sector /\ nrM.sector <= nrM.end /\ nrM.end < FLASH_TOTAL_SEC_NUM
    BY <1>1 DEF NrInv, NrBounds
  <2>2. nrM.end \in Int /\ FLASH_TOTAL_SEC_NUM \in Int  BY NrConstants DEF NrInv, NrTyped
  <2>3. nrWas.from <= nrM.sector + 1 /\ nrM.sector + 1 <= nrM.end  BY <1>3, <2>1, <2>2
  <2> QED  BY <1>1, <2>1, <2>3 DEF NrBounds
<1>7. NrCopied' /\ NrWithin' /\ NorRight'  BY <1>1 DEF NrCopied, NrWithin, NorRight
<1>8. NrObeys'  BY <1>1 DEF NrObeys
<1>9. NrBehind'
  <2>1. ASSUME NEW a \in NrAll, nrWas.from <= NrSectorOf(a), NrSectorOf(a) < nrM.sector + 1
        PROVE  nrCells[a] = NrPattern(NrSectorOf(a), a)
    <3>1. NrSectorOf(a) < nrM.sector \/ NrSectorOf(a) = nrM.sector  BY <1>3, <2>1
    <3>2. CASE NrSectorOf(a) < nrM.sector  BY <1>1, <2>1, <3>2 DEF NrInv, NrBehind
    <3>3. CASE NrSectorOf(a) = nrM.sector
      <4>1. a \in NrUnits(nrM.sector)  BY <1>3, <3>3
      <4> QED  BY <3>3, <4>1
    <3> QED  BY <3>1, <3>2, <3>3
  <2> QED  BY <1>1, <1>2, <2>1 DEF NrBehind
<1>10. NrOutside'  BY <1>1, <1>2 DEF NrInv, NrOutside
<1> QED  BY <1>4, <1>5, <1>6, <1>7, <1>8, <1>9, <1>10 DEF NrInv

LEMMA NrProgramsUnit == NrInv /\ mxic_program => NrInv'
<1> SUFFICES ASSUME NrInv, mxic_program PROVE NrInv'
  OBVIOUS
<1>1. /\ nrM.pc = "poll" /\ nrM.pc \in NrInSector /\ nrM.pc \in {"verify", "poll"}
      /\ nrMode' = nrMode /\ nrCells' = nrCells /\ nrWas' = nrWas /\ nrChip' = nrChip
  BY DEF mxic_program, NrInSector
<1>2. /\ nrM.at \in NrUnits(nrM.sector) /\ nrM.test \in {"rw", "write"} /\ nrM.at \in Int /\ nrM.polls \in Int /\ nrMode \in {1, 2}
      /\ nrM.sector \in Nat /\ nrM.sector < FLASH_TOTAL_SEC_NUM
  BY <1>1, NrFacts DEF NrInv, NrTyped, NrBounds
<1>3. CASE NrRead(nrM.at) # NrValue
  <2>1. CASE nrM.polls >= nrPolls
    <3> DEFINE ret == 1
    <3>1. nrM' = [nrM EXCEPT !.pc = "end", !.ret = ret]  BY <1>3, <2>1 DEF mxic_program, NrEnds
    <3>2. ret \in Int /\ ret # 0  OBVIOUS
    <3> HIDE DEF ret
    <3> QED  BY <1>1, <3>1, <3>2, NrEnding
  <2>2. CASE ~(nrM.polls >= nrPolls)
    <3> DEFINE polls == nrM.polls + 1
    <3>1. nrM' = [nrM EXCEPT !.polls = polls]  BY <1>3, <2>2 DEF mxic_program
    <3>2. polls \in Int  BY <1>2
    <3> HIDE DEF polls
    <3>3. nrM' = [nrM EXCEPT !.pc = "poll", !.at = nrM.at, !.polls = polls]  BY <1>1, <3>1 DEF NrInv, NrTyped
    <3>4. nrM'.pc = "poll" /\ nrM'.at = nrM.at /\ nrM'.sector = nrM.sector /\ nrM'.test = nrM.test /\ nrM'.temp = nrM.temp
      BY <1>1, <3>1 DEF NrInv, NrTyped
    <3>5. NrUnits(nrM.sector)' = NrUnits(nrM.sector) /\ NrErased' = NrErased  BY <1>1, <3>4, NrStill
    <3>6. \A a : NrWanted(a)' = NrWanted(a)
      <4>1. \A a : NrPattern(nrM.sector, a)' = NrPattern(nrM.sector, a)  BY <1>1, <3>4, NrStill
      <4> QED  BY <3>4, <4>1 DEF NrWanted
    <3>7. NrWanted(nrM.at)' = NrWanted(nrM.at)
      <4>1. NrPattern(nrM.sector, nrM.at)' = NrPattern(nrM.sector, nrM.at)  BY <1>1, <3>4 DEF NrPattern
      <4> QED  BY <3>4, <4>1 DEF NrWanted
    <3>8. NrObeys'  BY <1>1, <3>4, <3>5, <3>7 DEF NrInv, NrObeys
    <3>9. NrWithin'  BY <1>1, <3>4, <3>5, <3>6 DEF NrInv, NrWithin
    <3>10. /\ "poll" \in NrInSector /\ "poll" \in {"program", "poll"} => nrM.at \in NrUnits(nrM.sector) /\ nrM.test # "erase"
      BY <1>2 DEF NrInSector
    <3>11. nrChip' \in [busy : {"no", "erase", "program", "stuck"}, set : SUBSET NrAll, at : Int, data : Int]
      BY <1>1 DEF NrInv, NrTyped
    <3>12. nrChip'.busy \in {"program", "stuck"} => nrChip'.at \in NrAll  BY <1>1 DEF NrInv, NrFilled
    <3> QED  BY <1>1, <1>2, <3>2, <3>3, <3>8, <3>9, <3>10, <3>11, <3>12, NrMoves
  <2> QED  BY <2>1, <2>2
<1>4. CASE NrRead(nrM.at) = NrValue
  <2>1. NrNext  BY <1>4 DEF mxic_program
  <2>2. nrChip.busy = "no" /\ \A a \in NrUnits(nrM.sector) : a < nrM.at \/ a = nrM.at => nrCells[a] = NrWanted(a)
    BY <1>1, <1>4, NrAnswer
  <2>3. CASE nrM.at + nrMode < NrFirst(nrM.sector) + NrLength(nrM.sector)
    <3> DEFINE next == nrM.at + nrMode
    <3>1. nrM' = [nrM EXCEPT !.pc = "program", !.at = next]  BY <2>1, <2>3 DEF NrNext
    <3>2. nrM' = [nrM EXCEPT !.pc = "program", !.at = next, !.polls = nrM.polls]  BY <3>1 DEF NrInv, NrTyped
    <3>3. next = nrM.at + nrMode  OBVIOUS
    <3> HIDE DEF next
    <3> QED  BY <1>1, <1>4, <2>3, <3>2, <3>3, NrUnitAfter
  <2>4. CASE ~(nrM.at + nrMode < NrFirst(nrM.sector) + NrLength(nrM.sector))
    <3>1. \A a \in NrUnits(nrM.sector) : nrCells[a] = NrWanted(a)
      <4>1. \A a \in NrUnits(nrM.sector) : a < nrM.at \/ a = nrM.at  BY <1>2, <2>4, NrUnitNext
      <4> QED  BY <2>2, <4>1
    <3>2. CASE nrM.test = "write"
      <4> DEFINE ret == IF nrMode = 1 /\ NrRead(nrM.offset) # nrM.data THEN -6 ELSE 0
      <4>1. nrM' = [nrM EXCEPT !.pc = "end", !.ret = ret]  BY <2>1, <2>4, <3>2 DEF NrNext, NrEnds
      <4>2. ret \in Int  OBVIOUS
      <4> HIDE DEF ret
      <4>3. nrM.offset \in NrUnits(nrM.sector) /\ nrM.temp[nrM.offset] = nrM.data
            /\ (~nrWas.busy => \A a \in NrUnits(nrM.sector) \ {nrM.offset} : nrM.temp[a] = nrWas.cells[a])
        BY <1>1, <3>2 DEF NrInv, NrCopied, NrInSector
      <4>4. \A a \in NrUnits(nrM.sector) : nrCells[a] = nrM.temp[a]  BY <3>1, <3>2 DEF NrWanted
      <4>5. nrCells[nrM.offset] = nrM.data /\
              (~nrWas.busy => \A a \in NrUnits(nrM.sector) \ {nrM.offset} : nrCells[a] = nrWas.cells[a])
        BY <4>3, <4>4
      <4>6. nrM.test # "rw" /\ nrM.test # "erase"  BY <3>2
      <4> QED  BY <1>1, <2>2, <4>1, <4>2, <4>5, <4>6, NrEnding
    <3>3. CASE nrM.test = "rw"
      <4>1. \A a \in NrUnits(nrM.sector) : nrCells[a] = NrPattern(nrM.sector, a)  BY <3>1, <3>3 DEF NrWanted
      <4>2. CASE nrM.sector = nrM.end
        <5> DEFINE ret == 0
        <5>1. nrM' = [nrM EXCEPT !.pc = "end", !.ret = ret]  BY <2>1, <2>4, <3>3, <4>2 DEF NrNext, NrEnds
        <5>2. ret \in Int  OBVIOUS
        <5> HIDE DEF ret
        <5>3. /\ NrUnits(nrM.sector) = {a \in NrAll : NrSectorOf(a) = nrM.sector} /\ \A a \in NrAll : NrSectorOf(a) \in Nat
          BY <1>1, NrFacts
        <5>4. ASSUME NEW a \in NrTestSectors PROVE nrCells[a] = NrPattern(NrSectorOf(a), a)
          <6>1. a \in NrAll /\ nrWas.from <= NrSectorOf(a) /\ NrSectorOf(a) <= nrM.sector  BY <4>2 DEF NrTestSectors
          <6>2. NrSectorOf(a) < nrM.sector \/ NrSectorOf(a) = nrM.sector  BY <1>2, <5>3, <6>1
          <6>3. CASE NrSectorOf(a) < nrM.sector  BY <1>1, <3>3, <6>1, <6>3 DEF NrInv, NrBehind
          <6>4. CASE NrSectorOf(a) = nrM.sector
            <7>1. a \in NrUnits(nrM.sector)  BY <5>3, <6>1, <6>4
            <7> QED  BY <4>1, <6>4, <7>1
          <6> QED  BY <6>2, <6>3, <6>4
        <5>5. nrM.test # "write" /\ nrM.test # "erase"  BY <3>3
        <5> QED  BY <1>1, <2>2, <5>1, <5>2, <5>4, <5>5, NrEnding
      <4>3. CASE nrM.sector # nrM.end
        <5>1. nrM' = [nrM EXCEPT !.pc = "erase", !.sector = @ + 1]  BY <2>1, <2>4, <3>3, <4>3 DEF NrNext
        <5> QED  BY <1>1, <2>2, <3>3, <4>1, <4>3, <5>1, NrSectorAfter
      <4> QED  BY <4>2, <4>3
    <3> QED  BY <1>2, <3>2, <3>3
  <2> QED  BY <2>3, <2>4
<1> QED  BY <1>3, <1>4

(* Between tests nothing is promised but the types.                        *)
LEMMA NrRests ==
  ASSUME NrInv, NrBack \/ UNCHANGED nrVars PROVE NrInv'
<1>1. CASE UNCHANGED nrVars
  <2>1. nrM' = nrM /\ nrMode' = nrMode /\ nrChip' = nrChip /\ nrCells' = nrCells /\ nrWas' = nrWas  BY <1>1 DEF nrVars
  <2>2. /\ NrAll' = NrAll /\ NrErased' = NrErased /\ NrUnits(nrM.sector)' = NrUnits(nrM.sector)
        /\ \A a : NrPattern(nrM.sector, a)' = NrPattern(nrM.sector, a)
        /\ \A a : NrPattern(NrSectorOf(a), a)' = NrPattern(NrSectorOf(a), a)
    BY <2>1, NrStill
  <2>3. NrTestSectors' = NrTestSectors  BY <2>1, <2>2 DEF NrTestSectors
  <2>4. \A a : NrWanted(a)' = NrWanted(a)  BY <2>1, <2>2 DEF NrWanted
  <2>5. NrTyped' /\ NrFilled' /\ NrBounds' /\ NrCopied'
    <3>1. NrTyped'  BY <2>1, <2>2 DEF NrInv, NrTyped
    <3>2. NrFilled'  BY <2>1, <2>2 DEF NrInv, NrFilled
    <3>3. NrBounds'  BY <2>1, <2>2 DEF NrInv, NrBounds
    <3>4. NrCopied'  BY <2>1, <2>2 DEF NrInv, NrCopied
    <3> QED  BY <3>1, <3>2, <3>3, <3>4
  <2>6. NrObeys'
    <3>1. NrWanted(nrM.at)' = NrWanted(nrM.at)  BY <2>1 DEF NrWanted, NrPattern
    <3>2. NrKnown' = NrKnown  BY <2>1 DEF NrKnown
    <3> QED  BY <2>1, <2>2, <2>3, <3>1, <3>2 DEF NrInv, NrObeys
  <2>7. NrBehind' /\ NrWithin' /\ NrOutside' /\ NorRight'
    <3>1. NrBehind'  BY <2>1, <2>2 DEF NrInv, NrBehind
    <3>2. NrWithin'  BY <2>1, <2>2, <2>4 DEF NrInv, NrWithin
    <3>3. NrOutside'  BY <2>1, <2>2, <2>3 DEF NrInv, NrOutside
    <3>4. NrTouched' = NrTouched  BY <2>1, <2>2 DEF NrTouched
    <3>5. NorRight'  BY <2>1, <2>2, <3>4 DEF NrInv, NorRight
    <3> QED  BY <3>1, <3>2, <3>3, <3>5
  <2> QED  BY <2>5, <2>6, <2>7 DEF NrInv
<1>2. CASE NrBack
  <2>1. nrM' = [pc |-> "idle", test |-> "none", sector |-> 0, end |-> 0, at |-> 0, offset |-> 0, data |-> 0, temp |-> <<>>, polls |-> 0, ret |-> 0, left |-> nrM.left]
    BY <1>2 DEF NrBack, NrDone
  <2>2. nrMode' = nrMode /\ nrChip' = nrChip /\ nrCells' = nrCells /\ nrWas' = nrWas /\ nrM.pc = "end"  BY <1>2 DEF NrBack
  <2>3. NrAll' = NrAll  BY <2>2, NrStill
  <2>4. nrM' \in [pc : {"off", "idle"} \cup NrLive, test : {"none", "rw", "write", "erase", "all"}, sector : Int, end : Int, at : Int,
                  offset : Int, data : Int, temp : {nrM'.temp}, polls : Int, ret : Int, left : Int] /\ nrM'.pc = "idle"
    <3>1. nrM.left \in Int  BY DEF NrInv, NrTyped
    <3> QED  BY <2>1, <3>1
  <2>5. NrTyped'  BY <2>2, <2>3, <2>4 DEF NrInv, NrTyped
  <2>6. NrFilled'  BY <2>2, <2>3, <2>4 DEF NrInv, NrFilled
  <2>7. NrBounds' /\ NrCopied' /\ NrObeys' /\ NrBehind' /\ NrWithin' /\ NrOutside' /\ NorRight'
    BY <2>4 DEF NrBounds, NrCopied, NrObeys, NrBehind, NrWithin, NrOutside, NorRight, NrInSector
  <2> QED  BY <2>5, <2>6, <2>7 DEF NrInv
<1> QED  BY <1>1, <1>2

LEMMA NrNextStep == NrInv /\ [NrStep]_nrVars => NrInv'
BY NrStarts, NrErasesStep, NrResetsStep, NrVerifies, NrChecks, NrProgramsStep, NrProgramsUnit, NrRests, NrFinishesStep DEF NrStep

LEMMA NrStarting == NrStart("idle") \/ NrStart("off") => NrInv
<1> SUFFICES ASSUME NEW pc \in {"idle", "off"}, NrStart(pc) PROVE NrInv
  OBVIOUS
<1>1. nrM = [pc |-> pc, test |-> "none", sector |-> 0, end |-> 0, at |-> 0, offset |-> 0, data |-> 0, temp |-> <<>>, polls |-> 0, ret |-> 0, left |-> nrTests]
  BY DEF NrStart, NrDone
<1>2. /\ nrMode \in {1, 2} /\ nrChip = [busy |-> "no", set |-> {}, at |-> 0, data |-> 0] /\ (pc = "idle" => nrCells = [a \in NrAll |-> 0])
      /\ nrWas = [cells |-> nrCells, busy |-> FALSE, from |-> 0]
  BY DEF NrStart, NrIdle
<1>3. nrM \in [pc : {"off", "idle"} \cup NrLive, test : {"none", "rw", "write", "erase", "all"}, sector : Int, end : Int, at : Int,
               offset : Int, data : Int, temp : {nrM.temp}, polls : Int, ret : Int, left : Int] /\ nrM.pc = pc
  BY <1>1, NrAssumption
<1>4. NrTyped
  <2>1. nrChip \in [busy : {"no", "erase", "program", "stuck"}, set : SUBSET NrAll, at : Int, data : Int]  BY <1>2
  <2>2. nrWas \in [cells : {nrWas.cells}, busy : BOOLEAN, from : Int]  BY <1>2
  <2> QED  BY <1>2, <1>3, <2>1, <2>2 DEF NrTyped
<1>5. NrFilled
  <2>1. nrChip.busy = "no"  BY <1>2
  <2>2. nrM.pc # "off" => nrCells \in [NrAll -> Int]  BY <1>2, <1>3
  <2> QED  BY <2>1, <2>2 DEF NrFilled
<1>6. NrBounds /\ NrCopied /\ NrObeys /\ NrBehind /\ NrWithin /\ NrOutside /\ NorRight
  BY <1>3 DEF NrBounds, NrCopied, NrObeys, NrBehind, NrWithin, NrOutside, NorRight, NrInSector
<1> QED  BY <1>4, <1>5, <1>6 DEF NrInv

LEMMA NrInvRight == NrInv => NorRight
BY DEF NrInv

=============================================================================
