------------------------------ MODULE VideoTest ------------------------------
(***************************************************************************)
(* The main menu with the tests of video in (VIP) and out (VOP) of         *)
(* src/VIP_VOP, whose menus choose in static variables what a run sets up. *)
(*                                                                         *)
(* All other items of the main menu are one, with any verdict.  A frame    *)
(* buffer is its number; the two chips answer over I2C or not.  VIP with   *)
(* interrupts is used by VOP -> VIP only, whose item is never enabled.     *)
(***************************************************************************)
EXTENDS TestMenu

VARIABLES
  vvSel,  \* test_flag, format, size, output422
  vvOn,   \* enabled: the items of VIP (HAVE_VIP), and those of the size menu
  vvVip,  \* its registers: FS, the frames it captures into, CTRL
  vvVop,  \* its registers: FSS, the frames the hardware may display, CTRL,
          \* INTE and status; the routine of its interrupt, and has it read the status
  vvFrame \* bytes of brightness and of each colour painted; the LCD: is it on, 4:2:2

videoVars == <<tmVars, vvSel, vvOn, vvVip, vvVop, vvFrame>>

VvSizes == {"socle_viop_cif_test", "socle_viop_qvga_test", "socle_viop_vga_test", "socle_viop_d1_test"}
VvItem(func, auto, enable) == [func |-> func, allow_autotest |-> auto, enable |-> enable]
VvMain == <<VvItem("VIP_VOP_Testing", TRUE, TRUE), VvItem("other", TRUE, TRUE), VvItem("other", FALSE, TRUE)>>
socle_vip_vop_main_test_items ==
  <<VvItem("socle_vip_to_vop_test", TRUE, vvOn.vip), VvItem("socle_vop_to_vip_test", FALSE, FALSE),
    VvItem("socle_vip_to_lcd_test", TRUE, vvOn.vip), VvItem("socle_vop_color_display_test", TRUE, TRUE)>>
socle_viop_format_test_items == <<VvItem("socle_viop_ntsc_test", TRUE, TRUE), VvItem("socle_viop_pal_test", TRUE, TRUE)>>
socle_viop_size_test_items ==
  LET item(func) == VvItem(func, TRUE, func \in vvOn.sizes)
  IN <<item("socle_viop_cif_test"), item("socle_viop_qvga_test"), item("socle_viop_vga_test"), item("socle_viop_d1_test")>>
socle_vip_42x_test_items == <<VvItem("socle_vip_420_test", TRUE, TRUE), VvItem("socle_vip_422_test", TRUE, TRUE)>>

VvVipOff == [fs |-> 0, f1 |-> 0, f2 |-> 0, format |-> "ntsc", yuv |-> 420, on |-> FALSE]
VvVopOff == [fss |-> 0, hw |-> {}, format |-> "ntsc", on |-> FALSE, inte |-> FALSE, int |-> FALSE, isr |-> "none", read |-> FALSE]
VvStart(pc) ==
  /\ TmStart(pc, VvMain)
  /\ vvSel = [flag |-> "vop", format |-> "ntsc", size |-> "none", yuv |-> 420]
  /\ \E have \in (IF pc = "off" THEN {FALSE} ELSE BOOLEAN) : vvOn = [vip |-> have, sizes |-> VvSizes]
  /\ vvVip = VvVipOff /\ vvVop = VvVopOff /\ vvFrame = [y |-> 0, c |-> 0, lcd |-> FALSE, yuv |-> 420]
-----------------------------------------------------------------------------
(* The items' functions: what they set, and the menu they show.            *)
VvDoes(func) == tmDo.pc = "item" /\ tmDo.func = func
VvMenu(sel, on, items) == vvSel' = sel /\ vvOn' = on /\ test_item_ctrl(items, tmDo.auto) /\ UNCHANGED <<vvVip, vvVop, vvFrame>>
VvTests(flag) == VvMenu([vvSel EXCEPT !.flag = flag], vvOn, socle_viop_format_test_items)
VIP_VOP_Testing == VvDoes("VIP_VOP_Testing") /\ VvMenu(vvSel, vvOn, socle_vip_vop_main_test_items)
socle_vip_to_vop_test == VvDoes("socle_vip_to_vop_test") /\ VvTests("vop")
socle_vip_to_lcd_test ==
  /\ VvDoes("socle_vip_to_lcd_test")
  /\ VvMenu([vvSel EXCEPT !.flag = "lcd"], [vvOn EXCEPT !.sizes = {"socle_viop_qvga_test"}], socle_viop_format_test_items)
socle_vop_color_display_test == VvDoes("socle_vop_color_display_test") /\ VvTests("color")
VvFormat(format) == VvMenu([vvSel EXCEPT !.format = format], vvOn, socle_viop_size_test_items)
socle_viop_ntsc_test == VvDoes("socle_viop_ntsc_test") /\ VvFormat("ntsc")
socle_viop_pal_test == VvDoes("socle_viop_pal_test") /\ VvFormat("pal")
(* A size goes on to a run, or for the LCD to the menu of 4:2:0 and 4:2:2. *)
VvSize(size) ==
  /\ VvDoes(size)
  /\ IF vvSel.flag = "lcd" THEN VvMenu([vvSel EXCEPT !.size = size], vvOn, socle_vip_42x_test_items)
     ELSE /\ vvSel' = [vvSel EXCEPT !.size = size] /\ tmDo' = [tmDo EXCEPT !.pc = "run"]
          /\ UNCHANGED <<tmCalls, tmLayer, tmName, tmLeft, vvOn, vvVip, vvVop, vvFrame>>
VvYuv(func, yuv) ==
  /\ VvDoes(func) /\ vvSel' = [vvSel EXCEPT !.yuv = yuv] /\ tmDo' = [tmDo EXCEPT !.pc = "run"]
  /\ UNCHANGED <<tmCalls, tmLayer, tmName, tmLeft, vvOn, vvVip, vvVop, vvFrame>>
socle_viop_cif_test == VvSize("socle_viop_cif_test")
socle_viop_qvga_test == VvSize("socle_viop_qvga_test")
socle_viop_vga_test == VvSize("socle_viop_vga_test")
socle_viop_d1_test == VvSize("socle_viop_d1_test")
socle_vip_420_test == VvYuv("socle_vip_420_test", 420)
socle_vip_422_test == VvYuv("socle_vip_422_test", 422)
VvOther == VvDoes("other") /\ (\E ret \in {0, -1} : TmItemReturns(ret)) /\ UNCHANGED <<vvSel, vvOn, vvVip, vvVop, vvFrame>>
(* The menu an item has shown is left: that of the LCD enables all sizes.  *)
VvLeft ==
  /\ tmDo.pc = "left" /\ TmItemReturns(tmDo.ret) /\ UNCHANGED <<vvSel, vvVip, vvVop, vvFrame>>
  /\ vvOn' = IF tmDo.func = "socle_vip_to_lcd_test" THEN [vvOn EXCEPT !.sizes = VvSizes] ELSE vvOn
-----------------------------------------------------------------------------
(* The two devices (vip.c, vop.c).                                         *)
vipReset(v) == [v EXCEPT !.on = FALSE, !.format = "ntsc", !.yuv = 420]
vipSetOutFormat(v, format) == [v EXCEPT !.format = format]
vipSet422Output(v, yuv) == [v EXCEPT !.yuv = yuv]
VvVipFS == [socle_viop_cif_test |-> 352 * 65536 + 288, socle_viop_qvga_test |-> 320 * 65536 + 240,
            socle_viop_vga_test |-> 640 * 65536 + 480, socle_viop_d1_test |-> 720 * 65536 + 480]
vipSetFrameSize(v, size) == [v EXCEPT !.fs = VvVipFS[size]]
vipSetFrameCaptureAddr(v, f1, f2) == [v EXCEPT !.f1 = f1, !.f2 = f2]
vipStart(v) == [v EXCEPT !.on = TRUE]
vipStop(v) == [v EXCEPT !.on = FALSE, !.format = "ntsc", !.yuv = 420]

vopReset(v) == [VvVopOff EXCEPT !.fss = v.fss, !.isr = v.isr]
vopSetOutFormat(v, format) == [v EXCEPT !.format = format]
VvVopFSS == [socle_viop_cif_test |-> 352 * 1024 + 288, socle_viop_qvga_test |-> 320 * 1024 + 240,
             socle_viop_vga_test |-> 640 * 1024 + 480, socle_viop_d1_test |-> 720 * 1024 + 480]
vopSetFrameSize(v, size) == [v EXCEPT !.fss = VvVopFSS[size]]
vopSetFrameDisplayAddr(v, frame) == [v EXCEPT !.hw = @ \cup {frame}]
vopSetFrameMode(v, mode) == [v EXCEPT !.isr = mode]
vopStart(v) == [v EXCEPT !.inte = TRUE, !.on = TRUE]
vopStop(v) == [v EXCEPT !.inte = FALSE, !.on = FALSE, !.format = "ntsc", !.isr = "none"]

(* Blocks of 16 lines and columns; a colour has half of each.              *)
socle_init_color_bar(size) ==
  LET w == VvVopFSS[size] \div 1024
      h == VvVopFSS[size] % 1024
  IN [vvFrame EXCEPT !.y = (h \div 16) * 16 * (w \div 16) * 16, !.c = (h \div 16) * 8 * (w \div 16) * 8]

(* A run sets everything up, gives up if a chip has not answered, and      *)
(* shows until Enter is pressed.                                           *)
VvRun(vip, vop, frame) ==
  /\ tmDo.pc = "run" /\ UNCHANGED <<vvSel, vvOn>>
  /\ \/ /\ vvVip' = vip /\ vvVop' = vop /\ vvFrame' = frame /\ TmItemReturns(-1)
     \/ /\ vvVip' = (IF vvSel.flag = "color" THEN vip ELSE vipStart(vip)) /\ vvVop' = (IF vvSel.flag = "lcd" THEN vop ELSE vopStart(vop))
        /\ vvFrame' = (IF vvSel.flag = "lcd" THEN [frame EXCEPT !.lcd = TRUE, !.yuv = vvSel.yuv] ELSE frame)
        /\ tmDo' = [tmDo EXCEPT !.pc = "shows"] /\ UNCHANGED <<tmCalls, tmLayer, tmName, tmLeft>>
VvVipSet(f2) == vipSetFrameCaptureAddr(vipSetFrameSize(vipSetOutFormat(vipReset(vvVip), vvSel.format), vvSel.size), 1, f2)
VvVopSet == vopSetFrameDisplayAddr(vopSetFrameSize(vopSetOutFormat(vopReset(vvVop), vvSel.format), vvSel.size), 1)
socle_vip_to_vop_run ==
  vvSel.flag = "vop" /\ VvRun(VvVipSet(2), vopSetFrameMode(vopSetFrameDisplayAddr(VvVopSet, 2), "two"), vvFrame)
socle_vip_to_lcd_run == vvSel.flag = "lcd" /\ VvRun(vipSet422Output(VvVipSet(1), vvSel.yuv), vvVop, vvFrame)
socle_vop_color_display_run ==
  /\ vvSel.flag = "color" /\ VvRun(vvVip, vopSetFrameMode(VvVopSet, "one"), socle_init_color_bar(vvSel.size))
VvEnter ==
  /\ tmDo.pc = "shows" /\ ~vvVop.read /\ TmItemReturns(0) /\ UNCHANGED <<vvSel, vvOn>>
  /\ vvVip' = IF vvSel.flag = "color" THEN vvVip ELSE vipStop(vvVip)
  /\ vvVop' = IF vvSel.flag = "lcd" THEN vvVop ELSE vopStop(vvVop)
  /\ vvFrame' = IF vvSel.flag = "lcd" THEN [vvFrame EXCEPT !.lcd = FALSE] ELSE vvFrame

(* VOP has displayed a frame; its routine reads the status, which clears   *)
(* it, and then the frames, and gives them back to the hardware.           *)
VvDisplayed ==
  /\ vvVop.on /\ UNCHANGED <<tmVars, vvSel, vvOn, vvVip, vvFrame>>
  /\ \E f \in vvVop.hw : vvVop' = [vvVop EXCEPT !.hw = @ \ {f}, !.int = TRUE]
VvReadsStatus ==
  /\ vvVop.int /\ vvVop.inte /\ vvVop.isr # "none" /\ ~vvVop.read
  /\ vvVop' = [vvVop EXCEPT !.int = FALSE, !.read = TRUE] /\ UNCHANGED <<tmVars, vvSel, vvOn, vvVip, vvFrame>>
VvGivesBack(mode, frames) ==
  /\ vvVop.read /\ vvVop.isr = mode /\ vvVop' = [vvVop EXCEPT !.read = FALSE, !.hw = @ \cup frames]
  /\ UNCHANGED <<tmVars, vvSel, vvOn, vvVip, vvFrame>>
vopOneFrameIsr == VvGivesBack("one", {1})
vopTwoFrameIsr == VvGivesBack("two", {1, 2})

VvStep == \/ (TmStep /\ UNCHANGED <<vvSel, vvOn, vvVip, vvVop, vvFrame>>)
          \/ VIP_VOP_Testing \/ socle_vip_to_vop_test \/ socle_vip_to_lcd_test \/ socle_vop_color_display_test
          \/ socle_viop_ntsc_test \/ socle_viop_pal_test \/ socle_viop_cif_test \/ socle_viop_qvga_test
          \/ socle_viop_vga_test \/ socle_viop_d1_test \/ socle_vip_420_test \/ socle_vip_422_test \/ VvOther \/ VvLeft
          \/ socle_vip_to_vop_run \/ socle_vip_to_lcd_run \/ socle_vop_color_display_run \/ VvEnter
          \/ VvDisplayed \/ VvReadsStatus \/ vopOneFrameIsr \/ vopTwoFrameIsr
VvSpec == VvStart("key") /\ [][VvStep]_videoVars
-----------------------------------------------------------------------------
(* What is shown is what the path of the prompt says: no static variable   *)
(* is left from an earlier path, input and output have the same size, all  *)
(* of the picture is painted, and VIP captures into the frames that are    *)
(* displayed.  A frame is with VOP, or the interrupt that gives it back    *)
(* is on its way, and when nothing is shown, both are off.                 *)
VvFormatOf == [socle_viop_ntsc_test |-> "ntsc", socle_viop_pal_test |-> "pal"]
VvFlagOf == [socle_vip_to_vop_test |-> "vop", socle_vip_to_lcd_test |-> "lcd", socle_vop_color_display_test |-> "color"]
VvShows ==
  LET flag == VvFlagOf[tmName[1]]
      vops == flag # "lcd"
      vips == flag # "color"
      area == (vvVop.fss \div 1024) * (vvVop.fss % 1024)
  IN /\ vvVop.on = vops /\ vvVip.on = vips /\ vvFrame.lcd = ~vops
     /\ (vops => vvVop.format = VvFormatOf[tmName[2]] /\ vvVop.fss = VvVopFSS[tmName[3]])
     /\ (vips => vvVip.format = VvFormatOf[tmName[2]] /\ vvVip.fs = VvVipFS[tmName[3]] /\ vvVip.f1 = 1)
     /\ (vops /\ vips => vvVip.fs \div 65536 = vvVop.fss \div 1024 /\ vvVip.fs % 65536 = vvVop.fss % 1024 /\ vvVip.f2 = 2)
     /\ (vips /\ ~vops => vvVip.f2 = 1 /\ vvFrame.yuv = vvVip.yuv /\ vvVip.yuv = IF tmName[4] = "socle_vip_422_test" THEN 422 ELSE 420)
     /\ (flag = "color" => vvFrame.y = area /\ 4 * vvFrame.c = area)
     /\ (vops => vvVop.hw # {} \/ vvVop.read \/ (vvVop.int /\ vvVop.inte /\ vvVop.isr # "none"))
(* The menus: the sizes offered are those of the test; the layer is the    *)
(* depth; and automatic items fail exactly when one of them has failed.    *)
MenuRight ==
  /\ (tmDo.pc = "shows" => VvShows)
  /\ (tmDo.pc # "shows" => ~vvVop.on /\ ~vvVip.on /\ ~vvFrame.lcd)
  /\ (tmDo.pc \notin {"off", "exit"} => tmLayer = Len(tmCalls) - 1)
  /\ (tmDo.pc = "key" => (TmTop.err # 0) = TmTop.failed)
  /\ (tmDo.pc = "key" /\ TmTop.func \in {"socle_viop_ntsc_test", "socle_viop_pal_test"} =>
        {TmTop.items[k].func : k \in TmTop.act}
          = IF tmName[1] = "socle_vip_to_lcd_test" THEN {"socle_viop_qvga_test"} ELSE VvSizes)
=============================================================================
