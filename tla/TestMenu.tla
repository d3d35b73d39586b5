------------------------------ MODULE TestMenu ------------------------------
(***************************************************************************)
(* test_item_ctrl of lib/socle_lib/test_item.c, the shell of every menu.   *)
(*                                                                         *)
(* Menus are nested by calls: an item's function may show a menu of its    *)
(* own, so the local variables of test_item_ctrl are a stack.  What the    *)
(* functions do is up to the module that extends this one.  Keys that only *)
(* print are left out; a key that is not a digit calls the item of the     *)
(* number typed before, and does nothing that this number would not.       *)
(* tmKeys bounds the keys of a session.                                    *)
(***************************************************************************)
EXTENDS Integers, Sequences

CONSTANT tmKeys
ASSUME TmAssumption == tmKeys \in Nat

VARIABLES
  tmCalls, \* the calls of test_item_ctrl: items, those active, automatic, item, err_flag;
           \* who has called it, and has an automatic item of it failed
  tmDo,    \* what comes next: a key, a function, its return, ...
  tmLayer, \* shell_layer
  tmName,  \* test_item_name
  tmLeft   \* keys left

tmVars == <<tmCalls, tmDo, tmLayer, tmName, tmLeft>>

TmDo(pc, func, auto, ret) == [pc |-> pc, func |-> func, auto |-> auto, ret |-> ret]
TmNone == TmDo("key", "none", 0, 0)
(* The places of the items that are enabled when the menu begins.          *)
test_item_get_act_items(items) == {k \in DOMAIN items : items[k].enable}
TmCall(func, items, auto) ==
  [func |-> func, items |-> items, act |-> test_item_get_act_items(items), auto |-> auto = 1, item |-> 1,
   err |-> 0, failed |-> FALSE]
(* TestEntry shows the main menu.                                          *)
TmStart(pc, main) ==
  /\ tmCalls = (IF pc = "off" THEN <<>> ELSE <<TmCall("TestEntry", main, 0)>>) /\ tmLeft = tmKeys
  /\ tmDo = IF pc = "off" THEN [TmNone EXCEPT !.pc = "off"] ELSE TmNone
  /\ tmLayer = 0 /\ tmName = [layer \in 0 .. 19 |-> "none"]
-----------------------------------------------------------------------------
TmInner == Len(tmCalls)
TmTop == tmCalls[TmInner]
(* An item's function shows a menu.                                        *)
test_item_ctrl(items, auto) ==
  /\ tmCalls' = Append(tmCalls, TmCall(tmDo.func, items, auto))
  /\ tmDo' = TmNone /\ tmLayer' = tmLayer + 1 /\ UNCHANGED <<tmName, tmLeft>>
TmCallsItem(k, auto) ==
  /\ tmName' = [tmName EXCEPT ![tmLayer] = TmTop.items[k].func]
  /\ tmDo' = TmDo("item", TmTop.items[k].func, auto, 0)
TmReturns(err) ==
  /\ tmCalls' = SubSeq(tmCalls, 1, TmInner - 1) /\ tmLayer' = tmLayer - 1 /\ UNCHANGED tmName
  /\ tmDo' = TmDo(IF TmInner = 1 THEN "exit" ELSE "left", TmTop.func, 0, err)

(* The user's keys: a number, z, x.                                        *)
TmAsks == tmDo.pc = "key" /\ ~TmTop.auto /\ tmLeft > 0 /\ tmLeft' = tmLeft - 1
TmNumber ==
  /\ TmAsks /\ UNCHANGED tmLayer
  /\ \E k \in TmTop.act :
       /\ TmCallsItem(k, 0)
       /\ tmCalls' = [tmCalls EXCEPT ![TmInner].err = 0, ![TmInner].item = k]
TmZ ==
  /\ TmAsks /\ tmCalls' = [tmCalls EXCEPT ![TmInner].auto = TRUE, ![TmInner].item = 1, ![TmInner].err = 0]
  /\ UNCHANGED <<tmDo, tmLayer, tmName>>
TmX == TmAsks /\ TmReturns(0)

(* All items that may be tested automatically, one after the other.        *)
TmAutomatic ==
  /\ tmDo.pc = "key" /\ TmTop.auto /\ UNCHANGED tmLeft
  /\ IF TmTop.item > Len(TmTop.items) THEN TmReturns(TmTop.err)
     ELSE /\ UNCHANGED tmLayer
          /\ IF TmTop.item \in TmTop.act /\ TmTop.items[TmTop.item].allow_autotest THEN TmCallsItem(TmTop.item, 1) /\ UNCHANGED tmCalls
             ELSE tmCalls' = [tmCalls EXCEPT ![TmInner].item = @ + 1] /\ UNCHANGED <<tmDo, tmName>>
(* The function has returned.                                              *)
(* Mutant of TmFlag: the verdict is that of the last item.                 *)
TmFlagOfLast(err, ret) == IF ret # 0 THEN -1 ELSE 0
TmFlag(err, ret) == IF ret # 0 THEN -1 ELSE err
TmGoesOn ==
  /\ tmDo.pc = "back" /\ tmDo' = TmNone /\ UNCHANGED <<tmLayer, tmName, tmLeft>>
  /\ tmCalls' = IF TmTop.auto THEN [tmCalls EXCEPT ![TmInner].err = TmFlag(@, tmDo.ret), ![TmInner].item = @ + 1] ELSE tmCalls
TmStep == TmNumber \/ TmZ \/ TmX \/ TmAutomatic \/ TmGoesOn
(* An item's function returns; if it has failed, so have all automatic     *)
(* tests it is part of.                                                    *)
TmItemReturns(ret) ==
  /\ tmDo' = TmDo("back", "none", 0, ret) /\ UNCHANGED <<tmLayer, tmName, tmLeft>>
  /\ tmCalls' = [k \in DOMAIN tmCalls |-> [tmCalls[k] EXCEPT !.failed = @ \/ (ret # 0 /\ tmCalls[k].auto)]]
=============================================================================
