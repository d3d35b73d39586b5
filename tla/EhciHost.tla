------------------------------ MODULE EhciHost ------------------------------
(***************************************************************************)
(* The EHCI test (src/EHCI): transfer functions that queue descriptors on  *)
(* the controller's schedule and spin on two flags its interrupt sets, and *)
(* the menus that call them.                                               *)
(*                                                                         *)
(* A transfer function differs from the next in its descriptors, in which  *)
(* of them interrupt on completion (IOC), in whether it may go through a   *)
(* hub and in what it does with a good answer; everything else is the same *)
(* code, copied.  So each is a record, and the copied code is modelled     *)
(* once, in Begin, WaitEnds and the controller's actions.                  *)
(*                                                                         *)
(* Abstracted: buffers, lengths and packet sizes (CepMps, MpsKnown), the   *)
(* descriptor rings (see DescriptorRing; here they are counts), which      *)
(* port, feature or descriptor is asked for, and what is behind a hub (its *)
(* answers are arbitrary, so is the address used there).  Addresses are 0  *)
(* (default) and 1 (assigned).                                             *)
(***************************************************************************)
EXTENDS Integers, Sequences, SequencesExt

VARIABLES
  ehMenu,   \* the menu that waits for a key; "off" when the test is not built in
  ehPlan,   \* calls that follow without a key: the automatic run, Erumate_Device
  ehAuto,   \* autorun
  ehCall,   \* the transfer in progress, and has its answer been short; or EhNone
  ehStrayed, \* the last one returned descriptors that were still in use
  ehFree,   \* descriptors in the three free rings
  ehFlag,   \* TransferComplete, ErrorComplete, portconnect
  ehReg,    \* the controller's registers
  ehList,   \* its schedule: queues of descriptors still to be executed
  ehSt,     \* ehci_status.DevAddress
  ehDev     \* the device on the root port

ehVars == <<ehMenu, ehPlan, ehAuto, ehCall, ehStrayed, ehFree, ehFlag, ehReg, ehList, ehSt, ehDev>>
-----------------------------------------------------------------------------
(* The transfer functions.  queues: one sequence per queue head (or iTD):  *)
(* "ioc" where the descriptor has IOC, of the others "in" where it reads,  *)
(* so that the answer may be shorter than what is asked for, and "quiet"   *)
(* where it does not; hub: the question "under hub?" is asked and used.    *)
EhRings == [qtd |-> 5, qh |-> 5, itd |-> 5]
EhNoData == [take |-> [qtd |-> 2, qh |-> 1, itd |-> 0], queues |-> << <<"quiet", "ioc">> >>, list |-> "async", hub |-> TRUE]
EhReadEarly == [take |-> [qtd |-> 3, qh |-> 1, itd |-> 0], queues |-> << <<"quiet", "ioc", "ioc">> >>, list |-> "async", hub |-> TRUE]
EhRead   == [take |-> [qtd |-> 3, qh |-> 1, itd |-> 0], queues |-> << <<"quiet", "in", "ioc">> >>, list |-> "async", hub |-> TRUE]
EhOne    == [take |-> [qtd |-> 1, qh |-> 1, itd |-> 0], queues |-> << <<"ioc">> >>, list |-> "async", hub |-> TRUE]

SetAddress       == EhNoData
GetDescriptor    == EhRead
SetConfiguration == EhNoData
GetConfiguration == EhRead
SetFeature       == EhNoData
SetInterface     == EhNoData
ClearFeature     == EhNoData
GetInterface     == EhRead
GetStatus        == EhRead
SendBulkData     == EhOne
ReceiveBulkData  == EhOne
EhLoopQueues     == << <<"quiet">>, <<"ioc">> >>      \* out, then in
BulkLoopData     == [EhOne EXCEPT !.take = [qtd |-> 2, qh |-> 2, itd |-> 0], !.queues = EhLoopQueues]
IsoLoopData      == [take |-> [qtd |-> 0, qh |-> 0, itd |-> 2], queues |-> EhLoopQueues, list |-> "periodic", hub |-> FALSE]
ReceiveIntrData  == [EhOne EXCEPT !.list = "periodic"]
GetHubDescriptor == [EhRead EXCEPT !.hub = FALSE]
GetPortStatus    == EhRead
GetHubStatus     == EhRead
ClearPortFeature == EhNoData
ClearHubFeature  == EhNoData
SetHubFeature    == EhNoData
SetPortFeature   == EhNoData
ClearTTBuffer    == EhNoData
ResetTT          == EhNoData
StopTT           == EhNoData
GetTTState       == EhRead

EhGetKeys == {"GetInterface", "GetDescriptor", "GetStatus"}
EHCI_Ctrl_TestItem == {"SetAddress", "SetConfiguration", "GetConfiguration", "SetFeature", "ClearFeature", "SetInterface"} \cup EhGetKeys
EhHubSetKeys == {"SetHubFeature", "SetPortFeature", "ClearTTBuffer", "GetTTState"}
EHCI_HUB_TestItem == {"GetHubDescriptor", "GetPortStatus", "GetHubStatus", "ClearPortFeature", "ClearHubFeature",
                      "ResetTT", "StopTT"} \cup EhHubSetKeys
EHCI_Bulk_TestItem == {"ReceiveBulkData", "SendBulkData", "BulkLoopData"}
EHCI_Intr_TestItem == {"ReceiveIntrData"}
EHCI_Isochronous_TestItem == {"IsoLoopData"}

EhItems == [ctrl |-> EHCI_Ctrl_TestItem, hub |-> EHCI_HUB_TestItem, bulk |-> EHCI_Bulk_TestItem,
            intr |-> EHCI_Intr_TestItem, iso |-> EHCI_Isochronous_TestItem]
EhShape == [SetAddress |-> SetAddress, GetDescriptor |-> GetDescriptor, SetConfiguration |-> SetConfiguration,
  GetConfiguration |-> GetConfiguration, SetFeature |-> SetFeature, SetInterface |-> SetInterface, ClearFeature |-> ClearFeature,
  GetInterface |-> GetInterface, GetStatus |-> GetStatus, SendBulkData |-> SendBulkData, ReceiveBulkData |-> ReceiveBulkData,
  BulkLoopData |-> BulkLoopData, IsoLoopData |-> IsoLoopData, ReceiveIntrData |-> ReceiveIntrData,
  GetHubDescriptor |-> GetHubDescriptor, GetPortStatus |-> GetPortStatus, GetHubStatus |-> GetHubStatus,
  ClearPortFeature |-> ClearPortFeature, ClearHubFeature |-> ClearHubFeature, SetHubFeature |-> SetHubFeature,
  SetPortFeature |-> SetPortFeature, ClearTTBuffer |-> ClearTTBuffer, ResetTT |-> ResetTT, StopTT |-> StopTT, GetTTState |-> GetTTState]

(* Scripts: what the automatic run and Erumate_Device call in a row.  The  *)
(* automatic bulk test loops 1000 times over 65536 bytes in pieces; one    *)
(* round of two pieces stands for it.                                      *)
Erumate_Device == <<"ResetDevice", "SetAddress", "GetDescriptor", "SetConfiguration">>
EhAutoCtrl == <<"ResetDevice", "SetAddress", "GetDescriptor", "GetDescriptor", "SetConfiguration">>
EhAutoRun == EhAutoCtrl \o <<"BulkLoopData", "BulkLoopData">>
-----------------------------------------------------------------------------
EhNone == [name |-> "none", hub |-> FALSE, short |-> FALSE]
EhQueue(stages, address) == [left |-> stages, halted |-> FALSE, address |-> address]
EhActive(q) == q.left # <<>> /\ ~q.halted
EhRan(q) == q.left = <<>>               \* Success() of its last descriptor
EhUpper == {"INT", "ERR", "PCD"}
EhDown == [run |-> FALSE, ase |-> FALSE, pse |-> FALSE, enabled |-> {}, pending |-> {}]

EhStart(menu) ==
  /\ ehMenu = menu /\ ehPlan = <<>> /\ ehAuto = FALSE
  /\ ehCall = EhNone /\ ehStrayed = FALSE
  /\ ehFree = [qtd |-> 0, qh |-> 0, itd |-> 0]
  /\ ehFlag = [tc |-> FALSE, ec |-> FALSE, connect |-> FALSE]
  /\ ehReg = EhDown
  /\ ehList = <<>>
  /\ ehSt = 0
  /\ ehDev = [there |-> FALSE, address |-> 0, sure |-> FALSE]

EhInit == EhStart("idle")
EhOff == EhStart("off")

(* EHCI_Start: halt and reset the controller, then let it run with the     *)
(* three interrupts enabled.  A reset also drops the port.                 *)
EhReset == /\ ehReg' = EhDown /\ ehDev' = [ehDev EXCEPT !.sure = FALSE]
EHCI_Start == /\ ehReg' = [EhDown EXCEPT !.run = TRUE, !.enabled = EhUpper]
              /\ ehDev' = [ehDev EXCEPT !.sure = FALSE]

(* ehci_test and USB_TestMode enter alike: flags, controller, rings.       *)
EhEnter(menu, plan, auto) ==
  /\ ehMenu = "idle"
  /\ ehMenu' = menu /\ ehPlan' = plan /\ ehAuto' = auto
  /\ ehFlag' = [ehFlag EXCEPT !.tc = FALSE, !.connect = FALSE]
  /\ EHCI_Start
  /\ ehFree' = EhRings
  /\ ehList' = <<>>
  /\ UNCHANGED <<ehCall, ehStrayed, ehSt>>
ehci_test == \/ EhEnter("main", <<>>, FALSE)
             \/ EhEnter("ctrl", EhAutoRun, TRUE)
USB_TestMode == EhEnter("mode", <<>>, FALSE)

(* A key at a menu: into an item, the control item and the test modes only *)
(* once a device is connected, and out again.                              *)
EhAtKey == ehCall = EhNone /\ ehPlan = <<>> /\ ~ehAuto
EhKey ==
  /\ EhAtKey
  /\ \/ ehMenu = "main" /\ ehMenu' \in {"base", "ctrl", "hub", "bulk", "intr", "iso", "idle"}
     \/ ehMenu = "mode" /\ ehMenu' = "idle"
     \/ ehMenu \in DOMAIN EhItems \cup {"base"} /\ ehMenu' = "main"
  /\ ehMenu' = "ctrl" => ehFlag.connect
  /\ UNCHANGED <<ehPlan, ehAuto, ehCall, ehStrayed, ehFree, ehFlag, ehReg, ehList, ehSt, ehDev>>

(* The key 'z': the automatic run, in the session as it is.                *)
EhAutoKey ==
  /\ EhAtKey /\ ehMenu = "main"
  /\ ehMenu' = "ctrl" /\ ehPlan' = EhAutoRun /\ ehAuto' = TRUE
  /\ UNCHANGED <<ehCall, ehStrayed, ehFree, ehFlag, ehReg, ehList, ehSt, ehDev>>

(* The base item resets or restarts the controller; the rest of it only    *)
(* reads registers or writes the port's.                                   *)
EHCI_Base_TestItem ==
  /\ EhAtKey /\ ehMenu = "base"
  /\ EhReset \/ EHCI_Start
  /\ ehList' = <<>>
  /\ UNCHANGED <<ehMenu, ehPlan, ehAuto, ehCall, ehStrayed, ehFree, ehFlag, ehSt>>

(* The test modes that talk to the device enumerate it first; the suspend  *)
(* test then leaves only the error interrupt enabled.                      *)
EhModeKey ==
  /\ EhAtKey /\ ehMenu = "mode" /\ ehFlag.connect
  /\ ehPlan' \in {Erumate_Device, Append(Erumate_Device, "Suspend_Resume")}
  /\ UNCHANGED <<ehMenu, ehAuto, ehCall, ehStrayed, ehFree, ehFlag, ehReg, ehList, ehSt, ehDev>>
Suspend_Resume ==
  /\ ehCall = EhNone /\ ehPlan # <<>> /\ Head(ehPlan) = "Suspend_Resume"
  /\ ehPlan' = Tail(ehPlan)
  /\ ehReg' = [ehReg EXCEPT !.enabled = {"ERR"}]
  /\ UNCHANGED <<ehMenu, ehAuto, ehCall, ehStrayed, ehFree, ehFlag, ehList, ehSt, ehDev>>
-----------------------------------------------------------------------------
(* ResetDevice: sets the run bit if the controller is halted, resets the   *)
(* port and forgets what was known of the device.                          *)
EhNext(n) == /\ ehCall = EhNone
             /\ \/ EhAtKey /\ ehMenu \in {"ctrl", "mode"} /\ n = "ResetDevice" /\ UNCHANGED ehPlan
                \/ EhAtKey /\ ehMenu \in DOMAIN EhItems /\ n \in EhItems[ehMenu] /\ UNCHANGED ehPlan
                \/ ehPlan # <<>> /\ n = Head(ehPlan) /\ ehPlan' = Tail(ehPlan) 
                   /\ (ehAuto /\ n = "ResetDevice" => ehFlag.connect)
ResetForgets == 0
ResetDevice ==
  /\ EhNext("ResetDevice")
  /\ ehReg' = [ehReg EXCEPT !.run = TRUE]
  /\ ehSt' = ResetForgets
  /\ ehDev' = [ehDev EXCEPT !.address = 0, !.sure = ehDev.there]
  /\ UNCHANGED <<ehMenu, ehAuto, ehCall, ehStrayed, ehFree, ehFlag, ehList>>

(* A transfer begins: stop the schedule, take descriptors, link them, start *)
(* the schedule again.  What was left on it is gone.                       *)
EhTaken(n) == [k \in DOMAIN ehFree |-> ehFree[k] - EhShape[n].take[k]]
EhSchedule(reg, n) == [reg EXCEPT !.ase = (EhShape[n].list = "async"), !.pse = (EhShape[n].list = "periodic")]
Begin(n, hub) ==
  /\ EhNext(n)
  /\ hub => EhShape[n].hub /\ ~ehAuto
  /\ ehCall' = [name |-> n, hub |-> hub, short |-> FALSE]
  /\ ehFree' = EhTaken(n)
  /\ ehList' = [i \in DOMAIN EhShape[n].queues |-> EhQueue(EhShape[n].queues[i], n = "SetAddress" /\ ~hub)]
  /\ ehReg' = EhSchedule(ehReg, n)
  /\ UNCHANGED <<ehMenu, ehAuto, ehStrayed, ehFlag, ehSt, ehDev>>

(* The wait ends on either flag; the good answer to SetAddress is stored.  *)
(* The asynchronous schedule goes on, so its descriptors may be in use     *)
(* still.  IsoLoopData stops the periodic one before it clears the flags,  *)
(* ReceiveIntrData after that, so that a descriptor left may be reported.  *)
Success == ehFlag.tc /\ \A i \in DOMAIN ehList : EhRan(ehList[i])
EhStored == IF Success /\ ehCall.name = "SetAddress" /\ ~ehCall.hub THEN 1 ELSE ehSt
ClearedFlagsForgets == [ehFlag EXCEPT !.tc = FALSE]
ClearedFlags == [ehFlag EXCEPT !.tc = FALSE, !.ec = FALSE]
EhReturned(n) == [k \in DOMAIN ehFree |-> ehFree[k] + EhShape[n].take[k]]
EhExecuting == ehCall.name # "IsoLoopData" /\ \E i \in DOMAIN ehList : EhActive(ehList[i])
EhInUse == EhExecuting \/ ehReg.pending \cap {"INT", "ERR"} # {}
EhPeriodic == ehCall.name \in {"IsoLoopData", "ReceiveIntrData"}
EhLate == IF EhPeriodic /\ EhExecuting THEN {{}, {"INT"}, {"INT", "ERR"}} ELSE {{}}
(* A loop that fails, or whose data differ, is the last of its plan.       *)
EhPlanAfter == IF ehCall.name # "BulkLoopData" THEN {ehPlan} ELSE IF Success THEN {ehPlan, <<>>} ELSE {<<>>}
WaitEnds ==
  /\ ehCall # EhNone /\ (ehFlag.tc \/ ehFlag.ec)
  /\ ehSt' = EhStored
  /\ ehFlag' = ClearedFlags
  /\ ehFree' = EhReturned(ehCall.name)
  /\ ehCall' = EhNone
  /\ ehStrayed' = EhInUse
  /\ ehList' = IF EhExecuting /\ ~EhPeriodic THEN ehList ELSE <<>>
  /\ ehPlan' \in EhPlanAfter
  /\ \E late \in EhLate :
       ehReg' = [ehReg EXCEPT !.pse = @ /\ ~EhPeriodic, !.pending = @ \cup late]
  /\ ehDev' = [ehDev EXCEPT !.sure = @ /\ ~(EhInUse /\ ehCall.name = "SetAddress")]
  /\ UNCHANGED <<ehMenu, ehAuto>>

(* The automatic run returns without EHCI_Stop.                            *)
EhAutoReturns ==
  /\ ehAuto /\ ehPlan = <<>> /\ ehCall = EhNone
  /\ ehAuto' = FALSE /\ ehMenu' = "idle"
  /\ UNCHANGED <<ehPlan, ehCall, ehStrayed, ehFree, ehFlag, ehReg, ehList, ehSt, ehDev>>
-----------------------------------------------------------------------------
(* The controller executes the next descriptor of a queue.  It cannot go   *)
(* well without a device, and for the device itself not with an address it *)
(* does not have.                                                          *)
EhRunning == ehReg.run /\ (ehReg.ase \/ ehReg.pse)
EhAnswers == /\ ehDev.there
             /\ ~ehCall.hub /\ ehDev.sure => ehSt = ehDev.address
EhPend(s) == [ehReg EXCEPT !.pending = @ \cup s]
EhSetsAddress(i) == ehList[i].address /\ Len(ehList[i].left) = 1
EhExecutes(i) ==
  /\ EhRunning /\ EhActive(ehList[i]) /\ EhAnswers
  /\ ehList' = [ehList EXCEPT ![i].left = Tail(@)]
  /\ ehReg' = EhPend(IF Head(ehList[i].left) = "ioc" THEN {"INT"} ELSE {})
  /\ ehDev' = IF EhSetsAddress(i) THEN [ehDev EXCEPT !.address = 1, !.sure = @ /\ ehCall # EhNone] ELSE ehDev
  /\ UNCHANGED <<ehMenu, ehPlan, ehAuto, ehCall, ehStrayed, ehFree, ehFlag, ehSt>>
(* A short answer is reported as a completion, with IOC or without; the    *)
(* queue goes on with the status stage (AltQTD).                           *)
EhAnswersShort(i) ==
  /\ EhRunning /\ EhActive(ehList[i]) /\ EhAnswers /\ Head(ehList[i].left) = "in"
  /\ ehList' = [ehList EXCEPT ![i].left = Tail(@)]
  /\ ehReg' = EhPend({"INT"})
  /\ ehCall' = [ehCall EXCEPT !.short = ehCall # EhNone]
  /\ UNCHANGED <<ehMenu, ehPlan, ehAuto, ehStrayed, ehFree, ehFlag, ehSt, ehDev>>
EhFails(i) ==
  /\ EhRunning /\ EhActive(ehList[i])
  /\ ehList' = [ehList EXCEPT ![i].halted = TRUE]
  /\ ehReg' = EhPend(IF Head(ehList[i].left) = "ioc" THEN {"INT", "ERR"} ELSE {"ERR"})
  /\ ehDev' = IF EhSetsAddress(i) THEN [ehDev EXCEPT !.sure = FALSE] ELSE ehDev
  /\ UNCHANGED <<ehMenu, ehPlan, ehAuto, ehCall, ehStrayed, ehFree, ehFlag, ehSt>>
EhController == \E i \in DOMAIN ehList : EhExecutes(i) \/ EhAnswersShort(i) \/ EhFails(i)

(* A device is plugged in or out.                                          *)
EhPlug ==
  /\ ehMenu # "off"
  /\ ehDev' = [there |-> ~ehDev.there, address |-> 0, sure |-> FALSE]
  /\ ehReg' = IF ehReg.run THEN EhPend({"PCD"}) ELSE ehReg
  /\ UNCHANGED <<ehMenu, ehPlan, ehAuto, ehCall, ehStrayed, ehFree, ehFlag, ehList, ehSt>>

(* EHCIIntrHandler: entered for an enabled cause, it serves every pending  *)
(* one, and enables all three when it leaves.                              *)
EhSetFlags == [tc |-> ehFlag.tc \/ "INT" \in ehReg.pending, ec |-> ehFlag.ec \/ "ERR" \in ehReg.pending,
               connect |-> IF "PCD" \in ehReg.pending THEN ehDev.there ELSE ehFlag.connect]
EHCIIntrHandler ==
  /\ ehReg.pending \cap ehReg.enabled # {}
  /\ ehFlag' = EhSetFlags
  /\ ehReg' = [ehReg EXCEPT !.pending = {}, !.enabled = EhUpper]
  /\ UNCHANGED <<ehMenu, ehPlan, ehAuto, ehCall, ehStrayed, ehFree, ehList, ehSt, ehDev>>

EhStep == \/ ehci_test \/ USB_TestMode \/ EhKey \/ EhAutoKey \/ EHCI_Base_TestItem \/ EhModeKey \/ Suspend_Resume \/ ResetDevice
          \/ \E n \in DOMAIN EhShape, hub \in BOOLEAN : Begin(n, hub)
          \/ WaitEnds \/ EhAutoReturns \/ EhController \/ EhPlug \/ EHCIIntrHandler
(* The program runs while no interrupt is taken, the controller works      *)
(* while it is enabled and an interrupt is served once it is requested.    *)
EhFair == /\ WF_ehVars(WaitEnds) /\ WF_ehVars(EhController) /\ WF_ehVars(EHCIIntrHandler)
EhSpec == EhInit /\ [][EhStep]_ehVars /\ EhFair
-----------------------------------------------------------------------------
(* The type of the state.  The address the host uses and the device's are  *)
(* the default one or the one assigned.                                    *)
EhTypeOK ==
  /\ ehMenu \in {"off", "idle", "main", "mode", "base"} \cup DOMAIN EhItems
  /\ ehPlan \in Seq(DOMAIN EhShape \cup {"ResetDevice", "Suspend_Resume"}) /\ ehAuto \in BOOLEAN
  /\ ehCall \in [name : DOMAIN EhShape \cup {"none"}, hub : BOOLEAN, short : BOOLEAN]
  /\ ehStrayed \in BOOLEAN
  /\ ehFree \in [DOMAIN EhRings -> 0 .. 5]
  /\ ehFlag \in [tc : BOOLEAN, ec : BOOLEAN, connect : BOOLEAN]
  /\ ehReg \in [run : BOOLEAN, ase : BOOLEAN, pse : BOOLEAN, enabled : SUBSET EhUpper, pending : SUBSET EhUpper]
  /\ ehList \in Seq([left : Seq({"quiet", "in", "ioc"}), halted : BOOLEAN, address : BOOLEAN])
  /\ ehSt \in {0, 1}
  /\ ehDev \in [there : BOOLEAN, address : {0, 1}, sure : BOOLEAN]

(* Between two transfers every descriptor is back in its ring, and during  *)
(* one only its own are missing, however the transfer ended: no path of a  *)
(* transfer function keeps or returns a descriptor too many.               *)
EhPoolWhole == ehMenu \notin {"off", "idle"} \/ ehCall # EhNone =>
  \A k \in DOMAIN EhRings :
    ehFree[k] = EhRings[k] - (IF ehCall = EhNone THEN 0 ELSE EhShape[ehCall.name].take[k])

(* A transfer function returns its descriptors when the controller has     *)
(* executed and reported them, or it does so as the aftermath of one that  *)
(* has not.  That one is a control read whose short answer was taken for   *)
(* the end of it, with its status stage to come, or one of the loop-backs, *)
(* which queue two transfers and wait for whichever flag comes first; that *)
(* of IsoLoopData has stopped the schedule, so only a report is to come.   *)
EhFreesWhenDone == [][~ehStrayed /\ ehStrayed' =>
  \/ ehCall.short /\ \A i \in DOMAIN ehList' : ehList'[i].left = <<"ioc">>
  \/ ehCall.name = "BulkLoopData"
  \/ ehCall.name = "IsoLoopData" /\ ehList' = <<>>]_ehVars

(* No completion of one transfer is left for the next one to take for its  *)
(* own, but after descriptors were returned while in use.                  *)
EhNoStaleFlag == ehCall = EhNone /\ (ehFlag.tc \/ ehFlag.ec) => ehStrayed

(* Once the device has been reset, the host addresses it by the address it *)
(* has, through every sequence of transfers, until it is plugged anew or a *)
(* SetAddress fails half-way.                                              *)
EhKnowsAddress == ehDev.sure /\ ehCall.name # "SetAddress" => ehSt = ehDev.address

(* A transfer ends, well or not, with or without a device, provided it was *)
(* begun on a running controller with the completion interrupts enabled.   *)
EhReturns == ehCall # EhNone /\ ehReg.run /\ {"INT", "ERR"} \subseteq ehReg.enabled ~> ehCall = EhNone
=============================================================================
