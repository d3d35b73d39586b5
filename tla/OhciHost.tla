------------------------------ MODULE OhciHost ------------------------------
(***************************************************************************)
(* The OHCI test (src/OHCI).  As in EhciHost each transfer function is a   *)
(* record and the code they share is modelled once.  The controller is     *)
(* another one: every descriptor it has executed goes to its done queue,   *)
(* and at the end of a frame it hands the queue over (HccaDoneHead, the    *)
(* WDH interrupt).  The functions wait for one such interrupt and compare  *)
(* the head of the queue with their last descriptor.                       *)
(*                                                                         *)
(* ohFast: the controller executes all descriptors that are linked within  *)
(* the frame it began them in, as it does for a device that answers at     *)
(* once.  Abstracted: as in EhciHost; a port reset is either going on or   *)
(* not.                                                                    *)
(***************************************************************************)
EXTENDS Integers, Sequences, FiniteSets

CONSTANT ohFast
ASSUME OhFastBoolean == ohFast \in BOOLEAN

VARIABLES
  ohMenu,  \* the menu that waits for a key; "off" when the test is not built in; "wild" after a store through NULL
  ohCall,  \* the transfer in progress, "ResetDevice" or "none"
  ohFree,  \* descriptors in the three free rings
  ohLost,  \* isochronous receives that returned without giving theirs back
  ohFlag,  \* TransferComplete, ResetChange, portconnect
  ohReg,   \* is the controller operational; enabled and pending interrupts
  ohList,  \* its lists: for each endpoint, how many descriptors are left, and is it halted
  ohDone,  \* head of the done queue, or OhNil
  ohHcca,  \* HccaDoneHead
  ohSt,    \* ohci_status.DevAddress
  ohDev    \* the device on the root port

ohVars == <<ohMenu, ohCall, ohFree, ohLost, ohFlag, ohReg, ohList, ohDone, ohHcca, ohSt, ohDev>>
-----------------------------------------------------------------------------
(* The transfer functions: descriptors taken, the last of each endpoint's  *)
(* being the empty tail; queues: what each endpoint has to execute.  stops: *)
(* where the list may end because TailP is read from an uninitialised      *)
(* pointer (3: behind the last descriptor, as meant).                      *)
OhRings == [ed |-> 5, gtd |-> 5, itd |-> 5]
OhNoData == [take |-> [ed |-> 1, gtd |-> 3, itd |-> 0], queues |-> <<2>>, stops |-> {2}]
OhRead   == [take |-> [ed |-> 1, gtd |-> 4, itd |-> 0], queues |-> <<3>>, stops |-> {3}]
OhReadTail == [OhRead EXCEPT !.stops = 0 .. 3]
OhOne    == [take |-> [ed |-> 1, gtd |-> 2, itd |-> 0], queues |-> <<1>>, stops |-> {1}]
OhIso    == [take |-> [ed |-> 1, gtd |-> 0, itd |-> 2], queues |-> <<1>>, stops |-> {1}]

SetAddress_OHCI       == OhNoData
GetDescriptor_OHCI    == OhRead
GetConfiguration_OHCI == OhReadTail
SetConfiguration_OHCI == OhNoData
SetFeature_OHCI       == OhNoData
ClearFeature_OHCI     == OhNoData
SetInterface_OHCI     == OhNoData
GetInterface_OHCI     == OhReadTail
GetStatus_OHCI        == OhReadTail
ClearHubFeature_OHCI  == OhNoData
ClearPortFeature_OHCI == OhNoData
SetHubFeature_OHCI    == OhNoData
SetPortFeature_OHCI   == OhNoData
GetHubStatus_OHCI     == OhReadTail
GetPortStatus_OHCI    == OhRead
GetHubDescriptor_OHCI == OhRead
OHCI_SendBulkData     == OhOne
OHCI_ReceiveBulkData  == OhOne
OhLoopQueues          == <<1, 1>>                  \* out, then in
OHCI_BulkLoopData     == [take |-> [ed |-> 2, gtd |-> 4, itd |-> 0], queues |-> OhLoopQueues, stops |-> {1}]
OHCI_SendIsoData      == OhIso
OHCI_ReceiveIsoData   == OhIso
OHCI_ReceiveIntrData  == OhOne

OhGetKeys == {"GetInterface", "GetDescriptor", "GetStatus"}
OHCI_Ctrl_TestItem == {"SetAddress", "SetConfiguration", "GetConfiguration", "SetFeature", "ClearFeature", "SetInterface"} \cup OhGetKeys
OhHubSetKeys == {"SetHubFeature", "SetPortFeature"}
OHCI_HUB_TestItem == {"GetHubDescriptor", "GetPortStatus", "GetHubStatus", "ClearPortFeature", "ClearHubFeature"} \cup OhHubSetKeys
(* A key for the loop-back calls the function again and again; here, each  *)
(* call is a key of its own.                                               *)
OhLoopKey == {"BulkLoopData"}
OHCI_Bulk_TestItem == {"ReceiveBulkData", "SendBulkData"} \cup OhLoopKey
OHCI_Isochronous_TestItem == {"ReceiveIsoData", "SendIsoData"}
OHCI_Intr_TestItem == {"ReceiveIntrData"}
OhItems == [ctrl |-> OHCI_Ctrl_TestItem, hub |-> OHCI_HUB_TestItem, bulk |-> OHCI_Bulk_TestItem,
            iso |-> OHCI_Isochronous_TestItem, intr |-> OHCI_Intr_TestItem]
OhShape == [SetAddress |-> SetAddress_OHCI, GetDescriptor |-> GetDescriptor_OHCI, GetConfiguration |-> GetConfiguration_OHCI,
  SetConfiguration |-> SetConfiguration_OHCI, SetFeature |-> SetFeature_OHCI, ClearFeature |-> ClearFeature_OHCI,
  SetInterface |-> SetInterface_OHCI, GetInterface |-> GetInterface_OHCI, GetStatus |-> GetStatus_OHCI,
  ClearHubFeature |-> ClearHubFeature_OHCI, ClearPortFeature |-> ClearPortFeature_OHCI, SetHubFeature |-> SetHubFeature_OHCI,
  SetPortFeature |-> SetPortFeature_OHCI, GetHubStatus |-> GetHubStatus_OHCI, GetPortStatus |-> GetPortStatus_OHCI,
  GetHubDescriptor |-> GetHubDescriptor_OHCI, SendBulkData |-> OHCI_SendBulkData, ReceiveBulkData |-> OHCI_ReceiveBulkData,
  BulkLoopData |-> OHCI_BulkLoopData, SendIsoData |-> OHCI_SendIsoData, ReceiveIsoData |-> OHCI_ReceiveIsoData,
  ReceiveIntrData |-> OHCI_ReceiveIntrData]
-----------------------------------------------------------------------------
OhNil == [last |-> FALSE, good |-> FALSE, any |-> FALSE]
OhActive(q) == q.left > 0 /\ ~q.halted
OhBusy == \E i \in DOMAIN ohList : OhActive(ohList[i])
OhUpper == {"WDH", "RHSC"}

OhStart(menu) ==
  /\ ohMenu = menu /\ ohCall = "none"
  /\ ohFree = [ed |-> 0, gtd |-> 0, itd |-> 0] /\ ohLost = 0
  /\ ohFlag = [tc |-> FALSE, reset |-> FALSE, connect |-> FALSE]
  /\ ohReg = [operational |-> FALSE, enabled |-> {}, pending |-> {}]
  /\ ohList = <<>> /\ ohDone = OhNil /\ ohHcca = OhNil
  /\ ohSt = 0 /\ ohDev = [there |-> FALSE, address |-> 0, resetting |-> FALSE, sure |-> FALSE]
OhInit == OhStart("idle")
OhOff == OhStart("off")

(* A controller reset leaves the controller suspended, without interrupts  *)
(* and lists; OHCI_Start makes it operational and enables two interrupts.  *)
OHCI_Reset == ohReg' = [operational |-> FALSE, enabled |-> {}, pending |-> {}]
OHCI_Start == ohReg' = [operational |-> TRUE, enabled |-> OhUpper, pending |-> {}]
OhEmptied == ohList' = <<>> /\ ohDone' = OhNil /\ ohDev' = [ohDev EXCEPT !.sure = FALSE, !.resetting = FALSE]

ohci_test ==
  /\ ohMenu = "idle" /\ ohMenu' = "main"
  /\ ohFlag' = [tc |-> FALSE, reset |-> FALSE, connect |-> FALSE]
  /\ ohSt' = 0
  /\ OHCI_Start /\ OhEmptied
  /\ ohFree' = OhRings /\ ohLost' = 0
  /\ UNCHANGED <<ohCall, ohHcca>>
OhKey ==
  /\ ohCall = "none"
  /\ \/ ohMenu = "main" /\ ohMenu' \in {"base", "idle"} \cup DOMAIN OhItems
     \/ ohMenu \in DOMAIN OhItems \cup {"base"} /\ ohMenu' = "main"
  /\ ohMenu' = "ctrl" => ohFlag.connect
  /\ UNCHANGED <<ohCall, ohFree, ohLost, ohFlag, ohReg, ohList, ohDone, ohHcca, ohSt, ohDev>>
OHCI_Base_TestItem ==
  /\ ohCall = "none" /\ ohMenu = "base"
  /\ OHCI_Reset \/ OHCI_Start
  /\ OhEmptied
  /\ UNCHANGED <<ohMenu, ohCall, ohFree, ohLost, ohFlag, ohHcca, ohSt>>

(* OHCI_ResetDevice starts the reset of the port and waits for             *)
(* ResetChange, which nothing ever takes back.                             *)
OhResetBegins ==
  /\ ohCall = "none" /\ ohMenu = "ctrl"
  /\ ohCall' = "ResetDevice"
  /\ ohDev' = IF ohDev.there THEN [ohDev EXCEPT !.address = 0, !.resetting = TRUE, !.sure = TRUE] ELSE ohDev
  /\ UNCHANGED <<ohMenu, ohFree, ohLost, ohFlag, ohReg, ohList, ohDone, ohHcca, ohSt>>
OhForgetsNot == ohSt
OhForgets == 0
OhResetReturns ==
  /\ ohCall = "ResetDevice" /\ ohFlag.reset
  /\ ohCall' = "none" /\ ohSt' = OhForgets
  /\ UNCHANGED <<ohMenu, ohFree, ohLost, ohFlag, ohReg, ohList, ohDone, ohHcca, ohDev>>
-----------------------------------------------------------------------------
(* A transfer begins: take descriptors, link them, enable the list.  With  *)
(* a ring empty the store goes through NULL.                               *)
OhTaken(n) == [k \in DOMAIN ohFree |-> ohFree[k] - OhShape[n].take[k]]
OhLeft(n, stop, i) == IF i = 1 THEN stop ELSE OhShape[n].queues[i]
OhBegin(n) ==
  /\ ohCall = "none" /\ ohMenu \in DOMAIN OhItems /\ n \in OhItems[ohMenu]
  /\ \A k \in DOMAIN ohFree : ohFree[k] >= OhShape[n].take[k]
  /\ ohCall' = n
  /\ ohFree' = OhTaken(n)
  /\ \E stop \in OhShape[n].stops :
       ohList' = [i \in DOMAIN OhShape[n].queues |->
                    [left |-> OhLeft(n, stop, i), end |-> OhShape[n].queues[i] - OhLeft(n, stop, i), halted |-> FALSE,
                     last |-> i = Len(OhShape[n].queues), address |-> n = "SetAddress"]]
  /\ UNCHANGED <<ohMenu, ohLost, ohFlag, ohReg, ohDone, ohHcca, ohSt, ohDev>>
OhRunsOut(n) ==
  /\ ohCall = "none" /\ ohMenu \in DOMAIN OhItems /\ n \in OhItems[ohMenu]
  /\ \E k \in DOMAIN ohFree : ohFree[k] < OhShape[n].take[k]
  /\ ohMenu' = "wild"
  /\ UNCHANGED <<ohCall, ohFree, ohLost, ohFlag, ohReg, ohList, ohDone, ohHcca, ohSt, ohDev>>

(* The wait ends with the first interrupt, whatever it reports.  A bad     *)
(* isochronous receive returns before the descriptors are given back.      *)
OhIsLast == ohHcca.any /\ ohHcca.last
OhGood == OhIsLast /\ ohHcca.good
OhTcLeft == [ohFlag EXCEPT !.tc = @ /\ ohCall = "GetStatus"]
OhTcCleared == [ohFlag EXCEPT !.tc = FALSE]
OhLeaks == ohCall = "ReceiveIsoData" /\ OhIsLast /\ ~ohHcca.good
OhReturnedTail(n) == [k \in DOMAIN ohFree |-> ohFree[k] + OhShape[n].take[k] - (IF n = "GetPortStatus" /\ k = "gtd" THEN 1 ELSE 0)]
OhReturned(n) == [k \in DOMAIN ohFree |-> ohFree[k] + OhShape[n].take[k]]
OhWaitEnds ==
  /\ ohCall \notin {"none", "ResetDevice"} /\ ohFlag.tc
  /\ ohFlag' = OhTcCleared
  /\ ohSt' = IF ohCall = "SetAddress" /\ OhGood THEN 1 ELSE ohSt
  /\ ohFree' = IF OhLeaks THEN ohFree ELSE OhReturned(ohCall)
  /\ ohLost' = IF OhLeaks THEN ohLost + 1 ELSE ohLost
  /\ ohCall' = "none"
  /\ ohList' = IF OhBusy THEN ohList ELSE <<>>
  /\ ohDev' = [ohDev EXCEPT !.sure = @ /\ (ohCall = "SetAddress" => OhGood)]
  /\ UNCHANGED <<ohMenu, ohReg, ohDone, ohHcca>>
-----------------------------------------------------------------------------
(* The controller executes a descriptor, or fails to and halts the         *)
(* endpoint; both ways the descriptor goes to the done queue.              *)
OhAnswers == ohDev.there /\ ~ohDev.resetting /\ (ohDev.sure => ohSt = ohDev.address)
OhRetires(i, good) ==
  /\ ohReg.operational /\ OhActive(ohList[i])
  /\ ohList' = [ohList EXCEPT ![i].left = @ - 1, ![i].halted = ~good]
  /\ ohDone' = [any |-> TRUE, good |-> good, last |-> ohList[i].last /\ ohList[i].left = 1 /\ ohList[i].end = 0]
  /\ UNCHANGED <<ohMenu, ohCall, ohFree, ohLost, ohFlag, ohReg, ohHcca, ohSt>>
OhExecutes(i) ==
  /\ OhAnswers /\ OhRetires(i, TRUE)
  /\ ohDev' = IF ohList[i].address /\ ohList[i].left = 1 THEN [ohDev EXCEPT !.address = 1] ELSE ohDev
OhFails(i) == OhRetires(i, FALSE) /\ UNCHANGED ohDev
OhController == \E i \in DOMAIN ohList : OhExecutes(i) \/ OhFails(i)

(* The end of a frame, when the previous queue has been taken.             *)
OhFrameEnds ==
  /\ ohDone.any /\ "WDH" \notin ohReg.pending
  /\ ohFast => ~OhBusy
  /\ ohHcca' = ohDone /\ ohDone' = OhNil
  /\ ohReg' = [ohReg EXCEPT !.pending = @ \cup {"WDH"}]
  /\ UNCHANGED <<ohMenu, ohCall, ohFree, ohLost, ohFlag, ohList, ohSt, ohDev>>

OhPend(s) == IF ohReg.operational THEN [ohReg EXCEPT !.pending = @ \cup s] ELSE ohReg
(* The port: a reset ends, a device comes or goes.                         *)
OhPort ==
  /\ ohMenu # "off"
  /\ \/ ohDev.resetting /\ ohDev' = [ohDev EXCEPT !.resetting = FALSE] /\ ohReg' = OhPend({"RHSC", "PRS"})
     \/ ohDev' = [there |-> ~ohDev.there, address |-> 0, resetting |-> FALSE, sure |-> FALSE] /\ ohReg' = OhPend({"RHSC"})
  /\ UNCHANGED <<ohMenu, ohCall, ohFree, ohLost, ohFlag, ohList, ohDone, ohHcca, ohSt>>

(* The interrupt: connection, the end of a reset, and the done queue.      *)
OhSetFlagsElse == [tc |-> ohFlag.tc \/ ohReg.pending = {"WDH"},
                   connect |-> IF "RHSC" \in ohReg.pending THEN ohDev.there ELSE ohFlag.connect,
                   reset |-> ohFlag.reset \/ "PRS" \in ohReg.pending]
OhSetFlags == [tc |-> ohFlag.tc \/ "WDH" \in ohReg.pending,
               connect |-> IF "RHSC" \in ohReg.pending THEN ohDev.there ELSE ohFlag.connect,
               reset |-> ohFlag.reset \/ "PRS" \in ohReg.pending]
OHCIIntrHandler ==
  /\ ohReg.pending \cap ohReg.enabled # {}
  /\ ohFlag' = OhSetFlags
  /\ ohReg' = [ohReg EXCEPT !.pending = {}, !.enabled = OhUpper]
  /\ UNCHANGED <<ohMenu, ohCall, ohFree, ohLost, ohList, ohDone, ohHcca, ohSt, ohDev>>

OhStep == \/ ohci_test \/ OhKey \/ OHCI_Base_TestItem \/ OhResetBegins \/ OhResetReturns
          \/ \E n \in DOMAIN OhShape : OhBegin(n) \/ OhRunsOut(n)
          \/ OhWaitEnds \/ OhController \/ OhFrameEnds \/ OhPort \/ OHCIIntrHandler
(* As in EhciHost; frames never stop on an operational controller.         *)
OhFair == WF_ohVars(OhWaitEnds) /\ WF_ohVars(OhController) /\ WF_ohVars(OhFrameEnds) /\ WF_ohVars(OHCIIntrHandler)
OhSpec == OhInit /\ [][OhStep]_ohVars /\ OhFair
-----------------------------------------------------------------------------
(* The type of the state; the pools never exceed what ED_Init, GTD_Init    *)
(* and IsoTd_init made.                                                    *)
OhTypeOK ==
  /\ ohMenu \in {"off", "idle", "main", "base", "wild"} \cup DOMAIN OhItems
  /\ ohCall \in DOMAIN OhShape \cup {"none", "ResetDevice"}
  /\ ohFree \in [DOMAIN OhRings -> 0 .. 5] /\ ohLost \in 0 .. 5
  /\ ohFlag \in [tc : BOOLEAN, reset : BOOLEAN, connect : BOOLEAN]
  /\ ohReg \in [operational : BOOLEAN, enabled : SUBSET OhUpper, pending : SUBSET (OhUpper \cup {"PRS"})]
  /\ ohList \in Seq([left : 0 .. 3, end : 0 .. 3, halted : BOOLEAN, last : BOOLEAN, address : BOOLEAN])
  /\ {ohDone, ohHcca} \subseteq [last : BOOLEAN, good : BOOLEAN, any : BOOLEAN]
  /\ ohSt \in {0, 1} /\ ohDev \in [there : BOOLEAN, address : {0, 1}, resetting : BOOLEAN, sure : BOOLEAN]

(* Every transfer function returns what it took, on every path but one:    *)
(* what is missing between two transfers is one endpoint and two           *)
(* descriptors for each isochronous receive that failed.                   *)
OhMissing(k) == (IF ohCall \in DOMAIN OhShape THEN OhShape[ohCall].take[k] ELSE 0)
                + ohLost * OhShape["ReceiveIsoData"].take[k]
OhPoolWhole == ohMenu \notin {"off", "idle"} => \A k \in DOMAIN OhRings : ohFree[k] = OhRings[k] - OhMissing(k)

(* A transfer function gives its descriptors back only when the controller *)
(* has nothing of it left to execute.                                      *)
OhFinished == [][(ohCall \in DOMAIN OhShape /\ ohCall' = "none") => ~OhBusy]_ohVars

(* After a reset of the device the host keeps addressing it by the address *)
(* it has, until it is plugged anew or a SetAddress does not succeed.      *)
OhKnowsAddress == ohDev.sure /\ ohCall \notin {"SetAddress", "ResetDevice"} => ohSt = ohDev.address

(* A transfer with anything to execute on an operational controller with   *)
(* its interrupts enabled ends.                                            *)
OhReturns == (ohCall \in DOMAIN OhShape /\ ohReg.operational /\ OhBusy) ~> (ohCall = "none")
=============================================================================
