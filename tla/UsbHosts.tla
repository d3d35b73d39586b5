------------------------------ MODULE UsbHosts ------------------------------
(***************************************************************************)
(* The two USB host tests and the free rings both take their descriptors   *)
(* from.  src/main-menu.c offers the tests as entries of one menu; a       *)
(* session is with one of them.  They share no state.  The rings' own      *)
(* links are looked at apart from the tests, whose modules count the free  *)
(* descriptors only.                                                       *)
(***************************************************************************)
EXTENDS EhciHost, OhciHost, DescriptorRing

hostVars == <<ehVars, ohVars, ringVars>>
HostInit ==
  \/ EhInit /\ OhOff /\ RingOff
  \/ EhOff /\ OhInit /\ RingOff
  \/ EhOff /\ OhOff /\ RingInit
EhOn(A) == A /\ UNCHANGED <<ohVars, ringVars>>
OhOn(A) == A /\ UNCHANGED <<ehVars, ringVars>>
RingOn(A) == A /\ UNCHANGED <<ehVars, ohVars>>
HostNext == EhOn(EhStep) \/ OhOn(OhStep) \/ RingOn(RingNext)

(* Fairness of the tests together: one that is off takes no step.          *)
HostSpec == HostInit /\ [][HostNext]_hostVars
  /\ WF_hostVars(EhOn(WaitEnds) \/ OhOn(OhWaitEnds)) /\ WF_hostVars(EhOn(EhController) \/ OhOn(OhController))
  /\ WF_hostVars(EhOn(EHCIIntrHandler) \/ OhOn(OHCIIntrHandler)) /\ WF_hostVars(OhOn(OhFrameEnds))
-----------------------------------------------------------------------------
(* Every transfer function of either host gives back each descriptor it    *)
(* took, on every path but the failed isochronous receive.                 *)
PoolsWhole == EhPoolWhole /\ OhPoolWhole

(* Host and device agree on the address after every transfer and reset.    *)
HostKnowsAddress == EhKnowsAddress /\ OhKnowsAddress

(* Every transfer function returns, although its wait has no bound.        *)
HostReturns == EhReturns /\ OhReturns
=============================================================================
