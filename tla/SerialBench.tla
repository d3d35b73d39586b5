---------------------------- MODULE SerialBench ----------------------------
(***************************************************************************)
(* Tests of parts that move data serially, one of which the user picks     *)
(* from the menu of src/main-menu.c: the UART over its DMA channels, the   *)
(* USB device, and the Ethernet MAC, whose driver and whose test program   *)
(* are modelled one above the other.  They share no state.                 *)
(***************************************************************************)
EXTENDS UartHwdma, UsbDevice, MacDriver, MacTest

serialVars == <<allVars, udVars, macVars, mtVars>>
SerialInit ==
  \/ UartStart("menu") /\ UdOff /\ MacStart("off") /\ MtStart("off")
  \/ UartStart("off") /\ UdInit /\ MacStart("off") /\ MtStart("off")
  \/ UartStart("off") /\ UdOff /\ MacStart("idle") /\ MtStart("off")
  \/ UartStart("off") /\ UdOff /\ MacStart("off") /\ MtStart("idle")
UartOn(A) == A /\ UNCHANGED <<udVars, macVars, mtVars>>
UdOn(A) == A /\ UNCHANGED <<allVars, macVars, mtVars>>
MacOn(A) == A /\ UNCHANGED <<allVars, udVars, mtVars>>
MtOn(A) == A /\ UNCHANGED <<allVars, udVars, macVars>>
SerialNext == UartOn(UartNext) \/ UdOn(UdStep) \/ MacOn(MacStep) \/ MtOn(MtStep)
SerialSpec == SerialInit /\ [][SerialNext]_serialVars /\ UartFair /\ UdFair /\ MacFair
=============================================================================
