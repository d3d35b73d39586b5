----------------------------- MODULE MCUsbHosts -----------------------------
EXTENDS UsbHosts
(* Without the fairness, for the run that looks for an early return.       *)
MCUsbHostsSlow == HostInit /\ [][HostNext]_hostVars
=============================================================================
