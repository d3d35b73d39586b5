----------------------------- MODULE MCGpioIrq -----------------------------
EXTENDS GpioIrq, TLC
CONSTANTS tsc2000_isr, volume_tuner_isr, p1, p2
MCSubRoutine == {tsc2000_isr, volume_tuner_isr}
MCParamOf == (tsc2000_isr :> p1) @@ (volume_tuner_isr :> p2)
=============================================================================
