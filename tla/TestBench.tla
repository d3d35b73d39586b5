------------------------------ MODULE TestBench ------------------------------
(***************************************************************************)
(* Tests of the menu of src/main-menu.c, of which the user picks one.  They *)
(* share no state.                                                         *)
(***************************************************************************)
EXTENDS KeypadTest, NandTest, ReedSolomon, SdmmcTest, SpiProtocol, I2cLoop, I2sAudio, RtcTest, VideoTest, UartLoop, NorFlash, TimerTest, PwmAdcTest

tbVars == <<allVars, nfVars, rsVars, sdVars, spVars, i2cVars, isVars, rtVars, videoVars, ulVars, nrVars, trVars, paVars>>
Tests == {"keypad", "nand", "rs", "sdmmc", "spi", "i2c", "i2s", "rtc", "video", "uart", "nor", "timer", "pwm"}
BenchInit == \E test \in Tests :
  LET first(name, pc) == IF test = name THEN pc ELSE "off" IN
  /\ KeypadStart(first("keypad", "menu")) /\ NfStart(first("nand", "idle"))
  /\ RsStart(first("rs", "idle")) /\ SdStart(first("sdmmc", "idle"))
  /\ SpStart(first("spi", "idle")) /\ IcStart(first("i2c", "idle"))
  /\ IsStart(first("i2s", "idle")) /\ RtStart(first("rtc", "idle"))
  /\ VvStart(first("video", "key")) /\ UlStart(first("uart", "idle"))
  /\ NrStart(first("nor", "idle")) /\ TrStart(first("timer", "idle"))
  /\ PaStart(first("pwm", "idle"))
KeypadOn == kpc # "off" /\ KeypadNext /\ UNCHANGED <<nfVars, rsVars, sdVars, spVars, i2cVars, isVars, rtVars, videoVars, ulVars, nrVars, trVars, paVars>>
NfOn == nfPc # "off" /\ NfStep /\ UNCHANGED <<allVars, rsVars, sdVars, spVars, i2cVars, isVars, rtVars, videoVars, ulVars, nrVars, trVars, paVars>>
RsOn == rsPc # "off" /\ RsStep /\ UNCHANGED <<allVars, nfVars, sdVars, spVars, i2cVars, isVars, rtVars, videoVars, ulVars, nrVars, trVars, paVars>>
SdOn == sdPc # "off" /\ SdStep /\ UNCHANGED <<allVars, nfVars, rsVars, spVars, i2cVars, isVars, rtVars, videoVars, ulVars, nrVars, trVars, paVars>>
SpOn == spM.pc # "off" /\ SpStep /\ UNCHANGED <<allVars, nfVars, rsVars, sdVars, i2cVars, isVars, rtVars, videoVars, ulVars, nrVars, trVars, paVars>>
IcOn == icM.pc # "off" /\ IcStep /\ UNCHANGED <<allVars, nfVars, rsVars, sdVars, spVars, isVars, rtVars, videoVars, ulVars, nrVars, trVars, paVars>>
IsOn == isM.pc # "off" /\ IsStep /\ UNCHANGED <<allVars, nfVars, rsVars, sdVars, spVars, i2cVars, rtVars, videoVars, ulVars, nrVars, trVars, paVars>>
RtOn == rtM.pc # "off" /\ RtStep /\ UNCHANGED <<allVars, nfVars, rsVars, sdVars, spVars, i2cVars, isVars, videoVars, ulVars, nrVars, trVars, paVars>>
VvOn == tmDo.pc # "off" /\ VvStep /\ UNCHANGED <<allVars, nfVars, rsVars, sdVars, spVars, i2cVars, isVars, rtVars, ulVars, nrVars, trVars, paVars>>
UlOn == ulM.pc # "off" /\ UlStep /\ UNCHANGED <<allVars, nfVars, rsVars, sdVars, spVars, i2cVars, isVars, rtVars, videoVars, nrVars, trVars, paVars>>
NrOn == nrM.pc # "off" /\ NrStep /\ UNCHANGED <<allVars, nfVars, rsVars, sdVars, spVars, i2cVars, isVars, rtVars, videoVars, ulVars, trVars, paVars>>
TrOn == trM.pc # "off" /\ TrStep /\ UNCHANGED <<allVars, nfVars, rsVars, sdVars, spVars, i2cVars, isVars, rtVars, videoVars, ulVars, nrVars, paVars>>
PaOn == paM.pc # "off" /\ PaStep /\ UNCHANGED <<allVars, nfVars, rsVars, sdVars, spVars, i2cVars, isVars, rtVars, videoVars, ulVars, nrVars, trVars>>
BenchNext == \/ KeypadOn \/ NfOn \/ RsOn \/ SdOn \/ SpOn \/ IcOn \/ IsOn \/ RtOn \/ VvOn \/ UlOn
             \/ NrOn \/ TrOn \/ PaOn
BenchSpec == BenchInit /\ [][BenchNext]_tbVars
-----------------------------------------------------------------------------
(* The test of the NAND flash (src/NAND/nand-flsh-ctrl.c) passes just on   *)
(* the chips it has handled as told, the code of its parity (src/NAND/     *)
(* rscode-1.0_socle) corrects every error it is made for, and a test of a  *)
(* card (src/SDMMC/sdmmc-ctrl.c) passes just when card and host did what   *)
(* they should.                                                            *)
FlashRight == NandRight /\ RsRight /\ SdRight
(* The timer, PWM and converter tests (src/TIMER, src/ADC_PWM) pass just   *)
(* when what they time works, whatever an earlier test has left running,   *)
(* set or pending.                                                         *)
ClocksRight == TimerRight /\ PwmRight
=============================================================================
