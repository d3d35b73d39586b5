SPECIFICATION FairSpec
CONSTANTS
  tsc2000_isr = tsc2000_isr
  volume_tuner_isr = volume_tuner_isr
  p1 = p1
  p2 = p2
  NULL = NULL
  Port = Port
  socle_gpio_isr = socle_gpio_isr
  PortRoutine = {socle_gpio_isr}
  SubRoutine <- MCSubRoutine
  Param = {p1, p2}
  ParamOf <- MCParamOf
  NumPins = 2
  LevelPin = {0}
  MaxEvents = 3
  LateIrq = TRUE
INVARIANTS
  PinHasItsRoutine
  OnlyEnabledPinsRun
  CountIsHeld
PROPERTIES
  NoPinLeftOut
  EdgeServed
