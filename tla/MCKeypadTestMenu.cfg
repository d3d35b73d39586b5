SPECIFICATION KeypadFairSpec
CONSTANTS
  key1 = key1
  key2 = key2
  Key = {key1, key2}
  NULL = NULL
  Port = Port
  socle_gpio_isr = socle_gpio_isr
  pdk_gpio_kpd_isr = pdk_gpio_kpd_isr
  PortRoutine = {socle_gpio_isr, pdk_gpio_kpd_isr}
  SubRoutine = {}
  Param = {}
  ParamOf <- NoParam
  NumPins = 2
  LevelPin = {}
  MaxEvents = 4
  LateIrq = FALSE
PROPERTIES
  MenuComesBack
CHECK_DEADLOCK FALSE
