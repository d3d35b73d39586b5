SPECIFICATION BenchSpec
CONSTANTS
  key1 = key1
  key2 = key2
  Key = {key1, key2}
  NULL = NULL
  Port = Port
  socle_gpio_isr = socle_gpio_isr
  pdk_gpio_kpd_isr = pdk_gpio_kpd_isr
  PortRoutine = {socle_gpio_isr, pdk_gpio_kpd_isr}
  SubRoutine = {}
  Param = {}
  ParamOf <- NoParam
  NumPins = 2
  LevelPin = {}
  MaxEvents = 4
  LateIrq = TRUE

  nfPages = 2
  nfCases = 2

  rsBits = 3
  rsTap = 1
  rsByte = 2
  rsBytes = 2
  rsMaxPar = 4
  rsDamage = 2

  sdBlocks = 3
  sdPartial = 2
  sdSlow = 1
  sdCases = 2

  spSize = 8
  spTests = 2
  spServes = 1

  icSize = 8
  icChip = 4
  icPage = 2
  icNaks = 3
  icTests = 2

  isSize = 8
  isRing = 4
  isDepth = 4
  isTests = 2

  rtWait = 160
  rtEarly = 1
  rtTests = 2

  tmKeys = 6

  ulSize = 12
  ulFifo = 4
  ulRuns = 2

  nrSec = 16
  nrSize = 32
  nrPolls = 1
  nrTests = 2

  trEarly = 1
  trTests = 2

  paTests = 2
  paLate = 1
INVARIANTS
  EndsWithAllKeys FlashRight NorRight RtcRight SpRight I2cRight I2sRight ClocksRight MenuRight UartRight
CHECK_DEADLOCK FALSE
