SPECIFICATION FairSpec
CONSTANTS
  nand = nand
  gpio = gpio
  h1 = h1
  h2 = h2
  p1 = p1
  p2 = p2
  NULL = NULL
  LateIrq = FALSE
  Irq <- MCIrq
  EdgeIrq <- MCEdge
  Routine <- MCRoutine
  Param <- MCParam
  ParamOf <- MCParamOf
  MaxRaises = 3
PROPERTY FreeDisablesIrq
