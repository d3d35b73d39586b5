SPECIFICATION Spec
CONSTANTS
  sw_client = sw_client
  page_client = page_client
  NULL = NULL
  LateIrq = TRUE
  Hdma = Hdma
  panther7_hdma_isr = panther7_hdma_isr
  NumChannels = 2
  Notifier <- MCNotifier
  Handles <- MCHandles
INVARIANTS
  NoWildCall
  FreeChannelSilent
