SPECIFICATION TestFairSpec
CONSTANTS
  panther7_hdma_notifier = panther7_hdma_notifier
  NULL = NULL
  LateIrq = TRUE
  Hdma = Hdma
  panther7_hdma_isr = panther7_hdma_isr
  NumChannels = 2
  Notifier <- MCNotifier
  Handles <- MCHandles
  Threshold = 3
  MaxBurn = 3
INVARIANTS
  CompletionIsCurrent
  CompletionOnItsWay
PROPERTY
  TransferEnds
