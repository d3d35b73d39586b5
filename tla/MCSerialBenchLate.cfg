SPECIFICATION SerialSpec
CONSTANTS
  socle_uart_tx_dma_notifier = socle_uart_tx_dma_notifier
  socle_uart_rx_dma_notifier = socle_uart_rx_dma_notifier
  NULL = NULL
  LateIrq = TRUE
  Hdma = Hdma
  panther7_hdma_isr = panther7_hdma_isr
  NumChannels = 2
  Notifier <- MCNotifier
  Handles <- MCHandles
  Threshold = 2

  udBlocks = 3
  udAborts = FALSE

  macRds = 7
  macTds = 5
  macFrames = 3
  macLate = TRUE

  mtRounds = 4
PROPERTIES MacTaken
