---------------------------- MODULE MCSerialBench ----------------------------
EXTENDS SerialBench, TLC
MCNotifier == {socle_uart_tx_dma_notifier, socle_uart_rx_dma_notifier}
MCHandles == [n \in MCNotifier |-> {"page"}]
=============================================================================
