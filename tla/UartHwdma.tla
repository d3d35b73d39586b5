----------------------------- MODULE UartHwdma -----------------------------
(***************************************************************************)
(* src/UART/uart-ctrl.c, hardware-DMA loopback test: the UART feeds HDMA   *)
(* channel 0 (transmit) and drains channel 1 (receive), and the test waits *)
(* for the page interrupt of the receive channel.  Two channels of the     *)
(* shared controller are active at once here, unlike in Panther7HdmaTest.  *)
(***************************************************************************)
EXTENDS Panther7Hdma, Board

CONSTANTS socle_uart_tx_dma_notifier, socle_uart_rx_dma_notifier

ASSUME UartHwdmaAssumption ==
  /\ NumChannels = 2
  /\ Notifier = {socle_uart_tx_dma_notifier, socle_uart_rx_dma_notifier}
  /\ \A n \in Notifier : Handles[n] = {"page"}

tx == 0      \* socle_uart_tx_dma_ch_num = PANTHER7_HDMA_CH_0
rx == 1      \* socle_uart_rx_dma_ch_num = PANTHER7_HDMA_CH_1

VARIABLES upc, t    \* where the test is; counter of the wait

allVars == <<vars, upc, t>>

UpcBegin == {"off", "menu", "request_rx", "held"}
UpcRun == {"disable_tx", "mode_tx", "disable_rx", "mode_rx",
           "enable_tx", "enable_rx", "wait", "compare"}
UpcLeave == {"leave_rx", "free_tx", "free_rx"}

UartTypeOK == TypeOK /\ upc \in UpcBegin \cup UpcRun \cup UpcLeave /\ t \in 0 .. Threshold

\* "off": another test of the menu has been chosen.
UartStart(pc) == Init /\ upc = pc /\ t = 0
UartInit == UartStart("menu")

rx_complete_flag == flag[socle_uart_rx_dma_notifier]

Go(from, to) == upc = from /\ upc' = to /\ UNCHANGED t
Local == /\ drv = NoCall /\ IC!MainRuns
         /\ UNCHANGED <<dmaVars, container, drv, hisr, regVars, icVars>>

\* socle_uart_hwdma_panther7_hdma_test: request both channels, run the menu,
\* disable both, free both.
Begin ==
  \/ Go("menu", "request_rx") /\ socle_request_dma(tx, socle_uart_tx_dma_notifier)
  \/ Go("request_rx", "held") /\ socle_request_dma(rx, socle_uart_rx_dma_notifier)

Leave ==
  \/ Go("held", "leave_rx") /\ socle_disable_dma(tx)
  \/ Go("leave_rx", "free_tx") /\ socle_disable_dma(rx)
  \/ Go("free_tx", "free_rx") /\ socle_free_dma(tx)
  \/ Go("free_rx", "menu") /\ socle_free_dma(rx)

\* socle_uart_hwdma_panther7_hdma: socle_uart_init_environment resets the
\* flags first; both channels are then disabled, configured and enabled.
InitEnvironment ==
  /\ Go("held", "disable_tx")
  /\ Local
  /\ flag' = [n \in Notifier |-> 0]

Configure ==
  \/ Go("disable_tx", "mode_tx") /\ socle_disable_dma(tx)
  \/ Go("mode_tx", "disable_rx") /\ socle_set_dma_mode(tx, "slice")
  \/ Go("disable_rx", "mode_rx") /\ socle_disable_dma(rx)
  \/ Go("mode_rx", "enable_tx") /\ socle_set_dma_mode(rx, "slice")

Enable ==
  \/ Go("enable_tx", "enable_rx") /\ socle_enable_dma(tx)
  \/ Go("enable_rx", "wait") /\ socle_enable_dma(rx)

WaitHits ==
  /\ upc = "wait" /\ upc' = "compare"
  /\ Local
  /\ WaitHit(rx_complete_flag)
  /\ flag' = [flag EXCEPT ![socle_uart_rx_dma_notifier] = 0]
  /\ t' = 0

WaitGoesOn ==
  /\ upc = "wait" /\ upc' = "wait"
  /\ Local
  /\ WaitPolls(rx_complete_flag, t)
  /\ t' = t + 1
  /\ UNCHANGED flag

WaitTimesOut ==
  /\ upc = "wait" /\ upc' = "held"
  /\ Local
  /\ WaitExpires(rx_complete_flag, t)
  /\ t' = 0
  /\ UNCHANGED flag

Compare == Go("compare", "held") /\ Local /\ UNCHANGED flag

LeaveOn == upc # "held" /\ Leave
Running == Configure \/ Enable \/ WaitHits \/ WaitGoesOn \/ WaitTimesOut \/ Compare
Quietly(A) == A /\ UNCHANGED <<upc, t>>

UartNext == \/ Begin \/ Leave \/ InitEnvironment \/ Running
            \/ Quietly(ServiceStep) \/ Quietly(HandlerStep) \/ Quietly(Engine)

UartSpec == UartInit /\ [][UartNext]_allVars

UartFair == /\ WF_allVars(Running \/ LeaveOn \/ Quietly(ServiceStep))
            /\ WF_allVars(Quietly(HandlerStep))
UartFairSpec == UartSpec /\ UartFair

----------------------------------------------------------------------------

\* Leaving the test gives both channels back, whatever the engine was doing
\* when the wait expired: engine off, no flag, no container, interrupt off.
LeftClean ==
  upc = "menu" /\ drv = NoCall
    => /\ \A c \in Channel : /\ lock[c] = 0 /\ hw[c] = "off"
                             /\ ~container[c].dma /\ act \cap Flags(c) = {}
       /\ Hdma \notin iecr

\* The last free always returns, although freeing the transmit channel has
\* already taken the shared interrupt away from the receive channel.
LeaveEnds == (upc = "leave_rx") ~> (upc = "menu" /\ drv = NoCall)
=============================================================================
