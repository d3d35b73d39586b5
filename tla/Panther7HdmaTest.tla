------------------------- MODULE Panther7HdmaTest -------------------------
(***************************************************************************)
(* src/PANTHER7-HDMA/panther7-hdma-ctrl.c: the memory-to-memory test of    *)
(* one channel at a time, run and burn-in, over the service and the driver *)
(* of Panther7Hdma.  The engine may take for ever, so the 30 second wait   *)
(* may expire and leave the channel running.                               *)
(***************************************************************************)
EXTENDS Panther7Hdma, Board

CONSTANTS panther7_hdma_notifier,   \* the one notifier of the test
          MaxBurn                   \* transfers in a burn-in

ASSUME TestAssumption ==
  /\ Notifier = {panther7_hdma_notifier}
  /\ Handles[panther7_hdma_notifier] = {"int"}
  /\ MaxBurn \in Nat \ {0}

VARIABLES
  cpc,     \* where the test is
  chan,    \* panther7_hdma_channel_num
  t,       \* counter of the wait
  left     \* transfers the burn-in still has to do

testVars == <<cpc, chan, t, left>>
allVars == <<vars, testVars>>

TestPc == {"menu", "held", "configure", "clear", "enable", "wait", "compare", "free"}

TestTypeOK ==
  /\ TypeOK
  /\ cpc \in TestPc
  /\ chan \in Channel
  /\ t \in 0 .. Threshold
  /\ left \in 0 .. MaxBurn

TestInit == Init /\ cpc = "menu" /\ chan = 0 /\ t = 0 /\ left = 0

complete_flag == flag[panther7_hdma_notifier]
SetFlag(v) == flag' = [flag EXCEPT ![panther7_hdma_notifier] = v]

\* A step of the test itself, between two service calls.
Local == /\ drv = NoCall /\ IC!MainRuns
         /\ UNCHANGED <<dmaVars, container, drv, hisr, regVars, icVars>>

\* panther7_hdma_channel_0_test, panther7_hdma_channel_1_test.
TestBegin(c) ==
  /\ cpc = "menu" /\ cpc' = "held"
  /\ chan' = c
  /\ socle_request_dma(c, panther7_hdma_notifier)
  /\ UNCHANGED <<t, left>>

TestLeave ==
  /\ cpc = "held" /\ cpc' = "free"
  /\ socle_disable_dma(chan)
  /\ UNCHANGED <<chan, t, left>>

TestFree ==
  /\ cpc = "free" /\ cpc' = "menu"
  /\ socle_free_dma(chan)
  /\ UNCHANGED <<chan, t, left>>

\* panther7_hdma_run is a burn-in of one transfer.
Run(n) ==
  /\ cpc = "held" /\ cpc' = "configure"
  /\ left' = n
  /\ socle_disable_dma(chan)
  /\ UNCHANGED <<chan, t>>

\* panther7_hdma_software_dma_tranfer, from the setters on.
Configure ==
  /\ cpc = "configure" /\ cpc' = "clear"
  /\ socle_set_dma_mode(chan, "sw")
  /\ UNCHANGED <<chan, t, left>>

\* Mutant of ClearFlag: the completion flag keeps its value.
ClearFlagForgets ==
  /\ cpc = "clear" /\ cpc' = "enable"
  /\ Local
  /\ UNCHANGED <<flag, chan, t, left>>

ClearFlag ==
  /\ cpc = "clear" /\ cpc' = "enable"
  /\ Local
  /\ SetFlag(0)
  /\ UNCHANGED <<chan, t, left>>

Enable ==
  /\ cpc = "enable" /\ cpc' = "wait"
  /\ t' = 0
  /\ socle_enable_dma(chan)
  /\ UNCHANGED <<chan, left>>

WaitHits ==
  /\ cpc = "wait" /\ cpc' = "compare"
  /\ Local
  /\ WaitHit(complete_flag)
  /\ SetFlag(0)
  /\ t' = 0
  /\ UNCHANGED <<chan, left>>

WaitGoesOn ==
  /\ cpc = "wait" /\ cpc' = "wait"
  /\ Local
  /\ WaitPolls(complete_flag, t)
  /\ t' = t + 1
  /\ UNCHANGED <<flag, chan, left>>

\* Timeout: the transfer is given up, the channel stays enabled.
WaitTimesOut ==
  /\ cpc = "wait" /\ cpc' = "held"
  /\ Local
  /\ WaitExpires(complete_flag, t)
  /\ t' = 0
  /\ left' = 0
  /\ UNCHANGED <<flag, chan>>

\* The buffers agree: the burn-in takes the next transfer, or ends.
Compare ==
  /\ cpc = "compare"
  /\ left' = left - 1
  /\ IF left > 1 THEN /\ cpc' = "configure"
                      /\ socle_disable_dma(chan)
                 ELSE /\ cpc' = "held"
                      /\ Local
                      /\ UNCHANGED flag
  /\ UNCHANGED <<chan, t>>

Transfer == Configure \/ ClearFlag \/ Enable \/ WaitHits \/ WaitGoesOn \/ WaitTimesOut \/ Compare
Menu == \/ \E c \in Channel : TestBegin(c)
        \/ \E n \in 1 .. MaxBurn : Run(n)
        \/ TestLeave
Quietly(A) == A /\ UNCHANGED testVars

TestNext == \/ Menu \/ TestFree \/ Transfer
            \/ Quietly(ServiceStep) \/ Quietly(HandlerStep) \/ Quietly(Engine)

TestSpec == TestInit /\ [][TestNext]_allVars

\* The core executes the main program and the exception; the user may leave
\* the menu alone and the engine may never finish.
TestFairSpec == /\ TestSpec
                /\ WF_allVars(TestFree \/ Transfer \/ Quietly(ServiceStep))
                /\ WF_allVars(Quietly(HandlerStep))

----------------------------------------------------------------------------
\* A successful wait is about the transfer just started: a completion of an
\* earlier transfer, arriving after its timeout, is never taken for it
\* (panther7-hdma-ctrl.c:265-286 stop the engine before they clear the flag).
CompletionIsCurrent == cpc = "compare" => Finished(chan)

\* A completion is not lost between the engine and the waiting test: while the
\* flag is not set its interrupt is enabled and pending, or being handled.
CompletionOnItsWay ==
  cpc = "wait" /\ drv = NoCall /\ Finished(chan) /\ complete_flag = 0
    => /\ Hdma \in iecr \cap imr /\ vec[Hdma] # NULL
       /\ \/ <<chan, "int">> \in act \ mask
          \/ hisr.at \in {"rmw", "clear", "notify"} /\ hisr.ch = chan /\ "int" \in hisr.stat

\* Every transfer the user starts ends, by completion or by timeout.
TransferEnds == (cpc = "configure") ~> (cpc = "held")
=============================================================================
