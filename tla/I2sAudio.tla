------------------------------ MODULE I2sAudio ------------------------------
(***************************************************************************)
(* Playing, recording and loop-back of src/I2S/i2s-ctrl.c.                 *)
(*                                                                         *)
(* With interrupts, words go through the FIFOs.  With DMA, periods go      *)
(* through a ring in memory, which the main program refills, or empties,   *)
(* when the handler has raised socle_i2s_period_int_flag, up to the place  *)
(* the handler has come to.  Rates, word lengths and the codecs are left   *)
(* out.  isSize is the number of words, or periods, in PCM_BUF_SIZE and    *)
(* DMA_BUF_SIZE; isRing is PERIODS; isDepth is FIFO_DEPTH; isTests bounds  *)
(* the tests of a session.  All samples are different, and not 0.          *)
(***************************************************************************)
EXTENDS Integers, Sequences

CONSTANTS isSize, isRing, isDepth, isTests
ASSUME IsAssumption ==
  /\ {isSize, isRing, isDepth} \subseteq Nat \ {0} /\ isTests \in Nat
  /\ isDepth % 2 = 0 /\ isSize % (isDepth \div 2) = 0 /\ isDepth <= isSize /\ isRing < isSize

VARIABLES
  isM,     \* the test: where it is, verdict; has it met the interrupt in the gap
  isFlags, \* the flags of the handlers that are set
  isPos,   \* pcm_buf_pos, ring_buf_pos, dma_ring_buf_pos
  isMem,   \* the ring, what has been played, and what has been recorded
  isDma,   \* of each channel: is it on, its next place and pages, interrupt pending
  isFifo   \* the two FIFOs, and is the interface running

isVars == <<isM, isFlags, isPos, isMem, isDma, isFifo>>

IsSample(k) == IF k < isSize THEN k + 1 ELSE 0
IsOff == [on |-> FALSE, at |-> 0, pages |-> 0, int |-> FALSE]
IsStart(pc) ==
  /\ isM = [pc |-> pc, test |-> "none", err |-> 0, gap |-> FALSE, tests |-> isTests]
  /\ isFlags = {} /\ isPos = [pcm |-> 0, ring |-> 0, dma |-> 0]
  /\ isMem = [ring |-> [k \in 0 .. isRing - 1 |-> 0], out |-> <<>>, buf |-> <<>>]
  /\ isDma = [tx |-> IsOff, rx |-> IsOff] /\ isFifo = [tx |-> <<>>, rx |-> <<>>, run |-> FALSE]
-----------------------------------------------------------------------------
(* The tests begin.                                                        *)
IsKey(test, pc, flags, pos, mem, dma, fifo) ==
  /\ isM.pc = "idle" /\ isM.tests > 0
  /\ isM' = [pc |-> pc, test |-> test, err |-> 0, gap |-> FALSE, tests |-> isM.tests - 1]
  /\ isFlags' = isFlags \ flags /\ isPos' = pos /\ isMem' = mem /\ isDma' = dma /\ isFifo' = fifo
IsZero == [pcm |-> 0, ring |-> 0, dma |-> 0]
IsSilent == [ring |-> isMem.ring, out |-> <<>>, buf |-> <<>>]
IsIdleFifo == [tx |-> <<>>, rx |-> <<>>, run |-> FALSE]
IsChannel(pages) == [on |-> TRUE, at |-> 0, pages |-> pages, int |-> FALSE]
IsRunning(prefill) == [tx |-> [k \in 1 .. prefill |-> IsSample(k - 1)], rx |-> <<>>, run |-> TRUE]
(* socle_i2s_access_ring_buffer: no distance is taken for all of the ring. *)
IsOffset(to) == IF to = isPos.ring THEN isRing ELSE (to - isPos.ring) % isRing
IsFilled == [k \in 0 .. isRing - 1 |-> IsSample(k)]
(* Mutant of IsFirst: the ring is filled only when its first period is out.*)
IsFirstEmpty(test) == IF test \in {"ring", "play dma"} THEN [ring |-> isMem.ring, pcm |-> 0] ELSE [ring |-> IsFilled, pcm |-> isRing]
IsFirst(test) == [ring |-> IsFilled, pcm |-> isRing]
IsPrimed(test) == [IsSilent EXCEPT !.ring = IsFirst(test).ring]

socle_i2s_normal_internal_loopback ==
  IsKey("loop", "wait", {"tx", "rx"}, [IsZero EXCEPT !.pcm = isDepth], IsSilent, isDma, IsRunning(isDepth))
socle_i2s_hwdma_panther7_hdma_direct ==
  IsKey("direct", "wait", {"tx", "rx"}, isPos, IsSilent, [tx |-> IsChannel(isSize), rx |-> IsChannel(isSize)], IsIdleFifo)
socle_i2s_hwdma_panther7_hdma_ring_buffer ==
  IsKey("ring", "run", {"tx", "rx", "period"}, [IsZero EXCEPT !.pcm = IsFirst("ring").pcm], IsPrimed("ring"),
        [tx |-> IsChannel(isRing), rx |-> IsChannel(isSize)], IsIdleFifo)
socle_i2s_play_pcm_normal == IsKey("play", "wait", {"tx"}, IsZero, IsSilent, isDma, IsRunning(0))
socle_i2s_capture_pcm_normal == IsKey("capture", "wait", {"rx"}, IsZero, IsSilent, isDma, IsRunning(0))
socle_i2s_play_pcm_hwdma_panther7_hdma ==
  IsKey("play dma", "run", {"tx", "tx int", "period"}, [IsZero EXCEPT !.pcm = IsFirst("play dma").pcm], IsPrimed("play dma"),
        [isDma EXCEPT !.tx = IsChannel(isRing)], IsIdleFifo)
socle_i2s_capture_pcm_hwdma_panther7_hdma ==
  IsKey("capture dma", "run", {"rx", "rx int", "period"}, IsZero, IsSilent, [isDma EXCEPT !.rx = IsChannel(isRing)], IsIdleFifo)
socle_audio_codec_function_test ==
  IsKey("function", "run", {"tx"}, [IsZero EXCEPT !.pcm = IsFirst("function").pcm], IsPrimed("function"),
        [isDma EXCEPT !.tx = IsChannel(isRing)], IsIdleFifo)
-----------------------------------------------------------------------------
(* The main program.                                                       *)
IsDir == IF isM.test = "capture dma" THEN "rx" ELSE "tx"
IsInt(dir) == IF dir = "rx" THEN "rx int" ELSE "tx int"
IsGoes(pc) == isM' = [isM EXCEPT !.pc = pc]
(* The flag is cleared, and only then the place of the handler is read.    *)
IsSeesPeriod ==
  /\ isM.pc = "run" /\ isM.test # "function" /\ isPos.pcm < isSize /\ "period" \in isFlags
  /\ isFlags' = isFlags \ {"period"} /\ IsGoes("gap") /\ UNCHANGED <<isPos, isMem, isDma, isFifo>>
socle_i2s_access_ring_buffer ==
  /\ isM.pc = "gap" /\ IsGoes("run") /\ UNCHANGED <<isFlags, isDma, isFifo>>
  /\ LET n == IsOffset(isPos.dma)
         place(j) == (isPos.ring + j) % isRing
     IN /\ isPos' = [isPos EXCEPT !.ring = (@ + n) % isRing, !.pcm = @ + n]
        /\ isMem' = IF isM.test = "capture dma"
                    THEN [isMem EXCEPT !.buf = @ \o [j \in 1 .. n |-> isMem.ring[place(j - 1)]]]
                    ELSE [isMem EXCEPT !.ring = [k \in DOMAIN @ |-> IF \E j \in 0 .. n - 1 : place(j) = k
                            THEN IsSample(isPos.pcm + (CHOOSE j \in 0 .. n - 1 : place(j) = k)) ELSE @[k]]]
IsCopied ==
  /\ isM.pc = "run" /\ isPos.pcm >= isSize /\ UNCHANGED <<isPos, isMem, isDma, isFifo>>
  /\ IF isM.test = "ring" THEN IsGoes("wait") /\ UNCHANGED isFlags
     ELSE IsGoes("drain") /\ isFlags' = isFlags \cup {IsDir}
IsDrained ==
  /\ isM.pc = "drain" /\ IsInt(IsDir) \in isFlags /\ IsGoes("end")
  /\ isDma' = [isDma EXCEPT ![IsDir] = IsOff] /\ UNCHANGED <<isFlags, isPos, isMem, isFifo>>
(* What comes before the first byte that is not 0 is left out, and as much *)
(* at the end.                                                             *)
socle_i2s_compare_memory ==
  LET zeros == CHOOSE z \in 0 .. isSize : (\A k \in 1 .. z : isMem.buf[k] = 0) /\ (z = isSize \/ isMem.buf[z + 1] # 0)
  IN IF \E k \in zeros + 1 .. isSize - zeros : isMem.buf[k] # k THEN -1 ELSE 0
IsWaited ==
  /\ isM.pc = "wait" /\ (IF isM.test = "play" THEN "tx" ELSE "rx") \in isFlags
  /\ isDma' = [tx |-> IsOff, rx |-> IsOff] /\ isFifo' = [isFifo EXCEPT !.run = FALSE]
  /\ isM' = [isM EXCEPT !.pc = "end", !.err = IF "overrun" \in isFlags THEN -1
               ELSE IF isM.test \in {"loop", "direct", "ring"} THEN socle_i2s_compare_memory ELSE 0]
  /\ isFlags' = isFlags \ {"overrun"} /\ UNCHANGED <<isPos, isMem>>
IsBackInMenu == isM.pc = "end" /\ IsGoes("idle") /\ UNCHANGED <<isFlags, isPos, isMem, isDma, isFifo>>
-----------------------------------------------------------------------------
(* The handlers, with the FIFOs ...                                        *)
IsHalf == isDepth \div 2
IsHandles(pos, mem, fifo, flags) ==
  isPos' = pos /\ isMem' = mem /\ isFifo' = fifo /\ isFlags' = flags /\ UNCHANGED <<isM, isDma>>
IsSamples(from, n) == [j \in 1 .. n |-> IsSample(from + j - 1)]
IsAtMost(a, b) == IF a < b THEN a ELSE b
(* A word is written before the FIFO is looked at: it has room for it.     *)
socle_i2s_play_pcm_isr ==
  /\ isM.test = "play" /\ isFifo.run /\ Len(isFifo.tx) <= 1
  /\ LET n == IsAtMost(isSize - isPos.pcm, isDepth - Len(isFifo.tx))
         ends == Len(isFifo.tx) + n < isDepth
     IN IsHandles([isPos EXCEPT !.pcm = @ + n], isMem, [isFifo EXCEPT !.tx = @ \o IsSamples(isPos.pcm, n), !.run = ~ends],
                  IF ends THEN isFlags \cup {"tx"} ELSE isFlags)
(* The receiver: half of the FIFO, or as many words as are still to come.  *)
IsTaken(buf, fifo) ==
  LET n == IsAtMost(isSize - Len(buf), IsHalf)
  IN [buf |-> buf \o SubSeq(fifo.rx, 1, n), fifo |-> [fifo EXCEPT !.rx = SubSeq(@, n + 1, Len(@)), !.run = @ /\ n = IsHalf], all |-> n < IsHalf]
IsRxTrigger == Len(isFifo.rx) >= IsHalf
socle_i2s_capture_isr ==
  /\ isM.test = "capture" /\ isFifo.run /\ IsRxTrigger
  /\ LET t == IsTaken(isMem.buf, isFifo)
     IN IsHandles(isPos, [isMem EXCEPT !.buf = t.buf], t.fifo, IF t.all THEN isFlags \cup {"rx"} ELSE isFlags)
socle_i2s_loopback_isr ==
  /\ isM.test = "loop" /\ isFifo.run /\ (Len(isFifo.tx) <= 1 \/ IsRxTrigger)
  /\ LET sends == Len(isFifo.tx) <= 1
         n == IF sends THEN IsAtMost(isSize - isPos.pcm, IsHalf) ELSE 0
         allOut == sends /\ n < IsHalf
         allIn == allOut /\ Len(isMem.buf) = isSize
         sent == [isFifo EXCEPT !.tx = @ \o IsSamples(isPos.pcm, n), !.run = ~allIn]
         t == IF IsRxTrigger THEN IsTaken(isMem.buf, sent) ELSE [buf |-> isMem.buf, fifo |-> sent, all |-> FALSE]
     IN IsHandles([isPos EXCEPT !.pcm = @ + n], [isMem EXCEPT !.buf = t.buf], t.fifo,
                  isFlags \cup (IF allOut THEN {"tx"} ELSE {}) \cup (IF allIn \/ t.all THEN {"rx"} ELSE {}))
(* A word goes over the wire; one that finds the FIFO full is lost, which  *)
(* ends the test.                                                          *)
IsWord ==
  /\ isFifo.run /\ (isM.test # "capture" => isFifo.tx # <<>>)
  /\ LET word == IF isM.test = "capture" THEN isPos.pcm + 1 ELSE Head(isFifo.tx)
         sent == IF isM.test = "capture" THEN isFifo ELSE [isFifo EXCEPT !.tx = Tail(@)]
         pos == IF isM.test = "capture" THEN [isPos EXCEPT !.pcm = @ + 1] ELSE isPos
     IN CASE isM.test = "play" -> IsHandles(pos, [isMem EXCEPT !.out = Append(@, word)], sent, isFlags)
          [] isM.test # "play" /\ Len(isFifo.rx) < isDepth -> IsHandles(pos, isMem, [sent EXCEPT !.rx = Append(@, word)], isFlags)
          [] OTHER -> IsHandles(pos, isMem, [sent EXCEPT !.rx = <<>>, !.run = FALSE], isFlags \cup {"rx", "overrun"})
-----------------------------------------------------------------------------
(* ... and with DMA: each period that is done gives a further page.        *)
IsDone(dir, again) == isDma' = [isDma EXCEPT ![dir].int = FALSE, ![dir].pages = IF again THEN @ + 1 ELSE @]
IsComplete(dir) ==
  /\ isDma[dir].int /\ UNCHANGED <<isMem, isFifo>>
  /\ IF dir \in isFlags THEN isFlags' = isFlags \cup {IsInt(dir)} /\ IsDone(dir, FALSE) /\ UNCHANGED <<isM, isPos>>
     ELSE /\ isPos' = [isPos EXCEPT !.dma = (@ + 1) % isRing]
          /\ isFlags' = isFlags \cup {"period"} /\ IsDone(dir, TRUE)
          /\ isM' = [isM EXCEPT !.gap = @ \/ isM.pc = "gap"]
socle_i2s_tx_dma_play_complete == isM.test # "function" /\ IsComplete("tx")
socle_i2s_rx_dma_capture_complete == isM.test = "capture dma" /\ IsComplete("rx")
(* The loop-back has no routine for a period received, but for the last.   *)
socle_i2s_rx_dma_page_interrupt ==
  /\ isM.test \in {"direct", "ring"} /\ isDma.rx.int /\ IsDone("rx", FALSE)
  /\ isFlags' = IF isDma.rx.pages = 0 THEN isFlags \cup {"rx"} ELSE isFlags
  /\ UNCHANGED <<isM, isPos, isMem, isFifo>>
socle_i2s_tx_dma_play_fun_complete ==
  /\ isM.test = "function" /\ isDma.tx.int /\ UNCHANGED <<isM, isFifo>>
  /\ IF "tx" \in isFlags THEN isFlags' = isFlags \cup {"tx int"} /\ IsDone("tx", FALSE) /\ UNCHANGED <<isPos, isMem>>
     ELSE /\ isMem' = [isMem EXCEPT !.ring[isPos.pcm % isRing] = IsSample(isPos.pcm)]
          /\ isPos' = [isPos EXCEPT !.pcm = @ + 1] /\ IsDone("tx", TRUE) /\ UNCHANGED isFlags

(* A period of the DMA.  Copying takes the main program less than a ring;  *)
(* what it has only to notice it notices within a period.                  *)
IsInTime == isM.pc \in {"run", "gap"} => (isPos.dma - isPos.ring) % isRing < isRing - 1
IsUnnoticed == (isM.pc = "run" /\ isPos.pcm >= isSize) \/ (isM.pc = "drain" /\ IsInt(IsDir) \in isFlags)
IsMoves(c, size) == [on |-> TRUE, at |-> (c.at + 1) % size, pages |-> c.pages - 1, int |-> TRUE]
IsRuns(dir) == IsInTime /\ ~IsUnnoticed /\ isDma[dir].on /\ isDma[dir].pages > 0 /\ ~isDma[dir].int
IsTxPeriod ==
  /\ IsRuns("tx") /\ UNCHANGED <<isM, isFlags, isPos, isFifo>>
  /\ (isM.test \in {"direct", "ring"} => Len(isMem.out) <= Len(isMem.buf))
  /\ isDma' = [isDma EXCEPT !.tx = IsMoves(@, IF isM.test = "direct" THEN isSize ELSE isRing)]
  /\ isMem' = [isMem EXCEPT !.out = Append(@, IF isM.test = "direct" THEN IsSample(isDma.tx.at) ELSE isMem.ring[isDma.tx.at])]
IsRxPeriod ==
  /\ IsRuns("rx") /\ UNCHANGED <<isM, isFlags, isFifo>>
  /\ IF isM.test = "capture dma"
     THEN /\ isDma' = [isDma EXCEPT !.rx = IsMoves(@, isRing)]
          /\ isMem' = [isMem EXCEPT !.ring[isDma.rx.at] = Len(isMem.out) + 1, !.out = Append(@, 0)] /\ UNCHANGED isPos
     ELSE /\ Len(isMem.out) > Len(isMem.buf) /\ UNCHANGED isPos
          /\ isDma' = [isDma EXCEPT !.rx = IsMoves(@, isSize)]
          /\ isMem' = [isMem EXCEPT !.buf = Append(@, isMem.out[Len(@) + 1])]

IsStep == \/ socle_i2s_normal_internal_loopback \/ socle_i2s_hwdma_panther7_hdma_direct \/ socle_i2s_hwdma_panther7_hdma_ring_buffer
          \/ socle_i2s_play_pcm_normal \/ socle_i2s_capture_pcm_normal \/ socle_audio_codec_function_test
          \/ socle_i2s_play_pcm_hwdma_panther7_hdma \/ socle_i2s_capture_pcm_hwdma_panther7_hdma
          \/ IsSeesPeriod \/ socle_i2s_access_ring_buffer \/ IsCopied \/ IsDrained \/ IsWaited \/ IsBackInMenu
          \/ socle_i2s_play_pcm_isr \/ socle_i2s_capture_isr \/ socle_i2s_loopback_isr \/ IsWord
          \/ socle_i2s_tx_dma_play_complete \/ socle_i2s_rx_dma_capture_complete
          \/ socle_i2s_rx_dma_page_interrupt \/ socle_i2s_tx_dma_play_fun_complete \/ IsTxPeriod \/ IsRxPeriod
IsSpec == IsStart("idle") /\ [][IsStep]_isVars
-----------------------------------------------------------------------------
(* What is played is the recording in its order, all of it but for what is *)
(* still in the ring or the FIFO when the program stops, and what is       *)
(* recorded is what has come in; unless an interrupt has come between the  *)
(* clearing of the flag and the reading of the place, after which a ring   *)
(* is copied for nothing.  A loop-back that passes has what was sent.  And *)
(* the loops without a time-out wait for a DMA that runs.                  *)
IsOrdered(s) == \A k \in DOMAIN s : s[k] = k
I2sRight ==
  /\ (isM.pc = "end" /\ ~isM.gap =>
        CASE isM.test \in {"play dma", "function"} -> IsOrdered(isMem.out) /\ Len(isMem.out) \in isSize - isRing .. isSize
          [] isM.test = "play" -> IsOrdered(isMem.out) /\ Len(isMem.out) \in isSize - isDepth + 1 .. isSize
          [] isM.test = "capture dma" -> IsOrdered(isMem.buf) /\ Len(isMem.buf) >= isSize
          [] OTHER -> isM.err = 0 => IsOrdered(isMem.buf) /\ Len(isMem.buf) = isSize)
  /\ (isM.pc \in {"run", "drain"} /\ isFlags \cap {"period", IsInt(IsDir)} = {} /\ isPos.pcm < isSize =>
        isDma[IsDir].int \/ isDma[IsDir].pages > 0)
=============================================================================
