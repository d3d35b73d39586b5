------------------------- MODULE SerialBench_proofs -------------------------
(***************************************************************************)
(* The frames of the Ethernet loop-back come back in order, for rings of   *)
(* any size: each part under way, in the receive ring, in the air or in    *)
(* the transmit ring, comes after the one before it.  The blocks of the    *)
(* USB loop-back come back in order, from a buffer of any size, to a host  *)
(* that ends what it began.                                                *)
(***************************************************************************)
EXTENDS SerialBench, SequenceTheorems, TLAPS

-----------------------------------------------------------------------------
(* Rings.                                                                  *)
-----------------------------------------------------------------------------
\* Descriptors go round a ring of n; RingFrom counts them from h on.
RingBefore(d, n) == IF d = 0 THEN n - 1 ELSE d - 1
RingAfter(d, n) == IF d = n - 1 THEN 0 ELSE d + 1
RingFrom(h, d, n) == IF d >= h THEN d - h ELSE d - h + n

LEMMA RingIndex ==
  ASSUME NEW n \in Nat \ {0}, NEW d \in 0 .. n - 1 PROVE (d + 1) % n = RingAfter(d, n)
<1>1. CASE d = n - 1
  <2>1. n % n = 0  OBVIOUS
  <2>. QED  BY <1>1, <2>1 DEF RingAfter
<1>2. CASE d # n - 1
  <2>1. \A k \in 0 .. n - 1 : k % n = k  OBVIOUS
  <2>. QED  BY <1>2, <2>1 DEF RingAfter
<1>. QED  BY <1>1, <1>2

-----------------------------------------------------------------------------
(* The Ethernet loop-back.                                                 *)
-----------------------------------------------------------------------------
\* What has to come after a part, and after the parts that were handed over.
MacFits(part, want) == part.id = want.id /\ part.first = want.first
MacNext(part) == IF part.last THEN [id |-> part.id + 1, first |-> TRUE] ELSE [id |-> part.id, first |-> FALSE]

MacLive == macCsr.rs # "stopped"
\* Descriptor 1 is kept from the MAC until the program gives it away.
MacKept ==
  /\ macSend.held
  /\ macPc \in {"filter", "setup", "delay"} \/ (macPc = "send" /\ macSend.id = 0) \/ (macPc = "fill" /\ macSend.id = 1)
MacFull(d) == ~macRx[d].own /\ ~(MacKept /\ d = 1)
\* Where the descriptors begin that are filled and not given away.
MacGiven ==
  IF macPc # "fill" \/ macSend.filled = {} THEN macDrv.tx
  ELSE IF RingBefore(RingBefore(macDrv.tx, macTds), macTds) \in macSend.filled THEN RingBefore(RingBefore(macDrv.tx, macTds), macTds)
  ELSE RingBefore(macDrv.tx, macTds)

\* What has to enter the receive ring, the air, the transmit ring next.
WantPool == [id |-> Len(macPool) + 1, first |-> macDrv.wantFirst]
WantRx == IF MacFull(macDrv.rx) THEN MacNext(macRx[RingBefore(macHw.rx, macRds)].part) ELSE WantPool
WantAir == IF macAir = <<>> THEN WantRx ELSE MacNext(macAir[Len(macAir)])
WantTx == IF macTx[macHw.tx].own THEN MacNext(macTx[RingBefore(MacGiven, macTds)].part) ELSE WantAir

MacPart == [id : Nat, first : BOOLEAN, last : BOOLEAN]
MacDescriptor == [own : BOOLEAN, part : MacPart]
MacSendType == [id : Nat, left : 0 .. 2, filled : SUBSET Tds, held : BOOLEAN]
MacDrvType == [rx : Rds, tx : Tds, di : Tds, rxS : BOOLEAN, txS : BOOLEAN, dead : BOOLEAN, wantFirst : BOOLEAN]
MacCsrType == [stat : SUBSET {"RI", "RU", "TI", "TU"}, mask : BOOLEAN,
               rs : {"stopped", "running", "suspended"}, ts : {"running", "suspended"}]
MacTyped ==
  /\ macPc \in {"off", "idle", "filter", "setup", "send", "fill", "delay", "poll", "recv", "empty", "pollTx"}
  /\ macSend \in MacSendType
  /\ macTx \in [Tds -> MacDescriptor] /\ macRx \in [Rds -> MacDescriptor]
  /\ macDrv \in MacDrvType /\ macCsr \in MacCsrType
  /\ macHw \in [rx : Rds, tx : Tds] /\ macAir \in Seq(MacPart) /\ macPool \in Seq(Nat)

\* Until the receiver starts nothing is under way but the setup frame.
MacSetUp ==
  /\ IF MacLive THEN macPc \notin {"off", "filter", "setup"} ELSE macPc \in {"off", "idle", "filter", "setup"}
  /\ ~MacLive =>
       /\ macAir = <<>> /\ macPool = <<>> /\ macSend.id = 0
       /\ macPc \in {"filter", "setup"} =>
            /\ macDrv.rx = 0 /\ macDrv.wantFirst /\ macHw.rx = 0
            /\ \A d \in Rds : macRx[d].own = ~(macSend.held /\ d = 1)
       /\ macPc # "setup" => \A d \in Tds : ~macTx[d].own
       /\ macPc = "filter" => macHw.tx = 0
       /\ macPc = "setup" =>
            /\ macHw.tx \in 0 .. 2 /\ macDrv.tx = 2
            /\ \A d \in Tds : macTx[d].own <=> macHw.tx <= d /\ d < 2
            /\ macTx[0].part = NoPart /\ macTx[1].part = NoPart
MacKeeps ==
  /\ macPc \in {"delay", "poll", "recv", "empty", "pollTx"} => macSend.id > 0
  /\ macPc = "delay" => macSend.held
  /\ MacKept => macDrv.rx = 0 /\ macHw.rx \in {0, 1} /\ (macRx[0].own <=> macHw.rx = 0) /\ ~macRx[1].own

\* The descriptors of the frame being filled.
MacFilled(d, first, last) ==
  ~macTx[d].own /\ macTx[d].part.id = macSend.id /\ macTx[d].part.first = first /\ macTx[d].part.last = last
MacFilling == macPc = "fill" =>
  LET one == RingBefore(macDrv.tx, macTds)
      two == RingBefore(one, macTds)
  IN /\ macSend.id > 0
     /\ \/ macSend.filled = {} /\ macSend.left > 0
        \/ macSend.filled = {one} /\ macSend.left < 2 /\ MacFilled(one, TRUE, macSend.left = 0)
        \/ macSend.filled = {one, two} /\ macSend.left = 0 /\ MacFilled(two, TRUE, FALSE) /\ MacFilled(one, FALSE, TRUE)

\* The MAC owns the transmit descriptors from its own place to the given end;
\* those of the receive ring from the driver's place to the MAC's are full.
MacTxRing == MacLive =>
  /\ \A d \in Tds : macTx[d].own <=>
       macTx[macHw.tx].own /\ (MacGiven = macHw.tx \/ RingFrom(macHw.tx, d, macTds) < RingFrom(macHw.tx, MacGiven, macTds))
  /\ ~macTx[macHw.tx].own => MacGiven = macHw.tx
MacRxRing == MacLive =>
  /\ \A d \in Rds : MacFull(d) <=>
       MacFull(macDrv.rx) /\ (macHw.rx = macDrv.rx \/ RingFrom(macDrv.rx, d, macRds) < RingFrom(macDrv.rx, macHw.rx, macRds))
  /\ ~MacFull(macDrv.rx) => macHw.rx = macDrv.rx

\* Each part under way comes after the one before it, and the next one that
\* the program sends after them all.
MacRxChain == MacLive => \A d \in Rds : MacFull(d) =>
  MacFits(macRx[d].part, IF d = macDrv.rx THEN WantPool ELSE MacNext(macRx[RingBefore(d, macRds)].part))
MacAirChain == MacLive => \A i \in 1 .. Len(macAir) :
  MacFits(macAir[i], IF i = 1 THEN WantRx ELSE MacNext(macAir[i - 1]))
MacTxChain == MacLive => \A d \in Tds : macTx[d].own =>
  /\ macTx[d].part.id > 0
  /\ MacFits(macTx[d].part, IF d = macHw.tx THEN WantAir ELSE MacNext(macTx[RingBefore(d, macTds)].part))
MacSendsNext == MacLive => WantTx.first /\ WantTx.id = IF macPc = "fill" THEN macSend.id ELSE macSend.id + 1

MacShape == MacTyped /\ MacSetUp /\ MacKeeps /\ MacFilling /\ MacTxRing /\ MacRxRing
MacChain == MacRxChain /\ MacAirChain /\ MacTxChain /\ MacSendsNext
MacInv == MacShape /\ MacChain /\ MacInOrder

\* What the receiver has stored is noticed: a flag or a cause says so.
MacWaiting ==
  /\ MacLive /\ MacFull(macDrv.rx)
  /\ macRx[RingBefore(macHw.rx, macRds)].part.last \/ macCsr.rs = "suspended"
MacNoted == macDrv.rxS \/ macCsr.stat \cap {"RI", "RU"} # {}
MacNotice ==
  /\ MacLive => macCsr.mask
  /\ macCsr.ts = "suspended" => ~macTx[macHw.tx].own
  /\ macPc = "empty" => macRx[macDrv.rx].own
  /\ MacWaiting => MacNoted

USE MacAssumption DEF Tds, Rds

LEMMA MacIndex == /\ \A d \in Tds : SMAC_TD_INDEX_NEXT(d) = RingAfter(d, macTds)
                  /\ \A d \in Rds : SMAC_RD_INDEX_NEXT(d) = RingAfter(d, macRds)
<1>. macTds \in Nat \ {0} /\ macRds \in Nat \ {0}  OBVIOUS
<1>. QED  BY RingIndex DEF SMAC_TD_INDEX_NEXT, SMAC_RD_INDEX_NEXT

LEMMA TdRing ==
  \A d \in Tds :
    /\ RingAfter(d, macTds) \in Tds /\ RingBefore(d, macTds) \in Tds
    /\ RingAfter(d, macTds) # d /\ RingBefore(d, macTds) # d
    /\ RingBefore(RingAfter(d, macTds), macTds) = d /\ RingAfter(RingBefore(d, macTds), macTds) = d
    /\ RingBefore(RingBefore(d, macTds), macTds) # d
BY DEF RingAfter, RingBefore
LEMMA RdRing ==
  \A d \in Rds :
    /\ RingAfter(d, macRds) \in Rds /\ RingBefore(d, macRds) \in Rds
    /\ RingAfter(d, macRds) # d /\ RingBefore(d, macRds) # d
    /\ RingBefore(RingAfter(d, macRds), macRds) = d /\ RingAfter(RingBefore(d, macRds), macRds) = d
BY DEF RingAfter, RingBefore
LEMMA TdCount ==
  \A h, d \in Tds :
    /\ RingFrom(h, d, macTds) \in 0 .. macTds - 1
    /\ RingFrom(h, d, macTds) = 0 <=> d = h
    /\ d # h => RingFrom(RingAfter(h, macTds), d, macTds) = RingFrom(h, d, macTds) - 1
    /\ RingFrom(RingAfter(h, macTds), h, macTds) = macTds - 1
    /\ d # h => RingFrom(h, RingBefore(d, macTds), macTds) = RingFrom(h, d, macTds) - 1
    /\ RingFrom(h, RingBefore(h, macTds), macTds) = macTds - 1
    /\ \A e \in Tds : RingFrom(h, e, macTds) = RingFrom(h, d, macTds) => e = d
BY DEF RingAfter, RingFrom, RingBefore
LEMMA RdCount ==
  \A h, d \in Rds :
    /\ RingFrom(h, d, macRds) \in 0 .. macRds - 1
    /\ RingFrom(h, d, macRds) = 0 <=> d = h
    /\ d # h => RingFrom(RingAfter(h, macRds), d, macRds) = RingFrom(h, d, macRds) - 1
    /\ RingFrom(RingAfter(h, macRds), h, macRds) = macRds - 1
    /\ d # h => RingFrom(h, RingBefore(d, macRds), macRds) = RingFrom(h, d, macRds) - 1
    /\ RingFrom(h, RingBefore(h, macRds), macRds) = macRds - 1
    /\ \A e \in Rds : RingFrom(h, e, macRds) = RingFrom(h, d, macRds) => e = d
BY DEF RingAfter, RingFrom, RingBefore

LEMMA TdDistance == \A h, d \in Tds : (d - h) % macTds = RingFrom(h, d, macTds)
<1>. SUFFICES ASSUME NEW h \in Tds, NEW d \in Tds PROVE (d - h) % macTds = RingFrom(h, d, macTds)  OBVIOUS
<1>1. CASE d >= h
  <2>1. d - h \in 0 .. macTds - 1  BY <1>1
  <2>2. \A k \in 0 .. macTds - 1 : k % macTds = k  OBVIOUS
  <2>. QED  BY <1>1, <2>1, <2>2 DEF RingFrom
<1>2. CASE d < h
  <2>. DEFINE k == d - h + macTds
  <2>1. k \in 0 .. macTds - 1  BY <1>2
  <2>2. \A j \in 0 .. macTds - 1 : (j - macTds) % macTds = j  OBVIOUS
  <2>3. k - macTds = d - h /\ RingFrom(h, d, macTds) = k  BY <1>2 DEF RingFrom
  <2>. HIDE DEF k
  <2>. QED  BY <2>1, <2>2, <2>3
<1>. QED  BY <1>1, <1>2

\* sMacTxRingClean finds a place: the first owned descriptor, or the driver's.
LEMMA MacDisposes == ASSUME MacShape, MacLive PROVE Disposed \in Tds
<1>. DEFINE di == macDrv.di
            n(d) == RingFrom(di, d, macTds)
            Reached(d) == d = macDrv.tx \/ macTx[d].own
            First(d) == Reached(d) /\ \A e \in Tds : n(e) < n(d) => ~Reached(e)
<1>1. di \in Tds /\ macDrv.tx \in Tds /\ macHw.tx \in Tds  BY DEF MacShape, MacTyped, MacDrvType
<1>2. \A d \in Tds : n(d) \in 0 .. macTds - 1 /\ (n(d) = 0 <=> d = di)  BY <1>1, TdCount
<1>3. MacGiven \in Tds  BY <1>1, TdRing DEF MacGiven
<1>4. ASSUME ~Reached(di), macTx[macHw.tx].own, NEW d \in Tds, macTx[d].own PROVE n(macHw.tx) <= n(d)
  <2>1. ~(MacGiven = macHw.tx)  BY <1>1, <1>4 DEF MacShape, MacTxRing
  <2>2. /\ RingFrom(macHw.tx, d, macTds) < RingFrom(macHw.tx, MacGiven, macTds)
        /\ ~(RingFrom(macHw.tx, di, macTds) < RingFrom(macHw.tx, MacGiven, macTds))
    BY <1>1, <1>4, <2>1 DEF MacShape, MacTxRing
  <2>. QED  BY <1>1, <1>3, <2>2 DEF RingFrom
<1>5. \E d \in Tds : First(d)
  <2>1. CASE Reached(di)  BY <1>1, <1>2, <2>1
  <2>2. CASE ~Reached(di) /\ macTx[macHw.tx].own /\ n(macHw.tx) < n(macDrv.tx)
    <3>. HIDE DEF n
    <3>. QED  BY <1>1, <1>2, <1>4, <2>2
  <2>3. CASE ~Reached(di) /\ macTx[macHw.tx].own /\ ~(n(macHw.tx) < n(macDrv.tx))
    <3>. HIDE DEF n
    <3>. QED  BY <1>1, <1>2, <1>4, <2>3
  <2>4. CASE ~Reached(di) /\ ~macTx[macHw.tx].own
    <3>1. \A d \in Tds : ~macTx[d].own  BY <1>1, <2>4 DEF MacShape, MacTxRing
    <3>. QED  BY <1>1, <1>2, <2>4, <3>1
  <2>. QED  BY <2>1, <2>2, <2>3, <2>4
<1>6. \A d \in Tds : n(d) = (d - macDrv.di) % macTds  BY <1>1, TdDistance
<1>. HIDE DEF n
<1>7. \E d \in Tds :
        /\ d = macDrv.tx \/ macTx[d].own
        /\ \A e \in Tds : (e - macDrv.di) % macTds < (d - macDrv.di) % macTds => ~macTx[e].own /\ e # macDrv.tx
  BY <1>5, <1>6
<1>. QED  BY <1>7 DEF Disposed

-----------------------------------------------------------------------------
(* The places of the program and the rings.                                *)
-----------------------------------------------------------------------------
LEMMA MacLivePlaces == ASSUME MacShape, macPc \notin {"off", "idle", "filter", "setup"} PROVE MacLive
BY DEF MacShape, MacSetUp

LEMMA MacFields ==
  /\ \A w \in MacDrvType : \A r \in Rds, k \in Tds, b \in BOOLEAN :
       /\ [w EXCEPT !.rx = r] \in MacDrvType /\ [w EXCEPT !.tx = k] \in MacDrvType /\ [w EXCEPT !.di = k] \in MacDrvType
       /\ [w EXCEPT !.rxS = b] \in MacDrvType /\ [w EXCEPT !.txS = b] \in MacDrvType
       /\ [w EXCEPT !.dead = b] \in MacDrvType /\ [w EXCEPT !.wantFirst = b] \in MacDrvType
  /\ \A w \in MacSendType : \A i \in Nat, n \in 0 .. 2, f \in SUBSET Tds :
       [w EXCEPT !.id = i] \in MacSendType /\ [w EXCEPT !.left = n] \in MacSendType /\ [w EXCEPT !.filled = f] \in MacSendType
  /\ \A w \in MacCsrType : \A x \in SUBSET {"RI", "RU", "TI", "TU"}, b \in BOOLEAN,
                              r \in {"stopped", "running", "suspended"}, u \in {"running", "suspended"} :
       /\ [w EXCEPT !.stat = x] \in MacCsrType /\ [w EXCEPT !.mask = b] \in MacCsrType
       /\ [w EXCEPT !.rs = r] \in MacCsrType /\ [w EXCEPT !.ts = u] \in MacCsrType
BY DEF MacDrvType, MacSendType, MacCsrType

LEMMA MacTypes ==
  ASSUME MacTyped
  PROVE  /\ macDrv.rx \in Rds /\ macDrv.tx \in Tds /\ macDrv.di \in Tds /\ macHw.rx \in Rds /\ macHw.tx \in Tds
         /\ macDrv.rxS \in BOOLEAN /\ macDrv.txS \in BOOLEAN /\ macDrv.dead \in BOOLEAN /\ macDrv.wantFirst \in BOOLEAN
         /\ macSend.id \in Nat /\ macSend.left \in 0 .. 2 /\ macSend.filled \in SUBSET Tds /\ macSend.held \in BOOLEAN
         /\ macCsr.stat \in SUBSET {"RI", "RU", "TI", "TU"} /\ macCsr.mask \in BOOLEAN
         /\ macCsr.rs \in {"stopped", "running", "suspended"} /\ macCsr.ts \in {"running", "suspended"}
         /\ \A d \in Tds : macTx[d].own \in BOOLEAN /\ macTx[d].part \in MacPart
         /\ \A d \in Rds : macRx[d].own \in BOOLEAN /\ macRx[d].part \in MacPart
         /\ SMAC_TD_INDEX_NEXT(macDrv.tx) \in Tds /\ SMAC_TD_INDEX_NEXT(macHw.tx) \in Tds
         /\ SMAC_RD_INDEX_NEXT(macDrv.rx) \in Rds /\ SMAC_RD_INDEX_NEXT(macHw.rx) \in Rds
<1>1. /\ macDrv.rx \in Rds /\ macDrv.tx \in Tds /\ macDrv.di \in Tds /\ macHw.rx \in Rds /\ macHw.tx \in Tds
      /\ macDrv.rxS \in BOOLEAN /\ macDrv.txS \in BOOLEAN /\ macDrv.dead \in BOOLEAN /\ macDrv.wantFirst \in BOOLEAN
  BY DEF MacTyped, MacDrvType
<1>2. /\ macSend.id \in Nat /\ macSend.left \in 0 .. 2 /\ macSend.filled \in SUBSET Tds /\ macSend.held \in BOOLEAN
  BY DEF MacTyped, MacSendType
<1>3. /\ macCsr.stat \in SUBSET {"RI", "RU", "TI", "TU"} /\ macCsr.mask \in BOOLEAN
      /\ macCsr.rs \in {"stopped", "running", "suspended"} /\ macCsr.ts \in {"running", "suspended"}
  BY DEF MacTyped, MacCsrType
<1>4. /\ \A d \in Tds : macTx[d].own \in BOOLEAN /\ macTx[d].part \in MacPart
      /\ \A d \in Rds : macRx[d].own \in BOOLEAN /\ macRx[d].part \in MacPart
  BY DEF MacTyped, MacDescriptor
<1>5. SMAC_TD_INDEX_NEXT(macDrv.tx) \in Tds /\ SMAC_TD_INDEX_NEXT(macHw.tx) \in Tds
  <2>1. \A d \in Tds : SMAC_TD_INDEX_NEXT(d) \in Tds  BY MacIndex, TdRing
  <2>. QED  BY <1>1, <2>1
<1>6. SMAC_RD_INDEX_NEXT(macDrv.rx) \in Rds /\ SMAC_RD_INDEX_NEXT(macHw.rx) \in Rds
  <2>1. \A d \in Rds : SMAC_RD_INDEX_NEXT(d) \in Rds  BY MacIndex, RdRing
  <2>. QED  BY <1>1, <2>1
<1>. QED  BY <1>1, <1>2, <1>3, <1>4, <1>5, <1>6

LEMMA MacTypedStep == ASSUME MacShape, MacStep PROVE MacTyped'
<1>. USE DEF MacMain
<1>0. MacTyped  BY DEF MacShape
<1>a. /\ macDrv \in MacDrvType /\ macSend \in MacSendType /\ macCsr \in MacCsrType /\ macHw \in [rx : Rds, tx : Tds]
      /\ macTx \in [Tds -> MacDescriptor] /\ macRx \in [Rds -> MacDescriptor]
      /\ macAir \in Seq(MacPart) /\ macPool \in Seq(Nat)
  BY <1>0 DEF MacTyped
<1>b. NoPart \in MacPart /\ Ours \in MacDescriptor /\ 0 \in Rds /\ 0 \in Tds
      /\ \A x \in MacPart : Macs(x) \in MacDescriptor /\ [own |-> FALSE, part |-> x] \in MacDescriptor
  BY DEF NoPart, Ours, Macs, MacPart, MacDescriptor
<1>1. CASE sMacInit
  <2>1. macDrv' \in MacDrvType  BY <1>a, <1>b, <1>1, MacFields DEF sMacInit
  <2>2. macSend' \in MacSendType  BY <1>1 DEF sMacInit, MacSendType
  <2>3. macCsr' \in MacCsrType  BY <1>1 DEF sMacInit, MacCsrType
  <2>4. macTx' \in [Tds -> MacDescriptor]  BY <1>b, <1>1 DEF sMacInit, Init_Tx_Des
  <2>5. macRx' \in [Rds -> MacDescriptor]  BY <1>b, <1>1 DEF sMacInit, Init_Rx_Des
  <2>. QED  BY <1>b, <1>1, <2>1, <2>2, <2>3, <2>4, <2>5 DEF MacTyped, sMacInit
<1>2. CASE sMacFltrFrmXmit
  <2>1. 2 \in Tds /\ 1 \in Tds  OBVIOUS
  <2>2. macDrv' \in MacDrvType  BY <1>a, <1>2, <2>1, MacFields DEF sMacFltrFrmXmit
  <2>3. macCsr' \in MacCsrType  BY <1>a, <1>2, MacFields DEF sMacFltrFrmXmit
  <2>4. macTx' \in [Tds -> MacDescriptor]  BY <1>a, <1>b, <1>2, <2>1 DEF sMacFltrFrmXmit
  <2>. QED  BY <1>a, <1>2, <2>2, <2>3, <2>4 DEF MacTyped, sMacFltrFrmXmit
<1>3. CASE FilterSet
  <2>1. macCsr' \in MacCsrType  BY <1>a, <1>3, MacFields DEF FilterSet
  <2>. QED  BY <1>a, <1>3, <2>1 DEF MacTyped, FilterSet
<1>4. CASE MacTestPrepareTx
  <2>1. macSend' \in MacSendType
    <3>1. PICK n \in 1 .. 2 : macSend' = [macSend EXCEPT !.id = @ + 1, !.left = n, !.filled = {}]
      BY <1>4 DEF MacTestPrepareTx
    <3>2. macSend.id + 1 \in Nat /\ n \in 0 .. 2 /\ {} \in SUBSET Tds  BY <1>0, MacTypes
    <3>. QED  BY <1>a, <3>1, <3>2, MacFields
  <2>. QED  BY <1>a, <1>4, <2>1 DEF MacTyped, MacTestPrepareTx
<1>5. CASE SendWaits
  <2>1. Disposed \in Tds  BY <1>5, MacDisposes, MacLivePlaces DEF SendWaits
  <2>2. macDrv' \in MacDrvType  BY <1>a, <1>5, <2>1, MacFields DEF SendWaits, sMacTxRingClean
  <2>. QED  BY <1>a, <1>5, <2>2 DEF MacTyped, SendWaits
<1>6. CASE SendFills
  <2>1. macDrv' \in MacDrvType  BY <1>0, <1>a, <1>6, MacFields, MacTypes DEF SendFills
  <2>2. macSend' \in MacSendType
    <3>1. macSend.left - 1 \in 0 .. 2 /\ macSend.filled \cup {macDrv.tx} \in SUBSET Tds  BY <1>0, <1>6, MacTypes DEF SendFills
    <3>. QED  BY <1>a, <1>6, <3>1, MacFields DEF SendFills
  <2>3. macTx' \in [Tds -> MacDescriptor]
    <3>. DEFINE part == [id |-> macSend.id, first |-> macSend.filled = {}, last |-> macSend.left = 1]
    <3>1. part \in MacPart  BY <1>0, MacTypes DEF MacPart
    <3>2. macTx' = [macTx EXCEPT ![macDrv.tx] = [own |-> FALSE, part |-> part]]  BY <1>6 DEF SendFills
    <3>. HIDE DEF part
    <3>. QED  BY <1>a, <1>b, <3>1, <3>2
  <2>. QED  BY <1>a, <1>6, <2>1, <2>2, <2>3 DEF MacTyped, SendFills
<1>7. CASE SendGives
  <2>1. macTx' \in [Tds -> MacDescriptor]
    <3>1. \A w \in MacDescriptor : [w EXCEPT !.own = TRUE] \in MacDescriptor  BY DEF MacDescriptor
    <3>. QED  BY <1>a, <1>7, <3>1 DEF SendGives
  <2>2. macCsr' \in MacCsrType  BY <1>a, <1>7, MacFields DEF SendGives
  <2>. QED  BY <1>a, <1>7, <2>1, <2>2 DEF MacTyped, SendGives
<1>8. CASE GiveOwner
  <2>1. macRx' \in [Rds -> MacDescriptor]  BY <1>a, <1>b, <1>8 DEF GiveOwner
  <2>. QED  BY <1>a, <1>8, <2>1 DEF MacTyped, GiveOwner
<1>9. CASE PollRx \/ RingEmpty \/ RxWaitTimeout
  BY <1>a, <1>9 DEF MacTyped, PollRx, RingEmpty, RxWaitTimeout
<1>10. CASE sMacRecv
  <2>. DEFINE part == macRx[macDrv.rx].part
  <2>1. part \in MacPart  BY <1>0, MacTypes
  <2>2. part.id \in Nat /\ part.last \in BOOLEAN  BY <2>1 DEF MacPart
  <2>3. macPool' \in Seq(Nat)
    <3>1. macPool' = macPool \/ macPool' = Append(macPool, part.id)  BY <1>10 DEF sMacRecv
    <3>. HIDE DEF part
    <3>2. Append(macPool, part.id) \in Seq(Nat)  BY <1>a, <2>2, AppendProperties
    <3>. QED  BY <1>a, <3>1, <3>2
  <2>4. macCsr' \in MacCsrType
    <3>1. [macCsr EXCEPT !.rs = "running"] \in MacCsrType  BY <1>a, MacFields
    <3>. QED  BY <1>a, <1>10, <3>1 DEF sMacRecv
  <2>5. macDrv' \in MacDrvType
    <3>. DEFINE first == IF Discarded(part) THEN macDrv.wantFirst ELSE part.last
                next == SMAC_RD_INDEX_NEXT(macDrv.rx)
    <3>1. first \in BOOLEAN /\ next \in Rds  BY <1>0, <2>2, MacTypes
    <3>2. macDrv' = [macDrv EXCEPT !.rx = next, !.dead = FALSE, !.wantFirst = first]  BY <1>10 DEF sMacRecv
    <3>. HIDE DEF first, next
    <3>. QED  BY <1>a, <3>1, <3>2, MacFields
  <2>6. macRx' \in [Rds -> MacDescriptor]  BY <1>a, <1>b, <1>10 DEF sMacRecv
  <2>. QED  BY <1>a, <1>10, <2>3, <2>4, <2>5, <2>6 DEF MacTyped, sMacRecv
<1>11. CASE sMacRxSchedule
  <2>1. macDrv' \in MacDrvType  BY <1>a, <1>11, MacFields DEF sMacRxSchedule
  <2>. QED  BY <1>a, <1>11, <2>1 DEF MacTyped, sMacRxSchedule
<1>12. CASE MacTestPolling
  <2>1. Disposed \in Tds  BY <1>12, MacDisposes, MacLivePlaces DEF MacTestPolling
  <2>2. [macDrv EXCEPT !.di = Disposed, !.txS = FALSE] \in MacDrvType  BY <1>a, <2>1, MacFields
  <2>3. macDrv' \in MacDrvType  BY <1>a, <1>12, <2>2 DEF MacTestPolling
  <2>. QED  BY <1>a, <1>12, <2>3 DEF MacTyped, MacTestPolling
<1>13. CASE sMacInt
  <2>1. \A x, y, z \in BOOLEAN : [macDrv EXCEPT !.dead = x, !.rxS = y, !.txS = z] \in MacDrvType
    BY <1>a DEF MacDrvType
  <2>2. /\ IntDead(macCsr.stat) \in BOOLEAN /\ (macDrv.rxS \/ IntRx(macCsr.stat)) \in BOOLEAN
        /\ (macDrv.txS \/ macCsr.stat \cap {"TI", "TU"} # {}) \in BOOLEAN
    BY DEF IntDead, IntRx
  <2>3. macDrv' \in MacDrvType  BY <1>13, <2>1, <2>2 DEF sMacInt
  <2>4. macCsr' \in MacCsrType  BY <1>a, <1>13, MacFields DEF sMacInt
  <2>5. UNCHANGED <<macPc, macSend, macTx, macRx, macHw, macAir, macPool>>  BY <1>13 DEF sMacInt
  <2>. QED  BY <1>0, <2>3, <2>4, <2>5 DEF MacTyped
<1>14. CASE MacTransmits
  <2>1. macTx[macHw.tx] \in MacDescriptor /\ macTx[macHw.tx].part \in MacPart  BY <1>0, <1>a, MacTypes
  <2>2. macAir' \in Seq(MacPart)
    <3>1. macAir' = macAir \/ macAir' = Append(macAir, macTx[macHw.tx].part)  BY <1>14 DEF MacTransmits
    <3>2. Append(macAir, macTx[macHw.tx].part) \in Seq(MacPart)  BY <1>a, <2>1, AppendProperties
    <3>. QED  BY <1>a, <3>1, <3>2
  <2>3. macCsr' \in MacCsrType
    <3>1. /\ macCsr.stat \cup {"TI"} \in SUBSET {"RI", "RU", "TI", "TU"}
          /\ macCsr.stat \cup {"TU"} \in SUBSET {"RI", "RU", "TI", "TU"}
      BY <1>0, MacTypes
    <3>2. [macCsr EXCEPT !.stat = @ \cup {"TI"}] \in MacCsrType  BY <1>a, <3>1, MacFields
    <3>3. [macCsr EXCEPT !.ts = "suspended", !.stat = @ \cup {"TU"}] \in MacCsrType
      <4>1. [macCsr EXCEPT !.ts = "suspended"] \in MacCsrType  BY <1>a, MacFields
      <4>2. [macCsr EXCEPT !.ts = "suspended"].stat = macCsr.stat  BY <1>a DEF MacCsrType
      <4>. QED  BY <3>1, <4>1, <4>2, MacFields
    <3>. QED  BY <1>a, <1>14, <3>2, <3>3 DEF MacTransmits
  <2>4. macTx' \in [Tds -> MacDescriptor]
    <3>1. [macTx[macHw.tx] EXCEPT !.own = FALSE] \in MacDescriptor  BY <2>1 DEF MacDescriptor
    <3>2. macTx' = macTx \/ macTx' = [macTx EXCEPT ![macHw.tx] = [macTx[macHw.tx] EXCEPT !.own = FALSE]]
      BY <1>14 DEF MacTransmits
    <3>. QED  BY <1>a, <3>1, <3>2
  <2>5. macHw' \in [rx : Rds, tx : Tds]
    <3>1. SMAC_TD_INDEX_NEXT(macHw.tx) \in Tds  BY <1>0, MacTypes
    <3>. QED  BY <1>a, <1>14, <3>1 DEF MacTransmits
  <2>6. UNCHANGED <<macPc, macSend, macRx, macDrv, macPool>>  BY <1>14 DEF MacTransmits
  <2>. QED  BY <1>0, <2>2, <2>3, <2>4, <2>5, <2>6 DEF MacTyped
<1>15. CASE MacReceives
  <2>. DEFINE next == SMAC_RD_INDEX_NEXT(macHw.rx)
              rs == IF ~macRx[next].own THEN "suspended" ELSE "running"
              stat == macCsr.stat \cup (IF Head(macAir).last THEN {"RI"} ELSE {}) \cup (IF ~macRx[next].own THEN {"RU"} ELSE {})
  <2>1. next \in Rds  BY <1>0, MacTypes
  <2>2. Head(macAir) \in MacPart /\ macAir' \in Seq(MacPart)
    <3>1. macAir # <<>> /\ macAir' = Tail(macAir)  BY <1>15 DEF MacReceives
    <3>. QED  BY <1>a, <3>1, HeadTailProperties
  <2>3. macCsr' \in MacCsrType
    <3>1. rs \in {"stopped", "running", "suspended"}  OBVIOUS
    <3>2. stat \in SUBSET {"RI", "RU", "TI", "TU"}  BY <1>0, MacTypes
    <3>3. macCsr' = [macCsr EXCEPT !.rs = rs, !.stat = stat]  BY <1>15 DEF MacReceives
    <3>. HIDE DEF rs, stat
    <3>4. [macCsr EXCEPT !.rs = rs] \in MacCsrType  BY <1>a, <3>1, MacFields
    <3>. QED  BY <3>2, <3>3, <3>4, MacFields
  <2>4. macRx' \in [Rds -> MacDescriptor]  BY <1>a, <1>b, <1>15, <2>2 DEF MacReceives
  <2>5. macHw' \in [rx : Rds, tx : Tds]  BY <1>a, <1>15, <2>1 DEF MacReceives
  <2>6. UNCHANGED <<macPc, macSend, macTx, macDrv, macPool>>  BY <1>15 DEF MacReceives
  <2>. QED  BY <1>0, <2>2, <2>3, <2>4, <2>5, <2>6 DEF MacTyped
<1>. QED  BY <1>1, <1>2, <1>3, <1>4, <1>5, <1>6, <1>7, <1>8, <1>9, <1>10, <1>11, <1>12, <1>13, <1>14, <1>15
          DEF MacStep, MacProgram

(* What the steps do to the rings and the places in them.                  *)
MacRingVars == <<macSend, macTx, macRx, macHw, macAir, macPool>>
MacSameDrv == macDrv'.rx = macDrv.rx /\ macDrv'.tx = macDrv.tx /\ macDrv'.wantFirst = macDrv.wantFirst
MacStill ==
  /\ UNCHANGED MacRingVars /\ MacSameDrv /\ macCsr'.rs = macCsr.rs
  /\ \/ macPc' = macPc
     \/ macPc \in {"poll", "recv", "empty", "pollTx"} /\ macPc' \in {"poll", "recv", "empty", "pollTx", "send", "idle"}

LEMMA MacStillSteps ==
  ASSUME MacTyped, SendWaits \/ PollRx \/ RingEmpty \/ sMacRxSchedule \/ MacTestPolling \/ RxWaitTimeout \/ sMacInt
  PROVE  MacStill
<1>. USE DEF MacMain, MacStill, MacRingVars, MacSameDrv
<1>1. macDrv \in MacDrvType /\ macCsr \in MacCsrType  BY DEF MacTyped
<1>2. /\ \A x : [macDrv EXCEPT !.di = x].rx = macDrv.rx /\ [macDrv EXCEPT !.di = x].tx = macDrv.tx
              /\ [macDrv EXCEPT !.di = x].wantFirst = macDrv.wantFirst
      /\ \A x, y : [macDrv EXCEPT !.di = x, !.txS = y].rx = macDrv.rx /\ [macDrv EXCEPT !.di = x, !.txS = y].tx = macDrv.tx
              /\ [macDrv EXCEPT !.di = x, !.txS = y].wantFirst = macDrv.wantFirst
  BY <1>1 DEF MacDrvType
<1>3. CASE SendWaits  BY <1>1, <1>2, <1>3 DEF SendWaits, sMacTxRingClean
<1>4. CASE PollRx \/ RingEmpty \/ RxWaitTimeout  BY <1>4 DEF PollRx, RingEmpty, RxWaitTimeout
<1>5. CASE sMacRxSchedule  BY <1>1, <1>5 DEF sMacRxSchedule, MacDrvType
<1>6. CASE MacTestPolling
  <2>1. MacSameDrv
    <3>1. CASE macDrv.txS
      <4>1. macDrv' = [macDrv EXCEPT !.di = Disposed, !.txS = FALSE]  BY <1>6, <3>1 DEF MacTestPolling
      <4>. QED  BY <1>1, <4>1 DEF MacDrvType
    <3>2. CASE ~macDrv.txS  BY <1>6, <3>2 DEF MacTestPolling
    <3>. QED  BY <3>1, <3>2
  <2>2. UNCHANGED <<macSend, macTx, macRx, macCsr, macHw, macAir, macPool>>  BY <1>6 DEF MacTestPolling
  <2>3. macPc = "pollTx" /\ macPc' \in {"send", "poll", "idle"}  BY <1>6 DEF MacTestPolling
  <2>. QED  BY <2>1, <2>2, <2>3
<1>7. CASE sMacInt
  <2>1. MacSameDrv /\ macCsr'.rs = macCsr.rs  BY <1>1, <1>7 DEF sMacInt, MacDrvType, MacCsrType
  <2>. QED  BY <1>7, <2>1 DEF sMacInt
<1>. QED  BY <1>3, <1>4, <1>5, <1>6, <1>7

LEMMA MacPrepares ==
  ASSUME MacTyped, MacTestPrepareTx
  PROVE  /\ macPc = "send" /\ macPc' = "fill" /\ macSend'.id = macSend.id + 1 /\ macSend'.left \in 1 .. 2
         /\ macSend'.filled = {} /\ macSend'.held = macSend.held
         /\ UNCHANGED <<macTx, macRx, macDrv, macCsr, macHw, macAir, macPool>>
BY DEF MacTyped, MacSendType, MacTestPrepareTx, MacMain

LEMMA MacFills ==
  ASSUME MacTyped, SendFills
  PROVE  /\ macPc = "fill" /\ macPc' = "fill" /\ macSend.left > 0 /\ ~macTx[macDrv.tx].own
         /\ macSend'.id = macSend.id /\ macSend'.left = macSend.left - 1
         /\ macSend'.filled = macSend.filled \cup {macDrv.tx} /\ macSend'.held = macSend.held
         /\ \A d \in Tds \ {macDrv.tx} : macTx'[d] = macTx[d]
         /\ ~macTx'[macDrv.tx].own /\ macTx'[macDrv.tx].part.id = macSend.id
         /\ macTx'[macDrv.tx].part.first = (macSend.filled = {}) /\ macTx'[macDrv.tx].part.last = (macSend.left = 1)
         /\ macDrv'.rx = macDrv.rx /\ macDrv'.tx = RingAfter(macDrv.tx, macTds) /\ macDrv'.wantFirst = macDrv.wantFirst
         /\ UNCHANGED <<macRx, macCsr, macHw, macAir, macPool>>
<1>1. macDrv \in MacDrvType /\ macSend \in MacSendType /\ macTx \in [Tds -> MacDescriptor] /\ macDrv.tx \in Tds
  BY MacTypes DEF MacTyped
<1>2. macDrv'.rx = macDrv.rx /\ macDrv'.tx = RingAfter(macDrv.tx, macTds) /\ macDrv'.wantFirst = macDrv.wantFirst
  BY <1>1, MacIndex DEF SendFills, MacDrvType
<1>3. /\ macSend'.id = macSend.id /\ macSend'.left = macSend.left - 1
      /\ macSend'.filled = macSend.filled \cup {macDrv.tx} /\ macSend'.held = macSend.held
  BY <1>1 DEF SendFills, MacSendType
<1>4. macTx'[macDrv.tx] =
        [own |-> FALSE, part |-> [id |-> macSend.id, first |-> macSend.filled = {}, last |-> macSend.left = 1]]
  BY <1>1 DEF SendFills
<1>. QED  BY <1>1, <1>2, <1>3, <1>4 DEF SendFills, MacMain, NoDescriptor

LEMMA MacGives ==
  ASSUME MacTyped, SendGives
  PROVE  /\ macPc = "fill" /\ macPc' = (IF macSend.held /\ macSend.id = 1 THEN "delay" ELSE "poll") /\ macSend.left = 0
         /\ \A d \in Tds : macTx'[d].own = (macTx[d].own \/ d \in macSend.filled) /\ macTx'[d].part = macTx[d].part
         /\ macCsr'.rs = macCsr.rs /\ macCsr'.ts = "running"
         /\ UNCHANGED <<macSend, macRx, macDrv, macHw, macAir, macPool>>
<1>1. macCsr \in MacCsrType /\ macTx \in [Tds -> MacDescriptor]  BY DEF MacTyped
<1>2. macCsr'.rs = macCsr.rs /\ macCsr'.ts = "running"  BY <1>1 DEF SendGives, MacCsrType
<1>3. \A d \in Tds : macTx'[d].own = (macTx[d].own \/ d \in macSend.filled) /\ macTx'[d].part = macTx[d].part
  <2>1. \A d \in Tds : macTx'[d] = IF d \in macSend.filled THEN [macTx[d] EXCEPT !.own = TRUE] ELSE macTx[d]
    BY DEF SendGives
  <2>2. ASSUME NEW d \in Tds PROVE macTx'[d].own = (macTx[d].own \/ d \in macSend.filled) /\ macTx'[d].part = macTx[d].part
    <3>1. macTx[d] \in MacDescriptor  BY <1>1
    <3>2. CASE d \in macSend.filled
      <4>1. macTx'[d] = [macTx[d] EXCEPT !.own = TRUE]  BY <2>1, <3>2
      <4>2. macTx'[d].own = TRUE /\ macTx'[d].part = macTx[d].part  BY <3>1, <4>1 DEF MacDescriptor
      <4>. QED  BY <3>2, <4>2
    <3>3. CASE d \notin macSend.filled
      <4>1. macTx'[d] = macTx[d]  BY <2>1, <3>3
      <4>2. macTx[d].own \in BOOLEAN  BY <3>1 DEF MacDescriptor
      <4>. QED  BY <3>3, <4>1, <4>2
    <3>. QED  BY <3>2, <3>3
  <2>. QED  BY <2>2
<1>. QED  BY <1>2, <1>3 DEF SendGives, MacMain

LEMMA MacOwnerGiven ==
  ASSUME MacTyped, GiveOwner
  PROVE  /\ macPc = "delay" /\ macPc' = "poll" /\ macCsr.rs = "suspended"
         /\ \A d \in Rds \ {1} : macRx'[d] = macRx[d]
         /\ macRx'[1].own
         /\ UNCHANGED <<macSend, macTx, macDrv, macCsr, macHw, macAir, macPool>>
BY DEF MacTyped, GiveOwner, MacMain, Macs

LEMMA MacTakes ==
  ASSUME MacTyped, sMacRecv
  PROVE  LET part == macRx[macDrv.rx].part
             lost == ~part.first /\ macDrv.wantFirst
         IN /\ macPc = "recv" /\ macPc' = "recv" /\ ~macRx[macDrv.rx].own
            /\ macPool' = (IF part.last /\ ~lost THEN Append(macPool, part.id) ELSE macPool)
            /\ macDrv'.rx = RingAfter(macDrv.rx, macRds) /\ macDrv'.tx = macDrv.tx
            /\ macDrv'.wantFirst = (IF lost THEN macDrv.wantFirst ELSE part.last) /\ macDrv'.rxS = macDrv.rxS
            /\ \A d \in Rds \ {macDrv.rx} : macRx'[d] = macRx[d]
            /\ macRx'[macDrv.rx].own
            /\ macCsr'.rs = (IF macDrv.dead THEN "running" ELSE macCsr.rs)
            /\ macCsr'.ts = macCsr.ts /\ macCsr'.mask = macCsr.mask /\ macCsr'.stat = macCsr.stat
            /\ UNCHANGED <<macSend, macTx, macHw, macAir>>
<1>. DEFINE part == macRx[macDrv.rx].part
            lost == ~part.first /\ macDrv.wantFirst
            first == IF lost THEN macDrv.wantFirst ELSE part.last
<1>1. macDrv \in MacDrvType /\ macCsr \in MacCsrType /\ macRx \in [Rds -> MacDescriptor] /\ macDrv.rx \in Rds
  BY MacTypes DEF MacTyped
<1>2. /\ macCsr'.rs = (IF macDrv.dead THEN "running" ELSE macCsr.rs)
      /\ macCsr'.ts = macCsr.ts /\ macCsr'.mask = macCsr.mask /\ macCsr'.stat = macCsr.stat
  BY <1>1 DEF sMacRecv, MacCsrType
<1>3. macDrv' = [macDrv EXCEPT !.rx = SMAC_RD_INDEX_NEXT(@), !.dead = FALSE, !.wantFirst = first]
  BY DEF sMacRecv, Discarded
<1>4. /\ macDrv'.rx = RingAfter(macDrv.rx, macRds) /\ macDrv'.tx = macDrv.tx
      /\ macDrv'.wantFirst = first /\ macDrv'.rxS = macDrv.rxS
  <2>. HIDE DEF first
  <2>. QED  BY <1>1, <1>3, MacIndex DEF MacDrvType
<1>5. macRx'[macDrv.rx].own /\ \A d \in Rds \ {macDrv.rx} : macRx'[d] = macRx[d]
  BY <1>1 DEF sMacRecv, Macs
<1>6. macPool' = (IF part.last /\ ~lost THEN Append(macPool, part.id) ELSE macPool)  BY DEF sMacRecv, Discarded
<1>. QED  BY <1>2, <1>4, <1>5, <1>6 DEF sMacRecv, MacMain, sMacGetFullRMD

LEMMA MacSends ==
  ASSUME MacTyped, MacTransmits
  PROVE  LET d == macHw.tx  part == macTx[d].part IN
         /\ UNCHANGED <<macPc, macSend, macRx, macDrv, macPool>>
         /\ macCsr'.rs = macCsr.rs /\ macCsr'.mask = macCsr.mask /\ macCsr.stat \subseteq macCsr'.stat
         /\ macHw'.rx = macHw.rx
         /\ \/ /\ macTx[d].own /\ ~macTx'[d].own /\ macTx'[d].part = part
               /\ \A e \in Tds \ {d} : macTx'[e] = macTx[e]
               /\ macHw'.tx = RingAfter(d, macTds)
               /\ macAir' = (IF part = NoPart THEN macAir ELSE Append(macAir, part))
               /\ macCsr'.ts = "running"
            \/ /\ ~macTx[d].own /\ macCsr'.ts = "suspended" /\ UNCHANGED <<macTx, macHw, macAir>>
<1>1. macCsr \in MacCsrType /\ macTx \in [Tds -> MacDescriptor] /\ macHw \in [rx : Rds, tx : Tds] /\ macHw.tx \in Tds
  BY MacTypes DEF MacTyped
<1>2. UNCHANGED <<macPc, macSend, macRx, macDrv, macPool>> /\ macCsr.ts = "running"  BY DEF MacTransmits
<1>3. CASE macTx[macHw.tx].own
  <2>1. macTx' = [macTx EXCEPT ![macHw.tx].own = FALSE]  BY <1>3 DEF MacTransmits
  <2>2. ~macTx'[macHw.tx].own /\ macTx'[macHw.tx].part = macTx[macHw.tx].part  BY <1>1, <2>1 DEF MacDescriptor
  <2>3. \A e \in Tds \ {macHw.tx} : macTx'[e] = macTx[e]  BY <1>1, <2>1
  <2>4. macHw'.tx = RingAfter(macHw.tx, macTds) /\ macHw'.rx = macHw.rx  BY <1>1, <1>3, MacIndex DEF MacTransmits
  <2>5. macAir' = (IF macTx[macHw.tx].part = NoPart THEN macAir ELSE Append(macAir, macTx[macHw.tx].part))
    BY <1>3 DEF MacTransmits
  <2>6. macCsr' = (IF macTx[macHw.tx].part.last THEN [macCsr EXCEPT !.stat = @ \cup {"TI"}] ELSE macCsr)
    BY <1>3 DEF MacTransmits
  <2>7. macCsr'.rs = macCsr.rs /\ macCsr'.mask = macCsr.mask /\ macCsr.stat \subseteq macCsr'.stat /\ macCsr'.ts = "running"
    BY <1>1, <1>2, <2>6 DEF MacCsrType
  <2>. QED  BY <1>2, <1>3, <2>2, <2>3, <2>4, <2>5, <2>7
<1>4. CASE ~macTx[macHw.tx].own
  <2>1. macCsr' = [macCsr EXCEPT !.ts = "suspended", !.stat = @ \cup {"TU"}] /\ UNCHANGED <<macTx, macHw, macAir>>
    BY <1>4 DEF MacTransmits
  <2>2. macCsr'.rs = macCsr.rs /\ macCsr'.mask = macCsr.mask /\ macCsr.stat \subseteq macCsr'.stat /\ macCsr'.ts = "suspended"
    BY <1>1, <2>1 DEF MacCsrType
  <2>. QED  BY <1>2, <1>4, <2>1, <2>2
<1>. QED  BY <1>3, <1>4

LEMMA MacStores ==
  ASSUME MacTyped, MacReceives
  PROVE  LET d == macHw.rx  next == RingAfter(d, macRds)  part == Head(macAir) IN
         /\ UNCHANGED <<macPc, macSend, macTx, macDrv, macPool>>
         /\ macCsr.rs = "running" /\ macAir # <<>> /\ (macLate \/ macPc # "empty")
         /\ macRx[d].own /\ ~macRx'[d].own /\ macRx'[d].part = part
         /\ \A e \in Rds \ {d} : macRx'[e] = macRx[e]
         /\ macHw'.rx = next /\ macHw'.tx = macHw.tx
         /\ macCsr'.rs = (IF ~macRx[next].own THEN "suspended" ELSE "running")
         /\ macCsr'.ts = macCsr.ts /\ macCsr'.mask = macCsr.mask
         /\ macCsr.stat \subseteq macCsr'.stat
         /\ (part.last => "RI" \in macCsr'.stat) /\ (~macRx[next].own => "RU" \in macCsr'.stat)
         /\ macAir' = Tail(macAir)
<1>1. macCsr \in MacCsrType /\ macRx \in [Rds -> MacDescriptor] /\ macHw \in [rx : Rds, tx : Tds] /\ macHw.rx \in Rds
  BY MacTypes DEF MacTyped
<1>. DEFINE next == SMAC_RD_INDEX_NEXT(macHw.rx)
            stat == macCsr.stat \cup (IF Head(macAir).last THEN {"RI"} ELSE {}) \cup (IF ~macRx[next].own THEN {"RU"} ELSE {})
<1>2. next = RingAfter(macHw.rx, macRds)  BY <1>1, MacIndex
<1>3. macCsr' = [macCsr EXCEPT !.rs = IF ~macRx[next].own THEN "suspended" ELSE "running", !.stat = stat]
  BY DEF MacReceives
<1>4. /\ macCsr'.rs = (IF ~macRx[next].own THEN "suspended" ELSE "running")
      /\ macCsr'.ts = macCsr.ts /\ macCsr'.mask = macCsr.mask /\ macCsr'.stat = stat
  <2>. HIDE DEF next, stat
  <2>. QED  BY <1>1, <1>3 DEF MacCsrType
<1>5. /\ macCsr.stat \subseteq stat /\ (Head(macAir).last => "RI" \in stat) /\ (~macRx[next].own => "RU" \in stat)
  OBVIOUS
<1>6. macHw'.rx = next /\ macHw'.tx = macHw.tx  BY <1>1 DEF MacReceives
<1>7. macRx' = [macRx EXCEPT ![macHw.rx] = [own |-> FALSE, part |-> Head(macAir)]]  BY DEF MacReceives
<1>8. /\ ~macRx'[macHw.rx].own /\ macRx'[macHw.rx].part = Head(macAir)
      /\ \A e \in Rds \ {macHw.rx} : macRx'[e] = macRx[e]
  BY <1>1, <1>7
<1>9. /\ UNCHANGED <<macPc, macSend, macTx, macDrv, macPool>> /\ macRx[macHw.rx].own /\ macAir' = Tail(macAir)
      /\ macCsr.rs = "running" /\ macAir # <<>> /\ (macLate \/ macPc # "empty")
  BY DEF MacReceives
<1>. HIDE DEF next, stat
<1>. QED  BY <1>2, <1>4, <1>5, <1>6, <1>8, <1>9

(* Each step keeps them in order.                                          *)
MacRest == MacSetUp /\ MacKeeps /\ MacFilling /\ MacTxRing /\ MacRxRing /\ MacChain /\ MacInOrder

LEMMA MacBegins == ASSUME MacInv, MacTyped', sMacInit \/ sMacFltrFrmXmit \/ FilterSet PROVE MacRest'
<1>. USE DEF MacMain, MacRest, MacChain, MacLive, NoPart, Ours, Macs
<1>0. MacTyped /\ MacSetUp  BY DEF MacInv, MacShape
<1>a. macDrv \in MacDrvType /\ macCsr \in MacCsrType /\ macSend.held \in BOOLEAN /\ 0 \in Tds /\ 1 \in Tds /\ 2 \in Tds
      /\ 0 \in Rds /\ 1 \in Rds /\ macTx \in [Tds -> MacDescriptor]
  BY <1>0, MacTypes DEF MacTyped
<1>1. CASE sMacInit
  <2>1. /\ macPc' = "filter" /\ macCsr'.rs = "stopped" /\ macSend'.id = 0 /\ macHw'.rx = 0 /\ macHw'.tx = 0
        /\ macAir' = <<>> /\ macPool' = <<>> /\ macSend'.held \in BOOLEAN
    BY <1>1 DEF sMacInit
  <2>2. macDrv'.rx = 0 /\ macDrv'.wantFirst  BY <1>a, <1>1 DEF sMacInit, MacDrvType
  <2>3. \A d \in Rds : macRx'[d].own = ~(macSend'.held /\ d = 1)  BY <1>1 DEF sMacInit, Init_Rx_Des
  <2>4. \A d \in Tds : ~macTx'[d].own  BY <1>1 DEF sMacInit, Init_Tx_Des
  <2>5. MacSetUp'  BY <2>1, <2>2, <2>3, <2>4 DEF MacSetUp
  <2>6. MacKeeps'
    <3>1. macRx'[0].own
      <4>1. ~(macSend'.held /\ 0 = 1)  OBVIOUS
      <4>. QED  BY <1>a, <2>3, <4>1
    <3>2. macSend'.held => ~macRx'[1].own  BY <1>a, <2>1, <2>3
    <3>3. MacKept' => macSend'.held  BY DEF MacKept
    <3>. QED  BY <2>1, <2>2, <3>1, <3>2, <3>3 DEF MacKeeps
  <2>7. MacFilling' /\ MacTxRing' /\ MacRxRing' /\ MacRxChain' /\ MacAirChain' /\ MacTxChain' /\ MacSendsNext'
    BY <2>1 DEF MacFilling, MacTxRing, MacRxRing, MacRxChain, MacAirChain, MacTxChain, MacSendsNext
  <2>8. MacInOrder'  BY <2>1 DEF MacInOrder
  <2>. QED  BY <2>5, <2>6, <2>7, <2>8
<1>2. CASE sMacFltrFrmXmit
  <2>1. macPc = "filter" /\ macPc' = "setup" /\ UNCHANGED <<macSend, macRx, macHw, macAir, macPool>>
    BY <1>2 DEF sMacFltrFrmXmit
  <2>2. macCsr.rs = "stopped" /\ macCsr'.rs = "stopped"
    <3>1. macCsr.rs = "stopped"  BY <1>0, <2>1 DEF MacSetUp
    <3>. QED  BY <1>a, <1>2, <3>1 DEF sMacFltrFrmXmit, MacCsrType
  <2>3. macDrv'.rx = macDrv.rx /\ macDrv'.tx = 2 /\ macDrv'.wantFirst = macDrv.wantFirst
    BY <1>a, <1>2 DEF sMacFltrFrmXmit, MacDrvType
  <2>4. /\ \A d \in Tds : macTx'[d].own <=> d < 2
        /\ macTx'[0].part = NoPart /\ macTx'[1].part = NoPart
    <3>1. macTx' = [macTx EXCEPT ![0] = Macs(NoPart), ![1] = Macs(NoPart)]  BY <1>2 DEF sMacFltrFrmXmit
    <3>2. \A d \in Tds : ~macTx[d].own  BY <1>0, <2>1, <2>2 DEF MacSetUp
    <3>3. macTx'[0] = Macs(NoPart) /\ macTx'[1] = Macs(NoPart)  BY <1>a, <3>1
    <3>4. \A d \in Tds : d \notin {0, 1} => macTx'[d] = macTx[d]  BY <1>a, <3>1
    <3>5. \A d \in Tds : d < 2 <=> d \in {0, 1}  OBVIOUS
    <3>. QED  BY <1>a, <3>2, <3>3, <3>4, <3>5
  <2>5. MacSetUp'  BY <1>0, <2>1, <2>2, <2>3, <2>4 DEF MacSetUp
  <2>6. MacKeeps'
    <3>1. MacKept' => MacKept  BY <2>1 DEF MacKept
    <3>. QED  BY <2>1, <2>3, <3>1 DEF MacKeeps, MacInv, MacShape
  <2>7. MacFilling' /\ MacTxRing' /\ MacRxRing' /\ MacRxChain' /\ MacAirChain' /\ MacTxChain' /\ MacSendsNext'
    BY <2>1, <2>2 DEF MacFilling, MacTxRing, MacRxRing, MacRxChain, MacAirChain, MacTxChain, MacSendsNext
  <2>8. MacInOrder'  BY <2>1 DEF MacInOrder, MacInv
  <2>. QED  BY <2>5, <2>6, <2>7, <2>8
<1>3. CASE FilterSet
  <2>1. /\ macPc = "setup" /\ macPc' = "send" /\ ~macTx[1].own
        /\ UNCHANGED <<macSend, macTx, macRx, macDrv, macHw, macAir, macPool>>
    BY <1>3 DEF FilterSet
  <2>2. macCsr.rs = "stopped" /\ macCsr'.rs = "running"
    BY <1>0, <1>a, <1>3, <2>1 DEF MacSetUp, FilterSet, MacCsrType
  <2>3. /\ macAir = <<>> /\ macPool = <<>> /\ macSend.id = 0
        /\ macDrv.rx = 0 /\ macDrv.wantFirst /\ macHw.rx = 0
        /\ \A d \in Rds : macRx[d].own = ~(macSend.held /\ d = 1)
        /\ macHw.tx = 2 /\ macDrv.tx = 2 /\ \A d \in Tds : ~macTx[d].own
    BY <1>0, <1>a, <2>1, <2>2 DEF MacSetUp
  <2>4. MacSetUp'  BY <2>1, <2>2 DEF MacSetUp
  <2>5. MacKeeps'
    <3>1. MacKept' => MacKept  BY <2>1 DEF MacKept
    <3>. QED  BY <2>1, <3>1 DEF MacKeeps, MacInv, MacShape
  <2>6. \A d \in Rds : ~MacFull(d)'  BY <1>a, <2>1, <2>3 DEF MacFull, MacKept
  <2>7. MacFilling'  BY <2>1 DEF MacFilling
  <2>8. MacTxRing'  BY <1>a, <2>1, <2>3 DEF MacTxRing, MacGiven
  <2>9. MacRxRing' /\ MacRxChain'  BY <1>a, <2>1, <2>3, <2>6 DEF MacRxRing, MacRxChain
  <2>10. MacAirChain' /\ MacTxChain'  BY <1>a, <2>1, <2>3 DEF MacAirChain, MacTxChain
  <2>11. MacSendsNext'
    <3>1. WantPool'.id = 1 /\ WantPool'.first  BY <2>1, <2>3 DEF WantPool
    <3>2. WantTx' = WantAir' /\ WantAir' = WantRx'  BY <1>a, <2>1, <2>3 DEF WantTx, WantAir
    <3>3. WantRx' = WantPool'  BY <1>a, <2>1, <2>3, <2>6 DEF WantRx
    <3>. QED  BY <2>1, <2>3, <3>1, <3>2, <3>3 DEF MacSendsNext
  <2>12. MacInOrder'  BY <2>1 DEF MacInOrder, MacInv
  <2>. QED  BY <2>4, <2>5, <2>7, <2>8, <2>9, <2>10, <2>11, <2>12
<1>. QED  BY <1>1, <1>2, <1>3

\* Nothing of a step that only looks and notes disturbs them.
LEMMA MacStillKeeps == ASSUME MacInv, MacStill PROVE MacRest'
<1>. USE DEF MacStill, MacRingVars, MacSameDrv
<1>0. MacSetUp /\ MacKeeps /\ MacFilling /\ MacTxRing /\ MacRxRing  BY DEF MacInv, MacShape
<1>1. MacLive' = MacLive  BY DEF MacLive
<1>2. MacKept' = MacKept  BY <1>0 DEF MacKept, MacKeeps
<1>3. \A d : MacFull(d)' = MacFull(d)  BY <1>2 DEF MacFull
<1>4. (macPc' = "fill") = (macPc = "fill") /\ MacGiven' = MacGiven  BY DEF MacGiven
<1>5. WantPool' = WantPool /\ WantRx' = WantRx /\ WantAir' = WantAir /\ WantTx' = WantTx
  <2>1. WantPool' = WantPool  BY DEF WantPool
  <2>2. WantRx' = WantRx
    <3>1. MacFull(macDrv.rx)' = MacFull(macDrv.rx)  BY <1>2 DEF MacFull
    <3>. QED  BY <2>1, <3>1 DEF WantRx
  <2>3. WantAir' = WantAir  BY <2>2 DEF WantAir
  <2>. QED  BY <1>4, <2>1, <2>2, <2>3 DEF WantTx
<1>6. MacSetUp'
  <2>1. MacLive => macPc \notin {"off", "filter", "setup"}  BY <1>0 DEF MacSetUp
  <2>2. ~MacLive => macPc' = macPc  BY <1>0 DEF MacSetUp
  <2>. QED  BY <1>0, <1>1, <2>1, <2>2 DEF MacSetUp
<1>7. MacKeeps'  BY <1>0, <1>2 DEF MacKeeps
<1>8. MacFilling'  BY <1>0, <1>4 DEF MacFilling, MacFilled
<1>9. MacTxRing'  BY <1>0, <1>1, <1>4 DEF MacTxRing
<1>10. MacRxRing'
  <2>1. MacFull(macDrv.rx)' = MacFull(macDrv.rx)  BY <1>2 DEF MacFull
  <2>. QED  BY <1>0, <1>1, <1>3, <2>1 DEF MacRxRing
<1>11. MacRxChain' /\ MacAirChain' /\ MacTxChain' /\ MacSendsNext'
  <2>1. MacRxChain /\ MacAirChain /\ MacTxChain /\ MacSendsNext  BY DEF MacInv, MacChain
  <2>2. MacRxChain'  BY <1>1, <1>3, <1>5, <2>1 DEF MacRxChain
  <2>3. MacAirChain'  BY <1>1, <1>5, <2>1 DEF MacAirChain
  <2>4. MacTxChain'  BY <1>1, <1>5, <2>1 DEF MacTxChain
  <2>5. MacSendsNext'  BY <1>1, <1>4, <1>5, <2>1 DEF MacSendsNext
  <2>. QED  BY <2>2, <2>3, <2>4, <2>5
<1>12. MacInOrder'  BY DEF MacInOrder, MacInv
<1>. QED  BY <1>6, <1>7, <1>8, <1>9, <1>10, <1>11, <1>12 DEF MacRest, MacChain

LEMMA MacPreparesKeeps == ASSUME MacInv, MacTestPrepareTx PROVE MacRest'
<1>0. MacTyped /\ MacSetUp /\ MacKeeps /\ MacTxRing /\ MacRxRing  BY DEF MacInv, MacShape
<1>1. /\ macPc = "send" /\ macPc' = "fill" /\ macSend'.id = macSend.id + 1 /\ macSend'.left \in 1 .. 2
      /\ macSend'.filled = {} /\ macSend'.held = macSend.held
      /\ UNCHANGED <<macTx, macRx, macDrv, macCsr, macHw, macAir, macPool>>
  BY <1>0, MacPrepares
<1>2. MacLive /\ MacLive' /\ macSend.id \in Nat  BY <1>0, <1>1, MacLivePlaces, MacTypes DEF MacLive, MacInv
<1>3. MacKept' = MacKept  BY <1>1, <1>2 DEF MacKept
<1>4. \A d : MacFull(d)' = MacFull(d)  BY <1>1, <1>3 DEF MacFull
<1>5. MacFull(macDrv.rx)' = MacFull(macDrv.rx)  BY <1>1, <1>3 DEF MacFull
<1>6. MacGiven' = MacGiven  BY <1>1 DEF MacGiven
<1>7. WantPool' = WantPool /\ WantRx' = WantRx  BY <1>1, <1>5 DEF WantPool, WantRx
<1>8. WantAir' = WantAir  BY <1>1, <1>7 DEF WantAir
<1>9. WantTx' = WantTx  BY <1>1, <1>6, <1>8 DEF WantTx
<1>10. MacSetUp'  BY <1>1, <1>2 DEF MacSetUp
<1>11. MacKeeps'  BY <1>0, <1>1, <1>2, <1>3 DEF MacKeeps
<1>12. MacFilling'
  <2>1. macSend'.id > 0 /\ macSend'.left > 0 /\ macSend'.filled = {}  BY <1>1, <1>2
  <2>. QED  BY <2>1 DEF MacFilling
<1>13. MacTxRing' /\ MacRxRing'  BY <1>0, <1>1, <1>2, <1>4, <1>5, <1>6 DEF MacTxRing, MacRxRing
<1>14. MacRxChain' /\ MacAirChain' /\ MacTxChain' /\ MacSendsNext'
  <2>1. MacRxChain /\ MacAirChain /\ MacTxChain /\ MacSendsNext  BY DEF MacInv, MacChain
  <2>2. MacRxChain'  BY <1>1, <1>2, <1>4, <1>7, <2>1 DEF MacRxChain
  <2>3. MacAirChain'  BY <1>1, <1>2, <1>7, <2>1 DEF MacAirChain
  <2>4. MacTxChain'  BY <1>1, <1>2, <1>8, <2>1 DEF MacTxChain
  <2>5. MacSendsNext'  BY <1>1, <1>2, <1>9, <2>1 DEF MacSendsNext
  <2>. QED  BY <2>2, <2>3, <2>4, <2>5
<1>15. MacInOrder'  BY <1>1 DEF MacInOrder, MacInv
<1>. QED  BY <1>10, <1>11, <1>12, <1>13, <1>14, <1>15 DEF MacRest, MacChain

\* Before an owned descriptor, and before the given end, are owned ones; before
\* a full one, and before the place of the MAC, full ones.
LEMMA MacNeighbours ==
  ASSUME MacShape, MacLive
  PROVE  /\ \A d \in Tds : macTx[d].own /\ d # macHw.tx => macTx[RingBefore(d, macTds)].own
         /\ macTx[macHw.tx].own => macTx[RingBefore(MacGiven, macTds)].own
         /\ \A d \in Rds : MacFull(d) /\ d # macDrv.rx => MacFull(RingBefore(d, macRds))
         /\ MacFull(macDrv.rx) => MacFull(RingBefore(macHw.rx, macRds))
         /\ MacGiven \in Tds
<1>0. macHw.tx \in Tds /\ macHw.rx \in Rds /\ macDrv.tx \in Tds /\ macDrv.rx \in Rds /\ MacTxRing /\ MacRxRing
  BY MacTypes DEF MacShape
<1>1. MacGiven \in Tds  BY <1>0, TdRing DEF MacGiven
<1>2. ASSUME NEW d \in Tds, macTx[d].own, d # macHw.tx PROVE macTx[RingBefore(d, macTds)].own
  <2>1. RingBefore(d, macTds) \in Tds /\ RingFrom(macHw.tx, RingBefore(d, macTds), macTds) < RingFrom(macHw.tx, d, macTds)
    BY <1>0, <1>2 DEF RingBefore, RingFrom
  <2>2. /\ RingFrom(macHw.tx, d, macTds) \in Nat /\ RingFrom(macHw.tx, RingBefore(d, macTds), macTds) \in Nat
        /\ RingFrom(macHw.tx, MacGiven, macTds) \in Nat
    BY <1>0, <1>1, <2>1 DEF RingFrom
  <2>. QED  BY <1>0, <1>2, <2>1, <2>2 DEF MacTxRing
<1>3. ASSUME macTx[macHw.tx].own PROVE macTx[RingBefore(MacGiven, macTds)].own
  <2>. DEFINE d == RingBefore(MacGiven, macTds)
  <2>1. d \in Tds /\ (MacGiven = macHw.tx \/ RingFrom(macHw.tx, d, macTds) < RingFrom(macHw.tx, MacGiven, macTds))
    BY <1>0, <1>1 DEF RingBefore, RingFrom
  <2>. HIDE DEF d
  <2>. QED  BY <1>0, <1>3, <2>1 DEF MacTxRing, d
<1>4. ASSUME NEW d \in Rds, MacFull(d), d # macDrv.rx PROVE MacFull(RingBefore(d, macRds))
  <2>1. RingBefore(d, macRds) \in Rds /\ RingFrom(macDrv.rx, RingBefore(d, macRds), macRds) < RingFrom(macDrv.rx, d, macRds)
    BY <1>0, <1>4 DEF RingBefore, RingFrom
  <2>2. /\ RingFrom(macDrv.rx, d, macRds) \in Nat /\ RingFrom(macDrv.rx, RingBefore(d, macRds), macRds) \in Nat
        /\ RingFrom(macDrv.rx, macHw.rx, macRds) \in Nat
    BY <1>0, <2>1 DEF RingFrom
  <2>. QED  BY <1>0, <1>4, <2>1, <2>2 DEF MacRxRing
<1>5. ASSUME MacFull(macDrv.rx) PROVE MacFull(RingBefore(macHw.rx, macRds))
  <2>. DEFINE d == RingBefore(macHw.rx, macRds)
  <2>1. d \in Rds /\ (macHw.rx = macDrv.rx \/ RingFrom(macDrv.rx, d, macRds) < RingFrom(macDrv.rx, macHw.rx, macRds))
    BY <1>0 DEF RingBefore, RingFrom
  <2>. HIDE DEF d
  <2>. QED  BY <1>0, <1>5, <2>1 DEF MacRxRing, d
<1>. QED  BY <1>1, <1>2, <1>3, <1>4, <1>5

LEMMA MacFillsKeeps == ASSUME MacInv, SendFills PROVE MacRest'
<1>. DEFINE cur == macDrv.tx
            next == RingAfter(cur, macTds)
            one == RingBefore(cur, macTds)
<1>0. MacTyped /\ MacSetUp /\ MacKeeps /\ MacFilling /\ MacTxRing /\ MacRxRing  BY DEF MacInv, MacShape
<1>1. /\ macPc = "fill" /\ macPc' = "fill" /\ macSend.left > 0 /\ ~macTx[macDrv.tx].own
      /\ macSend'.id = macSend.id /\ macSend'.left = macSend.left - 1
      /\ macSend'.filled = macSend.filled \cup {macDrv.tx} /\ macSend'.held = macSend.held
      /\ \A d \in Tds \ {macDrv.tx} : macTx'[d] = macTx[d]
      /\ ~macTx'[macDrv.tx].own /\ macTx'[macDrv.tx].part.id = macSend.id
      /\ macTx'[macDrv.tx].part.first = (macSend.filled = {}) /\ macTx'[macDrv.tx].part.last = (macSend.left = 1)
      /\ macDrv'.rx = macDrv.rx /\ macDrv'.tx = RingAfter(macDrv.tx, macTds) /\ macDrv'.wantFirst = macDrv.wantFirst
      /\ UNCHANGED <<macRx, macCsr, macHw, macAir, macPool>>
  BY <1>0, MacFills
<1>2. MacLive /\ MacLive' /\ cur \in Tds /\ macHw.tx \in Tds /\ macSend.left \in 0 .. 2
  BY <1>0, <1>1, MacLivePlaces, MacTypes DEF MacLive, MacInv
<1>3. /\ next \in Tds /\ RingBefore(next, macTds) = cur /\ one \in Tds /\ one # cur /\ RingBefore(one, macTds) # cur
      /\ RingBefore(one, macTds) \in Tds /\ RingBefore(one, macTds) # one
  BY <1>2, TdRing
<1>. HIDE DEF cur, next, one
<1>4. /\ macSend.id > 0
      /\ \/ macSend.filled = {} /\ macSend'.filled = {cur}
         \/ macSend.filled = {one} /\ macSend.left = 1 /\ macSend'.filled = {cur, one} /\ MacFilled(one, TRUE, FALSE)
  <2>1. /\ macSend.id > 0
        /\ \/ macSend.filled = {}
           \/ macSend.filled = {one} /\ macSend.left < 2 /\ MacFilled(one, TRUE, macSend.left = 0)
    BY <1>0, <1>1 DEF MacFilling, MacFilled, one, cur
  <2>2. macSend.left < 2 => macSend.left = 1 /\ ~(macSend.left = 0)  BY <1>1, <1>2
  <2>3. (MacFilled(one, TRUE, macSend.left = 0) /\ ~(macSend.left = 0)) => MacFilled(one, TRUE, FALSE)
    BY DEF MacFilled
  <2>. QED  BY <1>1, <2>1, <2>2, <2>3 DEF cur
<1>5. MacGiven' = MacGiven
  <2>1. macDrv.tx = cur /\ macDrv'.tx = next /\ RingBefore(macDrv.tx, macTds) = one /\ RingBefore(macDrv'.tx, macTds) = cur
    BY <1>1, <1>3 DEF cur, next, one
  <2>2. CASE macSend.filled = {}
    <3>1. MacGiven = cur  BY <2>1, <2>2 DEF MacGiven
    <3>2. MacGiven' = cur  BY <1>1, <1>3, <1>4, <2>1, <2>2 DEF MacGiven, one, cur
    <3>. QED  BY <3>1, <3>2
  <2>3. CASE macSend.filled # {}
    <3>1. MacGiven = one  BY <1>1, <1>3, <1>4, <2>1, <2>3 DEF MacGiven
    <3>2. MacGiven' = one  BY <1>1, <1>3, <1>4, <2>1, <2>3 DEF MacGiven, one, cur
    <3>. QED  BY <3>1, <3>2
  <2>. QED  BY <2>2, <2>3
<1>6. \A d \in Tds : macTx'[d].own <=> macTx[d].own  BY <1>1
<1>7. MacKept' = MacKept  BY <1>1 DEF MacKept
<1>8. \A d : MacFull(d)' = MacFull(d)  BY <1>1, <1>7 DEF MacFull
<1>9. MacFull(macDrv.rx)' = MacFull(macDrv.rx)  BY <1>1, <1>7 DEF MacFull
<1>10. WantPool' = WantPool /\ WantRx' = WantRx  BY <1>1, <1>9 DEF WantPool, WantRx
<1>11. WantAir' = WantAir  BY <1>1, <1>10 DEF WantAir
<1>12. /\ \A d \in Tds : macTx[d].own => macTx'[d] = macTx[d]
       /\ \A d \in Tds : macTx[d].own /\ d # macHw.tx => macTx'[RingBefore(d, macTds)] = macTx[RingBefore(d, macTds)]
       /\ macTx[macHw.tx].own => macTx'[RingBefore(MacGiven, macTds)] = macTx[RingBefore(MacGiven, macTds)]
  <2>1. \A d \in Tds : macTx[d].own => macTx'[d] = macTx[d]  BY <1>1
  <2>2. MacShape  BY DEF MacInv
  <2>. QED  BY <1>2, <2>1, <2>2, MacNeighbours, TdRing
<1>13. WantTx' = WantTx  BY <1>1, <1>2, <1>5, <1>6, <1>11, <1>12 DEF WantTx
<1>14. MacSetUp'  BY <1>1, <1>2 DEF MacSetUp
<1>15. MacKeeps'  BY <1>0, <1>1, <1>7 DEF MacKeeps
<1>16. MacFilling'
  <2>1. macDrv'.tx = next /\ RingBefore(next, macTds) = cur /\ RingBefore(cur, macTds) = one
    BY <1>1, <1>3 DEF cur, next, one
  <2>2. CASE macSend.filled = {}
    <3>1. macSend'.left < 2 /\ (macSend.left = 1 <=> macSend'.left = 0)  BY <1>1, <1>2
    <3>2. /\ macSend'.filled = {cur} /\ ~macTx'[cur].own /\ macTx'[cur].part.id = macSend'.id
          /\ macTx'[cur].part.first = TRUE /\ macTx'[cur].part.last = (macSend'.left = 0)
      BY <1>1, <1>4, <2>2, <3>1 DEF cur
    <3>. QED  BY <1>1, <1>4, <2>1, <3>1, <3>2 DEF MacFilling, MacFilled
  <2>3. CASE macSend.filled # {}
    <3>1. /\ macSend'.left = 0 /\ macSend'.filled = {cur, one} /\ ~macTx'[cur].own /\ macTx'[cur].part.id = macSend'.id
          /\ macTx'[cur].part.first = FALSE /\ macTx'[cur].part.last = TRUE
      <4>1. (macSend.filled = {}) = FALSE /\ macSend.left = 1 /\ (macSend.left = 1) = TRUE  BY <1>4, <2>3
      <4>2. macSend'.left = 0  BY <1>1, <4>1
      <4>3. macTx'[cur].part.first = FALSE /\ macTx'[cur].part.last = TRUE  BY <1>1, <4>1 DEF cur
      <4>. QED  BY <1>1, <1>4, <2>3, <4>2, <4>3 DEF cur
    <3>2. macTx'[one] = macTx[one]  BY <1>1, <1>3 DEF cur
    <3>3. /\ ~macTx'[one].own /\ macTx'[one].part.id = macSend'.id
          /\ macTx'[one].part.first = TRUE /\ macTx'[one].part.last = FALSE
      BY <1>1, <1>4, <2>3, <3>2 DEF MacFilled
    <3>. QED  BY <1>1, <1>4, <2>1, <3>1, <3>3 DEF MacFilling, MacFilled
  <2>. QED  BY <2>2, <2>3
<1>17. MacTxRing'  BY <1>0, <1>1, <1>2, <1>5, <1>6 DEF MacTxRing
<1>18. MacRxRing'  BY <1>0, <1>1, <1>2, <1>8, <1>9 DEF MacRxRing
<1>19. MacRxChain' /\ MacAirChain' /\ MacTxChain' /\ MacSendsNext'
  <2>1. MacRxChain /\ MacAirChain /\ MacTxChain /\ MacSendsNext  BY DEF MacInv, MacChain
  <2>2. MacRxChain'  BY <1>1, <1>2, <1>8, <1>10, <2>1 DEF MacRxChain
  <2>3. MacAirChain'  BY <1>1, <1>2, <1>10, <2>1 DEF MacAirChain
  <2>4. MacTxChain'  BY <1>1, <1>2, <1>6, <1>11, <1>12, <2>1 DEF MacTxChain
  <2>5. MacSendsNext'  BY <1>1, <1>2, <1>13, <2>1 DEF MacSendsNext
  <2>. QED  BY <2>2, <2>3, <2>4, <2>5
<1>20. MacInOrder'  BY <1>1 DEF MacInOrder, MacInv
<1>. QED  BY <1>14, <1>15, <1>16, <1>17, <1>18, <1>19, <1>20 DEF MacRest, MacChain

LEMMA MacWants ==
  ASSUME MacShape, MacLive
  PROVE  /\ WantRx.first \in BOOLEAN /\ WantAir.first \in BOOLEAN /\ WantTx.first \in BOOLEAN
         /\ WantPool.first \in BOOLEAN /\ WantPool.id = Len(macPool) + 1 /\ Len(macPool) \in Nat
<1>0. MacTyped  BY DEF MacShape
<1>1. \A part \in MacPart : MacNext(part).first \in BOOLEAN  BY DEF MacPart, MacNext
<1>2. WantPool.first \in BOOLEAN /\ WantPool.id = Len(macPool) + 1 /\ Len(macPool) \in Nat
  BY <1>0, MacTypes DEF WantPool, MacTyped
<1>3. WantRx.first \in BOOLEAN
  <2>1. macRx[RingBefore(macHw.rx, macRds)].part \in MacPart  BY <1>0, MacTypes, RdRing
  <2>. QED  BY <1>1, <1>2, <2>1 DEF WantRx
<1>4. WantAir.first \in BOOLEAN
  <2>1. CASE macAir = <<>>  BY <1>3, <2>1 DEF WantAir
  <2>2. CASE macAir # <<>>
    <3>1. macAir \in Seq(MacPart)  BY <1>0 DEF MacTyped
    <3>2. Len(macAir) \in 1 .. Len(macAir)  BY <2>2, <3>1, EmptySeq, LenProperties
    <3>3. macAir[Len(macAir)] \in MacPart  BY <3>1, <3>2, ElementOfSeq
    <3>. QED  BY <1>1, <2>2, <3>3 DEF WantAir
  <2>. QED  BY <2>1, <2>2
<1>5. WantTx.first \in BOOLEAN
  <2>1. macTx[RingBefore(MacGiven, macTds)].part \in MacPart  BY <1>0, MacTypes, MacNeighbours, TdRing
  <2>. QED  BY <1>1, <1>4, <2>1 DEF WantTx
<1>. QED  BY <1>2, <1>3, <1>4, <1>5

LEMMA MacGivesKeeps == ASSUME MacInv, SendGives PROVE MacRest'
<1>. DEFINE cur == macDrv.tx
            one == RingBefore(cur, macTds)
            two == RingBefore(one, macTds)
            h == macHw.tx
            F(d) == RingFrom(h, d, macTds)
<1>0. MacTyped /\ MacSetUp /\ MacKeeps /\ MacFilling /\ MacTxRing /\ MacRxRing  BY DEF MacInv, MacShape
<1>1. /\ macPc = "fill" /\ macPc' = (IF macSend.held /\ macSend.id = 1 THEN "delay" ELSE "poll") /\ macSend.left = 0
      /\ \A d \in Tds : macTx'[d].own = (macTx[d].own \/ d \in macSend.filled) /\ macTx'[d].part = macTx[d].part
      /\ macCsr'.rs = macCsr.rs
      /\ UNCHANGED <<macSend, macRx, macDrv, macHw, macAir, macPool>>
  BY <1>0, MacGives
<1>2. MacLive /\ MacLive' /\ cur \in Tds /\ h \in Tds
  BY <1>0, <1>1, MacLivePlaces, MacTypes DEF MacLive, MacInv
<1>3. one \in Tds /\ two \in Tds /\ one # cur /\ two # cur /\ one # two /\ RingAfter(one, macTds) = cur /\ RingAfter(two, macTds) = one
  BY <1>2, TdRing
<1>4. /\ macSend.id > 0
      /\ \/ /\ macSend.filled = {one} /\ MacGiven = one
            /\ ~macTx[one].own /\ macTx[one].part.id = macSend.id /\ macTx[one].part.first /\ macTx[one].part.last
         \/ /\ macSend.filled = {one, two} /\ MacGiven = two
            /\ ~macTx[one].own /\ macTx[one].part.id = macSend.id /\ ~macTx[one].part.first /\ macTx[one].part.last
            /\ ~macTx[two].own /\ macTx[two].part.id = macSend.id /\ macTx[two].part.first /\ ~macTx[two].part.last
  <2>. HIDE DEF cur
  <2>1. macDrv.tx = cur  BY DEF cur
  <2>2. \/ macSend.filled = {one} \/ macSend.filled = {one, two}  BY <1>0, <1>1, <2>1 DEF MacFilling, MacFilled
  <2>3. MacGiven = IF macSend.filled = {one} THEN one ELSE two  BY <1>1, <1>3, <2>1, <2>2 DEF MacGiven
  <2>4. /\ macSend.id > 0
        /\ macSend.filled = {one} => MacFilled(one, TRUE, macSend.left = 0)
        /\ macSend.filled = {one, two} => MacFilled(two, TRUE, FALSE) /\ MacFilled(one, FALSE, TRUE)
    BY <1>0, <1>1, <1>3, <2>1 DEF MacFilling, MacFilled
  <2>5. (macSend.left = 0) = TRUE  BY <1>1
  <2>. QED  BY <1>3, <2>2, <2>3, <2>4, <2>5 DEF MacFilled
<1>5. MacGiven' = cur  BY <1>1 DEF MacGiven
<1>6. /\ macTx[h].own => MacGiven # h
      /\ ~macTx[h].own => MacGiven = h /\ \A d \in Tds : ~macTx[d].own
      /\ \A d \in Tds : macTx[d].own <=> macTx[h].own /\ F(d) < F(MacGiven)
  <2>1. /\ \A d \in Tds : macTx[d].own <=> macTx[h].own /\ (MacGiven = h \/ F(d) < F(MacGiven))
        /\ ~macTx[h].own => MacGiven = h
    BY <1>0, <1>2 DEF MacTxRing
  <2>. HIDE DEF F, one, two, h
  <2>. QED  BY <1>2, <1>3, <1>4, <2>1
<1>7. /\ \A d \in Tds : F(d) \in 0 .. macTds - 1 /\ (F(d) = 0 <=> d = h)
      /\ \A d, e \in Tds : F(d) = F(e) => d = e
      /\ IF cur = h THEN F(one) = macTds - 1 ELSE F(one) = F(cur) - 1
      /\ IF one = h THEN F(two) = macTds - 1 ELSE F(two) = F(one) - 1
  <2>1. IF cur = h THEN F(one) = macTds - 1 ELSE F(one) = F(cur) - 1  BY <1>2, TdCount
  <2>2. IF one = h THEN F(two) = macTds - 1 ELSE F(two) = F(one) - 1  BY <1>2, <1>3, TdCount
  <2>. QED  BY <1>2, <2>1, <2>2, TdCount
<1>. HIDE DEF F, cur, one, two, h
<1>8. one # h \/ macSend.filled = {one}  BY <1>2, <1>3, <1>4, <1>6
<1>9. /\ \A d \in Tds : macTx'[d].own <=> cur = h \/ F(d) < F(cur)
      /\ macTx'[h].own
  <2>1. CASE macSend.filled = {one}
    <3>1. MacGiven = one /\ \A d \in Tds : macTx'[d].own <=> macTx[d].own \/ d = one  BY <1>1, <1>3, <1>4, <2>1
    <3>2. CASE macTx[h].own
      <4>1. \A d \in Tds : macTx[d].own <=> F(d) < F(one)  BY <1>6, <3>1, <3>2
      <4>2. \A d \in Tds : F(d) < F(one) \/ d = one <=> cur = h \/ F(d) < F(cur)  BY <1>2, <1>3, <1>7
      <4>. QED  BY <1>2, <3>1, <3>2, <4>1, <4>2
    <3>3. CASE ~macTx[h].own
      <4>1. one = h /\ \A d \in Tds : macTx'[d].own <=> d = h  BY <1>6, <3>1, <3>3
      <4>2. F(cur) = 1 /\ cur # h  BY <1>2, <1>3, <1>7, <4>1
      <4>. QED  BY <1>2, <1>7, <4>1, <4>2
    <3>. QED  BY <3>2, <3>3
  <2>2. CASE macSend.filled # {one}
    <3>1. MacGiven = two /\ \A d \in Tds : macTx'[d].own <=> macTx[d].own \/ d = one \/ d = two
      BY <1>1, <1>3, <1>4, <2>2
    <3>2. CASE macTx[h].own
      <4>1. \A d \in Tds : macTx[d].own <=> F(d) < F(two)  BY <1>6, <3>1, <3>2
      <4>2. F(two) = F(one) - 1  BY <1>7, <1>8, <2>2
      <4>3. \A d \in Tds : F(d) < F(two) \/ d = one \/ d = two <=> cur = h \/ F(d) < F(cur)  BY <1>2, <1>3, <1>7, <4>2
      <4>. QED  BY <1>2, <3>1, <3>2, <4>1, <4>3
    <3>3. CASE ~macTx[h].own
      <4>1. two = h /\ \A d \in Tds : macTx'[d].own <=> d = h \/ d = one  BY <1>6, <3>1, <3>3
      <4>2. F(one) = 1 /\ F(two) = 0  BY <1>2, <1>3, <1>7, <1>8, <2>2, <4>1
      <4>3. F(cur) = 2 /\ cur # h  BY <1>2, <1>3, <1>7, <4>1, <4>2
      <4>. QED  BY <1>2, <1>3, <1>7, <4>1, <4>2, <4>3
    <3>. QED  BY <3>2, <3>3
  <2>. QED  BY <2>1, <2>2
<1>10. MacTxRing'
  <2>1. macHw'.tx = h /\ \A d : RingFrom(h, d, macTds) = F(d)  BY <1>1 DEF h, F
  <2>. QED  BY <1>2, <1>5, <1>9, <2>1 DEF MacTxRing
<1>11. MacKept' = MacKept  BY <1>1 DEF MacKept
<1>12. \A d : MacFull(d)' = MacFull(d)  BY <1>1, <1>11 DEF MacFull
<1>13. MacFull(macDrv.rx)' = MacFull(macDrv.rx)  BY <1>1, <1>11 DEF MacFull
<1>14. WantPool' = WantPool /\ WantRx' = WantRx  BY <1>1, <1>13 DEF WantPool, WantRx
<1>15. WantAir' = WantAir  BY <1>1, <1>14 DEF WantAir
<1>16. MacSetUp'  BY <1>1, <1>2 DEF MacSetUp
<1>17. MacKeeps'  BY <1>0, <1>1, <1>4, <1>11 DEF MacKeeps
<1>18. MacFilling'  BY <1>1 DEF MacFilling
<1>19. MacRxRing'  BY <1>0, <1>1, <1>2, <1>12, <1>13 DEF MacRxRing
<1>20. MacRxChain /\ MacAirChain /\ MacTxChain /\ MacSendsNext /\ MacShape  BY DEF MacInv, MacChain
<1>21. MacRxChain' /\ MacAirChain'
  <2>1. MacRxChain'  BY <1>1, <1>2, <1>12, <1>14, <1>20 DEF MacRxChain
  <2>2. MacAirChain'  BY <1>1, <1>2, <1>14, <1>20 DEF MacAirChain
  <2>. QED  BY <2>1, <2>2
<1>22. MacTxChain'
  <2>1. SUFFICES ASSUME NEW d \in Tds, macTx'[d].own
                 PROVE  /\ macTx'[d].part.id > 0
                        /\ MacFits(macTx'[d].part, IF d = h THEN WantAir ELSE MacNext(macTx'[RingBefore(d, macTds)].part))
    BY <1>1, <1>2, <1>15 DEF MacTxChain, h
  <2>2. /\ RingBefore(d, macTds) \in Tds /\ macTx'[d].part = macTx[d].part
        /\ macTx'[RingBefore(d, macTds)].part = macTx[RingBefore(d, macTds)].part
    BY <1>1, TdRing
  <2>3. CASE macTx[d].own  BY <1>2, <1>20, <2>2, <2>3 DEF MacTxChain, h
  <2>4. CASE d = MacGiven
    <3>1. macTx[d].part.id = macSend.id /\ macTx[d].part.first  BY <1>3, <1>4, <2>4
    <3>2. WantTx = IF d = h THEN WantAir ELSE MacNext(macTx[RingBefore(d, macTds)].part)
      BY <1>6, <2>4 DEF WantTx, h
    <3>3. WantTx.first /\ WantTx.id = macSend.id  BY <1>1, <1>2, <1>20 DEF MacSendsNext
    <3>. HIDE DEF WantTx
    <3>4. MacFits(macTx[d].part, WantTx)
      <4>1. macTx[d].part.first \in BOOLEAN /\ WantTx.first \in BOOLEAN
        <5>1. macTx[d].part \in MacPart  BY <1>0, MacTypes
        <5>2. WantTx.first \in BOOLEAN  BY <1>2, <1>20, MacWants
        <5>. QED  BY <5>1, <5>2 DEF MacPart
      <4>. QED  BY <3>1, <3>3, <4>1 DEF MacFits
    <3>. QED  BY <1>4, <2>2, <3>1, <3>2, <3>4
  <2>5. CASE ~macTx[d].own /\ d # MacGiven
    <3>1. d = one /\ macSend.filled = {one, two} /\ MacGiven = two  BY <1>1, <1>3, <1>4, <2>1, <2>5
    <3>2. d # h  BY <1>3, <1>8, <3>1
    <3>3. RingBefore(d, macTds) = two  BY <3>1 DEF two
    <3>4. ~macTx[two].part.last /\ macTx[two].part.id = macSend.id /\ macTx[one].part.id = macSend.id /\ ~macTx[one].part.first
      BY <1>3, <1>4, <3>1
    <3>5. MacNext(macTx[two].part).id = macSend.id /\ MacNext(macTx[two].part).first = FALSE  BY <3>4 DEF MacNext
    <3>6. macTx[one].part.first = FALSE
      <4>1. macTx[one].part.first \in BOOLEAN  BY <1>0, <1>3, MacTypes DEF MacPart
      <4>. QED  BY <3>4, <4>1
    <3>. QED  BY <1>4, <2>2, <3>1, <3>2, <3>3, <3>4, <3>5, <3>6 DEF MacFits
  <2>. QED  BY <2>3, <2>4, <2>5
<1>23. MacSendsNext'
  <2>1. WantTx' = MacNext(macTx'[one].part)  BY <1>1, <1>5, <1>9 DEF WantTx, one, h
  <2>2. macTx'[one].part.last /\ macTx'[one].part.id = macSend.id  BY <1>1, <1>3, <1>4
  <2>3. WantTx'.first /\ WantTx'.id = macSend.id + 1  BY <2>1, <2>2 DEF MacNext
  <2>. QED  BY <1>1, <2>3 DEF MacSendsNext
<1>24. MacInOrder'  BY <1>1 DEF MacInOrder, MacInv
<1>. QED  BY <1>10, <1>16, <1>17, <1>18, <1>19, <1>21, <1>22, <1>23, <1>24 DEF MacRest, MacChain
\* What the chains further on see of a change is what has to come next.
LEMMA MacTxAlone ==
  ASSUME MacInv, MacLive, UNCHANGED <<macTx, macSend>>, macHw'.tx = macHw.tx, MacGiven' = MacGiven,
         (macPc' = "fill") = (macPc = "fill"), WantAir'.id = WantAir.id, WantAir'.first = WantAir.first
  PROVE  MacTxChain' /\ MacSendsNext'
<1>1. MacTxChain /\ MacSendsNext  BY DEF MacInv, MacChain
<1>2. MacTxChain'
  <2>1. SUFFICES ASSUME NEW d \in Tds, macTx'[d].own
                 PROVE  /\ macTx[d].part.id > 0
                        /\ MacFits(macTx[d].part, IF d = macHw.tx THEN WantAir' ELSE MacNext(macTx[RingBefore(d, macTds)].part))
    BY DEF MacTxChain
  <2>2. /\ macTx[d].part.id > 0
        /\ MacFits(macTx[d].part, IF d = macHw.tx THEN WantAir ELSE MacNext(macTx[RingBefore(d, macTds)].part))
    BY <1>1, <2>1 DEF MacTxChain
  <2>. QED  BY <2>2 DEF MacFits
<1>3. WantTx'.id = WantTx.id /\ WantTx'.first = WantTx.first  BY DEF WantTx
<1>4. MacSendsNext'  BY <1>1, <1>3 DEF MacSendsNext
<1>. QED  BY <1>2, <1>4

LEMMA MacOwnerGivenKeeps == ASSUME MacInv, GiveOwner PROVE MacRest'
<1>0. MacTyped /\ MacSetUp /\ MacKeeps /\ MacFilling /\ MacTxRing /\ MacRxRing /\ MacShape  BY DEF MacInv, MacShape
<1>1. /\ macPc = "delay" /\ macPc' = "poll"
      /\ \A d \in Rds \ {1} : macRx'[d] = macRx[d]
      /\ macRx'[1].own
      /\ UNCHANGED <<macSend, macTx, macDrv, macCsr, macHw, macAir, macPool>>
  BY <1>0, MacOwnerGiven
<1>2. MacLive /\ MacLive' /\ macDrv.rx \in Rds /\ macHw.rx \in Rds /\ 0 \in Rds /\ 1 \in Rds
  BY <1>0, <1>1, MacLivePlaces, MacTypes DEF MacLive
<1>3. MacKept /\ ~MacKept' /\ macSend.id > 0  BY <1>0, <1>1 DEF MacKept, MacKeeps
<1>4. macDrv.rx = 0 /\ macHw.rx \in {0, 1} /\ (macRx[0].own <=> macHw.rx = 0) /\ ~macRx[1].own
  BY <1>0, <1>3 DEF MacKeeps
<1>5. \A d \in Rds : MacFull(d)' <=> MacFull(d)  BY <1>1, <1>2, <1>3 DEF MacFull
<1>6. MacFull(macDrv.rx)' <=> MacFull(macDrv.rx)
  <2>1. MacFull(0)' <=> MacFull(0)  BY <1>2, <1>5
  <2>. QED  BY <1>1, <1>3, <1>4, <2>1 DEF MacFull
<1>7. ~MacFull(1)  BY <1>3 DEF MacFull
<1>8. MacGiven' = MacGiven  BY <1>1 DEF MacGiven
<1>9. WantPool' = WantPool  BY <1>1 DEF WantPool
<1>10. WantRx' = WantRx
  <2>1. CASE MacFull(macDrv.rx)
    <3>1. MacFull(RingBefore(macHw.rx, macRds)) /\ RingBefore(macHw.rx, macRds) \in Rds
      BY <1>0, <1>2, <2>1, MacNeighbours, RdRing
    <3>2. RingBefore(macHw.rx, macRds) # 1  BY <1>7, <3>1
    <3>. QED  BY <1>1, <1>6, <2>1, <3>1, <3>2 DEF WantRx
  <2>2. CASE ~MacFull(macDrv.rx)  BY <1>6, <1>9, <2>2 DEF WantRx
  <2>. QED  BY <2>1, <2>2
<1>11. WantAir' = WantAir  BY <1>1, <1>10 DEF WantAir
<1>12. MacSetUp'  BY <1>1, <1>2 DEF MacSetUp
<1>13. MacKeeps'  BY <1>1, <1>3 DEF MacKeeps
<1>14. MacFilling'  BY <1>1 DEF MacFilling
<1>15. MacTxRing'  BY <1>0, <1>1, <1>2, <1>8 DEF MacTxRing
<1>16. MacRxRing'  BY <1>0, <1>1, <1>2, <1>5, <1>6 DEF MacRxRing
<1>17. MacRxChain /\ MacAirChain  BY DEF MacInv, MacChain
<1>18. MacRxChain'
  <2>1. SUFFICES ASSUME NEW d \in Rds, MacFull(d)'
                 PROVE  MacFits(macRx'[d].part, IF d = macDrv.rx THEN WantPool ELSE MacNext(macRx'[RingBefore(d, macRds)].part))
    BY <1>1, <1>9 DEF MacRxChain
  <2>2. MacFull(d) /\ d # 1  BY <1>5, <1>7, <2>1
  <2>3. MacFits(macRx[d].part, IF d = macDrv.rx THEN WantPool ELSE MacNext(macRx[RingBefore(d, macRds)].part))
    BY <1>2, <1>17, <2>2 DEF MacRxChain
  <2>4. d # macDrv.rx => RingBefore(d, macRds) \in Rds \ {1}
    BY <1>0, <1>2, <1>7, <2>2, MacNeighbours, RdRing
  <2>. QED  BY <1>1, <2>2, <2>3, <2>4
<1>19. MacAirChain'  BY <1>1, <1>2, <1>10, <1>17 DEF MacAirChain
<1>20. MacTxChain' /\ MacSendsNext'
  <2>1. (macPc' = "fill") = (macPc = "fill")  BY <1>1
  <2>. QED  BY <1>1, <1>2, <1>8, <1>11, <2>1, MacTxAlone
<1>21. MacInOrder'  BY <1>1 DEF MacInOrder, MacInv
<1>. QED  BY <1>12, <1>13, <1>14, <1>15, <1>16, <1>18, <1>19, <1>20, <1>21 DEF MacRest, MacChain

LEMMA MacTakesKeeps == ASSUME MacInv, sMacRecv PROVE MacRest'
<1>. DEFINE r == macDrv.rx
            next == RingAfter(r, macRds)
            h == macHw.rx
            part == macRx[r].part
            G(d) == RingFrom(r, d, macRds)
            N(d) == RingFrom(next, d, macRds)
            X(d) == ~macRx'[d].own
<1>0. MacTyped /\ MacSetUp /\ MacKeeps /\ MacTxRing /\ MacRxRing /\ MacShape  BY DEF MacInv, MacShape
<1>17. MacRxChain /\ MacAirChain  BY DEF MacInv, MacChain
<1>1. /\ macPc = "recv" /\ macPc' = "recv" /\ ~macRx[r].own
      /\ macDrv'.rx = next /\ macDrv'.tx = macDrv.tx
      /\ \A d \in Rds \ {r} : macRx'[d] = macRx[d]
      /\ macRx'[r].own
      /\ macCsr'.rs = (IF macDrv.dead THEN "running" ELSE macCsr.rs)
      /\ UNCHANGED <<macSend, macTx, macHw, macAir>>
  BY <1>0, MacTakes
<1>2. MacLive /\ MacLive' /\ r \in Rds /\ next \in Rds /\ h \in Rds /\ next # r /\ RingBefore(next, macRds) = r
      /\ part.id \in Nat /\ part.first \in BOOLEAN /\ part.last \in BOOLEAN
  <2>1. MacLive /\ MacLive'  BY <1>0, <1>1, MacLivePlaces DEF MacLive
  <2>2. r \in Rds /\ h \in Rds  BY <1>0, MacTypes
  <2>3. part \in MacPart  BY <1>0, <2>2, MacTypes
  <2>. QED  BY <2>1, <2>2, <2>3, RdRing DEF MacPart
<1>3. ~MacKept /\ ~MacKept'  BY <1>1 DEF MacKept
<1>4. MacFull(r) /\ \A d \in Rds : X(d) <=> MacFull(d) /\ d # r  BY <1>1, <1>2, <1>3 DEF MacFull
<1>a. \A d \in Rds : MacFull(d)' <=> X(d)  BY <1>3 DEF MacFull
<1>5. MacFits(part, WantPool)  BY <1>2, <1>4, <1>17 DEF MacRxChain
<1>6. WantPool.id = Len(macPool) + 1 /\ WantPool.first = macDrv.wantFirst  BY DEF WantPool
<1>7. part.id = Len(macPool) + 1 /\ part.first = macDrv.wantFirst  BY <1>5, <1>6 DEF MacFits
<1>8. macPool' = (IF part.last THEN Append(macPool, part.id) ELSE macPool) /\ macDrv'.wantFirst = part.last
  <2>1. ~(~part.first /\ macDrv.wantFirst)  BY <1>7
  <2>. QED  BY <1>0, <2>1, MacTakes
<1>9. macPool \in Seq(Nat)  BY <1>0 DEF MacTyped
<1>10. MacInOrder'
  <2>. HIDE DEF part
  <2>1. CASE part.last
    <3>1. macPool' = Append(macPool, Len(macPool) + 1)  BY <1>7, <1>8, <2>1
    <3>2. \A i \in 1 .. Len(macPool) : macPool[i] = i  BY DEF MacInv, MacInOrder
    <3>. QED  BY <1>9, <3>1, <3>2 DEF MacInOrder
  <2>2. CASE ~part.last  BY <1>8, <2>2 DEF MacInv, MacInOrder
  <2>. QED  BY <2>1, <2>2
<1>11. WantPool'.id = MacNext(part).id /\ WantPool'.first = MacNext(part).first
  <2>1. WantPool'.id = Len(macPool') + 1 /\ WantPool'.first = macDrv'.wantFirst  BY DEF WantPool
  <2>. HIDE DEF part
  <2>2. CASE part.last
    <3>1. Len(macPool') = Len(macPool) + 1  BY <1>2, <1>8, <1>9, <2>2
    <3>2. MacNext(part).id = part.id + 1 /\ MacNext(part).first = TRUE  BY <2>2 DEF MacNext
    <3>3. part.last = TRUE  BY <1>2, <2>2
    <3>. QED  BY <1>7, <1>8, <2>1, <3>1, <3>2, <3>3
  <2>3. CASE ~part.last
    <3>1. MacNext(part).id = part.id /\ MacNext(part).first = FALSE  BY <2>3 DEF MacNext
    <3>2. part.last = FALSE  BY <1>2, <2>3
    <3>. QED  BY <1>7, <1>8, <2>1, <2>3, <3>1, <3>2
  <2>. QED  BY <2>2, <2>3
<1>12. \A d \in Rds : MacFull(d) <=> h = r \/ G(d) < G(h)  BY <1>0, <1>2, <1>4 DEF MacRxRing
<1>13. /\ \A d \in Rds : G(d) \in 0 .. macRds - 1 /\ (G(d) = 0 <=> d = r) /\ N(d) = IF d = r THEN macRds - 1 ELSE G(d) - 1
       /\ \A d, e \in Rds : G(d) = G(e) => d = e
  <2>1. \A d \in Rds : G(d) \in 0 .. macRds - 1 /\ (G(d) = 0 <=> d = r)  BY <1>2, RdCount
  <2>2. \A d \in Rds : N(d) = IF d = r THEN macRds - 1 ELSE G(d) - 1  BY <1>2, RdCount
  <2>3. \A d, e \in Rds : G(d) = G(e) => d = e  BY <1>2, RdCount
  <2>. QED  BY <2>1, <2>2, <2>3
<1>14. /\ \A d \in Rds : X(d) <=> X(next) /\ (h = next \/ N(d) < N(h))
       /\ ~X(next) => h = next
  <2>. HIDE DEF G, N, X, r, h, next
  <2>1. N(next) = 0
    <3>1. N(next) = RingFrom(next, next, macRds)  BY DEF N
    <3>. QED  BY <1>2, <3>1 DEF RingFrom
  <2>2. X(next) <=> h = r \/ 1 < G(h)
    <3>1. G(next) = 1  BY <1>2, <1>13, <2>1
    <3>. QED  BY <1>2, <1>4, <1>12, <3>1
  <2>3. h # next \/ ~X(next)
    <3>1. G(next) = 1  BY <1>2, <1>13, <2>1
    <3>. QED  BY <1>2, <2>2, <3>1
  <2>4. CASE h = r
    <3>1. N(h) = macRds - 1 /\ \A d \in Rds : N(d) < macRds - 1 <=> d # r  BY <1>2, <1>13, <2>4
    <3>. QED  BY <1>2, <1>4, <1>12, <2>2, <2>3, <2>4, <3>1
  <2>5. CASE h # r /\ 1 < G(h)
    <3>1. N(h) = G(h) - 1  BY <1>2, <1>13, <2>5
    <3>2. \A d \in Rds : d # r => (N(d) < N(h) <=> G(d) < G(h))  BY <1>2, <1>13, <2>5, <3>1
    <3>3. ~(N(r) < N(h))  BY <1>2, <1>13, <2>5, <3>1
    <3>. QED  BY <1>2, <1>4, <1>12, <2>2, <2>3, <2>5, <3>2, <3>3
  <2>6. CASE h # r /\ ~(1 < G(h))
    <3>1. G(h) = 1 /\ N(h) = 0 /\ h \in Rds  BY <1>2, <1>13, <2>6
    <3>2. h = next  BY <1>2, <1>13, <2>1, <3>1
    <3>3. \A d \in Rds : ~X(d)  BY <1>2, <1>4, <1>12, <1>13, <2>6, <3>1
    <3>. QED  BY <1>2, <3>2, <3>3
  <2>. QED  BY <2>4, <2>5, <2>6
<1>. HIDE DEF G, N, X
<1>15. MacFull(macDrv.rx)' <=> X(next)  BY <1>1, <1>3 DEF MacFull, X
<1>16. MacRxRing'
  <2>1. macDrv'.rx = next /\ macHw'.rx = h /\ \A d : RingFrom(next, d, macRds) = N(d)  BY <1>1 DEF N
  <2>. HIDE DEF next, h
  <2>. QED  BY <1>a, <1>14, <1>15, <2>1 DEF MacRxRing
<1>18. MacRxChain'
  <2>1. SUFFICES ASSUME NEW d \in Rds, X(d)
                 PROVE  MacFits(macRx'[d].part, IF d = next THEN WantPool' ELSE MacNext(macRx'[RingBefore(d, macRds)].part))
    BY <1>1, <1>a DEF MacRxChain
  <2>2. MacFull(d) /\ d # r /\ macRx'[d] = macRx[d]  BY <1>1, <1>4, <2>1
  <2>3. MacFits(macRx[d].part, MacNext(macRx[RingBefore(d, macRds)].part))  BY <1>2, <1>17, <2>2 DEF MacRxChain
  <2>4. CASE d = next
    <3>1. MacFits(macRx[d].part, MacNext(part))  BY <1>2, <2>3, <2>4
    <3>. QED  BY <1>11, <2>2, <2>4, <3>1 DEF MacFits
  <2>5. CASE d # next
    <3>1. RingBefore(d, macRds) \in Rds /\ RingBefore(d, macRds) # r  BY <1>2, <2>5, RdRing
    <3>. QED  BY <1>1, <2>2, <2>3, <2>5, <3>1
  <2>. QED  BY <2>4, <2>5
<1>19. WantRx'.id = WantRx.id /\ WantRx'.first = WantRx.first
  <2>1. WantRx = MacNext(macRx[RingBefore(h, macRds)].part)  BY <1>4 DEF WantRx
  <2>2. CASE X(next)
    <3>1. h # next
      <4>1. \A d \in Rds : G(d) \in Nat  BY <1>13
      <4>. HIDE DEF h, next, r
      <4>2. N(next) = 0 /\ G(next) = 1
        <5>1. N(next) = RingFrom(next, next, macRds)  BY DEF N
        <5>2. N(next) = 0  BY <1>2, <5>1 DEF RingFrom
        <5>. QED  BY <1>2, <1>13, <5>2
      <4>. QED  BY <1>2, <1>4, <1>12, <2>2, <4>2
    <3>2. RingBefore(h, macRds) \in Rds \ {r}  BY <1>2, <3>1, RdRing
    <3>3. WantRx' = MacNext(macRx'[RingBefore(h, macRds)].part)  BY <1>1, <1>15, <2>2 DEF WantRx
    <3>. QED  BY <1>1, <2>1, <3>2, <3>3
  <2>3. CASE ~X(next)
    <3>1. h = next  BY <1>14, <2>3
    <3>2. WantRx = MacNext(part)  BY <1>2, <2>1, <3>1
    <3>3. WantRx' = WantPool'  BY <1>15, <2>3 DEF WantRx
    <3>. QED  BY <1>11, <3>2, <3>3
  <2>. QED  BY <2>2, <2>3
<1>20. MacAirChain'
  <2>1. SUFFICES ASSUME NEW i \in 1 .. Len(macAir)
                 PROVE  MacFits(macAir[i], IF i = 1 THEN WantRx' ELSE MacNext(macAir[i - 1]))
    BY <1>1 DEF MacAirChain
  <2>2. MacFits(macAir[i], IF i = 1 THEN WantRx ELSE MacNext(macAir[i - 1]))  BY <1>2, <1>17 DEF MacAirChain
  <2>. QED  BY <1>19, <2>2 DEF MacFits
<1>21. WantAir'.id = WantAir.id /\ WantAir'.first = WantAir.first  BY <1>1, <1>19 DEF WantAir
<1>22. MacGiven' = MacGiven  BY <1>1 DEF MacGiven
<1>23. MacTxChain' /\ MacSendsNext'
  <2>1. (macPc' = "fill") = (macPc = "fill")  BY <1>1
  <2>. QED  BY <1>1, <1>2, <1>21, <1>22, <2>1, MacTxAlone
<1>24. MacSetUp'  BY <1>1, <1>2 DEF MacSetUp
<1>25. MacKeeps'  BY <1>0, <1>1, <1>3 DEF MacKeeps
<1>26. MacFilling'  BY <1>1 DEF MacFilling
<1>27. MacTxRing'  BY <1>0, <1>1, <1>2, <1>22 DEF MacTxRing
<1>. QED  BY <1>10, <1>16, <1>18, <1>20, <1>23, <1>24, <1>25, <1>26, <1>27 DEF MacRest, MacChain

LEMMA MacSendsKeeps == ASSUME MacInv, MacTransmits PROVE MacRest'
<1>. DEFINE h == macHw.tx
            next == RingAfter(h, macTds)
            g == MacGiven
            part == macTx[h].part
            F(d) == RingFrom(h, d, macTds)
            N(d) == RingFrom(next, d, macTds)
            X(d) == macTx'[d].own
<1>0. MacTyped /\ MacSetUp /\ MacKeeps /\ MacFilling /\ MacTxRing /\ MacRxRing /\ MacShape  BY DEF MacInv, MacShape
<1>1. /\ UNCHANGED <<macPc, macSend, macRx, macDrv, macPool>>
      /\ macCsr'.rs = macCsr.rs /\ macHw'.rx = macHw.rx
      /\ \/ /\ macTx[h].own /\ ~macTx'[h].own /\ macTx'[h].part = part
            /\ \A e \in Tds \ {h} : macTx'[e] = macTx[e]
            /\ macHw'.tx = next
            /\ macAir' = (IF part = NoPart THEN macAir ELSE Append(macAir, part))
         \/ ~macTx[h].own /\ UNCHANGED <<macTx, macHw, macAir>>
  BY <1>0, MacSends
<1>2. h \in Tds /\ next \in Tds /\ next # h /\ RingBefore(next, macTds) = h  BY <1>0, MacTypes, TdRing
<1>3. MacLive' = MacLive  BY <1>1 DEF MacLive
<1>4. MacKept' = MacKept  BY <1>1 DEF MacKept
<1>5. MacKeeps'  BY <1>0, <1>1, <1>4 DEF MacKeeps
<1>6. MacInOrder'  BY <1>1 DEF MacInOrder, MacInv
<1>7. CASE ~macTx[h].own
  <2>1. MacStill  BY <1>1, <1>7 DEF MacStill, MacRingVars, MacSameDrv
  <2>. QED  BY <2>1, MacStillKeeps
<1>8. CASE macTx[h].own /\ ~MacLive
  <2>1. macPc = "setup"  BY <1>0, <1>2, <1>8 DEF MacSetUp
  <2>2. /\ h \in 0 .. 2 /\ macDrv.tx = 2 /\ (\A d \in Tds : macTx[d].own <=> h <= d /\ d < 2)
        /\ macTx[0].part = NoPart /\ macTx[1].part = NoPart
        /\ macAir = <<>> /\ macPool = <<>> /\ macSend.id = 0
    BY <1>0, <1>8, <2>1 DEF MacSetUp
  <2>3. h \in {0, 1} /\ part = NoPart  BY <1>2, <1>8, <2>2
  <2>4. macAir' = <<>>  BY <1>1, <1>8, <2>2, <2>3
  <2>5. next = h + 1  BY <2>3 DEF RingAfter
  <2>6. \A d \in Tds : macTx'[d].part = macTx[d].part  BY <1>1, <1>8
  <2>7. \A d \in Tds : macTx'[d].own <=> next <= d /\ d < 2
    <3>1. \A d \in Tds : macTx'[d].own <=> macTx[d].own /\ d # h  BY <1>1, <1>8
    <3>2. \A d \in Tds : next <= d /\ d < 2 <=> h <= d /\ d < 2 /\ d # h  BY <1>2, <2>3, <2>5
    <3>. QED  BY <2>2, <3>1, <3>2
  <2>8. macTx'[0].part = NoPart /\ macTx'[1].part = NoPart
    <3>1. 0 \in Tds /\ 1 \in Tds  OBVIOUS
    <3>. QED  BY <2>2, <2>6, <3>1
  <2>9. macHw'.tx = next /\ next \in 0 .. 2  BY <1>1, <1>8, <2>3, <2>5
  <2>. HIDE DEF next, h
  <2>10. MacSetUp'
    <3>1. ~MacLive' /\ macPc' = "setup" /\ macAir' = <<>> /\ macPool' = <<>> /\ macSend'.id = 0 /\ macDrv'.tx = 2
      BY <1>1, <1>3, <1>8, <2>1, <2>2, <2>4
    <3>2. /\ macDrv'.rx = 0 /\ macDrv'.wantFirst /\ macHw'.rx = 0
          /\ \A d \in Rds : macRx'[d].own = ~(macSend'.held /\ d = 1)
      BY <1>0, <1>1, <1>8, <2>1 DEF MacSetUp
    <3>. QED  BY <2>7, <2>8, <2>9, <3>1, <3>2 DEF MacSetUp
  <2>11. MacFilling'  BY <1>1, <2>1 DEF MacFilling
  <2>12. MacTxRing' /\ MacRxRing' /\ MacRxChain' /\ MacAirChain' /\ MacTxChain' /\ MacSendsNext'
    BY <1>3, <1>8 DEF MacTxRing, MacRxRing, MacRxChain, MacAirChain, MacTxChain, MacSendsNext
  <2>. QED  BY <1>5, <1>6, <2>10, <2>11, <2>12 DEF MacRest, MacChain
<1>9. CASE macTx[h].own /\ MacLive
  <2>0. MacRxChain /\ MacAirChain /\ MacTxChain /\ MacSendsNext  BY DEF MacInv, MacChain
  <2>1. part.id > 0 /\ MacFits(part, WantAir)  BY <1>2, <1>9, <2>0 DEF MacTxChain
  <2>2. macAir' = Append(macAir, part)
    <3>1. part # NoPart  BY <2>1 DEF NoPart
    <3>. QED  BY <1>1, <1>9, <3>1
  <2>3. macAir \in Seq(MacPart) /\ part \in MacPart  BY <1>0, <1>2, MacTypes DEF MacTyped
  <2>4. /\ Len(macAir) \in Nat /\ Len(macAir') = Len(macAir) + 1 /\ macAir'[Len(macAir) + 1] = part
        /\ \A i \in 1 .. Len(macAir) : macAir'[i] = macAir[i]
    BY <2>2, <2>3
  <2>5. WantAir' = MacNext(part)
    <3>1. macAir' # <<>>  BY <2>4
    <3>. QED  BY <2>4, <3>1 DEF WantAir
  <2>6. \A d \in Tds : macTx'[d].part = macTx[d].part /\ (X(d) <=> macTx[d].own /\ d # h)  BY <1>1, <1>9
  <2>7. g \in Tds /\ MacGiven' = g  BY <1>0, <1>1, <1>9, MacNeighbours DEF MacGiven
  <2>8. \A d \in Tds : macTx[d].own <=> g = h \/ F(d) < F(g)  BY <1>0, <1>2, <1>9 DEF MacTxRing
  <2>9. /\ \A d \in Tds : F(d) \in 0 .. macTds - 1 /\ (F(d) = 0 <=> d = h) /\ N(d) = IF d = h THEN macTds - 1 ELSE F(d) - 1
        /\ \A d, e \in Tds : F(d) = F(e) => d = e
    <3>1. \A d \in Tds : F(d) \in 0 .. macTds - 1 /\ (F(d) = 0 <=> d = h)  BY <1>2, TdCount
    <3>2. \A d \in Tds : N(d) = IF d = h THEN macTds - 1 ELSE F(d) - 1  BY <1>2, TdCount
    <3>3. \A d, e \in Tds : F(d) = F(e) => d = e  BY <1>2, TdCount
    <3>. QED  BY <3>1, <3>2, <3>3
  <2>10. N(next) = 0
    <3>1. N(next) = RingFrom(next, next, macTds)  BY DEF N
    <3>. HIDE DEF next, N
    <3>. QED  BY <1>2, <3>1 DEF RingFrom
  <2>11. /\ \A d \in Tds : X(d) <=> X(next) /\ (g = next \/ N(d) < N(g))
         /\ X(next) => g # next
         /\ ~X(next) => g = next
    <3>. HIDE DEF F, N, X, h, g, next
    <3>1. F(next) = 1  BY <1>2, <2>9, <2>10
    <3>2. X(next) <=> g = h \/ 1 < F(g)  BY <1>2, <2>6, <2>8, <3>1
    <3>3. g # next \/ ~X(next)  BY <1>2, <3>1, <3>2
    <3>4. CASE g = h
      <4>1. N(g) = macTds - 1 /\ \A d \in Tds : N(d) < macTds - 1 <=> d # h  BY <1>2, <2>9, <3>4
      <4>. QED  BY <1>2, <2>6, <2>8, <3>2, <3>3, <3>4, <4>1
    <3>5. CASE g # h /\ 1 < F(g)
      <4>1. N(g) = F(g) - 1  BY <2>7, <2>9, <3>5
      <4>2. \A d \in Tds : d # h => (N(d) < N(g) <=> F(d) < F(g))  BY <2>7, <2>9, <3>5, <4>1
      <4>3. ~(N(h) < N(g))  BY <1>2, <2>7, <2>9, <3>5, <4>1
      <4>. QED  BY <1>2, <2>6, <2>8, <3>2, <3>3, <3>5, <4>2, <4>3
    <3>6. CASE g # h /\ ~(1 < F(g))
      <4>1. F(g) = 1 /\ N(g) = 0  BY <2>7, <2>9, <3>6
      <4>2. g = next  BY <1>2, <2>7, <2>9, <3>1, <4>1
      <4>3. \A d \in Tds : ~X(d)  BY <1>2, <2>6, <2>8, <2>9, <3>6, <4>1
      <4>. QED  BY <1>2, <4>2, <4>3
    <3>. QED  BY <3>4, <3>5, <3>6
  <2>12. MacTxRing'
    <3>1. macHw'.tx = next /\ \A d : RingFrom(next, d, macTds) = N(d)  BY <1>1, <1>9 DEF N
    <3>2. \A d \in Tds : macTx'[d].own <=> X(d)  BY DEF X
    <3>3. next \in Tds  BY <1>2
    <3>4. \A d \in Tds : macTx'[d].own <=> macTx'[next].own /\ (g = next \/ N(d) < N(g))  BY <2>11, <3>2, <3>3
    <3>. HIDE DEF next, h, g, N, X
    <3>. QED  BY <2>7, <2>11, <3>1, <3>2, <3>3, <3>4 DEF MacTxRing
  <2>. HIDE DEF F, N
  <2>13. MacFull(macDrv.rx)' = MacFull(macDrv.rx) /\ \A d : MacFull(d)' = MacFull(d)  BY <1>1, <1>4 DEF MacFull
  <2>14. WantPool' = WantPool /\ WantRx' = WantRx  BY <1>1, <2>13 DEF WantPool, WantRx
  <2>15. MacSetUp'  BY <1>0, <1>1, <1>3, <1>9 DEF MacSetUp
  <2>16. MacFilling'
    <3>1. \A d \in Tds : \A first, last : MacFilled(d, first, last) => MacFilled(d, first, last)'
      BY <1>1, <2>6 DEF MacFilled
    <3>2. RingBefore(macDrv.tx, macTds) \in Tds /\ RingBefore(RingBefore(macDrv.tx, macTds), macTds) \in Tds
      BY <1>0, MacTypes, TdRing
    <3>3. macDrv' = macDrv /\ macSend' = macSend /\ macPc' = macPc  BY <1>1
    <3>4. SUFFICES ASSUME macPc = "fill" PROVE MacFilling'  BY <3>3 DEF MacFilling
    <3>. DEFINE one == RingBefore(macDrv.tx, macTds)
                two == RingBefore(one, macTds)
    <3>5. /\ macSend.id > 0
          /\ \/ macSend.filled = {} /\ macSend.left > 0
             \/ macSend.filled = {one} /\ macSend.left < 2 /\ MacFilled(one, TRUE, macSend.left = 0)
             \/ macSend.filled = {one, two} /\ macSend.left = 0 /\ MacFilled(two, TRUE, FALSE) /\ MacFilled(one, FALSE, TRUE)
      BY <1>0, <3>4 DEF MacFilling, MacFilled
    <3>6. one' = one /\ two' = two /\ one \in Tds /\ two \in Tds  BY <3>2, <3>3
    <3>. HIDE DEF one, two
    <3>. QED  BY <1>1, <2>6, <3>3, <3>5, <3>6 DEF MacFilling, MacFilled, one, two
  <2>17. MacRxRing'  BY <1>0, <1>1, <1>3, <2>13 DEF MacRxRing
  <2>18. MacRxChain'  BY <1>1, <1>3, <2>0, <2>13, <2>14 DEF MacRxChain
  <2>19. MacAirChain'
    <3>1. SUFFICES ASSUME NEW i \in 1 .. Len(macAir) + 1
                   PROVE  MacFits(macAir'[i], IF i = 1 THEN WantRx ELSE MacNext(macAir'[i - 1]))
      BY <2>4, <2>14 DEF MacAirChain
    <3>2. CASE i <= Len(macAir)
      <4>1. MacFits(macAir[i], IF i = 1 THEN WantRx ELSE MacNext(macAir[i - 1]))  BY <1>9, <2>0, <2>4, <3>2 DEF MacAirChain
      <4>2. macAir'[i] = macAir[i] /\ (i # 1 => macAir'[i - 1] = macAir[i - 1])  BY <2>4, <3>2
      <4>. QED  BY <4>1, <4>2
    <3>3. CASE i = Len(macAir) + 1
      <4>1. WantAir = IF i = 1 THEN WantRx ELSE MacNext(macAir'[i - 1])
        <5>1. macAir = <<>> <=> i = 1  BY <2>3, <2>4, <3>3
        <5>2. i # 1 => macAir'[i - 1] = macAir[Len(macAir)]  BY <2>4, <3>3
        <5>. QED  BY <5>1, <5>2 DEF WantAir
      <4>. QED  BY <2>1, <2>4, <3>3, <4>1
    <3>. QED  BY <2>4, <3>2, <3>3
  <2>20. MacTxChain'
    <3>1. SUFFICES ASSUME NEW d \in Tds, X(d)
                   PROVE  /\ macTx'[d].part.id > 0
                          /\ MacFits(macTx'[d].part, IF d = next THEN WantAir' ELSE MacNext(macTx'[RingBefore(d, macTds)].part))
      BY <1>1, <1>9 DEF MacTxChain
    <3>2. macTx[d].own /\ d # h  BY <2>6, <3>1
    <3>3. macTx[d].part.id > 0 /\ MacFits(macTx[d].part, MacNext(macTx[RingBefore(d, macTds)].part))
      BY <1>9, <2>0, <3>2 DEF MacTxChain
    <3>4. RingBefore(d, macTds) \in Tds  BY TdRing
    <3>. HIDE DEF X
    <3>5. CASE d = next  BY <1>2, <2>5, <2>6, <3>3, <3>5
    <3>6. CASE d # next  BY <2>6, <3>3, <3>4, <3>6
    <3>. QED  BY <3>5, <3>6
  <2>21. MacSendsNext'
    <3>1. WantTx = MacNext(macTx[RingBefore(g, macTds)].part) /\ RingBefore(g, macTds) \in Tds
      BY <1>9, <2>7, TdRing DEF WantTx
    <3>2. CASE X(next)
      <4>1. WantTx' = MacNext(macTx'[RingBefore(g, macTds)].part)
        <5>1. macTx'[macHw'.tx].own  BY <1>1, <1>9, <3>2
        <5>. HIDE DEF g
        <5>. QED  BY <2>7, <5>1 DEF WantTx
      <4>. QED  BY <1>1, <1>3, <1>9, <2>0, <2>6, <3>1, <4>1 DEF MacSendsNext
    <3>3. CASE ~X(next)
      <4>1. g = next  BY <2>11, <3>3
      <4>2. WantTx' = WantAir'  BY <1>1, <1>9, <3>3 DEF WantTx
      <4>3. WantTx' = WantTx  BY <1>2, <2>5, <3>1, <4>1, <4>2
      <4>. QED  BY <1>1, <1>3, <1>9, <2>0, <4>3 DEF MacSendsNext
    <3>. QED  BY <3>2, <3>3
  <2>. QED  BY <1>5, <1>6, <2>12, <2>15, <2>16, <2>17, <2>18, <2>19, <2>20, <2>21 DEF MacRest, MacChain
<1>. QED  BY <1>7, <1>8, <1>9

LEMMA MacStoresKeeps == ASSUME MacInv, MacReceives PROVE MacRest'
<1>. DEFINE r == macDrv.rx
            h == macHw.rx
            next == RingAfter(h, macRds)
            head == Head(macAir)
            F(d) == RingFrom(r, d, macRds)
            X(d) == MacFull(d) \/ d = h
<1>0. MacTyped /\ MacSetUp /\ MacKeeps /\ MacFilling /\ MacTxRing /\ MacRxRing /\ MacShape  BY DEF MacInv, MacShape
<1>a. MacRxChain /\ MacAirChain  BY DEF MacInv, MacChain
<1>1. /\ UNCHANGED <<macPc, macSend, macTx, macDrv, macPool>>
      /\ macCsr.rs = "running" /\ macCsr'.rs \in {"running", "suspended"} /\ macAir # <<>>
      /\ macRx[h].own /\ ~macRx'[h].own /\ macRx'[h].part = head
      /\ \A e \in Rds \ {h} : macRx'[e] = macRx[e]
      /\ macHw'.rx = next /\ macHw'.tx = macHw.tx
      /\ macAir' = Tail(macAir)
  BY <1>0, MacStores
<1>2. /\ r \in Rds /\ h \in Rds /\ next \in Rds /\ next # h /\ RingBefore(next, macRds) = h
      /\ MacLive /\ MacLive'
  BY <1>0, <1>1, MacTypes, RdRing DEF MacLive
<1>3. MacKept' <=> MacKept  BY <1>1 DEF MacKept
<1>4. MacKept => r = 0 /\ h = 0 /\ next = 1 /\ ~macRx[1].own
  <2>1. MacKept => r = 0 /\ h \in {0, 1} /\ ~macRx[1].own  BY <1>0 DEF MacKeeps
  <2>2. h = 0 => next = 1  BY DEF RingAfter
  <2>. QED  BY <1>1, <2>1, <2>2
<1>5. MacKeeps'
  <2>1. ASSUME MacKept PROVE macDrv'.rx = 0 /\ macHw'.rx = 1 /\ ~macRx'[0].own /\ ~macRx'[1].own
    <3>1. 0 \in Rds /\ 1 \in Rds  OBVIOUS
    <3>2. macRx'[1] = macRx[1]  BY <1>1, <1>4, <2>1, <3>1
    <3>. QED  BY <1>1, <1>4, <2>1, <3>2
  <2>. QED  BY <1>0, <1>1, <1>3, <2>1 DEF MacKeeps
<1>6. \A d \in Rds : MacFull(d)' <=> X(d)
  <2>1. ASSUME NEW d \in Rds PROVE MacFull(d)' <=> X(d)
    <3>1. CASE d = h  BY <1>1, <1>3, <1>4, <3>1 DEF MacFull
    <3>2. CASE d # h  BY <1>1, <1>3, <2>1, <3>2 DEF MacFull
    <3>. QED  BY <3>1, <3>2
  <2>. QED  BY <2>1
<1>7. ~MacFull(h)  BY <1>1 DEF MacFull
<1>8. /\ \A d \in Rds : F(d) \in 0 .. macRds - 1 /\ (F(d) = 0 <=> d = r)
      /\ IF next = r THEN F(h) = macRds - 1 ELSE F(next) = F(h) + 1
      /\ \A d, e \in Rds : F(d) = F(e) => d = e
  <2>1. \A d \in Rds : F(d) \in 0 .. macRds - 1 /\ (F(d) = 0 <=> d = r)  BY <1>2, RdCount
  <2>2. IF next = r THEN F(h) = macRds - 1 ELSE F(h) = F(next) - 1
    <3>1. F(RingBefore(r, macRds)) = macRds - 1  BY <1>2, RdCount
    <3>2. next # r => F(RingBefore(next, macRds)) = F(next) - 1  BY <1>2, RdCount
    <3>. HIDE DEF F, next, r
    <3>. QED  BY <1>2, <3>1, <3>2
  <2>3. \A d, e \in Rds : F(d) = F(e) => d = e  BY <1>2, RdCount
  <2>. HIDE DEF F, next
  <2>. QED  BY <1>2, <2>1, <2>2, <2>3
<1>9. /\ MacFull(r) <=> h # r
      /\ \A d \in Rds : MacFull(d) <=> F(d) < F(h)
  <2>1. /\ \A d \in Rds : MacFull(d) <=> MacFull(r) /\ (h = r \/ F(d) < F(h))
        /\ ~MacFull(r) => h = r
    BY <1>0, <1>2 DEF MacRxRing
  <2>. HIDE DEF F, r, h
  <2>. QED  BY <1>2, <1>7, <1>8, <2>1
<1>10. X(r) /\ \A d \in Rds : X(d) <=> next = r \/ F(d) < F(next)
  <2>. HIDE DEF F, r, h, next
  <2>1. X(r)  BY <1>2, <1>9
  <2>2. \A d \in Rds : X(d) <=> F(d) <= F(h)  BY <1>2, <1>8, <1>9
  <2>3. CASE next = r  BY <1>2, <1>8, <2>1, <2>2, <2>3
  <2>4. CASE next # r  BY <1>2, <1>8, <2>1, <2>2, <2>4
  <2>. QED  BY <2>3, <2>4
<1>11. MacFull(macDrv.rx)'
  <2>1. X(r) => (~macRx'[r].own /\ ~(MacKept' /\ r = 1))
    <3>1. CASE r = h  BY <1>1, <1>3, <1>4, <3>1
    <3>2. CASE r # h  BY <1>1, <1>2, <1>3, <3>2 DEF MacFull
    <3>. QED  BY <3>1, <3>2
  <2>. QED  BY <1>1, <1>10, <2>1 DEF MacFull
<1>12. MacRxRing'
  <2>1. macDrv'.rx = r /\ macHw'.rx = next /\ \A d : RingFrom(r, d, macRds) = F(d)  BY <1>1
  <2>. HIDE DEF r, next, F, X
  <2>. QED  BY <1>6, <1>10, <1>11, <2>1 DEF MacRxRing
<1>13. macAir \in Seq(MacPart) /\ Len(macAir) \in Nat \ {0} /\ head = macAir[1]
  <2>1. macAir \in Seq(MacPart)  BY <1>0 DEF MacTyped
  <2>. QED  BY <1>1, <2>1
<1>14. Len(macAir') = Len(macAir) - 1 /\ \A i \in 1 .. Len(macAir) - 1 : macAir'[i] = macAir[i + 1]
  BY <1>1, <1>13
<1>15. WantRx' = MacNext(head)  BY <1>1, <1>2, <1>11 DEF WantRx
<1>16. WantPool' = WantPool  BY <1>1 DEF WantPool
<1>17. \A i \in 1 .. Len(macAir) : MacFits(macAir[i], IF i = 1 THEN WantRx ELSE MacNext(macAir[i - 1]))
  BY <1>2, <1>a DEF MacAirChain
<1>18. WantAir' = WantAir
  <2>1. WantAir = MacNext(macAir[Len(macAir)])  BY <1>1 DEF WantAir
  <2>2. CASE Len(macAir) = 1
    <3>1. macAir' = <<>>  BY <1>1, <1>13, <2>2
    <3>. QED  BY <1>13, <1>15, <2>1, <2>2, <3>1 DEF WantAir
  <2>3. CASE Len(macAir) # 1
    <3>1. Len(macAir') # 0 /\ macAir'[Len(macAir')] = macAir[Len(macAir)]  BY <1>13, <1>14, <2>3
    <3>2. macAir' # <<>>  BY <3>1
    <3>. QED  BY <2>1, <3>1, <3>2 DEF WantAir
  <2>. QED  BY <2>2, <2>3
<1>19. MacAirChain'
  <2>1. SUFFICES ASSUME NEW i \in 1 .. Len(macAir) - 1
                 PROVE  MacFits(macAir'[i], IF i = 1 THEN MacNext(head) ELSE MacNext(macAir'[i - 1]))
    BY <1>14, <1>15 DEF MacAirChain
  <2>2. i + 1 \in 1 .. Len(macAir) /\ i + 1 # 1 /\ (i + 1) - 1 = i  BY <1>13
  <2>3. MacFits(macAir[i + 1], MacNext(macAir[i]))  BY <1>17, <2>2
  <2>4. i # 1 => macAir'[i - 1] = macAir[i]
    <3>1. i # 1 => i - 1 \in 1 .. Len(macAir) - 1 /\ (i - 1) + 1 = i  BY <1>13
    <3>. QED  BY <1>14, <3>1
  <2>. QED  BY <1>13, <1>14, <2>3, <2>4
<1>20. MacRxChain'
  <2>1. SUFFICES ASSUME NEW d \in Rds, X(d)
                 PROVE  MacFits(macRx'[d].part, IF d = r THEN WantPool ELSE MacNext(macRx'[RingBefore(d, macRds)].part))
    BY <1>1, <1>6, <1>16 DEF MacRxChain
  <2>2. CASE d = h
    <3>1. MacFits(head, WantRx)
      <4>1. 1 \in 1 .. Len(macAir)  BY <1>13
      <4>. QED  BY <1>13, <1>17, <4>1
    <3>2. CASE h = r
      <4>1. WantRx = WantPool  BY <1>9, <3>2 DEF WantRx
      <4>. QED  BY <1>1, <2>2, <3>1, <3>2, <4>1
    <3>3. CASE h # r
      <4>1. WantRx = MacNext(macRx[RingBefore(h, macRds)].part)  BY <1>9, <3>3 DEF WantRx
      <4>2. RingBefore(h, macRds) \in Rds \ {h}  BY <1>2, RdRing
      <4>3. macRx'[RingBefore(h, macRds)] = macRx[RingBefore(h, macRds)]  BY <1>1, <4>2
      <4>. QED  BY <1>1, <2>2, <3>1, <3>3, <4>1, <4>3
    <3>. QED  BY <3>2, <3>3
  <2>3. CASE d # h
    <3>1. MacFull(d) /\ macRx'[d] = macRx[d]  BY <1>1, <2>1, <2>3
    <3>2. MacFits(macRx[d].part, IF d = r THEN WantPool ELSE MacNext(macRx[RingBefore(d, macRds)].part))
      BY <1>2, <1>a, <3>1 DEF MacRxChain
    <3>3. CASE d = r  BY <3>1, <3>2, <3>3
    <3>4. CASE d # r
      <4>1. MacFull(RingBefore(d, macRds)) /\ RingBefore(d, macRds) \in Rds
        BY <1>0, <1>2, <3>1, <3>4, MacNeighbours, RdRing
      <4>2. RingBefore(d, macRds) # h  BY <1>7, <4>1
      <4>3. macRx'[RingBefore(d, macRds)] = macRx[RingBefore(d, macRds)]  BY <1>1, <4>1, <4>2
      <4>. QED  BY <3>1, <3>2, <3>4, <4>3
    <3>. QED  BY <3>3, <3>4
  <2>. QED  BY <2>2, <2>3
<1>21. MacGiven' = MacGiven  BY <1>1 DEF MacGiven
<1>22. MacTxChain' /\ MacSendsNext'
  <2>1. (macPc' = "fill") = (macPc = "fill")  BY <1>1
  <2>2. WantAir'.id = WantAir.id /\ WantAir'.first = WantAir.first  BY <1>18
  <2>. QED  BY <1>1, <1>2, <1>21, <2>1, <2>2, MacTxAlone
<1>23. MacSetUp'  BY <1>0, <1>1, <1>2 DEF MacSetUp
<1>24. MacFilling'  BY <1>0, <1>1 DEF MacFilling, MacFilled
<1>25. MacTxRing'  BY <1>0, <1>1, <1>2, <1>21 DEF MacTxRing
<1>26. MacInOrder'  BY <1>1 DEF MacInOrder, MacInv
<1>. QED  BY <1>5, <1>12, <1>19, <1>20, <1>22, <1>23, <1>24, <1>25, <1>26 DEF MacRest, MacChain

(* So they hold of every behaviour.                                        *)
LEMMA MacBegun == \A pc \in {"off", "idle"} : MacStart(pc) => MacInv
<1>. SUFFICES ASSUME NEW pc \in {"off", "idle"}, MacStart(pc) PROVE MacInv  OBVIOUS
<1>1. /\ macPc = pc /\ macSend = [id |-> 0, left |-> 0, filled |-> {}, held |-> FALSE]
      /\ macTx = [d \in Tds |-> Ours] /\ macRx = [d \in Rds |-> Ours]
      /\ macDrv = [rx |-> 0, tx |-> 0, di |-> 0, rxS |-> FALSE, txS |-> FALSE, dead |-> FALSE, wantFirst |-> TRUE]
      /\ macCsr = [stat |-> {}, mask |-> FALSE, rs |-> "stopped", ts |-> "suspended"]
      /\ macHw = [rx |-> 0, tx |-> 0] /\ macAir = <<>> /\ macPool = <<>>
  BY DEF MacStart
<1>2. 0 \in Rds /\ 0 \in Tds  OBVIOUS
<1>3. Ours \in MacDescriptor  BY DEF Ours, NoPart, MacDescriptor, MacPart
<1>4. MacTyped
  <2>1. macSend \in MacSendType  BY <1>1 DEF MacSendType
  <2>2. macTx \in [Tds -> MacDescriptor] /\ macRx \in [Rds -> MacDescriptor]  BY <1>1, <1>3
  <2>3. macDrv \in MacDrvType  BY <1>1, <1>2 DEF MacDrvType
  <2>4. macCsr \in MacCsrType  BY <1>1 DEF MacCsrType
  <2>5. macHw \in [rx : Rds, tx : Tds]  BY <1>1, <1>2
  <2>6. macAir \in Seq(MacPart) /\ macPool \in Seq(Nat)
    <3>1. macAir = <<>> /\ macPool = <<>>  BY <1>1
    <3>. QED  BY <3>1
  <2>7. macPc \in {"off", "idle"}  BY <1>1
  <2>. QED  BY <2>1, <2>2, <2>3, <2>4, <2>5, <2>6, <2>7 DEF MacTyped
<1>5. ~MacLive  BY <1>1 DEF MacLive
<1>6. MacSetUp
  <2>1. \A d \in Tds : ~macTx[d].own  BY <1>1 DEF Ours
  <2>. QED  BY <1>1, <1>5, <2>1 DEF MacSetUp
<1>7. MacKeeps /\ MacFilling  BY <1>1 DEF MacKeeps, MacKept, MacFilling
<1>8. MacTxRing /\ MacRxRing /\ MacRxChain /\ MacAirChain /\ MacTxChain /\ MacSendsNext
  BY <1>5 DEF MacTxRing, MacRxRing, MacRxChain, MacAirChain, MacTxChain, MacSendsNext
<1>9. MacInOrder  BY <1>1 DEF MacInOrder
<1>. QED  BY <1>4, <1>6, <1>7, <1>8, <1>9 DEF MacInv, MacShape, MacChain

LEMMA MacSteps == ASSUME MacInv, MacStep PROVE MacInv'
<1>0. MacTyped /\ MacShape  BY DEF MacInv, MacShape
<1>1. MacTyped'  BY <1>0, MacTypedStep
<1>2. MacRest'
  <2>1. CASE sMacInit \/ sMacFltrFrmXmit \/ FilterSet  BY <1>1, <2>1, MacBegins
  <2>2. CASE SendWaits \/ PollRx \/ RingEmpty \/ sMacRxSchedule \/ MacTestPolling \/ RxWaitTimeout \/ sMacInt
    BY <1>0, <2>2, MacStillSteps, MacStillKeeps
  <2>3. CASE MacTestPrepareTx  BY <2>3, MacPreparesKeeps
  <2>4. CASE SendFills  BY <2>4, MacFillsKeeps
  <2>5. CASE SendGives  BY <2>5, MacGivesKeeps
  <2>6. CASE GiveOwner  BY <2>6, MacOwnerGivenKeeps
  <2>7. CASE sMacRecv  BY <2>7, MacTakesKeeps
  <2>8. CASE MacTransmits  BY <2>8, MacSendsKeeps
  <2>9. CASE MacReceives  BY <2>9, MacStoresKeeps
  <2>. QED  BY <2>1, <2>2, <2>3, <2>4, <2>5, <2>6, <2>7, <2>8, <2>9 DEF MacStep, MacProgram
<1>. QED  BY <1>1, <1>2 DEF MacInv, MacShape, MacRest, MacChain

LEMMA MacStays == ASSUME MacInv, UNCHANGED macVars PROVE MacInv'
<1>0. UNCHANGED <<macPc, macSend, macTx, macRx, macDrv, macCsr, macHw, macAir, macPool>>  BY DEF macVars
<1>1. MacStill  BY <1>0 DEF MacStill, MacRingVars, MacSameDrv
<1>2. MacRest'  BY <1>1, MacStillKeeps
<1>3. MacTyped'  BY <1>0 DEF MacInv, MacShape, MacTyped
<1>. QED  BY <1>2, <1>3 DEF MacInv, MacShape, MacRest, MacChain

LEMMA MacInvariant == SerialSpec => []MacInv
<1>1. SerialInit => MacInv  BY MacBegun DEF SerialInit
<1>2. MacInv /\ [SerialNext]_serialVars => MacInv'
  <2>. SUFFICES ASSUME MacInv, [SerialNext]_serialVars PROVE MacInv'  OBVIOUS
  <2>1. MacStep \/ UNCHANGED macVars  BY DEF SerialNext, UartOn, UdOn, MacOn, MtOn, serialVars
  <2>. QED  BY <2>1, MacSteps, MacStays
<1>. QED  BY <1>1, <1>2, PTL DEF SerialSpec

(* The frames that the main program hands over are those it sent, each     *)
(* once, whole and in order, whatever the sizes of the two rings and the   *)
(* number of frames.                                                       *)
THEOREM FramesInOrder == SerialSpec => []MacInOrder
<1>1. MacInv => MacInOrder  BY DEF MacInv
<1>. QED  BY <1>1, MacInvariant, PTL

-----------------------------------------------------------------------------
(* The frames that were received are all taken.                            *)
-----------------------------------------------------------------------------
LEMMA MacSameWaiting ==
  ASSUME MacKept' = MacKept, macRx' = macRx, macHw'.rx = macHw.rx, macDrv'.rx = macDrv.rx, macCsr'.rs = macCsr.rs
  PROVE  MacWaiting' = MacWaiting
<1>1. MacFull(macDrv.rx)' = MacFull(macDrv.rx)  BY DEF MacFull
<1>. QED  BY <1>1 DEF MacWaiting, MacLive

LEMMA MacStillNotes ==
  ASSUME MacInv, MacNotice, SendWaits \/ PollRx \/ RingEmpty \/ sMacRxSchedule \/ MacTestPolling \/ RxWaitTimeout \/ sMacInt
  PROVE  MacNotice'
<1>. USE DEF MacMain
<1>0. MacTyped /\ MacSetUp /\ MacKeeps  BY DEF MacInv, MacShape
<1>a. macDrv \in MacDrvType /\ macCsr \in MacCsrType  BY <1>0 DEF MacTyped
<1>1. MacStill  BY <1>0, MacStillSteps
<1>2. MacKept' = MacKept  BY <1>0, <1>1 DEF MacKept, MacKeeps, MacStill, MacRingVars
<1>3. /\ macTx' = macTx /\ macRx' = macRx /\ macHw' = macHw /\ macDrv'.rx = macDrv.rx /\ macCsr'.rs = macCsr.rs
  BY <1>1 DEF MacStill, MacRingVars, MacSameDrv
<1>4. MacWaiting' = MacWaiting /\ MacLive' = MacLive  BY <1>2, <1>3, MacSameWaiting DEF MacLive
<1>5. macCsr'.mask = macCsr.mask /\ macCsr'.ts = macCsr.ts
  <2>1. CASE sMacInt  BY <1>a, <2>1 DEF sMacInt, MacCsrType
  <2>2. CASE ~sMacInt
    <3>1. macCsr' = macCsr
      BY <2>2 DEF SendWaits, PollRx, RingEmpty, sMacRxSchedule, MacTestPolling, RxWaitTimeout
    <3>. QED  BY <3>1
  <2>. QED  BY <2>1, <2>2
<1>6. macPc' = "empty" => macRx'[macDrv'.rx].own
  <2>1. CASE RingEmpty  BY <2>1 DEF RingEmpty, sMacGetFullRMD
  <2>2. CASE ~RingEmpty
    <3>1. macPc' = "empty" => macPc = "empty"
      BY <2>2 DEF SendWaits, PollRx, sMacRxSchedule, MacTestPolling, RxWaitTimeout, sMacInt
    <3>. QED  BY <1>3, <3>1 DEF MacNotice
  <2>. QED  BY <2>1, <2>2
<1>7. MacWaiting' => MacNoted'
  <2>1. CASE sMacRxSchedule
    <3>1. macRx[macDrv.rx].own  BY <2>1 DEF MacNotice, sMacRxSchedule
    <3>. QED  BY <1>4, <3>1 DEF MacWaiting, MacFull
  <2>2. CASE sMacInt
    <3>1. macDrv'.rxS = (macDrv.rxS \/ macCsr.stat \cap {"RI", "RU"} # {})
      BY <1>a, <2>2 DEF sMacInt, IntRx, MacDrvType
    <3>. QED  BY <1>4, <3>1 DEF MacNotice, MacNoted
  <2>3. CASE ~sMacRxSchedule /\ ~sMacInt
    <3>1. macCsr' = macCsr
      BY <2>3 DEF SendWaits, PollRx, RingEmpty, MacTestPolling, RxWaitTimeout
    <3>2. macDrv'.rxS = macDrv.rxS
      <4>1. CASE SendWaits  BY <1>a, <4>1 DEF SendWaits, sMacTxRingClean, MacDrvType
      <4>2. CASE PollRx \/ RingEmpty \/ RxWaitTimeout  BY <4>2 DEF PollRx, RingEmpty, RxWaitTimeout
      <4>3. CASE MacTestPolling
        <5>1. macDrv' = [macDrv EXCEPT !.di = Disposed, !.txS = FALSE] \/ macDrv' = macDrv  BY <4>3 DEF MacTestPolling
        <5>. QED  BY <1>a, <5>1 DEF MacDrvType
      <4>. QED  BY <2>3, <4>1, <4>2, <4>3
    <3>. QED  BY <1>4, <3>1, <3>2 DEF MacNotice, MacNoted
  <2>. QED  BY <2>1, <2>2, <2>3
<1>. QED  BY <1>3, <1>4, <1>5, <1>6, <1>7 DEF MacNotice

LEMMA MacProgramNotes ==
  ASSUME MacInv, MacNotice, sMacInit \/ sMacFltrFrmXmit \/ FilterSet \/ MacTestPrepareTx \/ SendFills \/ SendGives
  PROVE  MacNotice'
<1>. USE DEF MacMain
<1>0. MacTyped /\ MacSetUp /\ MacKeeps /\ MacShape  BY DEF MacInv, MacShape
<1>a. macDrv \in MacDrvType /\ macCsr \in MacCsrType /\ macHw.tx \in Tds  BY <1>0, MacTypes DEF MacTyped
<1>1. CASE sMacInit
  <2>1. macCsr'.rs = "stopped" /\ macPc' = "filter" /\ \A d \in Tds : ~macTx'[d].own
    BY <1>1 DEF sMacInit, Init_Tx_Des, Ours
  <2>2. macHw'.tx \in Tds  BY <1>1 DEF sMacInit
  <2>. QED  BY <2>1, <2>2 DEF MacNotice, MacWaiting, MacLive
<1>2. CASE sMacFltrFrmXmit
  <2>1. macPc = "filter" /\ macPc' = "setup"  BY <1>2 DEF sMacFltrFrmXmit
  <2>2. ~MacLive  BY <1>0, <2>1 DEF MacSetUp
  <2>3. macCsr'.rs = macCsr.rs /\ macCsr'.ts = "running"  BY <1>a, <1>2 DEF sMacFltrFrmXmit, MacCsrType
  <2>. QED  BY <2>1, <2>2, <2>3 DEF MacNotice, MacWaiting, MacLive
<1>3. CASE FilterSet
  <2>1. macPc = "setup" /\ macPc' = "send" /\ UNCHANGED <<macSend, macTx, macRx, macDrv, macHw>>
    BY <1>3 DEF FilterSet
  <2>2. ~MacLive  BY <1>0, <2>1 DEF MacSetUp
  <2>3. macCsr'.mask /\ macCsr'.ts = macCsr.ts  BY <1>a, <1>3 DEF FilterSet, MacCsrType
  <2>4. ~MacFull(macDrv.rx)'
    <3>1. macDrv.rx = 0 /\ macSend.id = 0 /\ \A d \in Rds : macRx[d].own = ~(macSend.held /\ d = 1)
      BY <1>0, <2>1, <2>2 DEF MacSetUp
    <3>2. ~(macSend.held /\ 0 = 1) /\ 0 \in Rds  OBVIOUS
    <3>3. macRx[0].own  BY <3>1, <3>2
    <3>. QED  BY <2>1, <3>1, <3>3 DEF MacFull
  <2>. QED  BY <2>1, <2>3, <2>4 DEF MacNotice, MacWaiting
<1>4. CASE MacTestPrepareTx
  <2>1. /\ macPc = "send" /\ macPc' = "fill" /\ macSend'.id = macSend.id + 1 /\ macSend'.held = macSend.held
        /\ UNCHANGED <<macTx, macRx, macDrv, macCsr, macHw>>
    BY <1>0, <1>4, MacPrepares
  <2>2. MacKept' = MacKept
    <3>1. macSend.id \in Nat  BY <1>0, MacTypes
    <3>. QED  BY <2>1, <3>1 DEF MacKept
  <2>3. MacWaiting' = MacWaiting  BY <2>1, <2>2, MacSameWaiting
  <2>. QED  BY <2>1, <2>3 DEF MacNotice, MacLive, MacNoted
<1>5. CASE SendFills
  <2>1. /\ macPc = "fill" /\ macPc' = "fill" /\ macSend'.id = macSend.id /\ macSend'.held = macSend.held
        /\ \A d \in Tds \ {macDrv.tx} : macTx'[d] = macTx[d]
        /\ ~macTx'[macDrv.tx].own /\ macDrv'.rx = macDrv.rx
        /\ UNCHANGED <<macRx, macCsr, macHw>>
    BY <1>0, <1>5, MacFills
  <2>2. macDrv'.rxS = macDrv.rxS  BY <1>a, <1>5 DEF SendFills, MacDrvType
  <2>3. MacKept' = MacKept  BY <2>1 DEF MacKept
  <2>4. MacWaiting' = MacWaiting  BY <2>1, <2>3, MacSameWaiting
  <2>5. ~macTx[macHw.tx].own => ~macTx'[macHw'.tx].own  BY <1>a, <2>1
  <2>. QED  BY <2>1, <2>2, <2>4, <2>5 DEF MacNotice, MacLive, MacNoted
<1>6. CASE SendGives
  <2>1. /\ macPc = "fill" /\ macPc' \in {"delay", "poll"} /\ macCsr'.rs = macCsr.rs /\ macCsr'.ts = "running"
        /\ macPc' = (IF macSend.held /\ macSend.id = 1 THEN "delay" ELSE "poll")
        /\ UNCHANGED <<macSend, macRx, macDrv, macHw>>
    BY <1>0, <1>6, MacGives
  <2>2. macCsr'.mask = macCsr.mask /\ macCsr'.stat = macCsr.stat  BY <1>a, <1>6 DEF SendGives, MacCsrType
  <2>3. MacKept' = MacKept  BY <2>1 DEF MacKept
  <2>4. MacWaiting' = MacWaiting  BY <2>1, <2>3, MacSameWaiting
  <2>. QED  BY <2>1, <2>2, <2>4 DEF MacNotice, MacLive, MacNoted
<1>. QED  BY <1>1, <1>2, <1>3, <1>4, <1>5, <1>6

LEMMA MacRingNotes ==
  ASSUME ~macLate, MacInv, MacNotice, GiveOwner \/ sMacRecv \/ MacTransmits \/ MacReceives
  PROVE  MacNotice'
<1>0. MacTyped /\ MacSetUp /\ MacKeeps /\ MacShape /\ MacTxRing /\ MacRxRing  BY DEF MacInv, MacShape
<1>a. /\ macDrv.rx \in Rds /\ macHw.rx \in Rds /\ macHw.tx \in Tds /\ RingBefore(macHw.rx, macRds) \in Rds
      /\ RingAfter(macHw.tx, macTds) \in Tds
  BY <1>0, MacTypes, RdRing, TdRing
<1>1. CASE GiveOwner
  <2>1. /\ macPc = "delay" /\ macPc' = "poll" /\ \A d \in Rds \ {1} : macRx'[d] = macRx[d]
        /\ UNCHANGED <<macTx, macDrv, macCsr, macHw>>
    BY <1>0, <1>1, MacOwnerGiven
  <2>2. MacLive  BY <1>0, <2>1, MacLivePlaces
  <2>3. MacKept /\ macDrv.rx = 0 /\ ~MacFull(1)
    <3>1. MacKept  BY <1>0, <2>1 DEF MacKept, MacKeeps
    <3>. QED  BY <1>0, <3>1 DEF MacKeeps, MacFull
  <2>4. MacWaiting' => MacWaiting
    <3>1. SUFFICES ASSUME MacWaiting' PROVE MacWaiting  OBVIOUS
    <3>2. ~macRx'[0].own /\ macRx'[0] = macRx[0]
      <4>1. 0 \in Rds \ {1}  OBVIOUS
      <4>. QED  BY <2>1, <2>3, <3>1, <4>1 DEF MacWaiting, MacFull
    <3>3. MacFull(macDrv.rx)  BY <2>3, <3>2 DEF MacFull
    <3>4. RingBefore(macHw.rx, macRds) # 1  BY <1>0, <2>2, <2>3, <3>3, MacNeighbours
    <3>. QED  BY <1>a, <2>1, <2>2, <3>1, <3>3, <3>4 DEF MacWaiting
  <2>. QED  BY <2>1, <2>4 DEF MacNotice, MacLive, MacNoted
<1>2. CASE sMacRecv
  <2>. DEFINE r == macDrv.rx
              next == RingAfter(r, macRds)
              h == macHw.rx
  <2>1. /\ macPc = "recv" /\ macPc' = "recv" /\ ~macRx[r].own
        /\ macDrv'.rx = next /\ macDrv'.rxS = macDrv.rxS
        /\ \A d \in Rds \ {r} : macRx'[d] = macRx[d]
        /\ macRx'[r].own
        /\ macCsr'.rs = (IF macDrv.dead THEN "running" ELSE macCsr.rs)
        /\ macCsr'.ts = macCsr.ts /\ macCsr'.mask = macCsr.mask /\ macCsr'.stat = macCsr.stat
        /\ UNCHANGED <<macTx, macHw>>
    BY <1>0, <1>2, MacTakes
  <2>2. MacLive  BY <1>0, <2>1, MacLivePlaces
  <2>3. MacFull(r)  BY <2>1 DEF MacFull, MacKept
  <2>4. MacWaiting' => MacWaiting
    <3>1. SUFFICES ASSUME MacWaiting' PROVE MacWaiting  OBVIOUS
    <3>2. CASE macCsr'.rs = "suspended"
      <4>1. macCsr.rs = "suspended"  BY <2>1, <3>2
      <4>. QED  BY <2>2, <2>3, <4>1 DEF MacWaiting
    <3>3. CASE macCsr'.rs # "suspended"
      <4>1. macRx'[RingBefore(h, macRds)].part.last  BY <2>1, <3>1, <3>3 DEF MacWaiting
      <4>2. ~macRx'[next].own /\ next # r /\ next \in Rds  BY <1>a, <2>1, <3>1, RdRing DEF MacWaiting, MacFull
      <4>3. MacFull(next)  BY <2>1, <4>2 DEF MacFull, MacKept
      <4>4. h # next
        <5>1. \A d \in Rds : MacFull(d) <=> (h = r \/ RingFrom(r, d, macRds) < RingFrom(r, h, macRds))
          BY <1>0, <2>2, <2>3 DEF MacRxRing
        <5>2. h = next => ~(RingFrom(r, next, macRds) < RingFrom(r, h, macRds))
          <6>1. RingFrom(r, next, macRds) \in Nat
            <7>. HIDE DEF next
            <7>1. RingFrom(r, next, macRds) \in 0 .. macRds - 1  BY <1>a, <4>2, RdCount
            <7>. QED  BY <7>1
          <6>. HIDE DEF next
          <6>. QED  BY <6>1
        <5>. HIDE DEF next, h, r
        <5>. QED  BY <4>2, <4>3, <5>1, <5>2
      <4>5. RingBefore(h, macRds) # r
        <5>1. RingAfter(RingBefore(h, macRds), macRds) = h  BY <1>a, RdRing
        <5>. QED  BY <4>4, <5>1
      <4>6. macRx'[RingBefore(h, macRds)] = macRx[RingBefore(h, macRds)]  BY <1>a, <2>1, <4>5
      <4>. QED  BY <2>2, <2>3, <4>1, <4>6 DEF MacWaiting
    <3>. QED  BY <3>2, <3>3
  <2>5. MacLive' => macCsr'.mask  BY <2>1, <2>2 DEF MacNotice
  <2>6. macCsr'.ts = "suspended" => ~macTx'[macHw'.tx].own  BY <2>1 DEF MacNotice
  <2>7. MacNoted' = MacNoted  BY <2>1 DEF MacNoted
  <2>. QED  BY <2>1, <2>4, <2>5, <2>6, <2>7 DEF MacNotice
<1>3. CASE MacTransmits
  <2>1. /\ UNCHANGED <<macPc, macSend, macRx, macDrv>>
        /\ macCsr'.rs = macCsr.rs /\ macCsr'.mask = macCsr.mask /\ macCsr.stat \subseteq macCsr'.stat
        /\ macHw'.rx = macHw.rx
        /\ macCsr'.ts = "running" \/ (~macTx[macHw.tx].own /\ UNCHANGED <<macTx, macHw>>)
    BY <1>0, <1>3, MacSends
  <2>2. MacKept' = MacKept  BY <2>1 DEF MacKept
  <2>3. MacWaiting' = MacWaiting  BY <2>1, <2>2, MacSameWaiting
  <2>4. MacNoted => MacNoted'  BY <2>1 DEF MacNoted
  <2>5. macCsr'.ts = "suspended" => ~macTx'[macHw'.tx].own  BY <2>1
  <2>. QED  BY <2>1, <2>3, <2>4, <2>5 DEF MacNotice, MacLive
<1>4. CASE MacReceives
  <2>. DEFINE h == macHw.rx
              next == RingAfter(h, macRds)
  <2>1. /\ UNCHANGED <<macPc, macSend, macTx, macDrv>>
        /\ macCsr.rs = "running" /\ macPc # "empty"
        /\ ~macRx'[h].own /\ macRx'[h].part = Head(macAir)
        /\ macHw'.rx = next /\ macHw'.tx = macHw.tx
        /\ macCsr'.rs = (IF ~macRx[next].own THEN "suspended" ELSE "running")
        /\ macCsr'.ts = macCsr.ts /\ macCsr'.mask = macCsr.mask
        /\ (Head(macAir).last => "RI" \in macCsr'.stat) /\ (~macRx[next].own => "RU" \in macCsr'.stat)
    BY <1>0, <1>4, MacStores
  <2>2. RingBefore(next, macRds) = h  BY <1>a, RdRing
  <2>3. MacWaiting' => MacNoted'
    <3>1. SUFFICES ASSUME MacWaiting' PROVE MacNoted'  OBVIOUS
    <3>2. Head(macAir).last \/ ~macRx[next].own
      <4>. HIDE DEF next, h
      <4>. QED  BY <2>1, <2>2, <3>1 DEF MacWaiting
    <3>. QED  BY <2>1, <3>2 DEF MacNoted
  <2>4. MacLive /\ MacLive'  BY <2>1 DEF MacLive
  <2>. QED  BY <2>1, <2>3, <2>4 DEF MacNotice
<1>. QED  BY <1>1, <1>2, <1>3, <1>4

LEMMA MacNoticeInvariant == ASSUME ~macLate PROVE SerialSpec => []MacNotice
<1>1. SerialInit => MacNotice
  <2>1. SerialInit => \E pc \in {"off", "idle"} : MacStart(pc)  BY DEF SerialInit
  <2>2. ASSUME NEW pc \in {"off", "idle"}, MacStart(pc) PROVE MacNotice
    <3>1. /\ macPc = pc /\ macCsr.rs = "stopped" /\ macTx = [d \in Tds |-> Ours] /\ macHw.tx = 0 /\ 0 \in Tds
      BY <2>2 DEF MacStart
    <3>2. ~macTx[macHw.tx].own  BY <3>1 DEF Ours
    <3>. QED  BY <3>1, <3>2 DEF MacNotice, MacWaiting, MacLive
  <2>. QED  BY <2>1, <2>2
<1>2. MacInv /\ MacNotice /\ [SerialNext]_serialVars => MacNotice'
  <2>. SUFFICES ASSUME MacInv, MacNotice, [SerialNext]_serialVars PROVE MacNotice'  OBVIOUS
  <2>1. MacStep \/ UNCHANGED macVars  BY DEF SerialNext, UartOn, UdOn, MacOn, MtOn, serialVars
  <2>2. CASE MacStep  BY <2>2, MacStillNotes, MacProgramNotes, MacRingNotes DEF MacStep, MacProgram
  <2>3. CASE UNCHANGED macVars
    <3>1. UNCHANGED <<macPc, macSend, macTx, macRx, macDrv, macCsr, macHw>>  BY <2>3 DEF macVars
    <3>2. MacKept' = MacKept  BY <3>1 DEF MacKept
    <3>3. MacWaiting' = MacWaiting  BY <3>1, <3>2, MacSameWaiting
    <3>. QED  BY <3>1, <3>3 DEF MacNotice, MacLive, MacNoted
  <2>. QED  BY <2>1, <2>2, <2>3
<1>. QED  BY <1>1, <1>2, MacInvariant, PTL DEF SerialSpec

\* When nothing is noticed and nothing can move, the receive ring is empty.
LEMMA MacNothingLeft == ASSUME MacInv, MacNotice, RxWaitTimeout PROVE macRx[macDrv.rx].own
<1>0. MacTyped /\ MacShape /\ MacSendsNext  BY DEF MacInv, MacShape, MacChain
<1>1. /\ macPc = "poll" /\ ~Pending /\ ~macDrv.rxS /\ macCsr.ts = "suspended"
      /\ macAir = <<>> \/ macCsr.rs = "suspended"
  BY DEF RxWaitTimeout, MacMain, MacQuiet
<1>2. MacLive  BY <1>0, <1>1, MacLivePlaces
<1>3. ~MacNoted  BY <1>1, <1>2 DEF MacNotice, MacNoted, Pending
<1>4. SUFFICES ASSUME ~macRx[macDrv.rx].own PROVE FALSE  OBVIOUS
<1>5. MacFull(macDrv.rx)  BY <1>1, <1>4 DEF MacFull, MacKept
<1>6. macCsr.rs # "suspended" /\ ~macRx[RingBefore(macHw.rx, macRds)].part.last
  BY <1>2, <1>3, <1>5 DEF MacNotice, MacWaiting
<1>7. macAir = <<>>  BY <1>1, <1>6
<1>8. WantTx = MacNext(macRx[RingBefore(macHw.rx, macRds)].part)
  BY <1>1, <1>5, <1>7 DEF MacNotice, WantTx, WantAir, WantRx
<1>9. ~WantTx.first  BY <1>6, <1>8 DEF MacNext
<1>. QED  BY <1>0, <1>2, <1>9 DEF MacSendsNext

(* When no frame arrives between the last look at the ring and the         *)
(* statement that clears rxScheduled, the main program never gives up      *)
(* waiting with a frame received and not taken: the ring of any size.      *)
THEOREM FramesAllTaken == ASSUME ~macLate PROVE SerialSpec => MacTaken
<1>1. MacInv /\ MacNotice /\ [SerialNext]_serialVars
        => [(macPc = "poll" /\ macPc' = "idle") => macRx[macDrv.rx].own]_macVars
  <2>. SUFFICES ASSUME MacInv, MacNotice, SerialNext, macPc = "poll", macPc' = "idle" PROVE macRx[macDrv.rx].own
    BY DEF serialVars, macVars
  <2>1. MacStep  BY DEF SerialNext, UartOn, UdOn, MacOn, MtOn, macVars
  <2>2. RxWaitTimeout
    BY <2>1 DEF MacStep, MacProgram, MacMain, sMacInit, sMacFltrFrmXmit, FilterSet, MacTestPrepareTx, SendWaits, SendFills,
                SendGives, GiveOwner, PollRx, sMacRecv, RingEmpty, sMacRxSchedule, MacTestPolling, RxWaitTimeout,
                sMacInt, MacTransmits, MacReceives
  <2>. QED  BY <2>2, MacNothingLeft
<1>. QED  BY <1>1, MacInvariant, MacNoticeInvariant, PTL DEF SerialSpec, MacTaken

-----------------------------------------------------------------------------
(* The USB device, with a host that ends what it began.                    *)
-----------------------------------------------------------------------------
\* The place k places after d in a ring of n.
RingPlus(d, k, n) == IF d + k >= n THEN d + k - n ELSE d + k

UdOne(b) == IF b THEN 1 ELSE 0
UdPending == UdOne("OUT0" \in udIrq)
UdReceived == UdOne("ENP1" \in udIrq)

UdCtlType == [need : Nat, stage : {"setup", "data", "status"}, size : Nat, reset : BOOLEAN]
UdHostType == [kind : {"read", "write", "other"}, want : 0 .. 2, over : BOOLEAN, configured : BOOLEAN]
UdLoopType == [count : Nat, dma : BOOLEAN, in : Block, out : Block]
UdTyped ==
  /\ udCtl \in UdCtlType /\ udHostCtl \in UdHostType /\ udLoop \in UdLoopType
  /\ udTx0 \in BOOLEAN /\ udVbus \in [there : BOOLEAN, seen : BOOLEAN, irq : BOOLEAN]
  /\ udBuffer \in [Block -> {0, 1}] /\ udFifo \in Seq({0, 1}) /\ udSent \in Seq({0, 1})

\* Without a host that is connected and served nothing is under way.
UdAlone == ~UdHostOn => udHostCtl = UdNoRequest /\ udSent = <<>> /\ udIrq \subseteq {"VBUS"}

\* A request is pending; or it is over; or its one packet is with the main
\* loop, in the endpoint, or taken; or its status is awaited.
UdNoPacket == udCtl.need = 0 /\ ~udTx0 /\ "IN0" \notin udIrq
UdAsking ==
  /\ "RST" \in udIrq => "SETUP" \in udIrq
  /\ "SETUP" \in udIrq =>
       /\ UdNoPacket /\ "OUT0" \notin udIrq /\ "ENP1" \notin udIrq /\ udSent = <<>>
       /\ udHostCtl.over <=> udHostCtl.want = 0
       /\ udHostCtl.kind = "write" => udHostCtl.want > 0
       /\ udHostCtl.kind = "other" => udHostCtl.want = 0
UdOther ==
  ("SETUP" \notin udIrq /\ udHostCtl.kind = "other") =>
    UdNoPacket /\ "OUT0" \notin udIrq /\ udHostCtl.want = 0 /\ udHostCtl.over
UdWrites ==
  ("SETUP" \notin udIrq /\ udHostCtl.kind = "write") =>
    /\ UdNoPacket /\ udCtl.stage = "data" /\ udCtl.size = udHostCtl.want + UdPending
    /\ udHostCtl.over => udCtl.size = 0
UdHasRead ==
  ("SETUP" \notin udIrq /\ udHostCtl.kind = "read" /\ udHostCtl.over) =>
    UdNoPacket /\ "OUT0" \notin udIrq /\ udHostCtl.want = 0 /\ (udCtl.stage = "data" => udCtl.size = 0)
UdReads ==
  ("SETUP" \notin udIrq /\ udHostCtl.kind = "read" /\ ~udHostCtl.over) =>
    IF udCtl.stage = "data"
    THEN /\ udCtl.need + UdOne(udTx0) + UdOne("IN0" \in udIrq) = 1 /\ "OUT0" \notin udIrq
         /\ udHostCtl.want = udCtl.size + UdOne(udTx0)
         /\ udCtl.need = 1 => udCtl.size > 0
    ELSE UdNoPacket /\ udHostCtl.want = 0
UdControl ==
  UdAsking /\ UdOther /\ UdWrites /\ UdHasRead /\ UdReads /\ (udMain = "ctrl" => udCtl.need > 0)

\* The blocks sent and not read back: those on their way to the host, those
\* in the buffer that are counted, and one just received.
UdBulk ==
  /\ Len(udSent) = Len(udFifo) + udLoop.count + UdReceived /\ Len(udSent) <= udBlocks
  /\ \A i \in 1 .. Len(udFifo) : udSent[i] = udFifo[i]
  /\ \A k \in 1 .. udLoop.count + UdReceived :
       udSent[Len(udFifo) + k] = udBuffer[RingPlus(udLoop.in, k - 1, udBlocks)]
  /\ udLoop.out = RingPlus(udLoop.in, udLoop.count, udBlocks)
  /\ udArmed => "ENP1" \notin udIrq
  /\ udMain = "bulk" => udLoop.count > 0

UdInv == UdTyped /\ UdAlone /\ UdControl /\ UdBulk

LEMMA UdRing ==
  /\ \A d \in Block : UdNextBlock(d) \in Block
  /\ \A d \in Block : \A k \in 1 .. udBlocks : RingPlus(UdNextBlock(d), k - 1, udBlocks) = RingPlus(d, k, udBlocks)
  /\ \A d \in Block : \A k \in 0 .. udBlocks - 1 :
       RingPlus(d, k, udBlocks) \in Block /\ UdNextBlock(RingPlus(d, k, udBlocks)) = RingPlus(d, k + 1, udBlocks)
  /\ \A d \in Block : \A j, k \in 0 .. udBlocks - 1 : RingPlus(d, j, udBlocks) = RingPlus(d, k, udBlocks) => j = k
<1>1. udBlocks \in Nat \ {0}  BY UdAssumption
<1>2. \A d \in Block : UdNextBlock(d) = RingAfter(d, udBlocks)  BY <1>1, RingIndex DEF Block, UdNextBlock
<1>3. \A d \in Block : \A k \in 0 .. udBlocks - 1 : RingPlus(d, k, udBlocks) \in Block  BY <1>1 DEF Block, RingPlus
<1>4. \A d \in Block : \A k \in 0 .. udBlocks - 1 :
        RingAfter(RingPlus(d, k, udBlocks), udBlocks) = RingPlus(d, k + 1, udBlocks)
  BY <1>1 DEF Block, RingPlus, RingAfter
<1>5. \A d \in Block : \A k \in 1 .. udBlocks : RingPlus(RingAfter(d, udBlocks), k - 1, udBlocks) = RingPlus(d, k, udBlocks)
  BY <1>1 DEF Block, RingPlus, RingAfter
<1>6. \A d \in Block : \A j, k \in 0 .. udBlocks - 1 : RingPlus(d, j, udBlocks) = RingPlus(d, k, udBlocks) => j = k
  BY <1>1 DEF Block, RingPlus
<1>7. \A d \in Block : RingAfter(d, udBlocks) \in Block  BY <1>1 DEF Block, RingAfter
<1>. QED  BY <1>2, <1>3, <1>4, <1>5, <1>6, <1>7

LEMMA UdBegins == ASSUME UdInit \/ UdOff PROVE UdInv
<1>0. udBlocks \in Nat \ {0}  BY UdAssumption
<1>1. PICK place : UdStart(place) /\ place \in {"idle", "off"}  BY DEF UdInit, UdOff
<1>2. UdTyped
  <2>1. udCtl \in UdCtlType /\ udHostCtl \in UdHostType  BY <1>1 DEF UdStart, UdCtlType, UdHostType, UdNoRequest
  <2>2. 0 \in Block  BY <1>0 DEF Block
  <2>3. udLoop \in UdLoopType /\ udBuffer \in [Block -> {0, 1}]  BY <1>1, <2>2 DEF UdStart, UdLoopType, NoLoop
  <2>4. udFifo \in Seq({0, 1}) /\ udSent \in Seq({0, 1})  BY <1>1 DEF UdStart
  <2>. QED  BY <1>1, <2>1, <2>3, <2>4 DEF UdStart, UdTyped
<1>3. UdAlone  BY <1>1 DEF UdStart, UdAlone
<1>4. UdControl
  BY <1>1 DEF UdStart, UdControl, UdAsking, UdOther, UdWrites, UdHasRead, UdReads, UdNoPacket, UdNoRequest
<1>5. UdBulk  BY <1>0, <1>1 DEF UdStart, UdBulk, UdReceived, UdOne, NoLoop, RingPlus
<1>. QED  BY <1>2, <1>3, <1>4, <1>5 DEF UdInv

LEMMA UdFields ==
  /\ \A w \in UdCtlType : \A n \in Nat :
       /\ [w EXCEPT !.need = n] \in UdCtlType /\ [w EXCEPT !.size = n] \in UdCtlType
       /\ [w EXCEPT !.need = 0, !.size = 0] \in UdCtlType /\ [w EXCEPT !.stage = "status"] \in UdCtlType
       /\ \A m \in Nat : [w EXCEPT !.need = n, !.size = m] \in UdCtlType
       /\ \A b \in BOOLEAN : [w EXCEPT !.reset = b] \in UdCtlType
  /\ \A w \in UdHostType :
       /\ \A n \in 0 .. 2 : [w EXCEPT !.want = n] \in UdHostType
       /\ [w EXCEPT !.over = TRUE] \in UdHostType /\ [w EXCEPT !.over = FALSE] \in UdHostType
  /\ \A w \in UdLoopType : [w EXCEPT !.dma = FALSE] \in UdLoopType
  /\ \A w \in UdLoopType : \A n \in Nat, c \in Block, b \in BOOLEAN :
       /\ [w EXCEPT !.out = c, !.count = n] \in UdLoopType
       /\ [w EXCEPT !.count = n, !.in = c, !.dma = b] \in UdLoopType
BY DEF UdCtlType, UdHostType, UdLoopType

LEMMA UdTypes ==
  ASSUME UdTyped
  PROVE  /\ udCtl.need \in Nat /\ udCtl.size \in Nat /\ udCtl.reset \in BOOLEAN
         /\ udCtl.stage \in {"setup", "data", "status"}
         /\ udHostCtl.kind \in {"read", "write", "other"} /\ udHostCtl.want \in 0 .. 2 /\ udHostCtl.over \in BOOLEAN
         /\ udLoop.count \in Nat /\ udLoop.in \in Block /\ udLoop.out \in Block /\ udLoop.dma \in BOOLEAN
         /\ udVbus.there \in BOOLEAN /\ udVbus.seen \in BOOLEAN /\ udVbus.irq \in BOOLEAN
         /\ Len(udFifo) \in Nat /\ Len(udSent) \in Nat
BY DEF UdTyped, UdCtlType, UdHostType, UdLoopType

\* What a cause says of those before it, and what its handler leaves.
LEMMA UdHandled ==
  ASSUME NEW c \in {"VBUS", "RST", "SETUP", "IN0", "OUT0", "ENP1", "IN2"}, UDCIintHandler(c)
  PROVE  /\ c \in udIrq /\ udVbus.irq
         /\ udIrq' = udIrq \ {c}
         /\ c # "VBUS" => "VBUS" \notin udIrq
         /\ c \notin {"VBUS", "RST"} => "RST" \notin udIrq
         /\ c \notin {"VBUS", "RST", "SETUP"} => "SETUP" \notin udIrq
<1>1. /\ DOMAIN UdCauses = 1 .. 7 /\ UdCauses[1] = "VBUS" /\ UdCauses[2] = "RST" /\ UdCauses[3] = "SETUP"
      /\ UdCauses[4] = "IN0" /\ UdCauses[5] = "OUT0" /\ UdCauses[6] = "ENP1" /\ UdCauses[7] = "IN2"
  BY DEF UdCauses
<1>2. /\ c \in udIrq /\ udVbus.irq /\ udIrq' = udIrq \ {c}
      /\ \A j \in 1 .. 7 : UdCauses[j] \in udIrq => \E i \in 1 .. j : UdCauses[i] = c
  BY <1>1 DEF UDCIintHandler
<1>3. "VBUS" \in udIrq => \E i \in 1 .. 1 : UdCauses[i] = c  BY <1>1, <1>2
<1>4. "RST" \in udIrq => \E i \in 1 .. 2 : UdCauses[i] = c  BY <1>1, <1>2
<1>5. "SETUP" \in udIrq => \E i \in 1 .. 3 : UdCauses[i] = c  BY <1>1, <1>2
<1>6. \A i \in 1 .. 3 : i = 1 \/ i = 2 \/ i = 3  OBVIOUS
<1>. QED  BY <1>1, <1>2, <1>3, <1>4, <1>5, <1>6

LEMMA UdTypedStep == ASSUME ~udAborts, UdInv, UdStep PROVE UdTyped'
<1>0. /\ UdTyped /\ udCtl \in UdCtlType /\ udHostCtl \in UdHostType /\ udLoop \in UdLoopType
      /\ udVbus \in [there : BOOLEAN, seen : BOOLEAN, irq : BOOLEAN]
      /\ udFifo \in Seq({0, 1}) /\ udSent \in Seq({0, 1}) /\ udBuffer \in [Block -> {0, 1}] /\ udTx0 \in BOOLEAN
  BY DEF UdInv, UdTyped
<1>a. /\ udCtl.need \in Nat /\ udCtl.size \in Nat /\ udHostCtl.kind \in {"read", "write", "other"}
      /\ udHostCtl.want \in 0 .. 2 /\ udLoop.count \in Nat /\ udLoop.in \in Block /\ udLoop.out \in Block
      /\ udVbus.there \in BOOLEAN /\ udLoop.dma \in BOOLEAN
  BY <1>0, UdTypes
<1>1. CASE UDCTesting
  <2>1. udCtl' \in UdCtlType  BY <1>0, <1>1, UdFields DEF UDCTesting
  <2>. QED  BY <1>0, <1>a, <1>1, <2>1 DEF UDCTesting, UdTyped, udBulkVars
<1>2. CASE UdNoHost \/ UdDisconnected \/ UdAnswer \/ UdLooks
  BY <1>0, <1>2 DEF UdNoHost, UdDisconnected, UdAnswer, UdLooks, UdTyped, udCtlVars, udBulkVars
<1>3. CASE initUDCTestingEnv
  <2>1. 0 \in Block  BY UdAssumption DEF Block
  <2>2. udLoop' \in UdLoopType  BY <1>a, <1>3, <2>1 DEF initUDCTestingEnv, UdLoopType, NoLoop
  <2>3. udCtl' \in UdCtlType  BY <1>0, <1>3, UdFields DEF initUDCTestingEnv
  <2>4. udBuffer' \in [Block -> {0, 1}]  BY <1>3 DEF initUDCTestingEnv
  <2>. QED  BY <1>0, <1>3, <2>2, <2>3, <2>4 DEF initUDCTestingEnv, UdTyped
<1>4. CASE UdSendsControl
  <2>1. udCtl.need - 1 \in Nat  BY <1>a, <1>4 DEF UdInv, UdControl, UdSendsControl
  <2>2. UdLeft \in Nat  BY <1>a DEF UdLeft
  <2>3. udCtl' \in UdCtlType
    <3>1. [udCtl EXCEPT !.need = udCtl.need - 1, !.size = UdLeft] \in UdCtlType  BY <1>0, <2>1, <2>2, UdFields
    <3>. QED  BY <1>4, <3>1 DEF UdSendsControl
  <2>. QED  BY <1>0, <1>4, <2>3 DEF UdSendsControl, UdTyped, udBulkVars
<1>5. CASE UdSendsBulk
  <2>1. udLoop.count - 1 \in Nat /\ UdNextBlock(udLoop.in) \in Block
    BY <1>a, <1>5, UdRing DEF UdInv, UdBulk, UdSendsBulk
  <2>2. udFifo' \in Seq({0, 1})
    <3>1. udBuffer[udLoop.in] \in {0, 1}  BY <1>0, <1>a
    <3>. QED  BY <1>0, <1>5, <3>1, AppendProperties DEF UdSendsBulk
  <2>3. udLoop' \in UdLoopType  BY <1>0, <1>5, <2>1, UdFields DEF UdSendsBulk
  <2>. QED  BY <1>0, <1>5, <2>2, <2>3 DEF UdSendsBulk, UdTyped, udCtlVars
<1>6. CASE process_vbus_intr  BY <1>0, <1>a, <1>6 DEF process_vbus_intr, UdTyped, udCtlVars, udBulkVars
<1>7. CASE process_reset
  <2>1. udCtl' \in UdCtlType  BY <1>0, <1>7, UdFields DEF process_reset
  <2>. QED  BY <1>0, <1>7, <2>1 DEF process_reset, UdTyped, udMainVars, udBulkVars
<1>8. CASE process_setup_req
  <2>1. 0 \in Block  BY UdAssumption DEF Block
  <2>2. UdKept \in UdLoopType  BY <1>a, <2>1 DEF UdLoopType, UdKept
  <2>3. UdAsked \in UdCtlType  BY <1>a DEF UdAsked, UdCtlType
  <2>. QED  BY <1>0, <1>8, <2>2, <2>3 DEF process_setup_req, UdTyped, udMainVars
<1>9. CASE process_in0
  <2>1. udCtl' \in UdCtlType
    <3>1. udCtl.need + 1 \in Nat  BY <1>a
    <3>. QED  BY <1>0, <1>9, <3>1, UdFields DEF process_in0, UdMore
  <2>. QED  BY <1>0, <1>9, <2>1 DEF process_in0, UdTyped, udMainVars, udBulkVars
<1>10. CASE process_out0
  <2>1. "OUT0" \in udIrq /\ "SETUP" \notin udIrq  BY <1>10, UdHandled DEF process_out0
  <2>2. udCtl.stage = "data" => udCtl.size > 0
    <3>1. (udHostCtl.kind = "write" /\ udCtl.size = udHostCtl.want + 1) \/ udCtl.stage # "data"
      BY <1>0, <1>a, <2>1 DEF UdInv, UdControl, UdOther, UdHasRead, UdReads, UdWrites, UdPending, UdOne, UdHostType
    <3>. QED  BY <1>a, <3>1
  <2>3. udCtl' \in UdCtlType
    <3>1. udCtl.stage = "data" => udCtl.size - 1 \in Nat  BY <1>a, <2>2
    <3>. QED  BY <1>0, <1>10, <3>1, UdFields DEF process_out0
  <2>4. udHostCtl' \in UdHostType
    <3>1. (udHostCtl.want = 0) = TRUE \/ (udHostCtl.want = 0) = FALSE  OBVIOUS
    <3>. QED  BY <1>0, <1>10, <3>1, UdFields DEF process_out0
  <2>. QED  BY <1>0, <1>10, <2>3, <2>4 DEF process_out0, UdTyped, udMainVars, udBulkVars
<1>11. CASE process_bulk_out
  <2>1. UdNextBlock(udLoop.out) \in Block  BY <1>a, UdRing
  <2>2. udLoop' \in UdLoopType
    <3>1. udLoop.count + 1 \in Nat  BY <1>a
    <3>. QED  BY <1>0, <1>11, <2>1, <3>1, UdFields DEF process_bulk_out
  <2>. QED  BY <1>0, <1>11, <2>2 DEF process_bulk_out, UdTyped, udMainVars, udCtlVars
<1>12. CASE process_bulk_in
  <2>1. udLoop' \in UdLoopType  BY <1>0, <1>12, UdFields DEF process_bulk_in, UdDone
  <2>. QED  BY <1>0, <1>12, <2>1 DEF process_bulk_in, UdTyped, udMainVars, udCtlVars
<1>13. CASE UdCable
  <2>1. udHostCtl' \in UdHostType  BY <1>13 DEF UdCable, UdHostType, UdNoRequest
  <2>2. udSent' \in Seq({0, 1}) /\ udFifo' \in Seq({0, 1})  BY <1>13 DEF UdCable
  <2>3. udVbus' \in [there : BOOLEAN, seen : BOOLEAN, irq : BOOLEAN]  BY <1>0, <1>a, <1>13 DEF UdCable
  <2>. QED  BY <1>0, <1>13, <2>1, <2>2, <2>3 DEF UdCable, UdTyped
<1>14. CASE UdRequests
  <2>1. udHostCtl' \in UdHostType  BY <1>14 DEF UdRequests, UdHostType
  <2>2. udSent' \in Seq({0, 1}) /\ udFifo' \in Seq({0, 1})
    <3>1. <<>> \in Seq({0, 1})  OBVIOUS
    <3>2. (udFifo' = udFifo /\ udSent' = udSent) \/ (udSent' = <<>> /\ udFifo' = <<>>)  BY <1>14 DEF UdRequests
    <3>. QED  BY <1>0, <3>1, <3>2
  <2>. QED  BY <1>0, <1>14, <2>1, <2>2 DEF UdRequests, UdTyped, udMainVars
<1>15. CASE UdTakesControl
  <2>1. udHostCtl.want - 1 \in 0 .. 2  BY <1>a, <1>15 DEF UdTakesControl
  <2>2. udHostCtl' \in UdHostType  BY <1>0, <1>15, <2>1, UdFields DEF UdTakesControl
  <2>. QED  BY <1>0, <1>15, <2>2 DEF UdTakesControl, UdTyped, udMainVars, udBulkVars
<1>16. CASE UdGivesControl
  <2>1. udHostCtl.want - 1 \in 0 .. 2  BY <1>a, <1>16 DEF UdGivesControl
  <2>2. udHostCtl' \in UdHostType  BY <1>0, <1>16, <2>1, UdFields DEF UdGivesControl
  <2>. QED  BY <1>0, <1>16, <2>2 DEF UdGivesControl, UdTyped, udMainVars, udBulkVars
<1>17. CASE UdStatus  BY <1>0, <1>17 DEF UdStatus, UdTyped, udMainVars, udCtlVars, udBulkVars
<1>18. CASE UdHostSends
  <2>1. PICK bit \in {0, 1} : udBuffer' = [udBuffer EXCEPT ![udLoop.out] = bit] /\ udSent' = Append(udSent, bit)
    BY <1>18 DEF UdHostSends
  <2>2. udSent' \in Seq({0, 1})  BY <1>0, <2>1, AppendProperties
  <2>3. udBuffer' \in [Block -> {0, 1}]  BY <1>0, <2>1
  <2>. QED  BY <1>0, <1>18, <2>2, <2>3 DEF UdHostSends, UdTyped, udMainVars, udCtlVars
<1>19. CASE UdHostReads
  <2>1. udSent' \in Seq({0, 1}) /\ udFifo' \in Seq({0, 1})  BY <1>0, <1>19, HeadTailProperties DEF UdHostReads
  <2>. QED  BY <1>0, <1>19, <2>1 DEF UdHostReads, UdTyped, udMainVars, udCtlVars
<1>. QED
  BY <1>1, <1>2, <1>3, <1>4, <1>5, <1>6, <1>7, <1>8, <1>9, <1>10, <1>11, <1>12, <1>13, <1>14, <1>15, <1>16, <1>17,
     <1>18, <1>19 DEF UdStep, UdServes, UdInterrupt, UdHost

\* The host goes on only when nothing is under way.
LEMMA UdIsIdle ==
  ASSUME UdInv, UdIdle
  PROVE  /\ UdNoPacket /\ udHostCtl.over /\ udHostCtl.want = 0 /\ udIrq = {} /\ udMain # "ctrl"
         /\ udSent = <<>> /\ udFifo = <<>> /\ udLoop.count = 0
<1>1. udHostCtl.over /\ udIrq = {} /\ udSent = <<>>  BY DEF UdIdle
<1>2. UdTyped /\ UdControl /\ UdBulk  BY DEF UdInv
<1>3. UdNoPacket /\ udHostCtl.want = 0 /\ udMain # "ctrl"
  <2>1. udHostCtl.kind \in {"read", "write", "other"} /\ udHostCtl.want \in 0 .. 2  BY <1>2, UdTypes
  <2>2. UdNoPacket /\ udHostCtl.want = 0
    BY <1>1, <1>2, <2>1 DEF UdControl, UdOther, UdHasRead, UdWrites, UdPending, UdOne
  <2>. QED  BY <1>2, <2>2 DEF UdControl, UdNoPacket
<1>4. Len(udFifo) = 0 /\ udLoop.count = 0  BY <1>1, <1>2, UdTypes DEF UdBulk, UdReceived, UdOne
<1>5. udFifo = <<>>  BY <1>2, <1>4, EmptySeq DEF UdTyped
<1>. QED  BY <1>1, <1>3, <1>4, <1>5

LEMMA UdAloneStep == ASSUME ~udAborts, UdInv, UdStep PROVE UdAlone'
<1>0. UdTyped /\ UdAlone  BY DEF UdInv
<1>1. CASE UDCTesting  BY <1>0, <1>1 DEF UDCTesting, UdAlone, UdHostOn, udBulkVars
<1>2. CASE UdNoHost \/ UdDisconnected \/ UdAnswer \/ UdLooks
  BY <1>0, <1>2 DEF UdNoHost, UdDisconnected, UdAnswer, UdLooks, UdAlone, UdHostOn, udCtlVars, udBulkVars
<1>3. CASE initUDCTestingEnv  BY <1>0, <1>3 DEF initUDCTestingEnv, UdAlone, UdHostOn
<1>4. CASE UdSendsControl  BY <1>0, <1>4 DEF UdSendsControl, UdAlone, UdHostOn, udBulkVars
<1>5. CASE UdSendsBulk
  <2>1. udLoop.count > 0 /\ Len(udSent) > 0
    <3>1. UdBulk  BY DEF UdInv
    <3>. QED  BY <1>0, <1>5, <3>1, UdTypes DEF UdSendsBulk, UdBulk, UdReceived, UdOne
  <2>2. UdHostOn  BY <1>0, <2>1 DEF UdAlone
  <2>3. UdHostOn'  BY <1>5, <2>2 DEF UdSendsBulk, UdHostOn
  <2>. QED  BY <2>3 DEF UdAlone
<1>6. CASE process_vbus_intr
  <2>1. udIrq' = udIrq \ {"VBUS"} /\ udMain' = udMain  BY <1>6, UdHandled DEF process_vbus_intr
  <2>2. udVbus'.there = udVbus.there /\ udVbus'.seen = udVbus.there  BY <1>0, <1>6 DEF process_vbus_intr, UdTyped
  <2>. QED  BY <1>0, <1>6, <2>1, <2>2 DEF process_vbus_intr, UdAlone, UdHostOn, udCtlVars, udBulkVars
<1>7. CASE process_reset \/ process_setup_req \/ process_in0 \/ process_bulk_out \/ process_bulk_in
  <2>1. udIrq' \subseteq udIrq  BY <1>7 DEF process_reset, process_setup_req, process_in0, process_bulk_out, process_bulk_in, UDCIintHandler
  <2>. QED
    BY <1>0, <1>7, <2>1 DEF process_reset, process_setup_req, process_in0, process_bulk_out, process_bulk_in,
       UdAlone, UdHostOn, udMainVars, udCtlVars, udBulkVars
<1>8. CASE process_out0
  <2>1. UdHostOn /\ UdHostOn'  BY <1>0, <1>8, UdHandled DEF process_out0, UdAlone, UdHostOn, udMainVars
  <2>. QED  BY <2>1 DEF UdAlone
<1>9. CASE UdCable
  <2>1. UdIdle  BY <1>9 DEF UdCable
  <2>2. udIrq' = {"VBUS"} /\ udSent' = <<>> /\ udHostCtl' = UdNoRequest  BY <1>9, <2>1, UdIsIdle DEF UdCable
  <2>. QED  BY <2>2 DEF UdAlone
<1>10. CASE UdRequests \/ UdTakesControl \/ UdGivesControl \/ UdStatus \/ UdHostSends \/ UdHostReads
  <2>1. UdHostOn /\ UNCHANGED udMainVars
    BY <1>10 DEF UdRequests, UdTakesControl, UdGivesControl, UdStatus, UdHostSends, UdHostReads
  <2>2. UdHostOn'  BY <2>1 DEF UdHostOn, udMainVars
  <2>. QED  BY <2>2 DEF UdAlone
<1>. QED
  BY <1>1, <1>2, <1>3, <1>4, <1>5, <1>6, <1>7, <1>8, <1>9, <1>10 DEF UdStep, UdServes, UdInterrupt, UdHost

\* The steps that leave the control endpoint alone.
LEMMA UdControlStays ==
  ASSUME UdControl, UNCHANGED <<udCtl, udHostCtl, udTx0>>,
         "RST" \in udIrq' => "RST" \in udIrq, "SETUP" \in udIrq' <=> "SETUP" \in udIrq,
         "IN0" \in udIrq' <=> "IN0" \in udIrq, "OUT0" \in udIrq' <=> "OUT0" \in udIrq,
         "SETUP" \in udIrq => "ENP1" \notin udIrq' /\ udSent' = <<>>,
         udMain' = "ctrl" => udCtl.need > 0
  PROVE  UdControl'
<1>1. UdNoPacket' <=> UdNoPacket  BY DEF UdNoPacket
<1>2. UdAsking'  BY <1>1 DEF UdControl, UdAsking
<1>3. UdOther' /\ UdHasRead'  BY <1>1 DEF UdControl, UdOther, UdHasRead
<1>4. UdPending' = UdPending  BY DEF UdPending, UdOne
<1>5. UdWrites'  BY <1>1, <1>4 DEF UdControl, UdWrites
<1>6. UdOne("IN0" \in udIrq)' = UdOne("IN0" \in udIrq)  BY DEF UdOne
<1>7. UdReads'  BY <1>1, <1>6 DEF UdControl, UdReads
<1>. QED  BY <1>2, <1>3, <1>5, <1>7 DEF UdControl

LEMMA UdControlRests ==
  ASSUME UdInv,
         \/ UDCTesting \/ UdNoHost \/ UdDisconnected \/ UdAnswer \/ UdLooks \/ UdSendsBulk \/ process_vbus_intr
         \/ process_bulk_out \/ process_bulk_in \/ UdHostSends \/ UdHostReads
  PROVE  UdControl'
<1>0. UdTyped /\ UdControl  BY DEF UdInv
<1>1. CASE UDCTesting
  <2>1. udCtl'.need = udCtl.need /\ udCtl'.size = udCtl.size /\ udCtl'.stage = udCtl.stage /\ udMain' # "ctrl"
    BY <1>0, <1>1 DEF UDCTesting, UdTyped, UdCtlType
  <2>2. UNCHANGED <<udIrq, udHostCtl, udTx0, udSent>>  BY <1>1 DEF UDCTesting, udBulkVars
  <2>. QED
    BY <1>0, <2>1, <2>2 DEF UdControl, UdAsking, UdOther, UdWrites, UdHasRead, UdReads, UdNoPacket, UdPending, UdOne
<1>2. CASE UdNoHost \/ UdDisconnected \/ UdAnswer \/ UdLooks
  <2>1. UNCHANGED <<udIrq, udCtl, udHostCtl, udTx0, udSent>>
    BY <1>2 DEF UdNoHost, UdDisconnected, UdAnswer, UdLooks, udCtlVars, udBulkVars
  <2>2. udMain' = "ctrl" => udCtl.need > 0  BY <1>2 DEF UdNoHost, UdDisconnected, UdAnswer, UdLooks
  <2>3. "SETUP" \in udIrq => "ENP1" \notin udIrq /\ udSent = <<>>  BY <1>0 DEF UdControl, UdAsking
  <2>. QED  BY <1>0, <2>1, <2>2, <2>3, UdControlStays
<1>3. CASE UdSendsBulk \/ process_bulk_in \/ process_vbus_intr
  <2>1. UNCHANGED <<udCtl, udHostCtl, udTx0, udSent>> /\ (udMain' = "ctrl" => udMain = "ctrl")
    BY <1>3 DEF UdSendsBulk, process_bulk_in, process_vbus_intr, udMainVars, udCtlVars, udBulkVars
  <2>2. \/ udIrq' = udIrq \cup {"IN2"} \/ udIrq' = udIrq \ {"IN2"} \/ udIrq' = udIrq \ {"VBUS"}
    BY <1>3 DEF UdSendsBulk, process_bulk_in, process_vbus_intr, UDCIintHandler
  <2>3. "SETUP" \in udIrq => "ENP1" \notin udIrq /\ udSent = <<>>  BY <1>0 DEF UdControl, UdAsking
  <2>4. udMain' = "ctrl" => udCtl.need > 0  BY <1>0, <2>1 DEF UdControl
  <2>. QED  BY <1>0, <2>1, <2>2, <2>3, <2>4, UdControlStays
<1>4. CASE process_bulk_out \/ UdHostSends \/ UdHostReads
  <2>1. UNCHANGED <<udCtl, udHostCtl, udTx0, udMain>>
    BY <1>4 DEF process_bulk_out, UdHostSends, UdHostReads, udMainVars, udCtlVars
  <2>2. "SETUP" \notin udIrq
    BY <1>0, <1>4, UdHandled DEF process_bulk_out, UdHostSends, UdHostReads, UdControl, UdAsking
  <2>3. \/ udIrq' = udIrq \ {"ENP1"} \/ udIrq' = udIrq \cup {"ENP1"} \/ udIrq' = udIrq
    BY <1>4 DEF process_bulk_out, UdHostSends, UdHostReads, UDCIintHandler
  <2>4. udMain' = "ctrl" => udCtl.need > 0  BY <1>0, <2>1 DEF UdControl
  <2>. QED  BY <1>0, <2>1, <2>2, <2>3, <2>4, UdControlStays
<1>. QED  BY <1>1, <1>2, <1>3, <1>4

LEMMA UdControlStep == ASSUME ~udAborts, UdInv, UdStep PROVE UdControl'
<1>0. UdTyped /\ UdAlone /\ UdControl  BY DEF UdInv
<1>a. /\ udCtl \in UdCtlType /\ udHostCtl \in UdHostType
      /\ udCtl.need \in Nat /\ udCtl.size \in Nat /\ udHostCtl.kind \in {"read", "write", "other"}
      /\ udHostCtl.want \in 0 .. 2 /\ udHostCtl.over \in BOOLEAN /\ udTx0 \in BOOLEAN
  BY <1>0, UdTypes DEF UdTyped
<1>. USE DEF UdNoPacket, UdPending, UdOne
<1>1. CASE initUDCTestingEnv
  <2>1. udIrq \subseteq {"VBUS"} /\ udHostCtl = UdNoRequest /\ udSent = <<>>
    BY <1>0, <1>1 DEF UdAlone, UdHostOn, initUDCTestingEnv
  <2>2. udCtl'.need = 0 /\ udCtl'.size = 0 /\ udMain' = "poll"  BY <1>a, <1>1 DEF initUDCTestingEnv, UdCtlType
  <2>3. UNCHANGED <<udIrq, udHostCtl, udTx0, udSent>>  BY <1>1 DEF initUDCTestingEnv
  <2>. QED  BY <1>0, <2>1, <2>2, <2>3 DEF UdNoRequest, UdControl, UdAsking, UdOther, UdWrites, UdHasRead, UdReads
<1>2. CASE UdSendsControl
  <2>1. udCtl.need > 0 /\ udMain' # "ctrl"  BY <1>0, <1>2 DEF UdControl, UdSendsControl
  <2>2. "SETUP" \notin udIrq /\ udHostCtl.kind = "read" /\ ~udHostCtl.over /\ udCtl.stage = "data"
    BY <1>0, <1>a, <2>1 DEF UdControl, UdAsking, UdOther, UdWrites, UdHasRead, UdReads
  <2>3. udCtl.need = 1 /\ ~udTx0 /\ "IN0" \notin udIrq /\ "OUT0" \notin udIrq /\ udHostCtl.want = udCtl.size /\ udCtl.size > 0
    BY <1>0, <1>a, <2>1, <2>2 DEF UdControl, UdReads
  <2>4. udCtl'.need = 0 /\ udCtl'.size = udCtl.size - 1 /\ udCtl'.stage = "data" /\ udTx0'
    BY <1>a, <1>2, <2>2, <2>3 DEF UdSendsControl, UdLeft, UdCtlType
  <2>5. UNCHANGED <<udIrq, udHostCtl>>  BY <1>2 DEF UdSendsControl
  <2>6. UdReads' /\ UdAsking'  BY <1>0, <1>a, <2>2, <2>3, <2>4, <2>5 DEF UdControl, UdReads, UdAsking
  <2>. QED  BY <2>1, <2>2, <2>5, <2>6 DEF UdControl, UdOther, UdWrites, UdHasRead
<1>3. CASE process_reset
  <2>1. "RST" \in udIrq /\ udIrq' = udIrq \ {"RST"} /\ UNCHANGED <<udHostCtl, udTx0, udMain, udSent>>
    BY <1>3, UdHandled DEF process_reset, udMainVars, udBulkVars
  <2>2. udCtl'.need = udCtl.need /\ udCtl'.size = udCtl.size /\ udCtl'.stage = udCtl.stage
    BY <1>a, <1>3 DEF process_reset, UdCtlType
  <2>3. "SETUP" \in udIrq /\ "SETUP" \in udIrq'  BY <1>0, <2>1 DEF UdControl, UdAsking
  <2>4. UdAsking'  BY <1>0, <2>1, <2>2, <2>3 DEF UdControl, UdAsking
  <2>. QED  BY <1>0, <2>1, <2>2, <2>3, <2>4 DEF UdControl, UdOther, UdWrites, UdHasRead, UdReads
<1>4. CASE process_setup_req
  <2>1. "SETUP" \in udIrq /\ udIrq' = udIrq \ {"SETUP"} /\ "RST" \notin udIrq  BY <1>4, UdHandled DEF process_setup_req
  <2>2. UNCHANGED <<udHostCtl, udTx0, udMain, udSent>> /\ udCtl' = UdAsked  BY <1>4 DEF process_setup_req, udMainVars
  <2>3. /\ udCtl'.need = (IF udHostCtl.kind = "read" /\ udHostCtl.want > 0 THEN 1 ELSE 0) /\ udCtl'.stage = "data"
        /\ udHostCtl.kind # "other" => udCtl'.size = udHostCtl.want
    BY <2>2 DEF UdAsked
  <2>4. /\ UdNoPacket /\ "OUT0" \notin udIrq /\ (udHostCtl.over <=> udHostCtl.want = 0) /\ udMain # "ctrl"
        /\ (udHostCtl.kind = "write" => udHostCtl.want > 0) /\ (udHostCtl.kind = "other" => udHostCtl.want = 0)
    BY <1>0, <2>1 DEF UdControl, UdAsking
  <2>5. UdAsking' /\ UdOther' /\ UdHasRead'  BY <1>a, <2>1, <2>2, <2>3, <2>4 DEF UdAsking, UdOther, UdHasRead
  <2>6. UdWrites'  BY <1>a, <2>1, <2>2, <2>3, <2>4 DEF UdWrites
  <2>7. UdReads'  BY <1>a, <2>1, <2>2, <2>3, <2>4 DEF UdReads
  <2>. QED  BY <2>2, <2>4, <2>5, <2>6, <2>7 DEF UdControl
<1>5. CASE process_in0
  <2>1. "IN0" \in udIrq /\ udIrq' = udIrq \ {"IN0"} /\ "SETUP" \notin udIrq /\ "RST" \notin udIrq
    BY <1>5, UdHandled DEF process_in0
  <2>2. UNCHANGED <<udHostCtl, udTx0, udMain>>  BY <1>5 DEF process_in0, udMainVars
  <2>3. udHostCtl.kind = "read" /\ ~udHostCtl.over /\ udCtl.stage = "data"
    BY <1>0, <1>a, <2>1 DEF UdControl, UdOther, UdWrites, UdHasRead, UdReads
  <2>4. udCtl.need = 0 /\ ~udTx0 /\ "OUT0" \notin udIrq /\ udHostCtl.want = udCtl.size /\ udMain # "ctrl"
    BY <1>0, <1>a, <2>1, <2>3 DEF UdControl, UdReads
  <2>5. /\ udCtl.size # 0 => udCtl'.need = 1 /\ udCtl'.size = udCtl.size /\ udCtl'.stage = "data"
        /\ udCtl.size = 0 => udCtl'.need = 0 /\ udCtl'.stage = "status"
    BY <1>a, <1>5, <2>3, <2>4 DEF process_in0, UdMore, UdCtlType
  <2>6. UdReads'  BY <1>a, <2>1, <2>2, <2>3, <2>4, <2>5 DEF UdReads
  <2>. QED  BY <2>1, <2>2, <2>3, <2>4, <2>6 DEF UdControl, UdAsking, UdOther, UdWrites, UdHasRead
<1>6. CASE process_out0
  <2>1. "OUT0" \in udIrq /\ udIrq' = udIrq \ {"OUT0"} /\ "SETUP" \notin udIrq /\ "RST" \notin udIrq
    BY <1>6, UdHandled DEF process_out0
  <2>2. UNCHANGED <<udTx0, udMain>> /\ udHostCtl'.kind = udHostCtl.kind /\ udHostCtl'.want = udHostCtl.want
        /\ (udHostCtl'.over <=> udHostCtl.want = 0)
    BY <1>a, <1>6 DEF process_out0, udMainVars, UdHostType
  <2>3. CASE udHostCtl.kind = "write"
    <3>1. UdNoPacket /\ udCtl.stage = "data" /\ udCtl.size = udHostCtl.want + 1  BY <1>0, <2>1, <2>3 DEF UdControl, UdWrites
    <3>2. udCtl'.stage = "data" /\ udCtl'.size = udHostCtl.want /\ udCtl'.need = udCtl.need
      BY <1>a, <1>6, <3>1 DEF process_out0, UdCtlType
    <3>3. UdWrites'  BY <1>a, <2>1, <2>2, <2>3, <3>1, <3>2 DEF UdWrites
    <3>4. udMain # "ctrl"  BY <1>0, <3>1 DEF UdControl
    <3>. QED  BY <2>1, <2>2, <2>3, <3>3, <3>4 DEF UdControl, UdAsking, UdOther, UdHasRead, UdReads
  <2>4. CASE udHostCtl.kind # "write"
    <3>1. udHostCtl.kind = "read" /\ ~udHostCtl.over /\ udCtl.stage # "data" /\ UdNoPacket /\ udHostCtl.want = 0
      BY <1>0, <1>a, <2>1, <2>4 DEF UdControl, UdOther, UdHasRead, UdReads
    <3>2. udCtl' = udCtl  BY <1>6, <3>1 DEF process_out0
    <3>3. udMain # "ctrl"  BY <1>0, <3>1 DEF UdControl
    <3>. QED  BY <2>1, <2>2, <3>1, <3>2, <3>3 DEF UdControl, UdAsking, UdOther, UdWrites, UdHasRead, UdReads
  <2>. QED  BY <2>3, <2>4
<1>7. CASE UdCable
  <2>1. UdIdle  BY <1>7 DEF UdCable
  <2>2. udIrq' = {"VBUS"} /\ udHostCtl' = UdNoRequest /\ UNCHANGED <<udCtl, udTx0, udMain>>
    BY <1>7, <2>1, UdIsIdle DEF UdCable
  <2>3. udCtl.need = 0 /\ ~udTx0 /\ udMain # "ctrl"  BY <2>1, UdIsIdle
  <2>. QED  BY <2>2, <2>3 DEF UdNoRequest, UdControl, UdAsking, UdOther, UdWrites, UdHasRead, UdReads
<1>8. CASE UdRequests
  <2>1. UdIdle  BY <1>8 DEF UdRequests
  <2>2. udIrq = {} /\ udSent = <<>> /\ udCtl.need = 0 /\ udMain # "ctrl"  BY <2>1, UdIsIdle
  <2>3. /\ udHostCtl'.over <=> udHostCtl'.want = 0
        /\ udHostCtl'.kind = "write" => udHostCtl'.want > 0
        /\ udHostCtl'.kind = "other" => udHostCtl'.want = 0
    <3>1. PICK want \in 0 .. 2, kind \in {"read", "write", "other"} :
            /\ kind = "other" => want = 0
            /\ kind = "write" => want > 0
            /\ udHostCtl' = [kind |-> kind, want |-> want, over |-> want = 0, configured |-> TRUE]
      BY <1>8 DEF UdRequests
    <3>2. udHostCtl'.kind = kind /\ udHostCtl'.want = want /\ udHostCtl'.over = (want = 0)  BY <3>1, Zenon
    <3>. QED  BY <3>1, <3>2
  <2>4. ~udTx0' /\ UNCHANGED <<udMain, udCtl>>  BY <1>8 DEF UdRequests, udMainVars
  <2>5. udIrq' = {"SETUP"} \/ udIrq' = {"RST", "SETUP"}  BY <1>8, <2>2 DEF UdRequests
  <2>6. udSent' = <<>>  BY <1>8, <2>2 DEF UdRequests
  <2>. QED  BY <2>2, <2>3, <2>4, <2>5, <2>6 DEF UdControl, UdAsking, UdOther, UdWrites, UdHasRead, UdReads
<1>9. CASE UdTakesControl
  <2>1. udTx0 /\ udHostCtl.kind = "read" /\ udHostCtl.want > 0 /\ ~udTx0' /\ udIrq' = udIrq \cup {"IN0"}
        /\ UNCHANGED <<udMain, udCtl>>
    BY <1>9 DEF UdTakesControl, udMainVars
  <2>2. udHostCtl'.want = udHostCtl.want - 1 /\ udHostCtl'.kind = "read" /\ (udHostCtl'.over <=> udHostCtl.over)
    BY <1>a, <1>9, <2>1 DEF UdTakesControl, UdHostType
  <2>3. "SETUP" \notin udIrq /\ ~udHostCtl.over /\ udCtl.stage = "data" /\ "RST" \notin udIrq
    BY <1>0, <1>a, <2>1 DEF UdControl, UdAsking, UdHasRead, UdReads
  <2>4. udCtl.need = 0 /\ "OUT0" \notin udIrq /\ udHostCtl.want = udCtl.size + 1 /\ udMain # "ctrl"
    BY <1>0, <1>a, <2>1, <2>3 DEF UdControl, UdReads
  <2>5. UdReads'  BY <1>a, <2>1, <2>2, <2>3, <2>4 DEF UdReads
  <2>. QED  BY <2>1, <2>2, <2>3, <2>4, <2>5 DEF UdControl, UdAsking, UdOther, UdWrites, UdHasRead
<1>10. CASE UdGivesControl
  <2>1. udHostCtl.kind = "write" /\ udHostCtl.want > 0 /\ "SETUP" \notin udIrq /\ "OUT0" \notin udIrq /\ "RST" \notin udIrq
        /\ udIrq' = udIrq \cup {"OUT0"} /\ UNCHANGED <<udMain, udCtl, udTx0>>
    BY <1>10 DEF UdGivesControl, udMainVars
  <2>2. udHostCtl'.want = udHostCtl.want - 1 /\ udHostCtl'.kind = "write" /\ (udHostCtl'.over <=> udHostCtl.over)
    BY <1>a, <1>10, <2>1 DEF UdGivesControl, UdHostType
  <2>3. UdNoPacket /\ udCtl.stage = "data" /\ udCtl.size = udHostCtl.want /\ ~udHostCtl.over
    BY <1>0, <1>a, <2>1 DEF UdControl, UdWrites
  <2>4. UdWrites'  BY <1>a, <2>1, <2>2, <2>3 DEF UdWrites
  <2>. QED  BY <1>0, <2>1, <2>2, <2>3, <2>4 DEF UdControl, UdAsking, UdOther, UdHasRead, UdReads
<1>11. CASE UdStatus
  <2>1. udHostCtl.kind = "read" /\ udHostCtl.want = 0 /\ ~udHostCtl.over /\ udCtl.stage = "status"
        /\ udIrq' = udIrq \cup {"OUT0"} /\ UNCHANGED <<udMain, udCtl, udHostCtl, udTx0, udSent>>
    BY <1>11 DEF UdStatus, udMainVars, udCtlVars, udBulkVars
  <2>2. "SETUP" \notin udIrq /\ "RST" \notin udIrq  BY <1>0, <2>1 DEF UdControl, UdAsking
  <2>3. UdNoPacket /\ udMain # "ctrl"  BY <1>0, <2>1, <2>2 DEF UdControl, UdReads
  <2>. QED  BY <2>1, <2>2, <2>3 DEF UdControl, UdAsking, UdOther, UdWrites, UdHasRead, UdReads
<1>. QED
  BY <1>1, <1>2, <1>3, <1>4, <1>5, <1>6, <1>7, <1>8, <1>9, <1>10, <1>11, UdControlRests
  DEF UdStep, UdServes, UdInterrupt, UdHost

\* The steps that leave the blocks alone.
LEMMA UdBulkStays ==
  ASSUME UdBulk, udLoop'.count = udLoop.count, udLoop'.in = udLoop.in, udLoop'.out = udLoop.out,
         UNCHANGED <<udBuffer, udFifo, udSent>>, "ENP1" \in udIrq' <=> "ENP1" \in udIrq,
         udArmed' => udArmed \/ "ENP1" \notin udIrq, udMain' = "bulk" => udLoop.count > 0
  PROVE  UdBulk'
<1>1. UdReceived' = UdReceived  BY DEF UdReceived, UdOne
<1>2. Len(udSent') = Len(udFifo') + udLoop'.count + UdReceived' /\ Len(udSent') <= udBlocks  BY <1>1 DEF UdBulk
<1>3. \A i \in 1 .. Len(udFifo') : udSent'[i] = udFifo'[i]  BY DEF UdBulk
<1>4. \A k \in 1 .. udLoop'.count + UdReceived' :
        udSent'[Len(udFifo') + k] = udBuffer'[RingPlus(udLoop'.in, k - 1, udBlocks)]
  BY <1>1 DEF UdBulk
<1>5. udLoop'.out = RingPlus(udLoop'.in, udLoop'.count, udBlocks)  BY DEF UdBulk
<1>6. (udArmed' => "ENP1" \notin udIrq') /\ (udMain' = "bulk" => udLoop'.count > 0)  BY DEF UdBulk
<1>. QED  BY <1>2, <1>3, <1>4, <1>5, <1>6 DEF UdBulk

\* No block is under way.
LEMMA UdBulkEmpty ==
  ASSUME udSent' = <<>>, udFifo' = <<>>, udLoop'.count = 0, udLoop'.in \in Block, udLoop'.out = udLoop'.in,
         "ENP1" \notin udIrq', udMain' # "bulk"
  PROVE  UdBulk'
<1>1. udBlocks \in Nat \ {0}  BY UdAssumption
<1>2. UdReceived' = 0  BY DEF UdReceived, UdOne
<1>3. RingPlus(udLoop'.in, 0, udBlocks) = udLoop'.in  BY <1>1 DEF RingPlus, Block
<1>. QED  BY <1>1, <1>2, <1>3 DEF UdBulk

LEMMA UdBulkStep == ASSUME ~udAborts, UdInv, UdStep PROVE UdBulk'
<1>0. UdTyped /\ UdAlone /\ UdControl /\ UdBulk /\ udBlocks \in Nat \ {0}  BY UdAssumption DEF UdInv
<1>a. /\ udLoop \in UdLoopType /\ udLoop.count \in Nat /\ udLoop.in \in Block /\ udLoop.out \in Block
      /\ Len(udFifo) \in Nat /\ Len(udSent) \in Nat /\ udFifo \in Seq({0, 1}) /\ udSent \in Seq({0, 1})
      /\ udBuffer \in [Block -> {0, 1}] /\ UdReceived \in 0 .. 1
  BY <1>0, UdTypes DEF UdTyped, UdReceived, UdOne
<1>b. /\ Len(udSent) = Len(udFifo) + udLoop.count + UdReceived /\ Len(udSent) <= udBlocks
      /\ \A i \in 1 .. Len(udFifo) : udSent[i] = udFifo[i]
      /\ \A k \in 1 .. udLoop.count + UdReceived :
           udSent[Len(udFifo) + k] = udBuffer[RingPlus(udLoop.in, k - 1, udBlocks)]
      /\ udLoop.out = RingPlus(udLoop.in, udLoop.count, udBlocks)
      /\ udArmed => "ENP1" \notin udIrq
      /\ udMain = "bulk" => udLoop.count > 0
  BY <1>0 DEF UdBulk
<1>1. CASE UDCTesting \/ UdNoHost \/ UdDisconnected \/ UdAnswer \/ UdLooks \/ UdSendsControl
  <2>1. UNCHANGED <<udIrq, udLoop, udArmed, udBuffer, udFifo, udSent>> /\ (udMain' = "bulk" => udLoop.count > 0)
    BY <1>1 DEF UDCTesting, UdNoHost, UdDisconnected, UdAnswer, UdLooks, UdSendsControl, udBulkVars
  <2>. QED  BY <1>0, <2>1, UdBulkStays
<1>2. CASE initUDCTestingEnv
  <2>1. udIrq \subseteq {"VBUS"} /\ udSent = <<>>  BY <1>0, <1>2 DEF UdAlone, UdHostOn, initUDCTestingEnv
  <2>2. Len(udFifo) = 0 /\ udLoop.count = 0  BY <1>a, <1>b, <2>1
  <2>3. udFifo = <<>>  BY <1>a, <2>2, EmptySeq
  <2>4. udLoop'.count = 0 /\ udLoop'.in = 0 /\ udLoop'.out = 0 /\ udMain' = "poll" /\ UNCHANGED <<udIrq, udSent, udFifo>>
    BY <1>2, <2>2 DEF initUDCTestingEnv, NoLoop
  <2>5. 0 \in Block  BY <1>0 DEF Block
  <2>. QED  BY <2>1, <2>3, <2>4, <2>5, UdBulkEmpty
<1>3. CASE process_vbus_intr \/ process_reset \/ process_in0 \/ process_out0
  <2>1. UNCHANGED <<udLoop, udArmed, udBuffer, udFifo, udSent, udMain>>
    BY <1>3 DEF process_vbus_intr, process_reset, process_in0, process_out0, udMainVars, udBulkVars
  <2>2. udIrq' = udIrq \ {"VBUS"} \/ udIrq' = udIrq \ {"RST"} \/ udIrq' = udIrq \ {"IN0"} \/ udIrq' = udIrq \ {"OUT0"}
    BY <1>3 DEF process_vbus_intr, process_reset, process_in0, process_out0, UDCIintHandler
  <2>. QED  BY <1>0, <1>b, <2>1, <2>2, UdBulkStays
<1>4. CASE process_setup_req
  <2>1. "SETUP" \in udIrq /\ udIrq' = udIrq \ {"SETUP"}  BY <1>4, UdHandled DEF process_setup_req
  <2>2. "ENP1" \notin udIrq /\ udSent = <<>>  BY <1>0, <2>1 DEF UdControl, UdAsking
  <2>3. Len(udFifo) = 0 /\ udLoop.count = 0  BY <1>a, <1>b, <2>2
  <2>4. udFifo = <<>>  BY <1>a, <2>3, EmptySeq
  <2>5. UNCHANGED <<udSent, udFifo, udBuffer, udMain>>  BY <1>4 DEF process_setup_req, udMainVars
  <2>6. CASE udCtl.reset
    <3>1. udLoop'.count = 0 /\ udLoop'.in = 0 /\ udLoop'.out = 0  BY <1>4, <2>6 DEF process_setup_req, UdKept
    <3>2. 0 \in Block  BY <1>0 DEF Block
    <3>3. udMain # "bulk"  BY <1>b, <2>3
    <3>. QED  BY <2>1, <2>2, <2>4, <2>5, <3>1, <3>2, <3>3, UdBulkEmpty
  <2>7. CASE ~udCtl.reset
    <3>1. udLoop' = udLoop /\ (udArmed' => udArmed)  BY <1>4, <2>7 DEF process_setup_req
    <3>. QED  BY <1>0, <1>b, <2>1, <2>5, <3>1, UdBulkStays
  <2>. QED  BY <2>6, <2>7
<1>5. CASE process_bulk_in
  <2>1. udIrq' = udIrq \ {"IN2"} /\ UNCHANGED <<udArmed, udBuffer, udFifo, udSent, udMain>>
    BY <1>5 DEF process_bulk_in, UDCIintHandler, udMainVars
  <2>2. udLoop'.count = udLoop.count /\ udLoop'.in = udLoop.in /\ udLoop'.out = udLoop.out
    BY <1>a, <1>5 DEF process_bulk_in, UdDone, UdLoopType
  <2>. QED  BY <1>0, <1>b, <2>1, <2>2, UdBulkStays
<1>6. CASE UdTakesControl \/ UdGivesControl \/ UdStatus
  <2>1. UNCHANGED <<udLoop, udArmed, udBuffer, udFifo, udSent, udMain>>
    BY <1>6 DEF UdTakesControl, UdGivesControl, UdStatus, udMainVars, udBulkVars
  <2>2. udIrq' = udIrq \cup {"IN0"} \/ udIrq' = udIrq \cup {"OUT0"}
    BY <1>6 DEF UdTakesControl, UdGivesControl, UdStatus
  <2>. QED  BY <1>0, <1>b, <2>1, <2>2, UdBulkStays
<1>7. CASE UdCable \/ UdRequests
  <2>1. UdIdle  BY <1>7 DEF UdCable, UdRequests
  <2>2. udIrq = {} /\ udSent = <<>> /\ udFifo = <<>> /\ udLoop.count = 0  BY <2>1, UdIsIdle
  <2>3. "ENP1" \notin udIrq' /\ udSent' = <<>> /\ udFifo' = <<>>  BY <1>7, <2>2 DEF UdCable, UdRequests
  <2>4. UNCHANGED <<udLoop, udMain>>  BY <1>7 DEF UdCable, UdRequests, udMainVars
  <2>5. udLoop.out = udLoop.in  BY <1>0, <1>a, <1>b, <2>2 DEF RingPlus, Block
  <2>6. udMain # "bulk"  BY <1>b, <2>2
  <2>. QED  BY <1>a, <2>2, <2>3, <2>4, <2>5, <2>6, UdBulkEmpty
<1>8. CASE UdSendsBulk
  <2>0. udMain = "bulk"  BY <1>8 DEF UdSendsBulk
  <2>1. udLoop.count > 0 /\ udLoop.count + UdReceived <= udBlocks  BY <1>0, <1>a, <1>b, <2>0
  <2>2. /\ udLoop'.count = udLoop.count - 1 /\ udLoop'.in = UdNextBlock(udLoop.in) /\ udLoop'.out = udLoop.out
        /\ UNCHANGED <<udArmed, udBuffer, udSent>> /\ udMain' = "poll" /\ udIrq' = udIrq \cup {"IN2"}
        /\ udFifo' = Append(udFifo, udBuffer[udLoop.in])
    BY <1>a, <1>8 DEF UdSendsBulk, UdLoopType
  <2>3. UdReceived' = UdReceived  BY <2>2 DEF UdReceived, UdOne
  <2>4. RingPlus(udLoop.in, 0, udBlocks) = udLoop.in  BY <1>0, <1>a DEF RingPlus, Block
  <2>5. udSent[Len(udFifo) + 1] = udBuffer[udLoop.in]
    <3>1. 1 \in 1 .. udLoop.count + UdReceived  BY <1>a, <2>1
    <3>2. udSent[Len(udFifo) + 1] = udBuffer[RingPlus(udLoop.in, 1 - 1, udBlocks)]  BY <1>b, <3>1
    <3>. QED  BY <2>4, <3>2
  <2>6. udBuffer[udLoop.in] \in {0, 1}  BY <1>a
  <2>7. /\ Len(udFifo') = Len(udFifo) + 1
        /\ \A i \in 1 .. Len(udFifo) : udFifo'[i] = udFifo[i]
        /\ udFifo'[Len(udFifo) + 1] = udBuffer[udLoop.in]
    BY <1>a, <2>2, <2>6, AppendProperties
  <2>8. \A i \in 1 .. Len(udFifo') : udSent'[i] = udFifo'[i]
    <3>1. \A i \in 1 .. Len(udFifo) + 1 : i \in 1 .. Len(udFifo) \/ i = Len(udFifo) + 1  BY <1>a
    <3>. QED  BY <1>b, <2>2, <2>5, <2>7, <3>1
  <2>9. \A k \in 1 .. udLoop'.count + UdReceived' :
          udSent'[Len(udFifo') + k] = udBuffer'[RingPlus(udLoop'.in, k - 1, udBlocks)]
    <3>1. SUFFICES ASSUME NEW k \in 1 .. udLoop.count - 1 + UdReceived
                   PROVE udSent[Len(udFifo) + 1 + k] = udBuffer[RingPlus(UdNextBlock(udLoop.in), k - 1, udBlocks)]
      BY <2>2, <2>3, <2>7
    <3>2. k \in 1 .. udBlocks /\ k + 1 \in 1 .. udLoop.count + UdReceived  BY <1>0, <1>a, <2>1
    <3>3. RingPlus(UdNextBlock(udLoop.in), k - 1, udBlocks) = RingPlus(udLoop.in, k, udBlocks)  BY <1>a, <3>2, UdRing
    <3>4. udSent[Len(udFifo) + (k + 1)] = udBuffer[RingPlus(udLoop.in, (k + 1) - 1, udBlocks)]  BY <1>b, <3>2
    <3>5. (k + 1) - 1 = k /\ Len(udFifo) + (k + 1) = Len(udFifo) + 1 + k  BY <1>a
    <3>. QED  BY <3>3, <3>4, <3>5
  <2>10. udLoop'.out = RingPlus(udLoop'.in, udLoop'.count, udBlocks)
    <3>1. udLoop.count \in 1 .. udBlocks  BY <1>0, <1>a, <2>1
    <3>. QED  BY <1>a, <1>b, <2>2, <3>1, UdRing
  <2>11. Len(udSent') = Len(udFifo') + udLoop'.count + UdReceived' /\ Len(udSent') <= udBlocks
    BY <1>a, <1>b, <2>2, <2>3, <2>7
  <2>12. (udArmed' => "ENP1" \notin udIrq') /\ udMain' # "bulk"  BY <1>b, <2>2
  <2>. QED  BY <2>8, <2>9, <2>10, <2>11, <2>12 DEF UdBulk
<1>9. CASE process_bulk_out
  <2>1. "ENP1" \in udIrq /\ udIrq' = udIrq \ {"ENP1"}  BY <1>9, UdHandled DEF process_bulk_out
  <2>2. /\ udLoop'.count = udLoop.count + 1 /\ udLoop'.in = udLoop.in /\ udLoop'.out = UdNextBlock(udLoop.out)
        /\ UNCHANGED <<udBuffer, udFifo, udSent, udMain>>
    BY <1>a, <1>9 DEF process_bulk_out, UdLoopType, udMainVars
  <2>3. UdReceived = 1 /\ UdReceived' = 0  BY <2>1 DEF UdReceived, UdOne
  <2>4. udLoop'.out = RingPlus(udLoop'.in, udLoop'.count, udBlocks)
    <3>1. udLoop.count \in 0 .. udBlocks - 1  BY <1>0, <1>a, <1>b, <2>3
    <3>. QED  BY <1>a, <1>b, <2>2, <3>1, UdRing
  <2>5. Len(udSent') = Len(udFifo') + udLoop'.count + UdReceived' /\ Len(udSent') <= udBlocks
    BY <1>a, <1>b, <2>2, <2>3
  <2>6. udLoop'.count + UdReceived' = udLoop.count + UdReceived  BY <1>a, <2>2, <2>3
  <2>7. udMain' = "bulk" => udLoop'.count > 0  BY <1>a, <1>b, <2>2
  <2>. QED  BY <1>b, <2>1, <2>2, <2>4, <2>5, <2>6, <2>7 DEF UdBulk
<1>10. CASE UdHostSends
  <2>1. PICK bit \in {0, 1} : udBuffer' = [udBuffer EXCEPT ![udLoop.out] = bit] /\ udSent' = Append(udSent, bit)
    BY <1>10 DEF UdHostSends
  <2>2. /\ udArmed /\ Len(udSent) < udBlocks /\ ~udArmed' /\ udIrq' = udIrq \cup {"ENP1"}
        /\ UNCHANGED <<udMain, udLoop, udFifo>>
    BY <1>10 DEF UdHostSends, udMainVars
  <2>3. UdReceived = 0 /\ UdReceived' = 1  BY <1>b, <2>2 DEF UdReceived, UdOne
  <2>4. /\ Len(udSent') = Len(udSent) + 1
        /\ \A i \in 1 .. Len(udSent) : udSent'[i] = udSent[i]
        /\ udSent'[Len(udSent) + 1] = bit
    BY <1>a, <2>1, AppendProperties
  <2>5. Len(udSent) = Len(udFifo) + udLoop.count /\ udLoop.count \in 0 .. udBlocks - 1  BY <1>0, <1>a, <1>b, <2>2, <2>3
  <2>6. \A i \in 1 .. Len(udFifo') : udSent'[i] = udFifo'[i]
    <3>1. \A i \in 1 .. Len(udFifo) : i \in 1 .. Len(udSent)  BY <1>a, <2>5
    <3>. QED  BY <1>b, <2>2, <2>4, <3>1
  <2>7. \A k \in 1 .. udLoop'.count + UdReceived' :
          udSent'[Len(udFifo') + k] = udBuffer'[RingPlus(udLoop'.in, k - 1, udBlocks)]
    <3>1. SUFFICES ASSUME NEW k \in 1 .. udLoop.count + 1
                   PROVE udSent'[Len(udFifo) + k] = udBuffer'[RingPlus(udLoop.in, k - 1, udBlocks)]
      BY <2>2, <2>3
    <3>2. k - 1 \in 0 .. udBlocks - 1  BY <1>0, <2>5
    <3>3. RingPlus(udLoop.in, k - 1, udBlocks) \in Block  BY <1>a, <3>2, UdRing
    <3>4. CASE k = udLoop.count + 1
      <4>1. k - 1 = udLoop.count /\ Len(udFifo) + k = Len(udSent) + 1  BY <1>a, <2>5, <3>4
      <4>2. RingPlus(udLoop.in, k - 1, udBlocks) = udLoop.out  BY <1>b, <4>1
      <4>3. udBuffer'[udLoop.out] = bit  BY <1>a, <2>1
      <4>. QED  BY <2>4, <4>1, <4>2, <4>3
    <3>5. CASE k # udLoop.count + 1
      <4>1. /\ k \in 1 .. udLoop.count + UdReceived /\ Len(udFifo) + k \in 1 .. Len(udSent) /\ k - 1 # udLoop.count
        BY <1>a, <2>3, <2>5, <3>5
      <4>2. RingPlus(udLoop.in, k - 1, udBlocks) # udLoop.out  BY <1>a, <1>b, <2>5, <3>2, <4>1, UdRing
      <4>3. udBuffer'[RingPlus(udLoop.in, k - 1, udBlocks)] = udBuffer[RingPlus(udLoop.in, k - 1, udBlocks)]
        BY <1>a, <2>1, <3>3, <4>2
      <4>. QED  BY <1>b, <2>4, <4>1, <4>3
    <3>. QED  BY <3>4, <3>5
  <2>8. Len(udSent') = Len(udFifo') + udLoop'.count + UdReceived' /\ Len(udSent') <= udBlocks
    BY <1>0, <1>a, <2>2, <2>3, <2>4, <2>5
  <2>. QED  BY <1>b, <2>2, <2>6, <2>7, <2>8 DEF UdBulk
<1>11. CASE UdHostReads
  <2>1. /\ udFifo # <<>> /\ udSent # <<>> /\ udFifo' = Tail(udFifo) /\ udSent' = Tail(udSent)
        /\ UNCHANGED <<udMain, udIrq, udLoop, udArmed, udBuffer>>
    BY <1>11 DEF UdHostReads, udMainVars
  <2>2. UdReceived' = UdReceived  BY <2>1 DEF UdReceived, UdOne
  <2>3. /\ Len(udFifo') = Len(udFifo) - 1 /\ Len(udSent') = Len(udSent) - 1
        /\ \A i \in 1 .. Len(udFifo) - 1 : udFifo'[i] = udFifo[i + 1]
        /\ \A i \in 1 .. Len(udSent) - 1 : udSent'[i] = udSent[i + 1]
    BY <1>a, <2>1, HeadTailProperties
  <2>4. Len(udFifo) > 0  BY <1>a, <2>1, EmptySeq
  <2>5. \A i \in 1 .. Len(udFifo') : udSent'[i] = udFifo'[i]
    <3>1. SUFFICES ASSUME NEW i \in 1 .. Len(udFifo) - 1 PROVE udSent'[i] = udFifo'[i]  BY <2>3
    <3>2. i \in 1 .. Len(udSent) - 1 /\ i + 1 \in 1 .. Len(udFifo)  BY <1>a, <1>b
    <3>. QED  BY <1>b, <2>3, <3>2
  <2>6. \A k \in 1 .. udLoop'.count + UdReceived' :
          udSent'[Len(udFifo') + k] = udBuffer'[RingPlus(udLoop'.in, k - 1, udBlocks)]
    <3>1. SUFFICES ASSUME NEW k \in 1 .. udLoop.count + UdReceived
                   PROVE udSent'[Len(udFifo) - 1 + k] = udBuffer[RingPlus(udLoop.in, k - 1, udBlocks)]
      BY <2>1, <2>2, <2>3
    <3>2. Len(udFifo) - 1 + k \in 1 .. Len(udSent) - 1 /\ (Len(udFifo) - 1 + k) + 1 = Len(udFifo) + k
      BY <1>a, <1>b, <2>4
    <3>. QED  BY <1>b, <2>3, <3>2
  <2>7. Len(udSent') = Len(udFifo') + udLoop'.count + UdReceived' /\ Len(udSent') <= udBlocks
    BY <1>0, <1>a, <1>b, <2>1, <2>2, <2>3
  <2>. QED  BY <1>b, <2>1, <2>5, <2>6, <2>7 DEF UdBulk
<1>. QED
  BY <1>1, <1>2, <1>3, <1>4, <1>5, <1>6, <1>7, <1>8, <1>9, <1>10, <1>11 DEF UdStep, UdServes, UdInterrupt, UdHost

LEMMA UdSteps == ASSUME ~udAborts, UdInv, UdStep PROVE UdInv'
BY UdTypedStep, UdAloneStep, UdControlStep, UdBulkStep DEF UdInv

LEMMA UdStays == ASSUME UdInv, UNCHANGED udVars PROVE UdInv'
<1>1. UNCHANGED <<udMain, udVbus, udIrq, udCtl, udHostCtl, udTx0, udLoop, udArmed, udBuffer, udFifo, udSent>>
  BY DEF udVars
<1>2. UdTyped'  BY <1>1 DEF UdInv, UdTyped
<1>3. UdAlone'  BY <1>1 DEF UdInv, UdAlone, UdHostOn
<1>4. UdControl'
  <2>1. UdControl  BY DEF UdInv
  <2>2. "SETUP" \in udIrq => "ENP1" \notin udIrq /\ udSent = <<>>  BY <2>1 DEF UdControl, UdAsking
  <2>3. udMain = "ctrl" => udCtl.need > 0  BY <2>1 DEF UdControl
  <2>. QED  BY <1>1, <2>1, <2>2, <2>3, UdControlStays
<1>5. UdBulk'
  <2>1. UdBulk /\ (udMain = "bulk" => udLoop.count > 0)  BY DEF UdInv, UdBulk
  <2>. QED  BY <1>1, <2>1, UdBulkStays
<1>. QED  BY <1>2, <1>3, <1>4, <1>5 DEF UdInv

LEMMA UdInvariant == ASSUME ~udAborts PROVE SerialSpec => []UdInv
<1>1. SerialInit => UdInv  BY UdBegins DEF SerialInit
<1>2. UdInv /\ [SerialNext]_serialVars => UdInv'
  <2>. SUFFICES ASSUME UdInv, [SerialNext]_serialVars PROVE UdInv'  OBVIOUS
  <2>1. UdStep \/ UNCHANGED udVars  BY DEF SerialNext, UartOn, UdOn, MacOn, MtOn, serialVars
  <2>. QED  BY <2>1, UdSteps, UdStays
<1>. QED  BY <1>1, <1>2, PTL DEF SerialSpec

(* A host that ends what it began reads back the blocks it sent, in order  *)
(* and unchanged, from a loop-back buffer of any size; and a request moves *)
(* as many packets as it asks for.                                         *)
THEOREM BlocksComeBack == ASSUME ~udAborts PROVE SerialSpec => []UdRight
<1>1. UdInv => UdRight
  <2>. SUFFICES ASSUME UdInv PROVE UdRight  OBVIOUS
  <2>0. UdTyped /\ UdControl /\ UdBulk  BY DEF UdInv
  <2>a. /\ udFifo \in Seq({0, 1}) /\ udSent \in Seq({0, 1}) /\ Len(udFifo) \in Nat /\ Len(udSent) \in Nat
        /\ udLoop.count \in Nat /\ UdReceived \in 0 .. 1
        /\ udCtl.need \in Nat /\ udCtl.size \in Nat /\ udHostCtl.kind \in {"read", "write", "other"}
        /\ udHostCtl.want \in 0 .. 2 /\ udHostCtl.over \in BOOLEAN /\ udTx0 \in BOOLEAN
    BY <2>0, UdTypes DEF UdTyped, UdReceived, UdOne
  <2>1. IsPrefix(udFifo, udSent)
    <3>1. Len(udFifo) <= Len(udSent)  BY <2>0, <2>a DEF UdBulk
    <3>2. SubSeq(udFifo, 1, Len(udFifo)) = udFifo  BY <2>a, SubSeqFull
    <3>3. SubSeq(udSent, 1, Len(udFifo)) = udFifo
      <4>. DEFINE s == SubSeq(udSent, 1, Len(udFifo))
      <4>1. /\ s \in Seq({0, 1}) /\ Len(s) = Len(udFifo)
            /\ \A i \in 1 .. Len(udFifo) : s[i] = udSent[i]
        BY <2>a, <3>1
      <4>2. \A i \in 1 .. Len(udFifo) : s[i] = udFifo[i]  BY <2>0, <4>1 DEF UdBulk
      <4>. HIDE DEF s
      <4>3. s = udFifo  BY <2>a, <4>1, <4>2, SeqEqual
      <4>. QED  BY <4>3 DEF s
    <3>. QED  BY <3>1, <3>2, <3>3 DEF IsPrefix
  <2>2. ASSUME udCtl.stage = "data", "SETUP" \notin udIrq, udHostCtl.kind = "read"
        PROVE udHostCtl.want = udCtl.size + UdOne(udTx0)
    BY <2>0, <2>2, <2>a DEF UdControl, UdReads, UdHasRead, UdNoPacket, UdOne
  <2>3. ASSUME udCtl.stage = "data", "SETUP" \notin udIrq, udHostCtl.kind = "write"
        PROVE udCtl.size = udHostCtl.want + UdPending
    BY <2>0, <2>3 DEF UdControl, UdWrites
  <2>4. udIrq \cap {"SETUP", "RST"} = {} => "SETUP" \notin udIrq  OBVIOUS
  <2>. QED  BY <2>1, <2>2, <2>3, <2>4 DEF UdRight, UdPending, UdOne
<1>. QED  BY <1>1, UdInvariant, PTL

(* With such a host the counters of packets to send and of blocks to       *)
(* return stay what they count and never drop below zero.                  *)
THEOREM CountersCount == ASSUME ~udAborts PROVE SerialSpec => []UdCountsTrue
<1>1. UdInv => UdCountsTrue
  <2>. SUFFICES ASSUME UdInv PROVE UdCountsTrue  OBVIOUS
  <2>0. UdTyped /\ UdControl /\ UdBulk /\ udBlocks \in Nat  BY UdAssumption DEF UdInv
  <2>1. udCtl.need \in Nat /\ udHostCtl.kind \in {"read", "write", "other"}  BY <2>0, UdTypes
  <2>2. udCtl.need \in 0 .. 1
    BY <2>0, <2>1 DEF UdControl, UdAsking, UdOther, UdWrites, UdHasRead, UdReads, UdNoPacket, UdOne
  <2>3. udLoop.count \in Nat /\ Len(udFifo) \in Nat /\ UdReceived \in 0 .. 1
    BY <2>0, UdTypes DEF UdReceived, UdOne
  <2>4. udLoop.count \in 0 .. udBlocks  BY <2>0, <2>3 DEF UdBulk
  <2>. QED  BY <2>2, <2>4 DEF UdCountsTrue
<1>. QED  BY <1>1, UdInvariant, PTL

=============================================================================
