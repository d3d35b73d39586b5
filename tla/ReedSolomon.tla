----------------------------- MODULE ReedSolomon -----------------------------
(***************************************************************************)
(* The Reed-Solomon library of src/NAND/rscode-1.0_socle, over a smaller   *)
(* field: GF(2^rsBits) for GF(2^10), with the tap rsTap of the shift       *)
(* register for the tap 3.  An element of the field is the set of its bits *)
(* that are one, so that exclusive-or is the symmetric difference.  The    *)
(* bytes of a message are the elements with rsByte bits, 8 in the source.  *)
(*                                                                         *)
(* A session encodes a message, at most rsDamage symbols of the word are   *)
(* changed, bytes to bytes, and the word is decoded and corrected; npar is *)
(* chosen for each.                                                        *)
(***************************************************************************)
EXTENDS Integers, Sequences, FiniteSetsExt

CONSTANTS rsBits, rsTap, rsByte, rsBytes, rsMaxPar, rsDamage
ASSUME RsAssumption ==
  /\ rsBits \in Nat /\ rsByte \in 1 .. rsBits /\ rsTap \in 1 .. rsBits - 1
  /\ rsMaxPar \in Nat /\ rsBytes \in Nat /\ rsBytes + rsMaxPar < 2 ^ rsBits
  /\ rsDamage \in 0 .. rsMaxPar

VARIABLES
  rsPc,     \* off, idle, genpoly, encode, sent, received, locate, evaluate, correct, done
  rsNpar, rsGen,      \* npar, genPoly
  rsCode,   \* the LFSR, or the codeword once it is built; the one sent; symbols changed
  rsAt,     \* the loop's counter
  rsSyn,    \* synBytes
  rsBm,     \* the locals of Modified_Berlekamp_Massey
  rsFound,  \* Omega and ErrorLocs
  rsRet     \* what the correction returned

rsVars == <<rsPc, rsNpar, rsGen, rsCode, rsAt, rsSyn, rsBm, rsFound, rsRet>>

Elt == SUBSET (0 .. rsBits - 1)
ByteElt == SUBSET (0 .. rsByte - 1)
Order == 2 ^ rsBits - 1
gone == {0}               \* the element 1
XorOver(S, F(_)) == {b \in 0 .. rsBits - 1 : Cardinality({i \in S : b \in F(i)}) % 2 = 1}

(* One step of the shift register, and the tables.                         *)
Shifted(p) ==
  SymDiff({b + 1 : b \in p \ {rsBits - 1}}, IF rsBits - 1 \in p THEN {0, rsTap} ELSE {})
gexp[n \in 0 .. 2 * Order] == IF n = 0 THEN gone ELSE LET before == gexp[n - 1] IN Shifted(before)
gexpTable == [n \in 0 .. 2 * Order |-> gexp[n]]
glog == [e \in Elt |-> IF e = {} THEN 0 ELSE CHOOSE z \in 0 .. Order - 1 : gexpTable[z] = e]
gmult(a, b) == IF a = {} \/ b = {} THEN {} ELSE gexpTable[glog[a] + glog[b]]
ginv(a) == gexpTable[Order - glog[a]]

MaxDeg == 2 * rsMaxPar
zero_poly == [i \in 0 .. MaxDeg - 1 |-> {}]
mult_polys(p1, p2) ==
  [k \in 0 .. MaxDeg - 1 |-> LET Term(i) == gmult(p2[k - i], p1[i]) IN XorOver(0 .. k, Term)]
mul_z_poly(p) == [i \in 0 .. MaxDeg - 1 |-> IF i = 0 THEN {} ELSE p[i - 1]]
compute_discrepancy(psi, L, n) == LET Term(i) == gmult(psi[i], rsSyn[n - i]) IN XorOver(0 .. L, Term)
EvalAt(p, S, Power(_)) == LET Term(j) == gmult(p[j], gexpTable[Power(j) % Order]) IN XorOver(S, Term)

NoBm == [psi |-> zero_poly, D |-> zero_poly, k |-> -1, L |-> 0]
RsStart(pc) ==
  /\ rsPc = pc /\ rsNpar = 0 /\ rsGen = zero_poly /\ rsCode = [word |-> <<>>, sent |-> <<>>, bad |-> 0]
  /\ rsAt = 0 /\ rsSyn = zero_poly /\ rsBm = NoBm /\ rsFound = [omega |-> zero_poly, locs |-> {}] /\ rsRet = <<"none", 0>>
-----------------------------------------------------------------------------
RsGoto(from, to) == rsPc = from /\ rsPc' = to
(* initialize_ecc: the product of x + a^i for i to npar.                   *)
compute_genpoly ==
  /\ RsGoto("idle", "genpoly") /\ rsNpar' \in {n \in 1 .. rsMaxPar : n % 2 = 0}
  /\ rsGen' = [zero_poly EXCEPT ![0] = gone] /\ rsAt' = 1
  /\ UNCHANGED <<rsCode, rsSyn, rsBm, rsFound, rsRet>>
genpoly_factor ==
  /\ rsPc = "genpoly" /\ rsAt <= rsNpar /\ rsAt' = rsAt + 1
  /\ rsGen' = mult_polys([zero_poly EXCEPT ![0] = gexpTable[rsAt], ![1] = gone], rsGen)
  /\ UNCHANGED <<rsPc, rsNpar, rsCode, rsSyn, rsBm, rsFound, rsRet>>

encode_data(msg) ==
  /\ RsGoto("genpoly", "encode") /\ rsAt > rsNpar /\ rsAt' = 0
  /\ rsCode' = [word |-> [j \in 0 .. rsNpar - 1 |-> {}], sent |-> msg, bad |-> 0]
  /\ UNCHANGED <<rsNpar, rsGen, rsSyn, rsBm, rsFound, rsRet>>
encode_byte ==
  /\ rsPc = "encode" /\ rsAt < rsBytes /\ rsAt' = rsAt + 1
  /\ LET lfsr == rsCode.word
         dbyte == SymDiff(rsCode.sent[rsAt + 1], lfsr[rsNpar - 1])
     IN rsCode' = [rsCode EXCEPT !.word =
          [j \in 0 .. rsNpar - 1 |-> SymDiff(IF j = 0 THEN {} ELSE lfsr[j - 1], gmult(rsGen[j], dbyte))]]
  /\ UNCHANGED <<rsPc, rsNpar, rsGen, rsSyn, rsBm, rsFound, rsRet>>
build_codeword ==
  /\ RsGoto("encode", "sent") /\ rsAt = rsBytes
  /\ LET word == rsCode.sent \o [i \in 1 .. rsNpar |-> rsCode.word[rsNpar - i]]
     IN rsCode' = [word |-> word, sent |-> word, bad |-> 0]
  /\ UNCHANGED <<rsNpar, rsGen, rsAt, rsSyn, rsBm, rsFound, rsRet>>

csize == rsBytes + rsNpar
(* Symbols change between the chip and the controller.                     *)
SymbolsChange ==
  /\ RsGoto("sent", "received")
  /\ \E places \in UNION {kSubset(n, 1 .. csize) : n \in 0 .. rsDamage} :
       \E err \in [places -> Elt \ {{}}] :
         /\ \A i \in places : i <= rsBytes => err[i] \in ByteElt
         /\ rsCode' = [rsCode EXCEPT !.bad = Cardinality(places),
                                      !.word = [i \in 1 .. csize |-> IF i \in places THEN SymDiff(@[i], err[i]) ELSE @[i]]]
  /\ UNCHANGED <<rsNpar, rsGen, rsAt, rsSyn, rsBm, rsFound, rsRet>>

decode_data ==
  /\ RsGoto("received", "locate")
  /\ rsSyn' = [j \in 0 .. MaxDeg - 1 |-> IF j >= rsNpar THEN rsSyn[j]
       ELSE LET Horner[i \in 0 .. csize] ==
                  IF i = 0 THEN {} ELSE LET sum == Horner[i - 1] IN SymDiff(rsCode.word[i], gmult(gexpTable[j + 1], sum))
            IN Horner[csize]]
  /\ rsAt' = 0 /\ rsBm' = [psi |-> [zero_poly EXCEPT ![0] = gone], D |-> [zero_poly EXCEPT ![1] = gone], k |-> -1, L |-> 0]
  /\ UNCHANGED <<rsNpar, rsGen, rsCode, rsFound, rsRet>>

(* Mutant of Lengthens: not when the register is one too short.            *)
LengthensLate(n) == rsBm.L + 1 < n - rsBm.k
(* Whether the register has to grow to explain the discrepancy.            *)
Lengthens(n) == rsBm.L < n - rsBm.k
(* One round of the loop; there are no erasures.                           *)
Modified_Berlekamp_Massey ==
  /\ rsPc = "locate" /\ rsAt < rsNpar /\ rsAt' = rsAt + 1
  /\ LET d == compute_discrepancy(rsBm.psi, rsBm.L, rsAt)
         psi2 == [i \in 0 .. MaxDeg - 1 |-> SymDiff(rsBm.psi[i], gmult(d, rsBm.D[i]))]
         scaled == [i \in 0 .. MaxDeg - 1 |-> gmult(rsBm.psi[i], ginv(d))]
     IN rsBm' =
          IF d = {} THEN [rsBm EXCEPT !.D = mul_z_poly(rsBm.D)]
          ELSE IF Lengthens(rsAt)
               THEN [psi |-> psi2, D |-> mul_z_poly(scaled), k |-> rsAt - rsBm.L, L |-> rsAt - rsBm.k]
               ELSE [rsBm EXCEPT !.psi = psi2, !.D = mul_z_poly(rsBm.D)]
  /\ UNCHANGED <<rsPc, rsNpar, rsGen, rsCode, rsSyn, rsFound, rsRet>>
compute_modified_omega ==
  /\ RsGoto("locate", "evaluate") /\ rsAt = rsNpar
  /\ LET product == mult_polys(rsBm.psi, rsSyn)
     IN rsFound' = [rsFound EXCEPT !.omega = [i \in 0 .. MaxDeg - 1 |-> IF i < rsNpar THEN product[i] ELSE {}]]
  /\ UNCHANGED <<rsNpar, rsGen, rsCode, rsAt, rsSyn, rsBm, rsRet>>
Find_Roots ==
  /\ RsGoto("evaluate", "correct")
  /\ LET Root(r) == LET Power(k) == k * r IN EvalAt(rsBm.psi, 0 .. rsNpar, Power) = {}
     IN rsFound' = [rsFound EXCEPT !.locs = {Order - r : r \in {r \in 1 .. Order : Root(r)}}]
  /\ UNCHANGED <<rsNpar, rsGen, rsCode, rsAt, rsSyn, rsBm, rsRet>>

Magnitude(loc) ==
  LET Power(j) == (Order - loc) * j
      Lower(j) == (Order - loc) * (j - 1)
      odd == {j \in 1 .. MaxDeg - 1 : j % 2 = 1}
  IN gmult(EvalAt(rsFound.omega, 0 .. MaxDeg - 1, Power), ginv(EvalAt(rsBm.psi, odd, Lower)))
Correctable == Cardinality(rsFound.locs) \in 1 .. rsNpar /\ \A loc \in rsFound.locs : loc < csize
Corrected(places) ==
  [i \in 1 .. csize |-> IF csize - i \in rsFound.locs /\ i \in places
                        THEN SymDiff(rsCode.word[i], Magnitude(csize - i) \cap (0 .. rsByte - 1)) ELSE rsCode.word[i]]
(* The one leaves the parity alone and returns 0 when it corrects; the     *)
(* other corrects bytes of the parity too, and returns 1.                  *)
correct_errors_hw_ecc ==
  /\ RsGoto("correct", "done")
  /\ rsCode' = [rsCode EXCEPT !.word = IF Correctable THEN Corrected(1 .. rsBytes) ELSE @]
  /\ rsRet' = <<"hw", IF Correctable THEN 0 ELSE 1>>
  /\ UNCHANGED <<rsNpar, rsGen, rsAt, rsSyn, rsBm, rsFound>>
correct_errors_erasures ==
  /\ RsGoto("correct", "done")
  /\ rsCode' = [rsCode EXCEPT !.word = IF Correctable THEN Corrected(1 .. csize) ELSE @]
  /\ rsRet' = <<"soft", IF Correctable THEN 1 ELSE 0>>
  /\ UNCHANGED <<rsNpar, rsGen, rsAt, rsSyn, rsBm, rsFound>>

RsStep ==
  \/ compute_genpoly \/ genpoly_factor \/ encode_byte \/ build_codeword \/ SymbolsChange \/ decode_data
  \/ \E msg \in [1 .. rsBytes -> ByteElt] : encode_data(msg)
  \/ Modified_Berlekamp_Massey \/ compute_modified_omega \/ Find_Roots
  \/ correct_errors_hw_ecc \/ correct_errors_erasures
RsSpec == RsStart("idle") /\ [][RsStep]_rsVars
-----------------------------------------------------------------------------
(* With half as many symbols changed as there are of parity, or fewer, the *)
(* message is what it was; the return value says that there were errors    *)
(* and they were corrected.  Up to npar changes are seen in the syndromes. *)
RsRight ==
  /\ (rsPc = "done" /\ 2 * rsCode.bad <= rsNpar =>
        /\ SubSeq(rsCode.word, 1, rsBytes) = SubSeq(rsCode.sent, 1, rsBytes)
        /\ rsCode.bad > 0 <=> rsRet \in {<<"hw", 0>>, <<"soft", 1>>})
  /\ (rsPc = "evaluate" /\ rsCode.bad <= rsNpar =>
        (rsCode.bad > 0 <=> \E j \in 0 .. rsNpar - 1 : rsSyn[j] # {}))
=============================================================================
