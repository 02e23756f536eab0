----------------------------- MODULE DataProofs -----------------------------
(***************************************************************************)
(* What is proved of the data: of bitmaps, of the geometry of labels, and  *)
(* of fonts on disk and in memory.                                         *)
(***************************************************************************)
EXTENDS Font, Geometry, WellFoundedInduction, SequenceTheorems, TLAPS

-----------------------------------------------------------------------------
(***************************************************************************)
(* What the operations on a bitmap promise for every height and width: the *)
(* dots have bits of their own inside the array that mbm_buy() allocates.  *)
(* Render speaks of sets of dots where the code has bits, for this reason. *)
(***************************************************************************)

LEMMA ProductNat ==
  ASSUME NEW a \in Nat, NEW w \in Nat
  PROVE  a * w \in Nat
OBVIOUS

LEMMA ProductSum ==
  ASSUME NEW a \in Nat, NEW d \in Nat, NEW w \in Nat
  PROVE  (a + 1 + d) * w = a * w + w + d * w
OBVIOUS

\* A product grows with its factor: a row more is a width more.
LEMMA RowsApart ==
  ASSUME NEW a \in Nat, NEW b \in Nat, NEW w \in Nat, a < b
  PROVE  a * w + w <= b * w
<1>1. PICK d \in Nat : b = a + 1 + d
  <2>1. b - a - 1 \in Nat /\ b = a + 1 + (b - a - 1)
    OBVIOUS
  <2> QED
    BY <2>1
<1>2. b * w = a * w + w + d * w
  BY <1>1, ProductSum
<1>3. d * w \in Nat /\ a * w \in Nat
  BY ProductNat
<1> QED
  BY <1>2, <1>3

LEMMA RowFits ==
  ASSUME NEW h \in Nat, NEW w \in Nat, NEW row \in Nat, NEW col \in Nat, row < h, col < w
  PROVE  row * w + col \in Nat /\ row * w + col < h * w
<1>1. row * w + w <= h * w
  BY RowsApart
<1>2. row * w \in Nat /\ h * w \in Nat
  BY ProductNat
<1> QED
  BY <1>1, <1>2

LEMMA PlacesApart ==
  ASSUME NEW w \in Nat, NEW r1 \in Nat, NEW c1 \in Nat, NEW r2 \in Nat, NEW c2 \in Nat,
         c1 < w, c2 < w, r1 * w + c1 = r2 * w + c2
  PROVE  r1 = r2 /\ c1 = c2
<1>1. r1 * w \in Nat /\ r2 * w \in Nat
  BY ProductNat
<1>2. ~(r1 < r2)
  <2> SUFFICES ASSUME r1 < r2 PROVE FALSE
    OBVIOUS
  <2>1. r1 * w + w <= r2 * w
    BY RowsApart
  <2> QED
    BY <1>1, <2>1
<1>3. ~(r2 < r1)
  <2> SUFFICES ASSUME r2 < r1 PROVE FALSE
    OBVIOUS
  <2>1. r2 * w + w <= r1 * w
    BY RowsApart
  <2> QED
    BY <1>1, <2>1
<1>4. r1 = r2
  BY <1>2, <1>3
<1> QED
  BY <1>1, <1>4

LEMMA InsideRange ==
  ASSUME NEW b, b.height \in USHORTs, b.width \in USHORTs,
         NEW row, NEW col, Inside(b, row, col)
  PROVE  /\ b.height \in Nat /\ b.width \in Nat
         /\ row \in Nat /\ col \in Nat /\ row < b.height /\ col < b.width
<1>1. b.height \in Nat /\ b.width \in Nat
  BY DEF USHORTs
<1>2. row \in Nat /\ row < b.height
  BY <1>1 DEF Inside
<1>3. col \in Nat /\ col < b.width
  BY <1>1 DEF Inside
<1> QED
  BY <1>1, <1>2, <1>3

\* The array has a bit for every dot, and less than a byte more (mbm_need of mjsu.h).
LEMMA NeedIsEnough ==
  ASSUME NEW h \in Nat, NEW w \in Nat
  PROVE  /\ mbm_need(h, w) \in Nat
         /\ h * w <= 8 * mbm_need(h, w) /\ 8 * mbm_need(h, w) < h * w + 8
<1>1. h * w \in Nat
  OBVIOUS
<1>2. \A k \in Nat : (k + 7) \div 8 \in Nat /\ k <= 8 * ((k + 7) \div 8) /\ 8 * ((k + 7) \div 8) < k + 8
  OBVIOUS
<1> QED
  BY <1>1, <1>2 DEF mbm_need

LEMMA ByteInside ==
  ASSUME NEW k \in Nat, NEW need \in Nat, k < 8 * need
  PROVE  k \in 0..8 * need - 1 /\ k \div 8 \in 0..need - 1
<1>1. k \in 0..8 * need - 1
  OBVIOUS
<1>2. k \div 8 \in Int /\ 8 * (k \div 8) <= k /\ k < 8 * (k \div 8) + 8
  OBVIOUS
<1>3. k \div 8 \in 0..need - 1
  BY <1>2
<1> QED
  BY <1>1, <1>3

\* A dot's bit is in the array: the byte that mbm_setb(), mbm_clrb() and mbm_tstb() touch,
\* bits[n >> 3], is one of those that mbm_buy() allocated (mbmsetb.c:28-30, mbmbuy.c:38).
THEOREM DotInArray ==
  ASSUME NEW b, b.height \in USHORTs, b.width \in USHORTs,
         NEW row, NEW col, Inside(b, row, col)
  PROVE  /\ BitNumber(b, row, col) \in AllBits(b)
         /\ BitNumber(b, row, col) \div 8 \in 0..mbm_need(b.height, b.width) - 1
<1> DEFINE h == b.height
           w == b.width
           bit == row * w + col
           need == mbm_need(h, w)
<1>1. h \in Nat /\ w \in Nat /\ row \in Nat /\ col \in Nat /\ row < h /\ col < w
  BY InsideRange
<1>2. BitNumber(b, row, col) = bit /\ AllBits(b) = 0..8 * need - 1
  BY DEF BitNumber, AllBits
<1> HIDE DEF h, w
<1>3. bit \in Nat /\ bit < h * w /\ h * w \in Nat
  BY <1>1, RowFits, ProductNat
<1>4. need \in Nat /\ h * w <= 8 * need
  BY <1>1, NeedIsEnough
<1> HIDE DEF bit, need
<1>5. bit < 8 * need
  BY <1>3, <1>4
<1>6. bit \in 0..8 * need - 1 /\ bit \div 8 \in 0..need - 1
  BY <1>3, <1>4, <1>5, ByteInside
<1> QED
  BY <1>2, <1>6 DEF need, h, w

\* No two dots share a bit: the bit-number tells the row and the column (mbmsetb.c:28).
THEOREM DotsApart ==
  ASSUME NEW b, b.height \in USHORTs, b.width \in USHORTs,
         NEW r1, NEW c1, Inside(b, r1, c1), NEW r2, NEW c2, Inside(b, r2, c2),
         BitNumber(b, r1, c1) = BitNumber(b, r2, c2)
  PROVE  r1 = r2 /\ c1 = c2
<1> DEFINE w == b.width
<1>1. /\ w \in Nat /\ r1 \in Nat /\ c1 \in Nat /\ c1 < w
      /\ r2 \in Nat /\ c2 \in Nat /\ c2 < w
  BY InsideRange
<1>2. r1 * w + c1 = r2 * w + c2
  BY DEF BitNumber
<1> HIDE DEF w
<1> QED
  BY <1>1, <1>2, PlacesApart

\* Setting a dot, or reversing it, changes that dot and no other one.
THEOREM OneDotChanges ==
  ASSUME NEW b, IsBitmap(b),
         NEW r1, NEW c1, Inside(b, r1, c1), NEW r2, NEW c2, Inside(b, r2, c2)
  PROVE  /\ IsBitmap(mbm_setb(b, r1, c1)) /\ IsBitmap(mbm_revb(b, r1, c1))
         /\ mbm_tstb(mbm_setb(b, r1, c1), r2, c2)
              <=> mbm_tstb(b, r2, c2) \/ (r1 = r2 /\ c1 = c2)
         /\ mbm_tstb(mbm_revb(b, r1, c1), r2, c2)
              <=> (mbm_tstb(b, r2, c2) <=> ~(r1 = r2 /\ c1 = c2))
<1> DEFINE n1 == BitNumber(b, r1, c1)
           n2 == BitNumber(b, r2, c2)
<1>1. n1 \in AllBits(b) /\ n2 \in AllBits(b)
  BY DotInArray DEF IsBitmap
<1>2. n1 = n2 <=> (r1 = r2 /\ c1 = c2)
  BY DotsApart DEF IsBitmap
<1>3. /\ b = [height |-> b.height, width |-> b.width, bits |-> b.bits]
      /\ b.height \in USHORTs /\ b.width \in USHORTs /\ b.bits \subseteq AllBits(b)
  BY DEF IsBitmap
<1> HIDE DEF n1, n2
<1>4. /\ [b EXCEPT !.bits = @ \cup {n1}] = [height |-> b.height, width |-> b.width, bits |-> b.bits \cup {n1}]
      /\ [b EXCEPT !.bits = @ \ {n1}] = [height |-> b.height, width |-> b.width, bits |-> b.bits \ {n1}]
  BY <1>3
<1>5. /\ mbm_setb(b, r1, c1) = [height |-> b.height, width |-> b.width, bits |-> b.bits \cup {n1}]
      /\ mbm_clrb(b, r1, c1) = [height |-> b.height, width |-> b.width, bits |-> b.bits \ {n1}]
  BY <1>4 DEF mbm_setb, mbm_clrb, n1
<1>6. /\ mbm_tstb(b, r1, c1) <=> n1 \in b.bits
      /\ mbm_tstb(b, r2, c2) <=> n2 \in b.bits
      /\ mbm_tstb(mbm_setb(b, r1, c1), r2, c2) <=> n2 \in b.bits \cup {n1}
      /\ mbm_tstb(mbm_clrb(b, r1, c1), r2, c2) <=> n2 \in b.bits \ {n1}
  BY <1>5 DEF mbm_tstb, BitNumber, n1, n2
<1>7. mbm_revb(b, r1, c1) = IF n1 \in b.bits THEN mbm_clrb(b, r1, c1) ELSE mbm_setb(b, r1, c1)
  BY <1>6 DEF mbm_revb
<1>8. IsBitmap(mbm_setb(b, r1, c1)) /\ IsBitmap(mbm_clrb(b, r1, c1))
  BY <1>1, <1>3, <1>5 DEF IsBitmap, AllBits
<1> QED
  BY <1>2, <1>6, <1>7, <1>8

\* mbm_rev() reverses every dot, and twice reversed a bitmap is as it was, the spare bits
\* of its last byte too (mbmrev.c:30-32).
THEOREM ReverseIsInvolution ==
  ASSUME NEW b, IsBitmap(b)
  PROVE  /\ mbm_rev(mbm_rev(b)) = b
         /\ \A row, col : Inside(b, row, col) => (mbm_tstb(mbm_rev(b), row, col) <=> ~mbm_tstb(b, row, col))
<1>1. /\ b = [height |-> b.height, width |-> b.width, bits |-> b.bits]
      /\ b.height \in USHORTs /\ b.width \in USHORTs /\ b.bits \subseteq AllBits(b)
  BY DEF IsBitmap
<1>2. mbm_rev(b) = [height |-> b.height, width |-> b.width, bits |-> AllBits(b) \ b.bits]
  BY <1>1 DEF mbm_rev
<1>3. AllBits(mbm_rev(b)) = AllBits(b)
  BY <1>2 DEF AllBits
<1>4. mbm_rev(mbm_rev(b)) = [height |-> b.height, width |-> b.width, bits |-> AllBits(b) \ (AllBits(b) \ b.bits)]
  <2> DEFINE c == mbm_rev(b)
  <2>1. c = [height |-> b.height, width |-> b.width, bits |-> AllBits(b) \ b.bits] /\ AllBits(c) = AllBits(b)
    BY <1>2, <1>3
  <2> HIDE DEF c
  <2>2. mbm_rev(c) = [height |-> b.height, width |-> b.width, bits |-> AllBits(b) \ (AllBits(b) \ b.bits)]
    BY <2>1 DEF mbm_rev
  <2> QED
    BY <2>2 DEF c
<1>5. AllBits(b) \ (AllBits(b) \ b.bits) = b.bits
  BY <1>1
<1>6. \A row, col : Inside(b, row, col) => BitNumber(b, row, col) \in AllBits(b)
  BY <1>1, DotInArray
<1>7. \A row, col : Inside(b, row, col) => (mbm_tstb(mbm_rev(b), row, col) <=> ~mbm_tstb(b, row, col))
  BY <1>2, <1>6 DEF mbm_tstb, BitNumber
<1> QED
  BY <1>1, <1>4, <1>5, <1>7

-----------------------------------------------------------------------------
(***************************************************************************)
(* The sizes that the other modules assume are those the drivers compute,  *)
(* for every medium of the table and every model.                          *)
(***************************************************************************)

LEMMA MediaSizes ==
  ASSUME NEW m \in Media
  PROVE  m.width \in 9..54 /\ m.height \in 11..190
BY DEF Media, Size

\* An SLP-Plus label is a whole number of pairs of bands, which printlabel() interleaves
\* (PlusPrint assumes it): slplus.c:1078 asserts less.  Its bottom margin does not wrap
\* around, and a band's slices fit in the byte that tells their number (slplus.c:1055-1076).
THEOREM PlusBandsPair ==
  ASSUME NEW m \in Media, PlusTakes(m)
  PROVE  /\ PlusGeometry(m).height = BAND_HEIGHT * PlusBands(m)
         /\ PlusBands(m) \in Nat \ {0} /\ PlusBands(m) % 2 = 0
         /\ PlusGeometry(m).bottom \in 17..32
         /\ PlusSlices(m) \in 1..255
<1> DEFINE h == InDots(m.height, PlusVPitch) - 2 * PlusEnd
           k == 16 - (h % 16)
           total == h + k
<1>1. m.width = 28 /\ m.height \in 11..190
  BY MediaSizes DEF PlusTakes
<1>2. InDots(m.height, PlusVPitch) \in 69..1197
  BY <1>1 DEF InDots, PlusVPitch
<1>3. h \in 3..1131
  BY <1>2 DEF PlusEnd
<1>4. /\ PlusGeometry(m).height = total
      /\ PlusGeometry(m).bottom = 33 - k
      /\ PlusGeometry(m).width = InDots(28, PlusHPitch) - 4
  BY <1>1 DEF PlusGeometry, BAND_HEIGHT, INTERLEAVE, PlusEnd, PlusSide
<1> HIDE DEF h
<1>5. k \in 1..16 /\ total \in Nat /\ total > 0 /\ total % 16 = 0
  BY <1>3
<1> HIDE DEF k, total
<1>6. total \div 8 \in Nat /\ total \div 8 > 0 /\ total = 8 * (total \div 8) /\ (total \div 8) % 2 = 0
  BY <1>5
<1>7. InDots(28, PlusHPitch) = 108
  BY DEF InDots, PlusHPitch
<1> QED
  BY <1>4, <1>5, <1>6, <1>7 DEF PlusBands, PlusSlices, BAND_HEIGHT

\* No wider a band than force() has NOPs for (MAXNOPS: "for any model", slpro.c:321-323),
\* and every label of the table that a model takes has dots in whole slices.
THEOREM ProBandsAreForced ==
  ASSUME NEW model \in Models, NEW m \in Media, ProTakes(model, m)
  PROVE  /\ ProSlices(model, m) \in 1..ProMaxNops
         /\ ProGeometry(model, m).width = SLICEWIDTH * ProSlices(model, m)
         /\ ProGeometry(model, m).height \in 1..1520
<1>1. /\ model.hpitch = 800 /\ model.vpitch \in {780, 800} /\ model.top = 4 /\ model.bottom = 4
      /\ model.left \in 1..2 /\ model.right \in 1..2 /\ model.left + model.right = 3
      /\ model.maxwidth \in {28, 54}
  BY DEF Models, Model
<1>2. m.width \in 9..54 /\ m.height \in 11..190
  BY MediaSizes
<1>3. /\ InDots(model.left, model.hpitch) = 8 * model.left
      /\ InDots(model.right, model.hpitch) = 8 * model.right
      /\ InDots(m.width, model.hpitch) = 8 * m.width
  BY <1>1, <1>2 DEF InDots
<1>4. /\ InDots(model.top, model.vpitch) \in 31..32 /\ InDots(model.bottom, model.vpitch) \in 31..32
      /\ InDots(model.top, model.vpitch) = InDots(model.bottom, model.vpitch)
      /\ InDots(m.height, model.vpitch) \in 85..1520
      /\ InDots(m.height, model.vpitch) - 2 * InDots(model.top, model.vpitch) > 0
  <2>1. CASE model.vpitch = 780
    BY <1>1, <1>2, <2>1 DEF InDots
  <2>2. CASE model.vpitch = 800
    BY <1>1, <1>2, <2>2 DEF InDots
  <2> QED
    BY <1>1, <2>1, <2>2
<1>5. ProGeometry(model, m).width = 8 * m.width - 24
  <2> DEFINE wd == InDots(m.width, model.hpitch) - InDots(model.left, model.hpitch) - InDots(model.right, model.hpitch)
  <2>1. wd = 8 * m.width - 24
    BY <1>1, <1>2, <1>3
  <2>2. ProGeometry(model, m).width = wd - (wd % 8)
    BY DEF ProGeometry, SLICEWIDTH
  <2> HIDE DEF wd
  <2>3. wd % 8 = 0
    BY <1>2, <2>1
  <2> QED
    BY <1>2, <2>1, <2>2, <2>3
<1>6. ProGeometry(model, m).height \in 1..1520
  <2> DEFINE t == InDots(model.top, model.vpitch)
             b == InDots(model.bottom, model.vpitch)
             h == InDots(m.height, model.vpitch)
  <2>1. ProGeometry(model, m).height = h - t - b
    BY DEF ProGeometry
  <2>2. t \in 31..32 /\ b = t /\ h \in 85..1520
    BY <1>4
  <2> HIDE DEF t, b, h
  <2> QED
    BY <2>1, <2>2
<1>7. (8 * m.width - 24) \div 8 = m.width - 3
  BY <1>2
<1>8. /\ ProSlices(model, m) = m.width - 3
      /\ 8 * m.width - 24 = 8 * (m.width - 3)
  BY <1>2, <1>5, <1>7 DEF ProSlices, SLICEWIDTH
<1>9. m.width - 3 \in 1..54
  BY <1>2
<1>10. ProGeometry(model, m).width = 8 * ProSlices(model, m)
  BY <1>5, <1>8
<1>11. ProSlices(model, m) \in 1..ProMaxNops
  BY <1>8, <1>9 DEF ProMaxNops
<1>12. ProGeometry(model, m).width = SLICEWIDTH * ProSlices(model, m)
  BY <1>10 DEF SLICEWIDTH
<1> QED
  BY <1>6, <1>11, <1>12

\* Rounding moves dots between the label and its margin, and loses none (slplus.c:1075-1076,
\* slpro.c:1373-1374); so setmedia() centres a label by its real width.
THEOREM RoundingKeepsTotals ==
  ASSUME NEW m \in Media
  PROVE  /\ PlusTakes(m) => /\ WholeHeight(PlusGeometry(m)) = InDots(m.height, PlusVPitch)
                            /\ WholeWidth(PlusGeometry(m)) = InDots(m.width, PlusHPitch)
         /\ \A model \in Models :
              ProTakes(model, m) => /\ WholeHeight(ProGeometry(model, m)) = InDots(m.height, model.vpitch)
                                    /\ WholeWidth(ProGeometry(model, m)) = InDots(m.width, model.hpitch)
<1>0. m.width \in Nat /\ m.height \in Nat
  BY MediaSizes
<1>1. InDots(m.height, PlusVPitch) \in Int /\ InDots(m.width, PlusHPitch) \in Int
  BY <1>0 DEF InDots, PlusVPitch, PlusHPitch
<1>2. /\ WholeHeight(PlusGeometry(m)) = InDots(m.height, PlusVPitch)
      /\ WholeWidth(PlusGeometry(m)) = InDots(m.width, PlusHPitch)
  BY <1>1 DEF WholeHeight, WholeWidth, PlusGeometry, PlusEnd, PlusSide, BAND_HEIGHT, INTERLEAVE
<1>3. ASSUME NEW model \in Models
      PROVE  /\ WholeHeight(ProGeometry(model, m)) = InDots(m.height, model.vpitch)
             /\ WholeWidth(ProGeometry(model, m)) = InDots(m.width, model.hpitch)
  <2>1. /\ model.hpitch = 800 /\ model.vpitch \in {780, 800} /\ model.top = 4 /\ model.bottom = 4
        /\ model.left \in 1..2 /\ model.right \in 1..2
    BY DEF Models, Model
  <2>2. /\ InDots(m.height, model.vpitch) \in Int /\ InDots(model.top, model.vpitch) \in Int
        /\ InDots(model.bottom, model.vpitch) \in Int /\ InDots(m.width, model.hpitch) \in Int
        /\ InDots(model.left, model.hpitch) \in Int /\ InDots(model.right, model.hpitch) \in Int
    BY <1>0, <2>1 DEF InDots
  <2> QED
    BY <2>2 DEF WholeHeight, WholeWidth, ProGeometry, SLICEWIDTH
<1> QED
  BY <1>2, <1>3

\* The indent that centres a label never moves it past the head's far end, whatever label of
\* the table the model takes (slpro.c:1452-1463).
THEOREM MarginKeepsLabelInside ==
  ASSUME NEW model \in Models, NEW m \in Media, ProTakes(model, m)
  PROVE  ProMargin(model, m) \in 0..(model.maxwidth - m.width)
<1>1. model.hpitch = 800 /\ model.maxwidth \in {28, 54} /\ model.left \in 1..2
  BY DEF Models, Model
<1>2. m.width \in 9..54 /\ m.width <= model.maxwidth
  BY MediaSizes DEF ProTakes
<1>3. ProGeometry(model, m).width + ProGeometry(model, m).left + ProGeometry(model, m).right = 8 * m.width
  <2>1. WholeWidth(ProGeometry(model, m)) = InDots(m.width, model.hpitch)
    BY RoundingKeepsTotals
  <2>2. InDots(m.width, model.hpitch) = 8 * m.width
    BY <1>1, <1>2 DEF InDots
  <2> QED
    BY <2>1, <2>2 DEF WholeWidth
<1>4. ((8 * m.width) * 10000) \div 800 = 100 * m.width
  BY <1>2
<1>5. (model.maxwidth * 100 - 100 * m.width) \div 100 = model.maxwidth - m.width
  BY <1>1, <1>2
<1> DEFINE free == model.maxwidth - m.width
<1>6. ProMargin(model, m) = IF (free \div 2) - model.left < 0 THEN 0 ELSE (free \div 2) - model.left
  BY <1>1, <1>3, <1>4, <1>5 DEF ProMargin
<1>7. free \in 0..54
  BY <1>1, <1>2
<1> HIDE DEF free
<1> QED
  <2>1. ProMargin(model, m) \in 0..free
    BY <1>1, <1>6, <1>7
  <2> QED
    BY <2>1 DEF free

\* The dump driver's whole bitmap is the label's or the label's turned, and its printable
\* part lies the way the text does (mbmd.c:142-159).
THEOREM DumpLiesAsAsked ==
  ASSUME NEW g, NEW portrait \in BOOLEAN,
         g.height \in Nat, g.width \in Nat, g.top \in Nat, g.bottom \in Nat, g.left \in Nat, g.right \in Nat
  PROVE  LET t == MbmGeometry(g, portrait)
         IN /\ portrait => t.height >= t.width
            /\ ~portrait => t.height <= t.width
            /\ \/ t = g
               \/ WholeHeight(t) = WholeWidth(g) /\ WholeWidth(t) = WholeHeight(g)
BY DEF MbmGeometry, WholeHeight, WholeWidth

-----------------------------------------------------------------------------
(***************************************************************************)
(* Induction over the numbers, and what FlattenSeq() yields.  That the     *)
(* numbers are well ordered, the library has without a predicate as a      *)
(* parameter; the rest is an argument about a least counterexample.        *)
(***************************************************************************)

LEMMA NatLeast ==
  ASSUME NEW T \in SUBSET Nat, T # {}
  PROVE  \E m \in T : \A k \in T : m <= k
<1> DEFINE R == {ss \in Nat \X Nat : ss[1] < ss[2]}
<1>1. OpToRel(<, Nat) = R
  BY DEF OpToRel
<1>2. IsWellFoundedOn(R, Nat)
  BY NatLessThanWellFounded, <1>1
<1>3. \E x \in T : \A y \in T : ~(<<y, x>> \in R)
  <2> HIDE DEF R
  <2> QED  BY <1>2, WFMin, Zenon
<1>4. PICK x \in T : \A y \in T : ~(<<y, x>> \in R)
  BY <1>3
<1>5. ASSUME NEW k \in T PROVE x <= k
  <2>1. k \in Nat /\ x \in Nat
    OBVIOUS
  <2>2. ~(k < x)
    BY <1>4, <2>1
  <2> QED  BY <2>1, <2>2
<1> QED  BY <1>5

LEMMA UpTo ==
  ASSUME NEW last \in Nat, NEW T, 0 \in T, \A k \in 0..last - 1 : k \in T => k + 1 \in T
  PROVE  \A k \in 0..last : k \in T
<1> DEFINE C == {k \in 0..last : k \notin T}
<1> SUFFICES ASSUME C # {} PROVE FALSE
  OBVIOUS
<1>1. PICK m \in C : \A k \in C : m <= k
  <2>1. C \in SUBSET Nat
    OBVIOUS
  <2> HIDE DEF C
  <2> QED  BY <2>1, NatLeast
<1>2. m \in 0..last /\ m # 0 /\ m \notin T
  OBVIOUS
<1>3. m - 1 \in 0..last - 1 /\ m - 1 \notin C
  BY <1>1, <1>2
<1>4. m - 1 \in T
  BY <1>3
<1>5. (m - 1) + 1 \in T
  BY <1>3, <1>4
<1> QED  BY <1>2, <1>5

\* The recursion of FlattenSeq() has a solution, which is what it takes.
LEMMA FlattenExists ==
  ASSUME NEW s, Len(s) \in Nat, Len(s) > 0
  PROVE  \E g : /\ g = [i \in 1..Len(s) |-> IF i = 1 THEN s[i] ELSE g[i - 1] \o s[i]]
                /\ FlattenSeq(s) = g[Len(s)]
<1> DEFINE Rec(g, k) == g = [i \in 1..k |-> IF i = 1 THEN s[i] ELSE g[i - 1] \o s[i]]
           T == {k \in Nat : \E g : Rec(g, k)}
           last == Len(s)
<1>1. 0 \in T
  <2>1. Rec(<<>>, 0)
    <3>1. 1..0 = {}
      OBVIOUS
    <3> QED  BY <3>1
  <2> QED  BY <2>1
<1>2. ASSUME NEW k \in 0..last - 1, k \in T PROVE k + 1 \in T
  <2>1. PICK g : Rec(g, k)
    BY <1>2
  <2> DEFINE h == [i \in 1..k + 1 |-> IF i = 1 THEN s[i] ELSE g[i - 1] \o s[i]]
  <2>2. \A i \in 1..k : h[i] = g[i]
    <3>1. \A i \in 1..k : i \in 1..k + 1
      OBVIOUS
    <3>2. DOMAIN g = 1..k /\ \A i \in 1..k : g[i] = IF i = 1 THEN s[i] ELSE g[i - 1] \o s[i]
      BY <2>1
    <3> QED  BY <3>1, <3>2
  <2>3. \A i \in 1..k + 1 : i # 1 => i - 1 \in 1..k
    BY <1>2
  <2>4. h = [i \in 1..k + 1 |-> IF i = 1 THEN s[i] ELSE h[i - 1] \o s[i]]
    <3> HIDE DEF h
    <3>1. \A i \in 1..k + 1 : i # 1 => h[i - 1] = g[i - 1]
      BY <2>2, <2>3
    <3> QED  BY <3>1 DEF h
  <2>5. Rec(h, k + 1)
    BY <2>4
  <2>6. k + 1 \in Nat
    OBVIOUS
  <2> HIDE DEF h, Rec
  <2> QED  BY <2>5, <2>6
<1>3. last \in T
  <2>1. last \in Nat /\ last \in 0..last
    OBVIOUS
  <2> HIDE DEF T, last
  <2> QED  BY <1>1, <1>2, <2>1, UpTo
<1>4. \E g : Rec(g, last)
  BY <1>3, Zenon
<1> DEFINE flatten[i \in 1..Len(s)] == IF i = 1 THEN s[i] ELSE flatten[i - 1] \o s[i]
<1>5. Rec(flatten, last)
  BY <1>4, Zenon
<1>6. FlattenSeq(s) = flatten[last]
  BY DEF FlattenSeq
<1> QED  BY <1>5, <1>6, Zenon

\* FlattenSeq() adds one sequence after the other.
LEMMA Flattened ==
  ASSUME NEW S, NEW s \in Seq(Seq(S))
  PROVE  \E g : /\ g[0] = <<>> /\ g[Len(s)] = FlattenSeq(s)
                /\ \A k \in 0..Len(s) : g[k] \in Seq(S)
                /\ \A k \in 0..Len(s) - 1 : g[k + 1] = g[k] \o s[k + 1]
<1> DEFINE last == Len(s)
<1>1. last \in Nat /\ \A i \in 1..last : s[i] \in Seq(S)
  OBVIOUS
<1>2. CASE last = 0
  <2>1. FlattenSeq(s) = s /\ s = <<>>
    BY <1>2 DEF FlattenSeq
  <2> DEFINE g == [k \in 0..0 |-> <<>>]
  <2>2. g[0] = <<>> /\ <<>> \in Seq(S)
    OBVIOUS
  <2> HIDE DEF g
  <2>3. 0..last - 1 = {} /\ 0..last = {0}
    BY <1>2
  <2> QED  BY <1>2, <2>1, <2>2, <2>3
<1>3. CASE last > 0
  <2>1. PICK h : /\ h = [i \in 1..last |-> IF i = 1 THEN s[i] ELSE h[i - 1] \o s[i]]
                 /\ FlattenSeq(s) = h[last]
    BY <1>1, <1>3, FlattenExists
  <2> DEFINE g == [k \in 0..last |-> IF k = 0 THEN <<>> ELSE h[k]]
  <2> HIDE DEF last
  <2>2. \A i \in 1..last : h[i] = IF i = 1 THEN s[i] ELSE h[i - 1] \o s[i]
    BY <2>1
  <2>3. g[0] = <<>> /\ \A k \in 1..last : g[k] = h[k]
    BY <1>1
  <2> HIDE DEF g
  <2>4. \A k \in 0..last - 1 : g[k + 1] = g[k] \o s[k + 1]
    <3> SUFFICES ASSUME NEW k \in 0..last - 1 PROVE g[k + 1] = g[k] \o s[k + 1]
      OBVIOUS
    <3>1. k + 1 \in 1..last /\ (k + 1) - 1 = k /\ s[k + 1] \in Seq(S)
      BY <1>1
    <3>2. g[k + 1] = IF k + 1 = 1 THEN s[k + 1] ELSE h[(k + 1) - 1] \o s[k + 1]
      BY <2>2, <2>3, <3>1
    <3>3. CASE k = 0
      <4>1. g[k + 1] = s[k + 1] /\ g[k] = <<>>
        BY <2>3, <3>2, <3>3
      <4>2. <<>> \o s[k + 1] = s[k + 1]
        BY <3>1, ConcatEmptySeq
      <4> QED  BY <4>1, <4>2
    <3>4. CASE k # 0
      <4>1. k \in 1..last /\ k + 1 # 1
        BY <1>1, <3>4
      <4> QED  BY <2>3, <3>1, <3>2, <4>1
    <3> QED  BY <3>3, <3>4
  <2>5. \A k \in 0..last : g[k] \in Seq(S)
    <3> DEFINE T == {k \in Nat : g[k] \in Seq(S)}
    <3>1. 0 \in T
      <4>1. g[0] \in Seq(S)
        BY <2>3, EmptySeq
      <4> QED  BY <4>1
    <3>2. ASSUME NEW k \in 0..last - 1, k \in T PROVE k + 1 \in T
      <4>1. k + 1 \in 1..last /\ k + 1 \in Nat
        BY <1>1
      <4>2. g[k] \in Seq(S) /\ s[k + 1] \in Seq(S) /\ g[k + 1] = g[k] \o s[k + 1]
        BY <1>1, <2>4, <3>2, <4>1
      <4>3. g[k + 1] \in Seq(S)
        BY <4>2, ConcatProperties
      <4> QED  BY <4>1, <4>3
    <3>3. \A k \in 0..last : k \in T
      <4> HIDE DEF T
      <4> QED  BY <1>1, <3>1, <3>2, UpTo
    <3> QED  BY <3>3
  <2>6. g[last] = FlattenSeq(s)
    <3>1. last \in 1..last
      BY <1>1, <1>3
    <3> QED  BY <2>1, <2>3, <3>1
  <2> QED  BY <2>3, <2>4, <2>5, <2>6 DEF last
<1>4. last = 0 \/ last > 0
  BY <1>1
<1> QED  BY <1>2, <1>3, <1>4

LEMMA ConcatBegins ==
  ASSUME NEW S, NEW a \in Seq(S), NEW b \in Seq(S), NEW h \in Seq(S),
         Len(h) <= Len(a), \A i \in 1..Len(h) : a[i] = h[i]
  PROVE  Len(h) <= Len(a \o b) /\ \A i \in 1..Len(h) : (a \o b)[i] = h[i]
<1>1. Len(a) \in Nat /\ Len(b) \in Nat /\ Len(h) \in Nat
  OBVIOUS
<1>2. /\ Len(a \o b) = Len(a) + Len(b)
      /\ \A i \in 1..Len(a) + Len(b) : (a \o b)[i] = IF i <= Len(a) THEN a[i] ELSE b[i - Len(a)]
  BY ConcatProperties
<1>3. \A i \in 1..Len(h) : i \in 1..Len(a) + Len(b) /\ i <= Len(a)
  BY <1>1
<1> QED  BY <1>1, <1>2, <1>3

\* g[k] is what the first k of the sequences in s amount to.
Parts(g, s, S) ==
  /\ \A k \in 0..Len(s) : g[k] \in Seq(S)
  /\ \A k \in 0..Len(s) - 1 : g[k + 1] = g[k] \o s[k + 1]

\* What is added after a place leaves the beginning as it was.
LEMMA FlattenBegins ==
  ASSUME NEW S, NEW s \in Seq(Seq(S)), NEW g, NEW from \in 0..Len(s),
         Parts(g, s, S)
  PROVE  Len(g[from]) <= Len(g[Len(s)]) /\ \A i \in 1..Len(g[from]) : g[Len(s)][i] = g[from][i]
<1> DEFINE last == Len(s)
           h == g[from]
           Begins(t) == Len(h) <= Len(t) /\ \A i \in 1..Len(h) : t[i] = h[i]
           T == {k \in Nat : k >= from => Begins(g[k])}
<1>1. last \in Nat /\ from \in 0..last /\ from \in Nat /\ \A i \in 1..last : s[i] \in Seq(S)
  OBVIOUS
<1>2. h \in Seq(S) /\ Len(h) \in Nat
  BY DEF Parts
<1>3. \A k \in 0..last - 1 : /\ g[k] \in Seq(S) /\ s[k + 1] \in Seq(S) /\ g[k + 1] = g[k] \o s[k + 1]
                             /\ k + 1 \in Nat /\ k \in Nat
  <2>1. \A k \in 0..last - 1 : k \in 0..last /\ k + 1 \in 1..last /\ k + 1 \in Nat /\ k \in Nat
    BY <1>1
  <2> QED  BY <1>1, <2>1 DEF Parts
<1> HIDE DEF last, h
<1>4. ASSUME NEW k \in 0..last - 1, k >= from, Begins(g[k]) PROVE Begins(g[k + 1])
  <2>1. g[k] \in Seq(S) /\ s[k + 1] \in Seq(S) /\ g[k + 1] = g[k] \o s[k + 1]
    BY <1>3
  <2> DEFINE a == g[k]
             b == s[k + 1]
  <2>2. a \in Seq(S) /\ b \in Seq(S) /\ Begins(a) /\ g[k + 1] = a \o b
    BY <1>4, <2>1
  <2> HIDE DEF a, b
  <2> QED  BY <1>2, <2>2, ConcatBegins
<1>5. Begins(h)
  BY <1>2
<1>6. from = 0 => 0 \in T
  BY <1>5 DEF h
<1>7. from # 0 => 0 \in T
  BY <1>1
<1>8. ASSUME NEW k \in 0..last - 1, k \in T PROVE k + 1 \in T
  <2>1. k + 1 \in Nat /\ k \in Nat
    BY <1>3
  <2>2. CASE k >= from
    BY <1>4, <1>8, <2>1, <2>2
  <2>3. CASE k + 1 = from
    BY <1>5, <2>1, <2>3 DEF h
  <2>4. CASE k + 1 < from
    BY <1>1, <2>1, <2>4
  <2> QED  BY <1>1, <2>1, <2>2, <2>3, <2>4
<1>9. last \in T
  <2>1. last \in 0..last
    BY <1>1
  <2> HIDE DEF T
  <2> QED  BY <1>1, <1>6, <1>7, <1>8, <2>1, UpTo
<1> QED  BY <1>1, <1>9 DEF last, h

LEMMA FlattenParts ==
  ASSUME NEW S, NEW s \in Seq(Seq(S))
  PROVE  \E g : /\ g[0] = <<>> /\ g[Len(s)] = FlattenSeq(s) /\ Parts(g, s, S)
                /\ \A k \in 0..Len(s) :
                     Len(g[k]) <= Len(FlattenSeq(s)) /\ \A i \in 1..Len(g[k]) : FlattenSeq(s)[i] = g[k][i]
<1>1. PICK g : g[0] = <<>> /\ g[Len(s)] = FlattenSeq(s) /\ Parts(g, s, S)
  BY Flattened DEF Parts
<1>2. ASSUME NEW from \in 0..Len(s)
      PROVE  Len(g[from]) <= Len(g[Len(s)]) /\ \A i \in 1..Len(g[from]) : g[Len(s)][i] = g[from][i]
  BY <1>1, FlattenBegins
<1> QED  BY <1>1, <1>2

-----------------------------------------------------------------------------
(***************************************************************************)
(* The inductive invariant of Font.                                        *)
(***************************************************************************)

Chars == 0..BitmapMagic
Items == [bytes : Seq(Chars), loose : BOOLEAN]
Given == Imported \cup Installed

\* How many items a font has; those of the glyph k begin at the item 9 * k - 3, and the
\* magic number of its bitmap is the item 9 * k + 2.
Count == 9 * NGlyphs + 5
ItemSize(fn, i) == Len(FontItems(fn)[i].bytes)

\* A layout says how many bytes of a file precede each item.  A strict item is there as a
\* whole, of a loose one the end may be missing.
Layouts(fn) ==
  {st \in [1..Count + 1 -> Nat] :
     /\ st[1] = 0
     /\ \A i \in 1..Count :
          /\ st[i + 1] <= st[i] + ItemSize(fn, i)
          /\ IF FontItems(fn)[i].loose THEN st[i + 1] > st[i] ELSE st[i + 1] = st[i] + ItemSize(fn, i)}

\* The layout of a file that was written without a fault.
Full(fn, st) == \A i \in 1..Count : st[i + 1] = st[i] + ItemSize(fn, i)

\* How many bytes are before the bitmap of the glyph k.
Magic(st, k) == st[9 * k + 2]

\* The file is the beginning of what the layout describes.
Agrees(s, fn, st) ==
  /\ Len(s) <= st[Count + 1]
  /\ \A i \in 1..Count : \A p \in 1..st[i + 1] - st[i] :
       st[i] + p <= Len(s) => s[st[i] + p] = FontItems(fn)[i].bytes[p]

Saved(s, fn) == s = <<>> \/ (checkfontmetrics(fn) /\ \E st \in Layouts(fn) : Agrees(s, fn, st))

\* Each file is the beginning of what was saved of its font.
FilesInv ==
  /\ disk \in [1..Places -> Seq(Chars)]
  /\ origin \in [1..Places -> Given \cup {NoFont}]
  /\ \A i \in 1..Places : disk[i] # Absent => origin[i] \in Given /\ Saved(disk[i], origin[i])

\* What makefont has written, and what it has not written yet.
MakingInv ==
  /\ target \in 1..Places /\ short \in 0..MaxShortWrites /\ items \in Seq(Items) /\ out \in Seq(Chars)
  /\ at = "import" => out = <<>>
  /\ at \in {"write", "remove"} => font \in Imported /\ origin[target] = font /\ Saved(out, font)
  /\ at = "write" =>
       /\ checkfontmetrics(font)
       /\ \E st \in Layouts(font), j \in 0..Count :
            /\ Agrees(out, font, st) /\ Len(out) = st[j + 1]
            /\ items = SubSeq(FontItems(font), j + 1, Count)

\* Where loadfont() is in the file and in the font.
LoadingInv ==
  /\ at \in Labels /\ place \in 1..Places + 1 /\ n \in 0..NGlyphs + 1
  /\ at \in {"import", "write", "remove"} => place = 1
  /\ at \in {"header", "name", "metrics", "glyph", "bitmap"} => place <= Places /\ pos \in 0..Len(File) /\ File # Absent
  /\ at = "header" => pos = 0
  /\ at = "name" => pos = 2
  /\ at = "glyph" => n >= 1
  /\ at = "bitmap" => n \in 1..NGlyphs
  /\ IsFont(f)

\* The blocks are the font's and those of the glyphs that have a bitmap, which come first.
Blocks(k) == {FontBlock} \cup UNION {GlyphBlocks(j) : j \in 1..k}
Loaded(k) == \A j \in 1..NGlyphs : f.glyphs[j].bm # NULL <=> j <= k
HeapInv ==
  /\ faults \subseteq {"memory"}
  /\ at \in {"import", "write", "remove", "locate", "header", "lost", "done"} => heap = {}
  /\ at \in {"name", "metrics"} => heap = Blocks(0) /\ Loaded(0)
  /\ at \in {"glyph", "bitmap"} => heap = Blocks(n - 1) /\ Loaded(n - 1)
  /\ at = "found" => heap = Blocks(NGlyphs) /\ Loaded(NGlyphs)

FontInv == FilesInv /\ MakingInv /\ LoadingInv /\ HeapInv

-----------------------------------------------------------------------------
(***************************************************************************)
(* The types of what is written.                                           *)
(***************************************************************************)

LEMMA WordFacts ==
  /\ \A v \in Int : SHORT(v) \in SHORTs /\ USHORT(v) \in USHORTs
  /\ \A v \in SHORTs \cup USHORTs : Word(v) \in Seq(Chars)
<1>1. ASSUME NEW v \in Int
      PROVE  SHORT(v) \in SHORTs /\ USHORT(v) \in USHORTs /\ USHORT(v) \in Nat /\ USHORT(v) < 65536
  <2>1. v % 65536 \in Nat /\ v % 65536 < 65536
    OBVIOUS
  <2> QED  BY <2>1 DEF SHORT, USHORT, SHORTs, USHORTs
<1>2. ASSUME NEW v \in SHORTs \cup USHORTs PROVE Word(v) \in Seq(Chars)
  <2>1. v \in Int
    BY DEF SHORTs, USHORTs
  <2>2. USHORT(v) \in Nat /\ USHORT(v) < 65536
    BY <1>1, <2>1
  <2>3. ASSUME NEW u \in Nat, u < 65536
        PROVE  u % 256 \in Nat /\ u % 256 < 256 /\ u \div 256 \in Nat /\ u \div 256 < 256
    <3>1. u % 256 \in Nat /\ u % 256 < 256
      OBVIOUS
    <3>2. u \div 256 \in Nat /\ u \div 256 < 256
      BY <2>3
    <3> QED  BY <3>1, <3>2
  <2>4. USHORT(v) % 256 \in Chars /\ USHORT(v) \div 256 \in Chars
    BY <2>2, <2>3 DEF Chars, BitmapMagic
  <2> QED  BY <2>4 DEF Word
<1> QED  BY <1>1, <1>2

LEMMA BytesType ==
  ASSUME NEW b, IsBitmap(b)
  PROVE  Bytes(b) \in Seq(Chars)
<1>1. mbm_need(b.height, b.width) \in Nat
  BY NeedIsEnough DEF IsBitmap, USHORTs
<1>2. \A k : Bit(b, k) \in 0..1
  BY DEF Bit
<1>3. \A k : Byte(b, k) \in 0..255
  BY <1>2 DEF Byte
<1>4. \A k : Byte(b, k) \in Chars
  BY <1>3 DEF Chars, BitmapMagic
<1> DEFINE need == mbm_need(b.height, b.width)
<1>5. Bytes(b) = [k \in 1..need |-> Byte(b, k - 1)]
  BY DEF Bytes
<1> HIDE DEF need
<1>6. need \in Nat
  BY <1>1 DEF need
<1> QED  BY <1>4, <1>5, <1>6, IsASeq

\* A font of the assumption, and its glyphs.
LEMMA GivenFonts ==
  ASSUME NEW fn \in Given
  PROVE  /\ fn \in Fonts /\ fn.name \in Seq(0..255) /\ fn.name \in Seq(Chars) /\ Len(fn.name) \in 1..NameMax
         /\ \A i \in 1..Len(fn.name) : fn.name[i] # LF
         /\ fn.ascent \in SHORTs /\ fn.descent \in SHORTs
         /\ \A k \in 1..NGlyphs :
              /\ fn.glyphs[k] \in Glyphs /\ fn.glyphs[k].bm # NULL /\ IsBitmap(fn.glyphs[k].bm)
              /\ fn.glyphs[k].ascent \in SHORTs /\ fn.glyphs[k].descent \in SHORTs
              /\ fn.glyphs[k].lbearing \in SHORTs /\ fn.glyphs[k].rbearing \in SHORTs
              /\ fn.glyphs[k].width \in SHORTs
<1>1. /\ IsFont(fn) /\ ReadByImport(fn) /\ Len(fn.name) \in 1..NameMax
      /\ \A i \in 1..Len(fn.name) : fn.name[i] # LF
  BY FontAssumption DEF Given
<1>2. fn \in Fonts /\ \A k \in 1..NGlyphs : fn.glyphs[k].bm # NULL => IsBitmap(fn.glyphs[k].bm)
  BY <1>1 DEF IsFont
<1>3. /\ fn.name \in Seq(0..255) /\ fn.ascent \in SHORTs /\ fn.descent \in SHORTs
      /\ \A k \in 1..NGlyphs : fn.glyphs[k] \in Glyphs
  BY <1>2 DEF Fonts
<1>4. fn.name \in Seq(Chars)
  <2>1. 0..255 \subseteq Chars
    BY DEF Chars, BitmapMagic
  <2> QED  BY <1>3, <2>1, SeqMonotonic
<1>5. \A k \in 1..NGlyphs : fn.glyphs[k].bm # NULL
  BY <1>1 DEF ReadByImport
<1>6. \A g \in Glyphs : /\ g.ascent \in SHORTs /\ g.descent \in SHORTs /\ g.lbearing \in SHORTs
                        /\ g.rbearing \in SHORTs /\ g.width \in SHORTs
  BY DEF Glyphs
<1> QED  BY <1>1, <1>2, <1>3, <1>4, <1>5, <1>6

\* A font of which nothing was read.
LEMMA NoFontType == NoFont \in Fonts /\ NoFont.name = <<>> /\ \A k \in 1..NGlyphs : NoFont.glyphs[k].bm = NULL
<1>1. 0 \in SHORTs
  BY DEF SHORTs
<1>2. NoGlyph \in Glyphs
  BY <1>1 DEF NoGlyph, Glyphs
<1>3. <<>> \in Seq(0..255)
  OBVIOUS
<1>4. NoFont \in Fonts
  BY <1>1, <1>2, <1>3 DEF NoFont, Fonts
<1>5. NoFont.name = <<>> /\ \A k \in 1..NGlyphs : NoFont.glyphs[k].bm = NULL
  BY DEF NoFont, NoGlyph
<1> QED  BY <1>4, <1>5

LEMMA ItemTypes ==
  /\ \A s \in Seq(Chars) : Strict(s) \in Items /\ Loose(s) \in Items /\ Strict(s).bytes = s
  /\ <<FontMagic>> \in Seq(Chars) /\ <<0>> \in Seq(Chars) /\ <<BitmapMagic, 0>> \in Seq(Chars)
  /\ <<CR, LF>> \in Seq(Chars)
<1>1. FontMagic \in Chars /\ 0 \in Chars /\ BitmapMagic \in Chars /\ CR \in Chars /\ LF \in Chars
  BY DEF Chars, FontMagic, BitmapMagic, CR, LF
<1> QED  BY <1>1 DEF Strict, Loose, Items

LEMMA GlyphItemsType ==
  ASSUME NEW g, IsBitmap(g.bm),
         g.ascent \in SHORTs, g.descent \in SHORTs, g.lbearing \in SHORTs, g.rbearing \in SHORTs, g.width \in SHORTs
  PROVE  GlyphItems(g) \in Seq(Items)
<1>1. /\ Strict(Word(g.ascent)) \in Items /\ Strict(Word(g.descent)) \in Items
      /\ Strict(Word(g.lbearing)) \in Items /\ Strict(Word(g.rbearing)) \in Items
      /\ Strict(Word(g.width)) \in Items
  BY WordFacts, ItemTypes
<1>2. /\ Loose(<<BitmapMagic, 0>>) \in Items /\ Loose(Word(g.bm.height)) \in Items
      /\ Loose(Word(g.bm.width)) \in Items /\ Strict(Bytes(g.bm)) \in Items
  BY WordFacts, ItemTypes, BytesType DEF IsBitmap
<1>3. BitmapItems(g.bm) \in Seq(Items)
  BY <1>2 DEF BitmapItems
<1>4. <<Strict(Word(g.ascent)), Strict(Word(g.descent)), Strict(Word(g.lbearing)),
        Strict(Word(g.rbearing)), Strict(Word(g.width))>> \in Seq(Items)
  BY <1>1
<1> QED  BY <1>3, <1>4, ConcatProperties DEF GlyphItems

\* FlattenSeq() of sequences of nine.
LEMMA FlattenNines ==
  ASSUME NEW S, NEW s \in Seq(Seq(S)), \A k \in 1..Len(s) : Len(s[k]) = 9
  PROVE  /\ FlattenSeq(s) \in Seq(S) /\ Len(FlattenSeq(s)) = 9 * Len(s)
         /\ \A k \in 1..Len(s) : \A j \in 1..9 : FlattenSeq(s)[9 * k - 9 + j] = s[k][j]
<1> DEFINE last == Len(s)
<1>1. last \in Nat /\ \A k \in 1..last : s[k] \in Seq(S)
  OBVIOUS
<1>2. PICK g : /\ g[0] = <<>> /\ g[last] = FlattenSeq(s) /\ Parts(g, s, S)
               /\ \A k \in 0..last :
                    Len(g[k]) <= Len(FlattenSeq(s)) /\ \A i \in 1..Len(g[k]) : FlattenSeq(s)[i] = g[k][i]
  BY FlattenParts
<1>3. \A k \in 0..last - 1 : g[k] \in Seq(S) /\ s[k + 1] \in Seq(S) /\ g[k + 1] = g[k] \o s[k + 1] /\ Len(s[k + 1]) = 9
  <2>1. \A k \in 0..last - 1 : k \in 0..last /\ k + 1 \in 1..last
    BY <1>1
  <2> QED  BY <1>1, <1>2, <2>1 DEF Parts
<1>4. g[last] \in Seq(S)
  BY <1>1, <1>2 DEF Parts
<1> HIDE DEF last
<1>5. ASSUME NEW k \in 0..last - 1
      PROVE  /\ Len(g[k]) \in Nat /\ Len(g[k + 1]) = Len(g[k]) + 9
             /\ \A j \in 1..9 : g[k + 1][Len(g[k]) + j] = s[k + 1][j]
  <2> DEFINE a == g[k]
             b == s[k + 1]
  <2>1. a \in Seq(S) /\ b \in Seq(S) /\ g[k + 1] = a \o b /\ Len(b) = 9
    BY <1>3
  <2> HIDE DEF a, b
  <2>2. /\ Len(a) \in Nat /\ Len(a \o b) = Len(a) + 9
        /\ \A i \in 1..Len(a) + 9 : (a \o b)[i] = IF i <= Len(a) THEN a[i] ELSE b[i - Len(a)]
    <3>1. /\ Len(a \o b) = Len(a) + Len(b)
          /\ \A i \in 1..Len(a) + Len(b) : (a \o b)[i] = IF i <= Len(a) THEN a[i] ELSE b[i - Len(a)]
      BY <2>1, ConcatProperties
    <3>2. Len(a) \in Nat
      BY <2>1, LenProperties
    <3> QED  BY <2>1, <3>1, <3>2, Zenon
  <2>3. ASSUME NEW j \in 1..9 PROVE (a \o b)[Len(a) + j] = b[j]
    <3>1. Len(a) + j \in 1..Len(a) + 9 /\ ~(Len(a) + j <= Len(a)) /\ (Len(a) + j) - Len(a) = j
      BY <2>2
    <3> QED  BY <2>2, <3>1
  <2> QED  BY <2>1, <2>2, <2>3 DEF a, b
<1>6. \A k \in 0..last : Len(g[k]) = 9 * k
  <2> DEFINE T == {k \in Nat : Len(g[k]) = 9 * k}
  <2>1. 0 \in T
    BY <1>2
  <2>2. ASSUME NEW k \in 0..last - 1, k \in T PROVE k + 1 \in T
    <3>1. k \in Nat /\ k + 1 \in Nat /\ 9 * (k + 1) = 9 * k + 9
      BY <1>1
    <3>2. Len(g[k + 1]) = 9 * k + 9
      BY <1>5, <2>2
    <3> QED  BY <3>1, <3>2
  <2>3. \A k \in 0..last : k \in T
    <3> HIDE DEF T
    <3> QED  BY <1>1, <2>1, <2>2, UpTo
  <2> QED  BY <2>3
<1>7. ASSUME NEW k \in 1..last, NEW j \in 1..9 PROVE FlattenSeq(s)[9 * k - 9 + j] = s[k][j]
  <2>1. k - 1 \in 0..last - 1 /\ (k - 1) + 1 = k /\ k \in 0..last /\ k - 1 \in 0..last
    BY <1>1
  <2>2. Len(g[k - 1]) = 9 * (k - 1) /\ Len(g[k]) = 9 * k
    BY <1>6, <2>1
  <2>3. g[(k - 1) + 1][Len(g[k - 1]) + j] = s[(k - 1) + 1][j]
    BY <1>5, <2>1
  <2>4. Len(g[k - 1]) + j = 9 * k - 9 + j /\ 9 * k - 9 + j \in 1..9 * k
    BY <1>1, <2>2
  <2>5. g[k][9 * k - 9 + j] = s[k][j]
    BY <2>1, <2>3, <2>4
  <2> QED  BY <1>2, <2>1, <2>2, <2>4, <2>5
<1>8. Len(FlattenSeq(s)) = 9 * last
  BY <1>1, <1>2, <1>6
<1> QED  BY <1>2, <1>4, <1>7, <1>8 DEF last

\* The items of a font's file, one by one.
LEMMA FontItemsAre ==
  ASSUME NEW fn \in Given
  PROVE  LET its == FontItems(fn) IN
         /\ its \in Seq(Items) /\ Len(its) = Count
         /\ its[1] = Strict(<<FontMagic>>) /\ its[2] = Strict(<<0>>) /\ its[3] = Strict(fn.name \o <<CR, LF>>)
         /\ its[4] = Strict(Word(fn.ascent)) /\ its[5] = Strict(Word(fn.descent))
         /\ \A k \in 1..NGlyphs :
              LET g == fn.glyphs[k] IN
              /\ its[9 * k - 3] = Strict(Word(g.ascent)) /\ its[9 * k - 2] = Strict(Word(g.descent))
              /\ its[9 * k - 1] = Strict(Word(g.lbearing)) /\ its[9 * k] = Strict(Word(g.rbearing))
              /\ its[9 * k + 1] = Strict(Word(g.width)) /\ its[9 * k + 2] = Loose(<<BitmapMagic, 0>>)
              /\ its[9 * k + 3] = Loose(Word(g.bm.height)) /\ its[9 * k + 4] = Loose(Word(g.bm.width))
              /\ its[9 * k + 5] = Strict(Bytes(g.bm))
<1> DEFINE its == FontItems(fn)
           first == <<Strict(<<FontMagic>>), Strict(<<0>>), Strict(fn.name \o <<CR, LF>>),
                      Strict(Word(fn.ascent)), Strict(Word(fn.descent))>>
           glyphs == [k \in 1..NGlyphs |-> GlyphItems(fn.glyphs[k])]
           rest == FlattenSeq(glyphs)
<1>1. first \in Seq(Items)
  <2>1. Strict(Word(fn.ascent)) \in Items /\ Strict(Word(fn.descent)) \in Items
    BY GivenFonts, WordFacts, ItemTypes
  <2>2. fn.name \o <<CR, LF>> \in Seq(Chars)
    BY GivenFonts, ItemTypes, ConcatProperties
  <2>3. Strict(<<FontMagic>>) \in Items /\ Strict(<<0>>) \in Items /\ Strict(fn.name \o <<CR, LF>>) \in Items
    BY <2>2, ItemTypes
  <2> QED  BY <2>1, <2>3
<1>2. NGlyphs \in Nat
  BY FontAssumption
<1>3. \A k \in 1..NGlyphs : glyphs[k] = GlyphItems(fn.glyphs[k])
  OBVIOUS
<1>4. ASSUME NEW k \in 1..NGlyphs
      PROVE  LET g == fn.glyphs[k] IN
             /\ glyphs[k] \in Seq(Items) /\ Len(glyphs[k]) = 9
             /\ glyphs[k][1] = Strict(Word(g.ascent)) /\ glyphs[k][2] = Strict(Word(g.descent))
             /\ glyphs[k][3] = Strict(Word(g.lbearing)) /\ glyphs[k][4] = Strict(Word(g.rbearing))
             /\ glyphs[k][5] = Strict(Word(g.width)) /\ glyphs[k][6] = Loose(<<BitmapMagic, 0>>)
             /\ glyphs[k][7] = Loose(Word(g.bm.height)) /\ glyphs[k][8] = Loose(Word(g.bm.width))
             /\ glyphs[k][9] = Strict(Bytes(g.bm))
  <2>1. glyphs[k] \in Seq(Items)
    BY GivenFonts, GlyphItemsType
  <2> DEFINE a(g) == <<Strict(Word(g.ascent)), Strict(Word(g.descent)), Strict(Word(g.lbearing)),
                       Strict(Word(g.rbearing)), Strict(Word(g.width))>>
             b(bm) == <<Loose(<<BitmapMagic, 0>>), Loose(Word(bm.height)), Loose(Word(bm.width)), Strict(Bytes(bm))>>
  <2>2. ASSUME NEW S, NEW p \in Seq(S), NEW q \in Seq(S), Len(p) = 5, Len(q) = 4
        PROVE  /\ Len(p \o q) = 9 /\ (p \o q)[1] = p[1] /\ (p \o q)[2] = p[2] /\ (p \o q)[3] = p[3]
               /\ (p \o q)[4] = p[4] /\ (p \o q)[5] = p[5] /\ (p \o q)[6] = q[1] /\ (p \o q)[7] = q[2]
               /\ (p \o q)[8] = q[3] /\ (p \o q)[9] = q[4]
    <3>1. /\ Len(p \o q) = 9
          /\ \A i \in 1..9 : (p \o q)[i] = IF i <= 5 THEN p[i] ELSE q[i - 5]
      <4>1. /\ Len(p \o q) = Len(p) + Len(q)
            /\ \A i \in 1..Len(p) + Len(q) : (p \o q)[i] = IF i <= Len(p) THEN p[i] ELSE q[i - Len(p)]
        BY ConcatProperties
      <4> QED  BY <2>2, <4>1
    <3> DEFINE r == p \o q
    <3>2. Len(r) = 9 /\ \A i \in 1..9 : r[i] = IF i <= 5 THEN p[i] ELSE q[i - 5]
      BY <3>1
    <3> HIDE DEF r
    <3>3. /\ Len(r) = 9 /\ r[1] = p[1] /\ r[2] = p[2] /\ r[3] = p[3] /\ r[4] = p[4] /\ r[5] = p[5]
          /\ r[6] = q[1] /\ r[7] = q[2] /\ r[8] = q[3] /\ r[9] = q[4]
      BY <3>2
    <3> QED  BY <3>3 DEF r
  <2> DEFINE g == fn.glyphs[k]
             S == Items
             p == a(g)
             q == b(g.bm)
  <2>3. p \in Seq(S) /\ q \in Seq(S)
    <3>1. g.bm.height \in USHORTs /\ g.bm.width \in USHORTs /\ IsBitmap(g.bm)
      BY GivenFonts DEF IsBitmap
    <3>2. /\ Strict(Word(g.ascent)) \in S /\ Strict(Word(g.descent)) \in S /\ Strict(Word(g.lbearing)) \in S
          /\ Strict(Word(g.rbearing)) \in S /\ Strict(Word(g.width)) \in S
      BY GivenFonts, WordFacts, ItemTypes
    <3>3. /\ Loose(<<BitmapMagic, 0>>) \in S /\ Loose(Word(g.bm.height)) \in S /\ Loose(Word(g.bm.width)) \in S
          /\ Strict(Bytes(g.bm)) \in S
      BY <3>1, WordFacts, ItemTypes, BytesType
    <3> HIDE DEF S, g
    <3> QED  BY <3>2, <3>3
  <2>4. Len(p) = 5 /\ Len(q) = 4
    OBVIOUS
  <2>5. glyphs[k] = p \o q
    BY DEF GlyphItems, BitmapItems
  <2>6. /\ p[1] = Strict(Word(g.ascent)) /\ p[2] = Strict(Word(g.descent)) /\ p[3] = Strict(Word(g.lbearing))
        /\ p[4] = Strict(Word(g.rbearing)) /\ p[5] = Strict(Word(g.width))
        /\ q[1] = Loose(<<BitmapMagic, 0>>) /\ q[2] = Loose(Word(g.bm.height)) /\ q[3] = Loose(Word(g.bm.width))
        /\ q[4] = Strict(Bytes(g.bm))
    OBVIOUS
  <2> HIDE DEF p, q, S, glyphs
  <2>7. /\ Len(p \o q) = 9 /\ (p \o q)[1] = p[1] /\ (p \o q)[2] = p[2] /\ (p \o q)[3] = p[3]
        /\ (p \o q)[4] = p[4] /\ (p \o q)[5] = p[5] /\ (p \o q)[6] = q[1] /\ (p \o q)[7] = q[2]
        /\ (p \o q)[8] = q[3] /\ (p \o q)[9] = q[4]
    BY <2>2, <2>3, <2>4
  <2> HIDE DEF g
  <2>8. /\ glyphs[k] \in Seq(Items) /\ Len(glyphs[k]) = 9
        /\ glyphs[k][1] = Strict(Word(g.ascent)) /\ glyphs[k][2] = Strict(Word(g.descent))
        /\ glyphs[k][3] = Strict(Word(g.lbearing)) /\ glyphs[k][4] = Strict(Word(g.rbearing))
        /\ glyphs[k][5] = Strict(Word(g.width)) /\ glyphs[k][6] = Loose(<<BitmapMagic, 0>>)
        /\ glyphs[k][7] = Loose(Word(g.bm.height)) /\ glyphs[k][8] = Loose(Word(g.bm.width))
        /\ glyphs[k][9] = Strict(Bytes(g.bm))
    BY <2>1, <2>5, <2>6, <2>7, Zenon
  <2> QED  BY <2>8, Zenon DEF g
<1>5. glyphs \in Seq(Seq(Items)) /\ Len(glyphs) = NGlyphs
  <2>1. \A k \in 1..NGlyphs : GlyphItems(fn.glyphs[k]) \in Seq(Items)
    BY <1>3, <1>4
  <2> QED  BY <1>2, <2>1, IsASeq
<1>6. its = first \o rest
  BY DEF FontItems
<1>7. /\ first[1] = Strict(<<FontMagic>>) /\ first[2] = Strict(<<0>>)
      /\ first[3] = Strict(fn.name \o <<CR, LF>>) /\ first[4] = Strict(Word(fn.ascent))
      /\ first[5] = Strict(Word(fn.descent)) /\ Len(first) = 5
  OBVIOUS
<1> HIDE DEF first, glyphs
<1>8. /\ rest \in Seq(Items) /\ Len(rest) = 9 * NGlyphs
      /\ \A k \in 1..NGlyphs : \A j \in 1..9 : rest[9 * k - 9 + j] = glyphs[k][j]
  <2>1. \A k \in 1..Len(glyphs) : Len(glyphs[k]) = 9
    BY <1>4, <1>5
  <2>2. /\ rest \in Seq(Items) /\ Len(rest) = 9 * Len(glyphs)
        /\ \A k \in 1..Len(glyphs) : \A j \in 1..9 : rest[9 * k - 9 + j] = glyphs[k][j]
    BY <1>5, <2>1, FlattenNines
  <2> QED  BY <1>5, <2>2
<1> HIDE DEF rest, its
<1>9. /\ its \in Seq(Items) /\ Len(its) = Count
      /\ \A i \in 1..5 : its[i] = first[i]
      /\ \A i \in 1..9 * NGlyphs : its[5 + i] = rest[i]
  <2>1. /\ first \o rest \in Seq(Items)
        /\ Len(first \o rest) = Len(first) + Len(rest)
        /\ \A i \in 1..Len(first) + Len(rest) :
             (first \o rest)[i] = IF i <= Len(first) THEN first[i] ELSE rest[i - Len(first)]
    BY <1>1, <1>8, ConcatProperties
  <2>2. /\ Len(first \o rest) = 5 + 9 * NGlyphs
        /\ \A i \in 1..5 + 9 * NGlyphs : (first \o rest)[i] = IF i <= 5 THEN first[i] ELSE rest[i - 5]
    BY <1>7, <1>8, <2>1
  <2>3. \A i \in 1..5 : i \in 1..5 + 9 * NGlyphs /\ i <= 5
    BY <1>2
  <2>4. \A i \in 1..9 * NGlyphs : 5 + i \in 1..5 + 9 * NGlyphs /\ ~(5 + i <= 5) /\ (5 + i) - 5 = i
    BY <1>2
  <2>5. Count = 5 + 9 * NGlyphs
    BY <1>2 DEF Count
  <2> QED  BY <1>6, <2>1, <2>2, <2>3, <2>4, <2>5
<1>10. ASSUME NEW k \in 1..NGlyphs, NEW j \in 1..9 PROVE its[9 * k - 4 + j] = glyphs[k][j]
  <2>1. 9 * k - 9 + j \in 1..9 * NGlyphs /\ 5 + (9 * k - 9 + j) = 9 * k - 4 + j
    BY <1>2
  <2> QED  BY <1>8, <1>9, <2>1
<1>11. \A k \in 1..NGlyphs :
         /\ 9 * k - 4 + 1 = 9 * k - 3 /\ 9 * k - 4 + 2 = 9 * k - 2 /\ 9 * k - 4 + 3 = 9 * k - 1
         /\ 9 * k - 4 + 4 = 9 * k /\ 9 * k - 4 + 5 = 9 * k + 1 /\ 9 * k - 4 + 6 = 9 * k + 2
         /\ 9 * k - 4 + 7 = 9 * k + 3 /\ 9 * k - 4 + 8 = 9 * k + 4 /\ 9 * k - 4 + 9 = 9 * k + 5
  BY <1>2
<1>12. ASSUME NEW k \in 1..NGlyphs
       PROVE  LET g == fn.glyphs[k] IN
              /\ its[9 * k - 3] = Strict(Word(g.ascent)) /\ its[9 * k - 2] = Strict(Word(g.descent))
              /\ its[9 * k - 1] = Strict(Word(g.lbearing)) /\ its[9 * k] = Strict(Word(g.rbearing))
              /\ its[9 * k + 1] = Strict(Word(g.width)) /\ its[9 * k + 2] = Loose(<<BitmapMagic, 0>>)
              /\ its[9 * k + 3] = Loose(Word(g.bm.height)) /\ its[9 * k + 4] = Loose(Word(g.bm.width))
              /\ its[9 * k + 5] = Strict(Bytes(g.bm))
  <2>1. \A j \in 1..9 : its[9 * k - 4 + j] = glyphs[k][j]
    BY <1>10
  <2>2. \A j \in {1, 2, 3, 4, 5, 6, 7, 8, 9} : its[9 * k - 4 + j] = glyphs[k][j]
    BY <2>1
  <2>3. /\ its[9 * k - 3] = glyphs[k][1] /\ its[9 * k - 2] = glyphs[k][2] /\ its[9 * k - 1] = glyphs[k][3]
        /\ its[9 * k] = glyphs[k][4] /\ its[9 * k + 1] = glyphs[k][5] /\ its[9 * k + 2] = glyphs[k][6]
        /\ its[9 * k + 3] = glyphs[k][7] /\ its[9 * k + 4] = glyphs[k][8] /\ its[9 * k + 5] = glyphs[k][9]
    BY <1>11, <2>2, Zenon
  <2> QED  BY <1>4, <2>3, Zenon
<1>13. its[1] = first[1] /\ its[2] = first[2] /\ its[3] = first[3] /\ its[4] = first[4] /\ its[5] = first[5]
  BY <1>9
<1> QED  BY <1>7, <1>9, <1>12, <1>13 DEF its

-----------------------------------------------------------------------------
(***************************************************************************)
(* Where the items are in a file.                                          *)
(***************************************************************************)

LEMMA GlyphIndex ==
  /\ Count \in Nat /\ Count >= 14 /\ NGlyphs \in Nat /\ NGlyphs >= 1
  /\ \A k \in 1..NGlyphs : \A j \in 0..8 : 9 * k - 3 + j \in 1..Count
  /\ \A i \in 1..Count : i <= 5 \/ \E k \in 1..NGlyphs, j \in 0..8 : i = 9 * k - 3 + j
<1>1. NGlyphs \in Nat /\ NGlyphs >= 1 /\ Count = 9 * NGlyphs + 5
  BY FontAssumption DEF Count
<1>2. ASSUME NEW k \in 1..NGlyphs, NEW j \in 0..8 PROVE 9 * k - 3 + j \in 1..Count
  BY <1>1
<1>3. ASSUME NEW i \in 1..Count, i > 5 PROVE \E k \in 1..NGlyphs, j \in 0..8 : i = 9 * k - 3 + j
  <2>1. (i + 3) \div 9 \in 1..NGlyphs /\ (i + 3) % 9 \in 0..8 /\ i = 9 * ((i + 3) \div 9) - 3 + ((i + 3) % 9)
    BY <1>1, <1>3
  <2> QED  BY <2>1
<1> QED  BY <1>1, <1>2, <1>3

\* What stols() and lstos() make of a number.
LEMMA WordBack ==
  ASSUME NEW v \in SHORTs \cup USHORTs
  PROVE  /\ Word(v) \in Seq(Chars) /\ Len(Word(v)) = 2 /\ Word(v)[1] \in 0..255 /\ Word(v)[2] \in 0..255
         /\ (Word(v)[1] % 256) + 256 * (Word(v)[2] % 256) = USHORT(v)
         /\ v \in SHORTs => SHORT(USHORT(v)) = v
         /\ v \in USHORTs => USHORT(v) = v
<1>1. v \in Int /\ USHORT(v) = v % 65536 /\ USHORT(v) \in Nat /\ USHORT(v) < 65536
  BY DEF SHORTs, USHORTs, USHORT
<1>2. ASSUME NEW u \in Nat, u < 65536
      PROVE  /\ u % 256 \in 0..255 /\ u \div 256 \in 0..255 /\ u = (u % 256) + 256 * (u \div 256)
             /\ (u % 256) % 256 = u % 256 /\ (u \div 256) % 256 = u \div 256 /\ u % 65536 = u
  <2>1. u % 256 \in 0..255
    OBVIOUS
  <2>2. u \div 256 \in 0..255
    BY <1>2
  <2>3. u = (u % 256) + 256 * (u \div 256)
    OBVIOUS
  <2>4. \A c \in 0..255 : c % 256 = c
    OBVIOUS
  <2>5. u % 65536 = u
    BY <1>2
  <2> QED  BY <2>1, <2>2, <2>3, <2>4, <2>5
<1> DEFINE u == USHORT(v)
<1>3. Word(v)[1] = u % 256 /\ Word(v)[2] = u \div 256 /\ Len(Word(v)) = 2
  BY DEF Word
<1>4. u \in Nat /\ u < 65536
  BY <1>1
<1> HIDE DEF u
<1>5. /\ u % 256 \in 0..255 /\ u \div 256 \in 0..255 /\ u = (u % 256) + 256 * (u \div 256)
      /\ (u % 256) % 256 = u % 256 /\ (u \div 256) % 256 = u \div 256 /\ u % 65536 = u
  BY <1>2, <1>4
<1>6. ASSUME v \in SHORTs PROVE SHORT(u) = v
  <2>1. -32768 <= v /\ v <= 32767 /\ u = v % 65536
    BY <1>1, <1>6 DEF SHORTs, u
  <2>2. CASE v >= 0
    <3>1. u = v
      BY <1>1, <2>1, <2>2
    <3> QED  BY <1>5, <2>1, <3>1 DEF SHORT
  <2>3. CASE v < 0
    <3>1. u = v + 65536
      BY <1>1, <2>1, <2>3
    <3>2. u >= 32768 /\ u - 65536 = v
      BY <1>1, <2>1, <3>1
    <3> QED  BY <1>4, <1>5, <3>2 DEF SHORT
  <2> QED  BY <1>1, <2>2, <2>3
<1>7. ASSUME v \in USHORTs PROVE u = v
  <2>1. v \in Nat /\ v < 65536
    BY <1>7 DEF USHORTs
  <2> QED  BY <1>1, <1>2, <2>1 DEF u
<1>8. Word(v) \in Seq(Chars)
  BY WordFacts
<1> QED  BY <1>3, <1>5, <1>6, <1>7, <1>8 DEF u

\* Each item has bytes; the only ones that are no bytes of a text are the magic numbers.
LEMMA ItemBytes ==
  ASSUME NEW fn \in Given
  PROVE  /\ \A i \in 1..Count : /\ FontItems(fn)[i].bytes \in Seq(Chars) /\ FontItems(fn)[i].loose \in BOOLEAN
                                /\ ItemSize(fn, i) \in Nat
         /\ ItemSize(fn, 1) = 1 /\ ItemSize(fn, 2) = 1 /\ ItemSize(fn, 3) = Len(fn.name) + 2
         /\ ItemSize(fn, 4) = 2 /\ ItemSize(fn, 5) = 2
         /\ \A k \in 1..NGlyphs :
              LET g == fn.glyphs[k] IN
              /\ ItemSize(fn, 9 * k - 3) = 2 /\ ItemSize(fn, 9 * k - 2) = 2 /\ ItemSize(fn, 9 * k - 1) = 2
              /\ ItemSize(fn, 9 * k) = 2 /\ ItemSize(fn, 9 * k + 1) = 2 /\ ItemSize(fn, 9 * k + 2) = 2
              /\ ItemSize(fn, 9 * k + 3) = 2 /\ ItemSize(fn, 9 * k + 4) = 2
              /\ ItemSize(fn, 9 * k + 5) = mbm_need(g.bm.height, g.bm.width)
              /\ mbm_need(g.bm.height, g.bm.width) \in Nat
<1>1. ASSUME NEW i \in 1..Count
      PROVE  /\ FontItems(fn)[i].bytes \in Seq(Chars) /\ FontItems(fn)[i].loose \in BOOLEAN
             /\ ItemSize(fn, i) \in Nat
  <2>1. FontItems(fn)[i] \in Items
    <3> DEFINE its == FontItems(fn)
    <3>1. its \in Seq(Items) /\ Len(its) = Count
      BY FontItemsAre
    <3> HIDE DEF its
    <3>2. its[i] \in Items
      BY <3>1, ElementOfSeq
    <3> QED  BY <3>2 DEF its
  <2>2. FontItems(fn)[i].bytes \in Seq(Chars) /\ FontItems(fn)[i].loose \in BOOLEAN
    BY <2>1 DEF Items
  <2> QED  BY <2>2, LenProperties DEF ItemSize
<1>2. \A s : Strict(s).bytes = s /\ Loose(s).bytes = s
  BY DEF Strict, Loose
<1>3. Len(<<FontMagic>>) = 1 /\ Len(<<0>>) = 1 /\ Len(<<BitmapMagic, 0>>) = 2
  OBVIOUS
<1>4. Len(fn.name \o <<CR, LF>>) = Len(fn.name) + 2
  <2>1. fn.name \in Seq(Chars) /\ <<CR, LF>> \in Seq(Chars) /\ Len(<<CR, LF>>) = 2
    BY GivenFonts, ItemTypes
  <2>2. Len(fn.name \o <<CR, LF>>) = Len(fn.name) + Len(<<CR, LF>>)
    BY <2>1, ConcatProperties
  <2> QED  BY <2>1, <2>2
<1>5. ItemSize(fn, 1) = 1 /\ ItemSize(fn, 2) = 1 /\ ItemSize(fn, 3) = Len(fn.name) + 2
  BY <1>2, <1>3, <1>4, FontItemsAre DEF ItemSize
<1>6. ItemSize(fn, 4) = 2 /\ ItemSize(fn, 5) = 2
  <2>1. FontItems(fn)[4] = Strict(Word(fn.ascent)) /\ FontItems(fn)[5] = Strict(Word(fn.descent))
    BY FontItemsAre
  <2>2. Len(Word(fn.ascent)) = 2 /\ Len(Word(fn.descent)) = 2
    BY GivenFonts, WordBack
  <2> QED  BY <1>2, <2>1, <2>2, Zenon DEF ItemSize
<1>7. ASSUME NEW k \in 1..NGlyphs
      PROVE  LET g == fn.glyphs[k] IN
             /\ ItemSize(fn, 9 * k - 3) = 2 /\ ItemSize(fn, 9 * k - 2) = 2 /\ ItemSize(fn, 9 * k - 1) = 2
             /\ ItemSize(fn, 9 * k) = 2 /\ ItemSize(fn, 9 * k + 1) = 2 /\ ItemSize(fn, 9 * k + 2) = 2
             /\ ItemSize(fn, 9 * k + 3) = 2 /\ ItemSize(fn, 9 * k + 4) = 2
             /\ ItemSize(fn, 9 * k + 5) = mbm_need(g.bm.height, g.bm.width)
             /\ mbm_need(g.bm.height, g.bm.width) \in Nat
  <2> DEFINE g == fn.glyphs[k]
             need == mbm_need(g.bm.height, g.bm.width)
  <2>1. /\ g.ascent \in SHORTs /\ g.descent \in SHORTs /\ g.lbearing \in SHORTs /\ g.rbearing \in SHORTs
        /\ g.width \in SHORTs /\ g.bm.height \in USHORTs /\ g.bm.width \in USHORTs
    BY GivenFonts DEF IsBitmap
  <2>2. need \in Nat
    <3>1. g.bm.height \in Nat /\ g.bm.width \in Nat
      BY <2>1 DEF USHORTs
    <3> QED  BY <3>1, NeedIsEnough
  <2>3. Len(Bytes(g.bm)) = need
    <3> DEFINE b == g.bm
    <3>1. Bytes(b) = [j \in 1..need |-> Byte(b, j - 1)]
      BY DEF Bytes
    <3> HIDE DEF need, b
    <3> QED  BY <2>2, <3>1 DEF b
  <2>4. /\ Len(Word(g.ascent)) = 2 /\ Len(Word(g.descent)) = 2 /\ Len(Word(g.lbearing)) = 2
        /\ Len(Word(g.rbearing)) = 2 /\ Len(Word(g.width)) = 2
        /\ Len(Word(g.bm.height)) = 2 /\ Len(Word(g.bm.width)) = 2
    BY <2>1, WordBack
  <2>5. LET its == FontItems(fn) IN
        /\ its[9 * k - 3].bytes = Word(g.ascent) /\ its[9 * k - 2].bytes = Word(g.descent)
        /\ its[9 * k - 1].bytes = Word(g.lbearing) /\ its[9 * k].bytes = Word(g.rbearing)
        /\ its[9 * k + 1].bytes = Word(g.width) /\ its[9 * k + 2].bytes = <<BitmapMagic, 0>>
        /\ its[9 * k + 3].bytes = Word(g.bm.height) /\ its[9 * k + 4].bytes = Word(g.bm.width)
        /\ its[9 * k + 5].bytes = Bytes(g.bm)
    <3> DEFINE its == FontItems(fn)
    <3>1. /\ its[9 * k - 3] = Strict(Word(g.ascent)) /\ its[9 * k - 2] = Strict(Word(g.descent))
          /\ its[9 * k - 1] = Strict(Word(g.lbearing)) /\ its[9 * k] = Strict(Word(g.rbearing))
          /\ its[9 * k + 1] = Strict(Word(g.width)) /\ its[9 * k + 2] = Loose(<<BitmapMagic, 0>>)
          /\ its[9 * k + 3] = Loose(Word(g.bm.height)) /\ its[9 * k + 4] = Loose(Word(g.bm.width))
          /\ its[9 * k + 5] = Strict(Bytes(g.bm))
      BY FontItemsAre
    <3> HIDE DEF its, g
    <3>2. /\ its[9 * k - 3].bytes = Word(g.ascent) /\ its[9 * k - 2].bytes = Word(g.descent)
          /\ its[9 * k - 1].bytes = Word(g.lbearing) /\ its[9 * k].bytes = Word(g.rbearing)
          /\ its[9 * k + 1].bytes = Word(g.width) /\ its[9 * k + 2].bytes = <<BitmapMagic, 0>>
          /\ its[9 * k + 3].bytes = Word(g.bm.height) /\ its[9 * k + 4].bytes = Word(g.bm.width)
          /\ its[9 * k + 5].bytes = Bytes(g.bm)
      BY <1>2, <3>1, Zenon
    <3> QED  BY <3>2 DEF its
  <2> QED  BY <1>3, <2>2, <2>3, <2>4, <2>5 DEF ItemSize
<1> QED  BY <1>1, <1>5, <1>6, <1>7

\* How a layout goes on: each item begins where the one before it ends, and of a glyph's
\* bitmap the height, the width and the bits may come up to three bytes too soon.
LEMMA LooseOnes ==
  ASSUME NEW fn \in Given, NEW k \in 1..NGlyphs
  PROVE  LET its == FontItems(fn) IN
         /\ ~its[9 * k - 3].loose /\ ~its[9 * k - 2].loose /\ ~its[9 * k - 1].loose /\ ~its[9 * k].loose
         /\ ~its[9 * k + 1].loose /\ its[9 * k + 2].loose /\ its[9 * k + 3].loose /\ its[9 * k + 4].loose
         /\ ~its[9 * k + 5].loose
<1> DEFINE g == fn.glyphs[k]
           its == FontItems(fn)
<1>1. /\ its[9 * k - 3] = Strict(Word(g.ascent)) /\ its[9 * k - 2] = Strict(Word(g.descent))
      /\ its[9 * k - 1] = Strict(Word(g.lbearing)) /\ its[9 * k] = Strict(Word(g.rbearing))
      /\ its[9 * k + 1] = Strict(Word(g.width)) /\ its[9 * k + 2] = Loose(<<BitmapMagic, 0>>)
      /\ its[9 * k + 3] = Loose(Word(g.bm.height)) /\ its[9 * k + 4] = Loose(Word(g.bm.width))
      /\ its[9 * k + 5] = Strict(Bytes(g.bm))
  BY FontItemsAre
<1>2. \A s : ~Strict(s).loose /\ Loose(s).loose
  BY DEF Strict, Loose
<1> HIDE DEF g, its
<1>3. /\ ~its[9 * k - 3].loose /\ ~its[9 * k - 2].loose /\ ~its[9 * k - 1].loose /\ ~its[9 * k].loose
      /\ ~its[9 * k + 1].loose /\ its[9 * k + 2].loose /\ its[9 * k + 3].loose /\ its[9 * k + 4].loose
      /\ ~its[9 * k + 5].loose
  BY <1>1, <1>2, Zenon
<1> QED  BY <1>3 DEF its

LEMMA LayoutOf ==
  ASSUME NEW fn \in Given, NEW st \in Layouts(fn)
  PROVE  /\ \A i \in 1..Count + 1 : st[i] \in Nat
         /\ \A i \in 1..Count : st[i] <= st[i + 1] /\ st[i + 1] <= st[i] + ItemSize(fn, i)
         /\ st[1] = 0 /\ st[2] = 1 /\ st[3] = 2 /\ st[4] = Len(fn.name) + 4 /\ st[5] = st[4] + 2 /\ st[6] = st[4] + 4
         /\ \A k \in 1..NGlyphs :
              LET need == mbm_need(fn.glyphs[k].bm.height, fn.glyphs[k].bm.width) IN
              /\ st[9 * k - 2] = st[9 * k - 3] + 2 /\ st[9 * k - 1] = st[9 * k - 3] + 4
              /\ st[9 * k] = st[9 * k - 3] + 6 /\ st[9 * k + 1] = st[9 * k - 3] + 8
              /\ st[9 * k + 2] = st[9 * k - 3] + 10
              /\ st[9 * k + 3] - st[9 * k + 2] \in 1..2 /\ st[9 * k + 4] - st[9 * k + 3] \in 1..2
              /\ st[9 * k + 5] - st[9 * k + 4] \in 1..2 /\ st[9 * k + 6] = st[9 * k + 5] + need
<1>1. /\ st \in [1..Count + 1 -> Nat] /\ st[1] = 0
      /\ \A i \in 1..Count :
           /\ st[i + 1] <= st[i] + ItemSize(fn, i)
           /\ IF FontItems(fn)[i].loose THEN st[i + 1] > st[i] ELSE st[i + 1] = st[i] + ItemSize(fn, i)
  BY DEF Layouts
<1>2. /\ Count \in Nat /\ Count >= 14
      /\ \A k \in 1..NGlyphs : \A j \in 0..8 : 9 * k - 3 + j \in 1..Count
  BY GlyphIndex
<1>3. \A i \in 1..Count + 1 : st[i] \in Nat
  BY <1>1
<1>4. \A i \in 1..Count : /\ st[i] \in Nat /\ st[i + 1] \in Nat /\ ItemSize(fn, i) \in Nat
                          /\ st[i] <= st[i + 1] /\ st[i + 1] <= st[i] + ItemSize(fn, i)
                          /\ ~FontItems(fn)[i].loose => st[i + 1] = st[i] + ItemSize(fn, i)
                          /\ FontItems(fn)[i].loose => st[i + 1] > st[i]
  <2>1. \A i \in 1..Count : i \in 1..Count + 1 /\ i + 1 \in 1..Count + 1
    BY <1>2
  <2>2. \A i \in 1..Count : st[i] \in Nat /\ st[i + 1] \in Nat /\ ItemSize(fn, i) \in Nat
    BY <1>3, <2>1, ItemBytes
  <2> QED  BY <1>1, <2>2
<1>5. \A s : ~Strict(s).loose /\ Loose(s).loose
  BY DEF Strict, Loose
<1>6. st[2] = 1 /\ st[3] = 2 /\ st[4] = Len(fn.name) + 4 /\ st[5] = st[4] + 2 /\ st[6] = st[4] + 4
  <2>1. 1 \in 1..Count /\ 2 \in 1..Count /\ 3 \in 1..Count /\ 4 \in 1..Count /\ 5 \in 1..Count
    BY <1>2
  <2>2. /\ ~FontItems(fn)[1].loose /\ ~FontItems(fn)[2].loose /\ ~FontItems(fn)[3].loose
        /\ ~FontItems(fn)[4].loose /\ ~FontItems(fn)[5].loose
    BY <1>5, FontItemsAre
  <2>3. /\ st[1 + 1] = st[1] + ItemSize(fn, 1) /\ st[2 + 1] = st[2] + ItemSize(fn, 2) /\ st[3 + 1] = st[3] + ItemSize(fn, 3)
        /\ st[4 + 1] = st[4] + ItemSize(fn, 4) /\ st[5 + 1] = st[5] + ItemSize(fn, 5)
    BY <1>4, <2>1, <2>2
  <2>4. st[4] \in Nat /\ Len(fn.name) \in Nat
    BY <1>4, <2>1, GivenFonts
  <2>5. /\ ItemSize(fn, 1) = 1 /\ ItemSize(fn, 2) = 1 /\ ItemSize(fn, 3) = Len(fn.name) + 2
        /\ ItemSize(fn, 4) = 2 /\ ItemSize(fn, 5) = 2
    BY ItemBytes
  <2>6. st[2] = 1 /\ st[3] = 2
    BY <1>1, <2>3, <2>5
  <2>7. st[4] = 2 + (Len(fn.name) + 2)
    BY <2>3, <2>5, <2>6
  <2>8. st[5] = st[4] + 2 /\ st[6] = st[5] + 2
    BY <2>3, <2>5
  <2> HIDE DEF ItemSize
  <2> QED  BY <2>4, <2>6, <2>7, <2>8
<1>7. ASSUME NEW k \in 1..NGlyphs
      PROVE  LET need == mbm_need(fn.glyphs[k].bm.height, fn.glyphs[k].bm.width) IN
             /\ st[9 * k - 2] = st[9 * k - 3] + 2 /\ st[9 * k - 1] = st[9 * k - 3] + 4
             /\ st[9 * k] = st[9 * k - 3] + 6 /\ st[9 * k + 1] = st[9 * k - 3] + 8
             /\ st[9 * k + 2] = st[9 * k - 3] + 10
             /\ st[9 * k + 3] - st[9 * k + 2] \in 1..2 /\ st[9 * k + 4] - st[9 * k + 3] \in 1..2
             /\ st[9 * k + 5] - st[9 * k + 4] \in 1..2 /\ st[9 * k + 6] = st[9 * k + 5] + need
  <2> DEFINE its == FontItems(fn)
             need == mbm_need(fn.glyphs[k].bm.height, fn.glyphs[k].bm.width)
  <2>1. /\ ~its[9 * k - 3].loose /\ ~its[9 * k - 2].loose /\ ~its[9 * k - 1].loose /\ ~its[9 * k].loose
        /\ ~its[9 * k + 1].loose /\ its[9 * k + 2].loose /\ its[9 * k + 3].loose /\ its[9 * k + 4].loose
        /\ ~its[9 * k + 5].loose
    BY LooseOnes
  <2>2. /\ ItemSize(fn, 9 * k - 3) = 2 /\ ItemSize(fn, 9 * k - 2) = 2 /\ ItemSize(fn, 9 * k - 1) = 2
        /\ ItemSize(fn, 9 * k) = 2 /\ ItemSize(fn, 9 * k + 1) = 2 /\ ItemSize(fn, 9 * k + 2) = 2
        /\ ItemSize(fn, 9 * k + 3) = 2 /\ ItemSize(fn, 9 * k + 4) = 2 /\ ItemSize(fn, 9 * k + 5) = need
    BY ItemBytes
  <2>3. /\ 9 * k - 3 \in 1..Count /\ 9 * k - 2 \in 1..Count /\ 9 * k - 1 \in 1..Count /\ 9 * k \in 1..Count
        /\ 9 * k + 1 \in 1..Count /\ 9 * k + 2 \in 1..Count /\ 9 * k + 3 \in 1..Count /\ 9 * k + 4 \in 1..Count
        /\ 9 * k + 5 \in 1..Count
    <3>1. /\ 9 * k - 3 + 0 \in 1..Count /\ 9 * k - 3 + 1 \in 1..Count /\ 9 * k - 3 + 2 \in 1..Count
          /\ 9 * k - 3 + 3 \in 1..Count /\ 9 * k - 3 + 4 \in 1..Count /\ 9 * k - 3 + 5 \in 1..Count
          /\ 9 * k - 3 + 6 \in 1..Count /\ 9 * k - 3 + 7 \in 1..Count /\ 9 * k - 3 + 8 \in 1..Count
      BY <1>2
    <3> QED  BY <3>1
  <2>4. /\ (9 * k - 3) + 1 = 9 * k - 2 /\ (9 * k - 2) + 1 = 9 * k - 1 /\ (9 * k - 1) + 1 = 9 * k
        /\ (9 * k + 1) + 1 = 9 * k + 2 /\ (9 * k + 2) + 1 = 9 * k + 3 /\ (9 * k + 3) + 1 = 9 * k + 4
        /\ (9 * k + 4) + 1 = 9 * k + 5 /\ (9 * k + 5) + 1 = 9 * k + 6
    OBVIOUS
  <2> DEFINE Strictly(i, j) == st[j] = st[i] + ItemSize(fn, i) /\ st[i] \in Nat
             Loosely(i, j) == st[j] <= st[i] + ItemSize(fn, i) /\ st[j] > st[i] /\ st[i] \in Nat /\ st[j] \in Nat
  <2>5. \A i \in 1..Count : (~its[i].loose => Strictly(i, i + 1)) /\ (its[i].loose => Loosely(i, i + 1))
    BY <1>4
  <2>6. /\ Strictly(9 * k - 3, 9 * k - 2) /\ Strictly(9 * k - 2, 9 * k - 1) /\ Strictly(9 * k - 1, 9 * k)
        /\ Strictly(9 * k, 9 * k + 1) /\ Strictly(9 * k + 1, 9 * k + 2)
        /\ Loosely(9 * k + 2, 9 * k + 3) /\ Loosely(9 * k + 3, 9 * k + 4) /\ Loosely(9 * k + 4, 9 * k + 5)
        /\ Strictly(9 * k + 5, 9 * k + 6)
    <3> HIDE DEF Strictly, Loosely, its
    <3> QED  BY <2>1, <2>3, <2>4, <2>5
  <2> HIDE DEF need
  <2>7. /\ st[9 * k - 2] = st[9 * k - 3] + 2 /\ st[9 * k - 1] = st[9 * k - 3] + 4
        /\ st[9 * k] = st[9 * k - 3] + 6 /\ st[9 * k + 1] = st[9 * k - 3] + 8
        /\ st[9 * k + 2] = st[9 * k - 3] + 10
    BY <2>2, <2>6
  <2>8. /\ st[9 * k + 3] - st[9 * k + 2] \in 1..2 /\ st[9 * k + 4] - st[9 * k + 3] \in 1..2
        /\ st[9 * k + 5] - st[9 * k + 4] \in 1..2 /\ st[9 * k + 6] = st[9 * k + 5] + need
    BY <2>2, <2>6
  <2> QED  BY <2>7, <2>8 DEF need
<1> QED  BY <1>1, <1>3, <1>4, <1>6, <1>7

LEMMA LayoutUp ==
  ASSUME NEW fn \in Given, NEW st \in Layouts(fn), NEW i \in 1..Count + 1, NEW j \in i..Count + 1
  PROVE  st[i] <= st[j]
<1> DEFINE T == {d \in Nat : i + d <= Count + 1 => st[i] <= st[i + d]}
<1>1. Count \in Nat /\ i \in Nat /\ j \in Nat /\ j - i \in Nat /\ \A m \in 1..Count + 1 : st[m] \in Nat
  BY GlyphIndex, LayoutOf
<1>2. 0 \in T
  BY <1>1
<1>3. ASSUME NEW d \in 0..(j - i) - 1, d \in T PROVE d + 1 \in T
  <2>1. i + d \in 1..Count /\ i + (d + 1) = (i + d) + 1 /\ i + (d + 1) \in 1..Count + 1 /\ i + d \in 1..Count + 1
    BY <1>1
  <2>2. st[i + d] <= st[(i + d) + 1]
    BY <2>1, LayoutOf
  <2>3. st[i] <= st[i + d] /\ st[i] \in Nat /\ st[i + d] \in Nat /\ st[i + (d + 1)] \in Nat
    BY <1>1, <1>3, <2>1
  <2>4. st[i] <= st[i + (d + 1)]
    BY <2>1, <2>2, <2>3
  <2> QED  BY <1>1, <2>4
<1>4. \A d \in 0..j - i : d \in T
  <2> HIDE DEF T
  <2> QED  BY <1>1, <1>2, <1>3, UpTo
<1>5. j - i \in 0..j - i /\ i + (j - i) = j /\ j <= Count + 1
  BY <1>1
<1>6. j - i \in T
  BY <1>4, <1>5
<1> QED  BY <1>5, <1>6

\* The magic numbers of two bitmaps are apart.
LEMMA MagicUp ==
  ASSUME NEW fn \in Given, NEW st \in Layouts(fn)
  PROVE  /\ \A k \in 1..NGlyphs : Magic(st, k) \in Nat
         /\ \A k \in 1..NGlyphs : \A j \in 1..k - 1 : Magic(st, j) + 13 <= Magic(st, k)
<1>1. \A k \in 1..NGlyphs : /\ 9 * k - 3 \in 1..Count + 1 /\ 9 * k + 2 \in 1..Count + 1 /\ 9 * k + 3 \in 1..Count + 1
                            /\ 9 * k + 4 \in 1..Count + 1 /\ 9 * k + 5 \in 1..Count + 1 /\ 9 * k + 6 \in 1..Count + 1
  BY GlyphIndex DEF Count
<1>2. \A i \in 1..Count + 1 : st[i] \in Nat
  BY LayoutOf
<1>3. \A k \in 1..NGlyphs : Magic(st, k) \in Nat
  BY <1>1, <1>2 DEF Magic
<1>4. ASSUME NEW k \in 1..NGlyphs, NEW j \in 1..k - 1 PROVE Magic(st, j) + 13 <= Magic(st, k)
  <2>1. j \in 1..NGlyphs /\ NGlyphs \in Nat
    BY GlyphIndex
  <2>2. st[9 * k + 2] = st[9 * k - 3] + 10
    BY LayoutOf
  <2>3. /\ st[9 * j + 3] - st[9 * j + 2] \in 1..2 /\ st[9 * j + 4] - st[9 * j + 3] \in 1..2
        /\ st[9 * j + 5] - st[9 * j + 4] \in 1..2
    BY <2>1, LayoutOf
  <2>4. /\ 9 * j + 5 \in 1..Count + 1 /\ 9 * k - 3 \in 9 * j + 5..Count + 1
    BY <1>1, <2>1
  <2>5. st[9 * j + 5] <= st[9 * k - 3]
    BY <2>4, LayoutUp
  <2>6. /\ st[9 * j + 2] \in Nat /\ st[9 * j + 3] \in Nat /\ st[9 * j + 4] \in Nat /\ st[9 * j + 5] \in Nat
        /\ st[9 * k - 3] \in Nat /\ st[9 * k + 2] \in Nat
    BY <1>1, <1>2, <2>1
  <2> QED  BY <2>2, <2>3, <2>5, <2>6 DEF Magic
<1> QED  BY <1>3, <1>4

LEMMA ByteIs == \A b, k : Bit(b, k) \in 0..1 /\ Byte(b, k) \in 0..255
<1>1. \A b, k : Bit(b, k) \in 0..1
  BY DEF Bit
<1>2. \A b, k : Byte(b, k) \in 0..255
  BY <1>1 DEF Byte
<1> QED  BY <1>1, <1>2

\* Each byte is in one of the items.
LEMMA Located ==
  ASSUME NEW fn \in Given, NEW st \in Layouts(fn), NEW x \in Nat, x >= 1, x <= st[Count + 1]
  PROVE  \E i \in 1..Count : st[i] < x /\ x <= st[i + 1]
<1> DEFINE T == {i \in Nat : i <= Count /\ x <= st[i + 1]}
<1>1. Count \in Nat /\ Count >= 14
  BY GlyphIndex
<1>2. T \in SUBSET Nat /\ T # {}
  <2>1. Count \in T
    BY <1>1
  <2> QED  BY <2>1
<1>3. PICK m \in T : \A k \in T : m <= k
  <2> HIDE DEF T
  <2> QED  BY <1>2, NatLeast
<1>4. m # 0
  <2>1. st[0 + 1] = 0
    BY LayoutOf
  <2> QED  BY <2>1
<1>5. m \in 1..Count /\ m - 1 \in Nat /\ m - 1 <= Count /\ ~(m <= m - 1)
  BY <1>1, <1>4
<1>6. ~(x <= st[(m - 1) + 1]) /\ (m - 1) + 1 = m
  BY <1>3, <1>5
<1>7. st[m] \in Nat
  BY <1>1, <1>5, LayoutOf
<1> QED  BY <1>5, <1>6, <1>7

\* A magic number in a file is one of those that were written there.
LEMMA Marker ==
  ASSUME NEW fn \in Given, NEW st \in Layouts(fn), NEW s \in Seq(Chars), Agrees(s, fn, st),
         NEW x \in 1..Len(s), s[x] = BitmapMagic
  PROVE  \E k \in 1..NGlyphs : x = Magic(st, k) + 1
<1>1. Len(s) \in Nat /\ x \in Nat /\ x >= 1 /\ x <= Len(s) /\ Len(s) <= st[Count + 1] /\ st[Count + 1] \in Nat
  BY GlyphIndex, LayoutOf DEF Agrees
<1>2. PICK i \in 1..Count : st[i] < x /\ x <= st[i + 1]
  BY <1>1, Located
<1> DEFINE p == x - st[i]
           bytes == FontItems(fn)[i].bytes
<1>3. /\ st[i] \in Nat /\ st[i + 1] \in Nat /\ p \in 1..st[i + 1] - st[i] /\ st[i] + p = x
      /\ p \in 1..Len(bytes) /\ bytes \in Seq(Chars)
  <2>1. i \in 1..Count + 1 /\ i + 1 \in 1..Count + 1
    BY GlyphIndex
  <2>2. /\ st[i] \in Nat /\ st[i + 1] \in Nat /\ st[i + 1] <= st[i] + ItemSize(fn, i) /\ ItemSize(fn, i) \in Nat
        /\ bytes \in Seq(Chars)
    BY <2>1, LayoutOf, ItemBytes
  <2>3. Len(bytes) = ItemSize(fn, i)
    BY DEF ItemSize
  <2> DEFINE a == st[i]
             b == st[i + 1]
             size == ItemSize(fn, i)
  <2>4. /\ a \in Nat /\ b \in Nat /\ size \in Nat /\ b <= a + size /\ a < x /\ x <= b /\ x \in Nat
        /\ bytes \in Seq(Chars) /\ Len(bytes) = size /\ p = x - a
    BY <1>1, <1>2, <2>2, <2>3
  <2> HIDE DEF bytes, a, b, size, p
  <2>5. p \in 1..b - a /\ a + p = x /\ p \in 1..Len(bytes)
    BY <2>4
  <2> QED  BY <2>4, <2>5 DEF a, b
<1>4. bytes[p] = BitmapMagic
  BY <1>1, <1>3 DEF Agrees
<1> HIDE DEF p
<1>10. \A c \in 0..255 : c # BitmapMagic
  BY DEF BitmapMagic
<1>5. i <= 5 \/ \E k \in 1..NGlyphs, j \in 0..8 : i = 9 * k - 3 + j
  BY GlyphIndex
<1>6. ASSUME NEW v \in SHORTs \cup USHORTs PROVE ~(bytes = Word(v))
  <2> SUFFICES ASSUME bytes = Word(v) PROVE FALSE
    OBVIOUS
  <2> HIDE DEF bytes
  <2>1. Len(bytes) = 2 /\ bytes[1] \in 0..255 /\ bytes[2] \in 0..255
    BY WordBack
  <2>2. p = 1 \/ p = 2
    BY <1>3, <2>1
  <2> QED  BY <1>4, <1>10, <2>1, <2>2, Zenon
<1>7. \A t : Strict(t).bytes = t /\ Loose(t).bytes = t
  BY DEF Strict, Loose
<1>8. CASE i <= 5
  <2>1. i = 1 \/ i = 2 \/ i = 3 \/ i = 4 \/ i = 5
    BY <1>8
  <2>2. CASE i = 1
    <3>1. bytes = <<FontMagic>>
      BY <1>7, <2>2, FontItemsAre
    <3>2. p = 1 /\ bytes[1] = FontMagic
      BY <1>3, <3>1
    <3> QED  BY <1>4, <3>2 DEF FontMagic, BitmapMagic
  <2>3. CASE i = 2
    <3>1. bytes = <<0>>
      BY <1>7, <2>3, FontItemsAre
    <3>2. p = 1 /\ bytes[1] = 0
      BY <1>3, <3>1
    <3> QED  BY <1>4, <3>2 DEF BitmapMagic
  <2>4. CASE i = 3
    <3> DEFINE name == fn.name
               end == <<CR, LF>>
    <3>1. bytes = name \o end
      BY <1>7, <2>4, FontItemsAre
    <3>2. name \in Seq(0..255) /\ end \in Seq(0..255)
      BY GivenFonts DEF CR, LF
    <3> HIDE DEF name, end
    <3>3. name \o end \in Seq(0..255)
      BY <3>2, ConcatProperties
    <3>4. bytes[p] \in 0..255
      BY <1>3, <3>1, <3>3, ElementOfSeq
    <3> QED  BY <1>4, <3>4 DEF BitmapMagic
  <2>5. CASE i = 4 \/ i = 5
    <3>1. fn.ascent \in SHORTs /\ fn.descent \in SHORTs
      BY GivenFonts
    <3>2. bytes = Word(fn.ascent) \/ bytes = Word(fn.descent)
      BY <1>7, <2>5, FontItemsAre
    <3> QED  BY <1>6, <3>1, <3>2
  <2> QED  BY <2>1, <2>2, <2>3, <2>4, <2>5
<1>9. CASE \E k \in 1..NGlyphs, j \in 0..8 : i = 9 * k - 3 + j
  <2>1. PICK k \in 1..NGlyphs, j \in 0..8 : i = 9 * k - 3 + j
    BY <1>9
  <2> DEFINE g == fn.glyphs[k]
             its == FontItems(fn)
  <2>2. \/ i = 9 * k - 3 \/ i = 9 * k - 2 \/ i = 9 * k - 1 \/ i = 9 * k \/ i = 9 * k + 1
        \/ i = 9 * k + 2 \/ i = 9 * k + 3 \/ i = 9 * k + 4 \/ i = 9 * k + 5
    <3>1. j = 0 \/ j = 1 \/ j = 2 \/ j = 3 \/ j = 4 \/ j = 5 \/ j = 6 \/ j = 7 \/ j = 8
      OBVIOUS
    <3> QED  BY <2>1, <3>1
  <2>3. /\ its[9 * k - 3] = Strict(Word(g.ascent)) /\ its[9 * k - 2] = Strict(Word(g.descent))
        /\ its[9 * k - 1] = Strict(Word(g.lbearing)) /\ its[9 * k] = Strict(Word(g.rbearing))
        /\ its[9 * k + 1] = Strict(Word(g.width)) /\ its[9 * k + 2] = Loose(<<BitmapMagic, 0>>)
        /\ its[9 * k + 3] = Loose(Word(g.bm.height)) /\ its[9 * k + 4] = Loose(Word(g.bm.width))
        /\ its[9 * k + 5] = Strict(Bytes(g.bm))
    BY FontItemsAre
  <2>8. /\ its[9 * k - 3].bytes = Word(g.ascent) /\ its[9 * k - 2].bytes = Word(g.descent)
        /\ its[9 * k - 1].bytes = Word(g.lbearing) /\ its[9 * k].bytes = Word(g.rbearing)
        /\ its[9 * k + 1].bytes = Word(g.width)
        /\ its[9 * k + 3].bytes = Word(g.bm.height) /\ its[9 * k + 4].bytes = Word(g.bm.width)
    <3> HIDE DEF its, g
    <3> QED  BY <1>7, <2>3, Zenon
  <2>4. /\ g.ascent \in SHORTs /\ g.descent \in SHORTs /\ g.lbearing \in SHORTs /\ g.rbearing \in SHORTs
        /\ g.width \in SHORTs /\ g.bm.height \in USHORTs /\ g.bm.width \in USHORTs
    BY GivenFonts DEF IsBitmap
  <2>5. i = 9 * k + 2 \/ i = 9 * k + 5
    <3> HIDE DEF g, bytes
    <3>1. bytes = its[i].bytes
      BY DEF bytes
    <3> HIDE DEF its
    <3>2. /\ bytes # Word(g.ascent) /\ bytes # Word(g.descent) /\ bytes # Word(g.lbearing)
          /\ bytes # Word(g.rbearing) /\ bytes # Word(g.width) /\ bytes # Word(g.bm.height)
          /\ bytes # Word(g.bm.width)
      BY <1>6, <2>4
    <3> QED  BY <2>2, <2>8, <3>1, <3>2, Zenon
  <2>6. CASE i = 9 * k + 2
    <3>1. bytes = <<BitmapMagic, 0>>
      BY <1>7, <2>3, <2>6
    <3>2. p = 1
      <4>1. p = 1 \/ p = 2
        BY <1>3, <3>1
      <4> QED  BY <1>4, <3>1, <4>1 DEF BitmapMagic
    <3>3. x = st[9 * k + 2] + 1
      BY <1>3, <2>6, <3>2
    <3> QED  BY <3>3 DEF Magic
  <2>7. CASE i = 9 * k + 5
    <3>1. bytes = Bytes(g.bm)
      BY <1>7, <2>3, <2>7
    <3>2. mbm_need(g.bm.height, g.bm.width) \in Nat
      BY ItemBytes
    <3> DEFINE b == g.bm
               need == mbm_need(b.height, b.width)
    <3>3. Bytes(b) = [q \in 1..need |-> Byte(b, q - 1)] /\ need \in Nat
      BY <3>2 DEF Bytes
    <3> HIDE DEF need, b
    <3>4. bytes[p] = Byte(b, p - 1)
      BY <1>3, <3>1, <3>3 DEF b
    <3>5. Byte(b, p - 1) \in 0..255
      BY ByteIs
    <3> QED  BY <1>4, <1>10, <3>4, <3>5, Zenon
  <2> QED  BY <2>5, <2>6, <2>7
<1> QED  BY <1>5, <1>8, <1>9

LEMMA LooseItems ==
  ASSUME NEW fn \in Given, NEW i \in 1..Count, FontItems(fn)[i].loose
  PROVE  ItemSize(fn, i) = 2
<1>1. \A s : ~Strict(s).loose
  BY DEF Strict
<1>2. i <= 5 \/ \E k \in 1..NGlyphs, j \in 0..8 : i = 9 * k - 3 + j
  BY GlyphIndex
<1>3. CASE i <= 5
  <2>1. i = 1 \/ i = 2 \/ i = 3 \/ i = 4 \/ i = 5
    BY <1>3
  <2>2. /\ ~FontItems(fn)[1].loose /\ ~FontItems(fn)[2].loose /\ ~FontItems(fn)[3].loose
        /\ ~FontItems(fn)[4].loose /\ ~FontItems(fn)[5].loose
    BY <1>1, FontItemsAre
  <2> QED  BY <2>1, <2>2
<1>4. CASE \E k \in 1..NGlyphs, j \in 0..8 : i = 9 * k - 3 + j
  <2>1. PICK k \in 1..NGlyphs, j \in 0..8 : i = 9 * k - 3 + j
    BY <1>4
  <2>2. \/ i = 9 * k - 3 \/ i = 9 * k - 2 \/ i = 9 * k - 1 \/ i = 9 * k \/ i = 9 * k + 1
        \/ i = 9 * k + 2 \/ i = 9 * k + 3 \/ i = 9 * k + 4 \/ i = 9 * k + 5
    <3>1. j = 0 \/ j = 1 \/ j = 2 \/ j = 3 \/ j = 4 \/ j = 5 \/ j = 6 \/ j = 7 \/ j = 8
      OBVIOUS
    <3> QED  BY <2>1, <3>1
  <2>3. LET its == FontItems(fn) IN
        /\ ~its[9 * k - 3].loose /\ ~its[9 * k - 2].loose /\ ~its[9 * k - 1].loose
        /\ ~its[9 * k].loose /\ ~its[9 * k + 1].loose /\ ~its[9 * k + 5].loose
    BY LooseOnes
  <2>4. i = 9 * k + 2 \/ i = 9 * k + 3 \/ i = 9 * k + 4
    BY <2>2, <2>3
  <2>5. ItemSize(fn, 9 * k + 2) = 2 /\ ItemSize(fn, 9 * k + 3) = 2 /\ ItemSize(fn, 9 * k + 4) = 2
    BY ItemBytes
  <2> QED  BY <2>4, <2>5
<1> QED  BY <1>2, <1>3, <1>4

LEMMA Prefix ==
  ASSUME NEW S, NEW s \in Seq(S), NEW k \in 0..Len(s)
  PROVE  /\ SubSeq(s, 1, k) \in Seq(S) /\ Len(SubSeq(s, 1, k)) = k /\ k \in Nat /\ Len(s) \in Nat /\ k <= Len(s)
         /\ \A x \in 1..k : SubSeq(s, 1, k)[x] = s[x]
OBVIOUS

\* A file that was cut off is laid out as it was.
LEMMA AgreesCut ==
  ASSUME NEW fn \in Given, NEW st \in Layouts(fn), NEW s \in Seq(Chars), Agrees(s, fn, st), NEW k \in 0..Len(s)
  PROVE  SubSeq(s, 1, k) \in Seq(Chars) /\ Agrees(SubSeq(s, 1, k), fn, st)
<1> DEFINE c == SubSeq(s, 1, k)
<1>1. c \in Seq(Chars) /\ Len(c) = k /\ k \in Nat /\ Len(s) \in Nat /\ k <= Len(s) /\ \A x \in 1..k : c[x] = s[x]
  BY Prefix
<1> HIDE DEF c
<1>2. Len(s) <= st[Count + 1] /\ st[Count + 1] \in Nat
  <2>1. Count + 1 \in 1..Count + 1
    BY GlyphIndex
  <2> QED  BY <2>1, LayoutOf DEF Agrees
<1>3. Len(c) <= st[Count + 1]
  BY <1>1, <1>2
<1>4. ASSUME NEW i \in 1..Count, NEW p \in 1..st[i + 1] - st[i], st[i] + p <= Len(c)
      PROVE  c[st[i] + p] = FontItems(fn)[i].bytes[p]
  <2>1. st[i] \in Nat /\ p \in Nat /\ p >= 1
    <3>1. i \in 1..Count + 1 /\ i + 1 \in 1..Count + 1
      BY GlyphIndex
    <3>2. st[i] \in Nat /\ st[i + 1] \in Nat
      BY <3>1, LayoutOf
    <3> QED  BY <3>2
  <2>2. st[i] + p <= Len(s) /\ st[i] + p \in 1..k
    BY <1>1, <1>4, <2>1
  <2> QED  BY <1>1, <2>2 DEF Agrees
<1> QED  BY <1>1, <1>3, <1>4 DEF Agrees, c

\* An item is written, or the part of it that is noticed too late or not at all: what follows
\* will be in the file where this one ends.
LEMMA Extend ==
  ASSUME NEW fn \in Given, NEW st \in Layouts(fn), NEW s \in Seq(Chars), Agrees(s, fn, st),
         NEW i \in 1..Count, Len(s) = st[i],
         NEW z \in Nat, z <= ItemSize(fn, i), IF FontItems(fn)[i].loose THEN z > 0 ELSE z = ItemSize(fn, i),
         NEW k \in 0..z
  PROVE  LET more == s \o SubSeq(FontItems(fn)[i].bytes, 1, k) IN
         /\ more \in Seq(Chars) /\ Len(more) = Len(s) + k
         /\ \E new \in Layouts(fn) : Agrees(more, fn, new) /\ new[i + 1] = Len(s) + z
<1> DEFINE bytes == FontItems(fn)[i].bytes
           part == SubSeq(bytes, 1, k)
           more == s \o part
           new == [j \in 1..Count + 1 |-> IF j <= i THEN st[j] ELSE (st[j] - st[i + 1]) + (st[i] + z)]
<1>1. bytes \in Seq(Chars) /\ Len(bytes) = ItemSize(fn, i) /\ ItemSize(fn, i) \in Nat /\ Count \in Nat
  BY ItemBytes, GlyphIndex DEF ItemSize
<1> HIDE DEF bytes
<1>2. part \in Seq(Chars) /\ Len(part) = k /\ k \in Nat /\ k <= z /\ \A x \in 1..k : part[x] = bytes[x]
  <2>1. k \in 0..Len(bytes)
    BY <1>1
  <2> QED  BY <1>1, <2>1, Prefix
<1> HIDE DEF part
<1>3. /\ more \in Seq(Chars) /\ Len(s) \in Nat /\ Len(more) = Len(s) + k
      /\ \A x \in 1..Len(s) + k : more[x] = IF x <= Len(s) THEN s[x] ELSE part[x - Len(s)]
  <2>1. /\ more \in Seq(Chars) /\ Len(more) = Len(s) + Len(part)
        /\ \A x \in 1..Len(s) + Len(part) : more[x] = IF x <= Len(s) THEN s[x] ELSE part[x - Len(s)]
    BY <1>2, ConcatProperties
  <2> QED  BY <1>2, <2>1
<1> HIDE DEF more
<1>4. /\ \A j \in 1..Count + 1 : st[j] \in Nat
      /\ \A j \in 1..Count + 1 : j <= i => st[j] <= st[i]
      /\ \A j \in 1..Count + 1 : j > i => st[i + 1] <= st[j]
  <2>1. \A j \in 1..Count + 1 : st[j] \in Nat
    BY LayoutOf
  <2>2. ASSUME NEW j \in 1..Count + 1, j <= i PROVE st[j] <= st[i]
    <3>1. i \in j..Count + 1
      BY <1>1, <2>2
    <3> QED  BY <3>1, LayoutUp
  <2>3. ASSUME NEW j \in 1..Count + 1, j > i PROVE st[i + 1] <= st[j]
    <3>1. i + 1 \in 1..Count + 1 /\ j \in i + 1..Count + 1
      BY <1>1, <2>3
    <3> QED  BY <3>1, LayoutUp
  <2> QED  BY <2>1, <2>2, <2>3
<1>5. /\ \A j \in 1..Count + 1 : j <= i => new[j] = st[j]
      /\ \A j \in 1..Count + 1 : j > i => new[j] = (st[j] - st[i + 1]) + (st[i] + z) /\ new[j] >= st[i] + z
      /\ new[i + 1] = st[i] + z /\ new \in [1..Count + 1 -> Nat]
      /\ i + 1 \in 1..Count + 1 /\ st[i] \in Nat /\ st[i + 1] \in Nat
  <2>1. i + 1 \in 1..Count + 1 /\ i \in 1..Count + 1 /\ i + 1 > i
    BY <1>1
  <2>2. st[i] \in Nat /\ st[i + 1] \in Nat
    BY <1>4, <2>1
  <2>3. ASSUME NEW j \in 1..Count + 1, j > i
        PROVE  new[j] = (st[j] - st[i + 1]) + (st[i] + z) /\ new[j] >= st[i] + z /\ new[j] \in Nat
    <3>1. new[j] = (st[j] - st[i + 1]) + (st[i] + z)
      BY <1>1, <2>3
    <3>2. st[j] \in Nat /\ st[i + 1] <= st[j]
      BY <1>4, <2>3
    <3> HIDE DEF new
    <3> QED  BY <2>2, <3>1, <3>2
  <2>4. \A j \in 1..Count + 1 : j <= i => new[j] = st[j] /\ new[j] \in Nat
    BY <1>4
  <2>5. new[i + 1] = st[i] + z
    <3>1. new[i + 1] = (st[i + 1] - st[i + 1]) + (st[i] + z)
      BY <2>1, <2>3
    <3> HIDE DEF new
    <3> QED  BY <2>2, <3>1
  <2>6. \A j \in 1..Count + 1 : new[j] \in Nat
    BY <1>1, <2>3, <2>4
  <2>7. new \in [1..Count + 1 -> Nat]
    BY <2>6
  <2> QED  BY <2>1, <2>2, <2>3, <2>4, <2>5, <2>7
<1> HIDE DEF new
<1>6. ASSUME NEW j \in 1..Count
      PROVE  /\ new[j + 1] <= new[j] + ItemSize(fn, j)
             /\ IF FontItems(fn)[j].loose THEN new[j + 1] > new[j] ELSE new[j + 1] = new[j] + ItemSize(fn, j)
  <2>1. j \in 1..Count + 1 /\ j + 1 \in 1..Count + 1 /\ i \in Nat /\ j \in Nat
    BY <1>1
  <2>2. /\ st[j + 1] <= st[j] + ItemSize(fn, j) /\ ItemSize(fn, j) \in Nat /\ st[j] \in Nat /\ st[j + 1] \in Nat
        /\ IF FontItems(fn)[j].loose THEN st[j + 1] > st[j] ELSE st[j + 1] = st[j] + ItemSize(fn, j)
    BY <1>4, <2>1, ItemBytes DEF Layouts
  <2>3. CASE j < i
    <3>1. new[j] = st[j] /\ new[j + 1] = st[j + 1]
      BY <1>5, <2>1, <2>3
    <3> QED  BY <2>2, <3>1
  <2>4. CASE j = i
    <3>1. new[j] = st[i] /\ new[j + 1] = st[i] + z
      BY <1>5, <2>1, <2>4
    <3> QED  BY <1>1, <1>5, <2>4, <3>1
  <2>5. CASE j > i
    <3>1. new[j] = (st[j] - st[i + 1]) + (st[i] + z) /\ new[j + 1] = (st[j + 1] - st[i + 1]) + (st[i] + z)
      BY <1>5, <2>1, <2>5
    <3>2. st[i] \in Nat /\ st[i + 1] \in Nat
      BY <1>5
    <3> DEFINE a == st[j]
               b == st[j + 1]
               c == st[i + 1]
               d == st[i]
               e == ItemSize(fn, j)
               x == new[j]
               y == new[j + 1]
               loose == FontItems(fn)[j].loose
    <3>3. /\ a \in Nat /\ b \in Nat /\ c \in Nat /\ d \in Nat /\ e \in Nat
          /\ x = (a - c) + (d + z) /\ y = (b - c) + (d + z)
          /\ b <= a + e /\ IF loose THEN b > a ELSE b = a + e
      BY <2>2, <3>1, <3>2
    <3> HIDE DEF a, b, c, d, e, x, y, loose
    <3>4. y <= x + e /\ IF loose THEN y > x ELSE y = x + e
      BY <3>3
    <3> QED  BY <3>4 DEF e, x, y, loose
  <2> QED  BY <2>1, <2>3, <2>4, <2>5
<1>7. new \in Layouts(fn)
  <2>1. new[1] = 0
    <3>1. 1 \in 1..Count + 1 /\ 1 <= i
      BY <1>1
    <3> QED  BY <1>5, <3>1, LayoutOf
  <2> QED  BY <1>5, <1>6, <2>1 DEF Layouts
<1>8. Agrees(more, fn, new)
  <2>1. Len(more) <= new[Count + 1]
    <3>1. Count + 1 \in 1..Count + 1 /\ Count + 1 > i
      BY <1>1
    <3>2. new[Count + 1] >= st[i] + z /\ new[Count + 1] \in Nat
      BY <1>5, <3>1
    <3> QED  BY <1>2, <1>3, <1>5, <3>2
  <2>2. ASSUME NEW j \in 1..Count, NEW p \in 1..new[j + 1] - new[j], new[j] + p <= Len(more)
        PROVE  more[new[j] + p] = FontItems(fn)[j].bytes[p]
    <3>1. j \in 1..Count + 1 /\ j + 1 \in 1..Count + 1 /\ i \in Nat /\ j \in Nat /\ p \in Nat /\ p >= 1 /\ i \in 1..Count + 1
      BY <1>1
    <3>2. new[j] \in Nat /\ new[j + 1] \in Nat /\ p <= new[j + 1] - new[j]
      <4>1. new[j] \in Nat /\ new[j + 1] \in Nat
        BY <1>5, <3>1
      <4> QED  BY <4>1
    <3>3. CASE j < i
      <4>4. j <= i /\ j + 1 <= i
        BY <3>1, <3>3
      <4>1. new[j] = st[j] /\ new[j + 1] = st[j + 1] /\ st[j + 1] <= st[i]
        BY <1>4, <1>5, <3>1, <4>4
      <4>2. new[j] + p <= Len(s) /\ new[j] + p \in 1..Len(s) + k
        <5>1. new[j] + p <= st[i]
          BY <1>5, <3>1, <3>2, <4>1
        <5>2. new[j] + p \in Nat /\ new[j] + p >= 1
          BY <3>1, <3>2
        <5> QED  BY <1>2, <1>3, <5>1, <5>2
      <4>3. more[new[j] + p] = s[st[j] + p]
        BY <1>3, <4>1, <4>2
      <4> QED  BY <3>1, <4>1, <4>2, <4>3 DEF Agrees
    <3>4. CASE j = i
      <4>1. new[j] = Len(s)
        BY <1>5, <3>1, <3>4
      <4>2. Len(s) + p \in 1..Len(s) + k /\ ~(Len(s) + p <= Len(s)) /\ (Len(s) + p) - Len(s) = p /\ p \in 1..k
        BY <1>2, <1>3, <2>2, <3>1, <4>1
      <4>3. more[new[j] + p] = bytes[p]
        BY <1>2, <1>3, <4>1, <4>2
      <4> QED  BY <3>4, <4>3 DEF bytes
    <3>5. CASE j > i
      <4> DEFINE x == new[j]
                 y == st[i]
      <4>1. x >= y + z /\ y \in Nat
        BY <1>5, <3>1, <3>5
      <4>2. x \in Nat /\ x + p <= y + k /\ k <= z
        BY <1>2, <1>3, <2>2, <3>2
      <4> HIDE DEF x, y
      <4> QED  BY <1>2, <3>1, <4>1, <4>2
    <3> QED  BY <3>1, <3>3, <3>4, <3>5
  <2> QED  BY <2>1, <2>2 DEF Agrees
<1>9. new[i + 1] = Len(s) + z
  BY <1>5
<1> QED  BY <1>3, <1>7, <1>8, <1>9 DEF more, part, bytes

\* A file that was written without a fault: each item is where the ones before it end.
LEMMA ImageFacts ==
  ASSUME NEW fn \in Given
  PROVE  /\ Image(fn) \in Seq(Chars)
         /\ \E st \in Layouts(fn) : /\ Full(fn, st) /\ Agrees(Image(fn), fn, st)
                                    /\ Len(Image(fn)) = st[Count + 1]
<1> DEFINE its == FontItems(fn)
           parts == [i \in 1..Len(its) |-> its[i].bytes]
<1>1. /\ Len(its) = Count /\ Count \in Nat
      /\ \A i \in 1..Count : its[i].bytes \in Seq(Chars) /\ ItemSize(fn, i) = Len(its[i].bytes) /\ ItemSize(fn, i) \in Nat
  BY FontItemsAre, GlyphIndex, ItemBytes DEF ItemSize
<1>2. Image(fn) = FlattenSeq(parts)
  BY DEF Image
<1> HIDE DEF its
<1>3. parts \in Seq(Seq(Chars)) /\ Len(parts) = Count /\ \A i \in 1..Count : parts[i] = its[i].bytes
  BY <1>1, IsASeq
<1> HIDE DEF parts
<1>4. PICK g : /\ g[0] = <<>> /\ g[Len(parts)] = FlattenSeq(parts) /\ Parts(g, parts, Chars)
               /\ \A k \in 0..Len(parts) : /\ Len(g[k]) <= Len(FlattenSeq(parts))
                                           /\ \A i \in 1..Len(g[k]) : FlattenSeq(parts)[i] = g[k][i]
  BY <1>3, FlattenParts
<1> DEFINE st == [i \in 1..Count + 1 |-> Len(g[i - 1])]
<1>5. \A k \in 0..Count : g[k] \in Seq(Chars) /\ Len(g[k]) \in Nat
  BY <1>3, <1>4, LenProperties DEF Parts
<1>6. ASSUME NEW i \in 1..Count
      PROVE  /\ Len(g[i]) = Len(g[i - 1]) + ItemSize(fn, i) /\ Len(g[i - 1]) \in Nat /\ Len(g[i]) \in Nat
             /\ \A p \in 1..ItemSize(fn, i) : g[i][Len(g[i - 1]) + p] = its[i].bytes[p]
  <2> DEFINE a == g[i - 1]
             b == its[i].bytes
  <2>1. i - 1 \in 0..Count - 1 /\ (i - 1) + 1 = i /\ i - 1 \in 0..Count /\ i \in 0..Count
    BY <1>1
  <2>2. g[(i - 1) + 1] = g[i - 1] \o parts[(i - 1) + 1]
    BY <1>3, <1>4, <2>1 DEF Parts
  <2>3. a \in Seq(Chars) /\ b \in Seq(Chars) /\ g[i] = a \o b /\ Len(b) = ItemSize(fn, i) /\ Len(a) \in Nat /\ Len(b) \in Nat
    BY <1>1, <1>3, <1>5, <2>1, <2>2
  <2> HIDE DEF a, b
  <2>4. /\ Len(a \o b) = Len(a) + Len(b)
        /\ \A x \in 1..Len(a) + Len(b) : (a \o b)[x] = IF x <= Len(a) THEN a[x] ELSE b[x - Len(a)]
    BY <2>3, ConcatProperties
  <2>5. ASSUME NEW p \in 1..Len(b) PROVE (a \o b)[Len(a) + p] = b[p]
    <3>1. Len(a) + p \in 1..Len(a) + Len(b) /\ ~(Len(a) + p <= Len(a)) /\ (Len(a) + p) - Len(a) = p
      BY <2>3
    <3> QED  BY <2>4, <3>1
  <2>6. Len(g[i]) = Len(a) + ItemSize(fn, i) /\ \A p \in 1..ItemSize(fn, i) : g[i][Len(a) + p] = b[p]
    BY <2>3, <2>4, <2>5
  <2> QED  BY <1>5, <2>1, <2>6 DEF a, b
<1>7. /\ st \in [1..Count + 1 -> Nat] /\ st[1] = 0 /\ st[Count + 1] = Len(g[Count])
      /\ \A i \in 1..Count : st[i] = Len(g[i - 1]) /\ st[i + 1] = Len(g[i])
  <2>1. \A i \in 1..Count + 1 : i - 1 \in 0..Count /\ st[i] = Len(g[i - 1])
    BY <1>1
  <2>2. st \in [1..Count + 1 -> Nat]
    BY <1>5, <2>1
  <2> HIDE DEF st
  <2>3. \A i \in 1..Count : i \in 1..Count + 1 /\ i + 1 \in 1..Count + 1 /\ (i + 1) - 1 = i
    BY <1>1
  <2>4. \A i \in 1..Count : st[i] = Len(g[i - 1]) /\ st[i + 1] = Len(g[i])
    <3>1. \A i \in 1..Count : st[i + 1] = Len(g[(i + 1) - 1])
      BY <2>1, <2>3
    <3> QED  BY <2>1, <2>3, <3>1
  <2>5. st[1] = 0
    <3>1. 1 \in 1..Count + 1 /\ 1 - 1 = 0
      BY <1>1
    <3>2. st[1] = Len(g[1 - 1])
      BY <2>1, <3>1
    <3> QED  BY <1>4, <3>1, <3>2
  <2>6. st[Count + 1] = Len(g[Count])
    <3>1. Count + 1 \in 1..Count + 1 /\ (Count + 1) - 1 = Count
      BY <1>1
    <3>2. st[Count + 1] = Len(g[(Count + 1) - 1])
      BY <2>1, <3>1
    <3> QED  BY <3>1, <3>2
  <2> QED  BY <2>2, <2>4, <2>5, <2>6
<1> HIDE DEF st
<1>8. Full(fn, st) /\ st \in Layouts(fn)
  <2>1. ASSUME NEW i \in 1..Count
        PROVE  /\ st[i + 1] = st[i] + ItemSize(fn, i) /\ st[i + 1] <= st[i] + ItemSize(fn, i)
               /\ FontItems(fn)[i].loose => st[i + 1] > st[i]
    <3>1. st[i + 1] = st[i] + ItemSize(fn, i) /\ st[i] \in Nat /\ st[i + 1] \in Nat
      BY <1>6, <1>7
    <3>2. FontItems(fn)[i].loose => ItemSize(fn, i) = 2
      BY LooseItems
    <3> QED  BY <3>1, <3>2
  <2> QED  BY <1>7, <2>1 DEF Full, Layouts
<1>9. Image(fn) = g[Count] /\ Image(fn) \in Seq(Chars) /\ Len(Image(fn)) = st[Count + 1]
  <2>1. Count \in 0..Count
    BY <1>1
  <2> QED  BY <1>2, <1>3, <1>4, <1>5, <1>7, <2>1
<1>10. Agrees(Image(fn), fn, st)
  <2>1. Len(Image(fn)) <= st[Count + 1]
    <3>1. Len(Image(fn)) \in Nat
      BY <1>9, LenProperties
    <3> QED  BY <1>9, <3>1
  <2>2. ASSUME NEW i \in 1..Count, NEW p \in 1..st[i + 1] - st[i]
        PROVE  Image(fn)[st[i] + p] = FontItems(fn)[i].bytes[p]
    <3>1. /\ st[i] = Len(g[i - 1]) /\ st[i + 1] = Len(g[i]) /\ Len(g[i]) = Len(g[i - 1]) + ItemSize(fn, i)
          /\ Len(g[i - 1]) \in Nat /\ Len(g[i]) \in Nat /\ ItemSize(fn, i) \in Nat
      BY <1>1, <1>6, <1>7
    <3>2. p \in 1..ItemSize(fn, i) /\ st[i] + p \in 1..Len(g[i]) /\ i \in 0..Len(parts)
      <4> DEFINE x == st[i]
                 y == st[i + 1]
                 z == ItemSize(fn, i)
      <4>1. x \in Nat /\ y \in Nat /\ z \in Nat /\ y = x + z /\ Len(g[i]) = y
        BY <3>1
      <4> HIDE DEF x, y, z
      <4>2. p \in 1..y - x
        BY DEF x, y
      <4>3. p \in 1..z /\ x + p \in 1..y
        BY <4>1, <4>2
      <4>4. i \in 0..Len(parts)
        BY <1>1, <1>3
      <4> QED  BY <4>1, <4>3, <4>4 DEF x, z
    <3>3. g[i][st[i] + p] = its[i].bytes[p]
      BY <1>6, <3>1, <3>2
    <3>4. Image(fn)[st[i] + p] = g[i][st[i] + p]
      BY <1>2, <1>4, <3>2
    <3> QED  BY <3>3, <3>4 DEF its
  <2> QED  BY <2>1, <2>2 DEF Agrees
<1> QED  BY <1>8, <1>9, <1>10

-----------------------------------------------------------------------------
(***************************************************************************)
(* The steps of makefont.                                                  *)
(***************************************************************************)

LEMMA FilesType ==
  ASSUME FilesInv
  PROVE  /\ \A i \in 1..Places : disk[i] \in Seq(Chars) /\ Len(disk[i]) \in Nat
         /\ \A i \in 1..Places : \A k \in 1..Len(disk[i]) : disk[i][k] \in Chars
<1>1. \A i \in 1..Places : disk[i] \in Seq(Chars)
  BY DEF FilesInv
<1> QED  BY <1>1, LenProperties, ElementOfSeq

LEMMA InitFonts == Init => FontInv
<1> SUFFICES ASSUME Init PROVE FontInv
  OBVIOUS
<1>1. FilesInv
  <2>1. \A i \in 1..Places : origin[i] \in Installed \cup {NoFont}
    BY DEF Init
  <2>2. Absent \in Seq(Chars)
    <3>1. FontMagic \in Chars
      BY DEF Chars, FontMagic, BitmapMagic
    <3> QED  BY <3>1 DEF Absent
  <2>3. ASSUME NEW i \in 1..Places
        PROVE  /\ disk[i] \in Seq(Chars)
               /\ disk[i] # Absent => origin[i] \in Given /\ Saved(disk[i], origin[i])
    <3>1. disk[i] = IF origin[i] = NoFont THEN Absent ELSE Image(origin[i])
      BY DEF Init
    <3>2. CASE origin[i] = NoFont
      BY <2>2, <3>1, <3>2
    <3>3. CASE origin[i] # NoFont
      <4>1. origin[i] \in Given /\ checkfontmetrics(origin[i]) /\ disk[i] = Image(origin[i])
        BY <2>1, <3>1, <3>3, InstalledAssumption DEF Given
      <4> QED  BY <4>1, ImageFacts DEF Saved
    <3> QED  BY <3>2, <3>3
  <2>4. disk \in [1..Places -> Seq(Chars)]
    BY <2>3 DEF Init
  <2>5. origin \in [1..Places -> Given \cup {NoFont}]
    BY DEF Init, Given
  <2> QED  BY <2>3, <2>4, <2>5 DEF FilesInv
<1>2. MakingInv
  BY FontAssumption DEF Init, MakingInv
<1>3. LoadingInv
  <2>1. 1 \in 1..Places + 1 /\ 0 \in 0..NGlyphs + 1
    BY FontAssumption
  <2> QED  BY <2>1, NoFontType DEF Init, LoadingInv, Labels, IsFont
<1>4. HeapInv
  BY DEF Init, HeapInv
<1> QED  BY <1>1, <1>2, <1>3, <1>4 DEF FontInv

LEMMA ImportStep ==
  ASSUME FontInv, Import
  PROVE  FilesInv' /\ MakingInv'
<1>1. PICK fn \in Imported : /\ font' = fn /\ disk' = [disk EXCEPT ![target] = <<>>]
                             /\ origin' = [origin EXCEPT ![target] = fn]
                             /\ IF checkfontmetrics(fn)
                                  THEN items' = FontItems(fn) /\ at' = "write"
                                  ELSE items' = <<>> /\ at' = "remove"
  BY DEF Import, Goto
<1>2. at = "import" /\ UNCHANGED <<out, short, target>>
  BY DEF Import
<1>3. target \in 1..Places /\ short \in 0..MaxShortWrites /\ out = <<>> /\ fn \in Given
  BY <1>2 DEF FontInv, MakingInv, Given
<1>4. <<>> \in Seq(Chars) /\ <<>> \in Seq(Items)
  OBVIOUS
<1>5. FilesInv'
  <2>1. /\ disk \in [1..Places -> Seq(Chars)] /\ origin \in [1..Places -> Given \cup {NoFont}]
        /\ \A i \in 1..Places : disk[i] # Absent => origin[i] \in Given /\ Saved(disk[i], origin[i])
    BY DEF FontInv, FilesInv
  <2>2. disk' \in [1..Places -> Seq(Chars)] /\ origin' \in [1..Places -> Given \cup {NoFont}]
    BY <1>1, <1>3, <1>4, <2>1
  <2>3. ASSUME NEW i \in 1..Places, disk'[i] # Absent
        PROVE  origin'[i] \in Given /\ Saved(disk'[i], origin'[i])
    <3>1. CASE i = target
      BY <1>1, <1>3, <2>1, <3>1 DEF Saved
    <3>2. CASE i # target
      BY <1>1, <2>1, <2>3, <3>2
    <3> QED  BY <3>1, <3>2
  <2> QED  BY <2>2, <2>3 DEF FilesInv, Saved
<1>6. origin'[target] = fn /\ Saved(out', fn)
  BY <1>1, <1>2, <1>3 DEF FontInv, FilesInv, Saved
<1>7. items' \in Seq(Items)
  BY <1>1, <1>3, <1>4, FontItemsAre
<1>8. ASSUME at' = "write"
      PROVE  /\ checkfontmetrics(fn)
             /\ \E st \in Layouts(fn), j \in 0..Count :
                  /\ Agrees(out', fn, st) /\ Len(out') = st[j + 1]
                  /\ items' = SubSeq(FontItems(fn), j + 1, Count)
  <2>1. checkfontmetrics(fn) /\ items' = FontItems(fn)
    BY <1>1, <1>8
  <2>2. PICK st \in Layouts(fn) : Full(fn, st)
    BY <1>3, ImageFacts
  <2>3. Agrees(<<>>, fn, st)
    <3>1. \A i \in 1..Count + 1 : st[i] \in Nat
      BY <1>3, LayoutOf
    <3>2. Count \in Nat /\ Count + 1 \in 1..Count + 1 /\ \A i \in 1..Count : i \in 1..Count + 1
      BY GlyphIndex
    <3>3. Len(<<>>) = 0 /\ \A i \in 1..Count : \A p \in 1..st[i + 1] - st[i] : ~(st[i] + p <= 0)
      BY <3>1, <3>2
    <3>4. Len(<<>>) <= st[Count + 1]
      BY <3>1, <3>2, <3>3
    <3> QED  BY <3>3, <3>4 DEF Agrees
  <2>4. Len(<<>>) = st[0 + 1] /\ 0 \in 0..Count
    BY <1>3, LayoutOf, GlyphIndex
  <2>5. FontItems(fn) = SubSeq(FontItems(fn), 0 + 1, Count)
    <3> DEFINE its == FontItems(fn)
    <3>1. its \in Seq(Items) /\ Len(its) = Count
      BY <1>3, FontItemsAre
    <3> HIDE DEF its
    <3>2. its = SubSeq(its, 1, Len(its))
      BY <3>1
    <3> QED  BY <3>1, <3>2 DEF its
  <2> QED  BY <1>2, <1>3, <2>1, <2>3, <2>4, <2>5
<1>9. MakingInv'
  <2>1. /\ target' \in 1..Places /\ short' \in 0..MaxShortWrites /\ items' \in Seq(Items) /\ out' \in Seq(Chars)
        /\ at' # "import"
    BY <1>1, <1>2, <1>3, <1>4, <1>7
  <2>2. font' \in Imported /\ origin'[target'] = font' /\ Saved(out', font')
    BY <1>1, <1>2, <1>6
  <2>3. ASSUME at' = "write"
        PROVE  /\ checkfontmetrics(font')
               /\ \E st \in Layouts(font'), j \in 0..Count :
                    /\ Agrees(out', font', st) /\ Len(out') = st[j + 1]
                    /\ items' = SubSeq(FontItems(font'), j + 1, Count)
    BY <1>1, <1>8, <2>3
  <2> QED  BY <2>1, <2>2, <2>3 DEF MakingInv
<1> QED  BY <1>5, <1>9

\* What is left of a sequence.
LEMMA RestOf ==
  ASSUME NEW S, NEW s \in Seq(S), NEW i \in Nat, i >= 1, i <= Len(s) + 1
  PROVE  /\ SubSeq(s, i, Len(s)) \in Seq(S)
         /\ i = Len(s) + 1 => SubSeq(s, i, Len(s)) = <<>>
         /\ i <= Len(s) => Head(SubSeq(s, i, Len(s))) = s[i] /\ Tail(SubSeq(s, i, Len(s))) = SubSeq(s, i + 1, Len(s))
<1>1. SubSeq(s, i, Len(s)) \in Seq(S)
  OBVIOUS
<1>2. i = Len(s) + 1 => SubSeq(s, i, Len(s)) = <<>>
  OBVIOUS
<1>3. ASSUME i <= Len(s)
      PROVE  Head(SubSeq(s, i, Len(s))) = s[i] /\ Tail(SubSeq(s, i, Len(s))) = SubSeq(s, i + 1, Len(s))
  BY <1>3
<1> QED  BY <1>1, <1>2, <1>3

LEMMA WriteStep ==
  ASSUME FontInv, Write
  PROVE  MakingInv'
<1>1. /\ at = "write" /\ items # <<>> /\ UNCHANGED <<font, target, disk, origin>>
  BY DEF Write, files
<1>2. /\ target \in 1..Places /\ short \in 0..MaxShortWrites /\ items \in Seq(Items) /\ out \in Seq(Chars)
      /\ font \in Imported /\ origin[target] = font /\ checkfontmetrics(font)
  BY <1>1 DEF FontInv, MakingInv
<1>3. PICK st \in Layouts(font), j \in 0..Count :
        /\ Agrees(out, font, st) /\ Len(out) = st[j + 1]
        /\ items = SubSeq(FontItems(font), j + 1, Count)
  BY <1>1 DEF FontInv, MakingInv
<1> DEFINE i == j + 1
           its == FontItems(font)
           bytes == its[i].bytes
           loose == its[i].loose
<1>4. font \in Given
  BY <1>2 DEF Given
<1>5. /\ i \in 1..Count /\ i \in Nat /\ Head(items) = its[i] /\ Tail(items) = SubSeq(its, i + 1, Count)
      /\ Tail(items) \in Seq(Items)
  <2>1. its \in Seq(Items) /\ Len(its) = Count /\ Count \in Nat
    BY <1>4, FontItemsAre, GlyphIndex
  <2>2. items = SubSeq(its, i, Count)
    BY <1>3
  <2> HIDE DEF its, i
  <2>3. i \in Nat /\ i >= 1 /\ i <= Count + 1 /\ i + 1 \in Nat /\ i + 1 >= 1 /\ (i <= Count => i + 1 <= Count + 1)
    BY <2>1 DEF i
  <2>4. i <= Count
    <3>1. SUFFICES ASSUME i = Count + 1 PROVE FALSE
      BY <2>1, <2>3
    <3>2. items = <<>>
      BY <2>1, <2>2, <2>3, <3>1, RestOf
    <3> QED  BY <1>1, <3>2
  <2>5. Head(items) = its[i] /\ Tail(items) = SubSeq(its, i + 1, Count)
    BY <2>1, <2>2, <2>3, <2>4, RestOf
  <2>6. SubSeq(its, i + 1, Count) \in Seq(Items)
    BY <2>1, <2>3, <2>4, RestOf
  <2>7. i \in 1..Count
    BY <2>1, <2>3, <2>4
  <2>8. Tail(items) \in Seq(Items)
    BY <2>5, <2>6, Zenon
  <2> QED  BY <2>3, <2>5, <2>7, <2>8
<1>6. /\ bytes \in Seq(Chars) /\ loose \in BOOLEAN /\ Len(bytes) = ItemSize(font, i) /\ ItemSize(font, i) \in Nat
      /\ loose => ItemSize(font, i) = 2
  BY <1>4, <1>5, ItemBytes, LooseItems DEF ItemSize
<1> HIDE DEF i, its, bytes, loose
<1>7. PICK k \in 0..ItemSize(font, i) :
        /\ k < ItemSize(font, i) => short < MaxShortWrites
        /\ out' = out \o SubSeq(bytes, 1, k)
        /\ short' = IF k < ItemSize(font, i) THEN short + 1 ELSE short
        /\ IF k = ItemSize(font, i) \/ (loose /\ k > 0)
             THEN items' = Tail(items) /\ UNCHANGED at
             ELSE at' = "remove" /\ UNCHANGED items
  BY <1>5, <1>6 DEF Write, Goto, bytes, loose
<1> DEFINE done == k = ItemSize(font, i) \/ (loose /\ k > 0)
           z == IF done THEN k ELSE ItemSize(font, i)
<1>8. /\ z \in Nat /\ z <= ItemSize(font, i) /\ k \in 0..z /\ (done => z = k)
      /\ IF loose THEN z > 0 ELSE z = ItemSize(font, i)
  BY <1>6
<1> HIDE DEF z, done
<1>9. /\ out' \in Seq(Chars) /\ Len(out') = Len(out) + k
      /\ \E new \in Layouts(font) : Agrees(out', font, new) /\ new[i + 1] = Len(out) + z
  <2>1. Len(out) = st[i]
    BY <1>3 DEF i
  <2> DEFINE more == out \o SubSeq(FontItems(font)[i].bytes, 1, k)
  <2>2. Agrees(out, font, st) /\ i \in 1..Count /\ z \in Nat /\ z <= ItemSize(font, i) /\ k \in 0..z
    BY <1>3, <1>5, <1>8
  <2>3. IF FontItems(font)[i].loose THEN z > 0 ELSE z = ItemSize(font, i)
    BY <1>8 DEF loose, its
  <2>4. /\ more \in Seq(Chars) /\ Len(more) = Len(out) + k
        /\ \E new \in Layouts(font) : Agrees(more, font, new) /\ new[i + 1] = Len(out) + z
    BY <1>2, <1>3, <1>4, <2>1, <2>2, <2>3, Extend
  <2>5. out' = more
    BY <1>7 DEF bytes, its
  <2> HIDE DEF more
  <2> QED  BY <2>4, <2>5
<1>10. PICK new \in Layouts(font) : Agrees(out', font, new) /\ new[i + 1] = Len(out) + z
  BY <1>9
<1>11. Saved(out', font)
  BY <1>2, <1>10 DEF Saved
<1>12. short' \in 0..MaxShortWrites
  BY <1>2, <1>7, FontAssumption
<1>13. items' \in Seq(Items) /\ at' \in {"write", "remove"} /\ (at' = "write" => done /\ items' = Tail(items))
  BY <1>1, <1>2, <1>5, <1>7 DEF done
<1>14. ASSUME at' = "write"
       PROVE  \E lay \in Layouts(font), m \in 0..Count :
                /\ Agrees(out', font, lay) /\ Len(out') = lay[m + 1]
                /\ items' = SubSeq(FontItems(font), m + 1, Count)
  <2>1. done /\ items' = Tail(items)
    BY <1>13, <1>14
  <2>2. z = k
    BY <1>8, <2>1
  <2>3. Len(out') = new[i + 1]
    BY <1>9, <1>10, <2>2
  <2>4. i \in 0..Count
    BY <1>5, GlyphIndex
  <2>5. items' = SubSeq(FontItems(font), i + 1, Count)
    BY <1>5, <2>1 DEF its
  <2> QED  BY <1>10, <2>3, <2>4, <2>5
<1>15. /\ target' \in 1..Places /\ font' \in Imported /\ origin'[target'] = font' /\ checkfontmetrics(font')
       /\ Saved(out', font') /\ at' # "import"
  BY <1>1, <1>2, <1>11, <1>13
<1>16. ASSUME at' = "write"
       PROVE  \E lay \in Layouts(font'), m \in 0..Count :
                /\ Agrees(out', font', lay) /\ Len(out') = lay[m + 1]
                /\ items' = SubSeq(FontItems(font'), m + 1, Count)
  BY <1>1, <1>14, <1>16
<1>17. out' \in Seq(Chars)
  BY <1>9
<1> QED  BY <1>12, <1>13, <1>15, <1>16, <1>17 DEF MakingInv

LEMMA OutputStep ==
  ASSUME FontInv, RemoveOutput \/ CloseOutput
  PROVE  FilesInv' /\ MakingInv'
<1>1. /\ at \in {"write", "remove"} /\ at' = "locate" /\ UNCHANGED <<font, items, out, short, target, origin>>
  BY DEF RemoveOutput, CloseOutput, Goto, making
<1>2. /\ target \in 1..Places /\ out \in Seq(Chars) /\ origin[target] = font /\ font \in Given /\ Saved(out, font)
  BY <1>1 DEF FontInv, MakingInv, Given
<1>3. /\ disk \in [1..Places -> Seq(Chars)] /\ origin \in [1..Places -> Given \cup {NoFont}]
      /\ \A i \in 1..Places : disk[i] # Absent => origin[i] \in Given /\ Saved(disk[i], origin[i])
  BY DEF FontInv, FilesInv
<1>4. \E file \in Seq(Chars) : /\ disk' = [disk EXCEPT ![target] = file]
                               /\ file # Absent => Saved(file, font)
  <2>1. CASE RemoveOutput
    <3>1. FontMagic \in Chars
      BY DEF Chars, FontMagic, BitmapMagic
    <3>2. Absent \in Seq(Chars)
      BY <3>1 DEF Absent
    <3> QED  BY <2>1, <3>2 DEF RemoveOutput
  <2>2. CASE CloseOutput
    <3>1. PICK k \in 0..Len(out) : disk' = [disk EXCEPT ![target] = SubSeq(out, 1, k)]
      BY <2>2 DEF CloseOutput
    <3>2. SubSeq(out, 1, k) \in Seq(Chars) /\ Saved(SubSeq(out, 1, k), font)
      <4>1. CASE out = <<>>
        <5>1. SubSeq(out, 1, k) = <<>> /\ <<>> \in Seq(Chars)
          BY <4>1
        <5> QED  BY <5>1 DEF Saved
      <4>2. CASE out # <<>>
        <5>1. PICK st \in Layouts(font) : checkfontmetrics(font) /\ Agrees(out, font, st)
          BY <1>2, <4>2 DEF Saved
        <5> QED  BY <1>2, <5>1, AgreesCut DEF Saved
      <4> QED  BY <4>1, <4>2
    <3> QED  BY <3>1, <3>2
  <2> QED  BY <2>1, <2>2
<1>5. PICK file \in Seq(Chars) : /\ disk' = [disk EXCEPT ![target] = file]
                                 /\ file # Absent => Saved(file, font)
  BY <1>4
<1>6. disk' \in [1..Places -> Seq(Chars)]
  BY <1>3, <1>5
<1>7. ASSUME NEW i \in 1..Places, disk'[i] # Absent
      PROVE  origin'[i] \in Given /\ Saved(disk'[i], origin'[i])
  <2>1. CASE i = target
    BY <1>1, <1>2, <1>3, <1>5, <1>7, <2>1
  <2>2. CASE i # target
    BY <1>1, <1>3, <1>5, <1>7, <2>2
  <2> QED  BY <2>1, <2>2
<1>8. FilesInv'
  BY <1>1, <1>3, <1>6, <1>7 DEF FilesInv, Saved
<1>9. MakingInv'
  BY <1>1 DEF FontInv, MakingInv
<1> QED  BY <1>8, <1>9

-----------------------------------------------------------------------------
(***************************************************************************)
(* The steps of loadfont().                                                *)
(***************************************************************************)

\* The place and the file when loadfont() reads.
LEMMA Reading ==
  ASSUME FontInv, at \in {"header", "name", "metrics", "glyph", "bitmap"}
  PROVE  /\ place \in 1..Places /\ place \in Nat /\ File \in Seq(Chars) /\ Len(File) \in Nat
         /\ pos \in Nat /\ pos <= Len(File) /\ Left \in Nat /\ Left = Len(File) - pos /\ File # Absent
         /\ \A i \in 1..Len(File) : File[i] \in Chars /\ File[i] \in Nat
<1>1. place \in 1..Places + 1 /\ place <= Places /\ pos \in 0..Len(File) /\ File # Absent /\ Places \in Nat
  BY FontAssumption DEF FontInv, LoadingInv
<1>2. place \in 1..Places /\ place \in Nat
  BY <1>1
<1>3. File \in Seq(Chars) /\ Len(File) \in Nat /\ \A i \in 1..Len(File) : File[i] \in Chars
  BY <1>2, FilesType DEF FontInv, File
<1>4. pos \in Nat /\ pos <= Len(File) /\ Left \in Nat /\ Left = Len(File) - pos
  BY <1>1, <1>3 DEF Left
<1>5. \A i \in 1..Len(File) : File[i] \in Nat
  BY <1>3 DEF Chars
<1> QED  BY <1>1, <1>2, <1>3, <1>4, <1>5

\* After NextPlace no file is being read.
LEMMA NextPlaceStep ==
  ASSUME FontInv, at \in {"header", "name", "metrics", "glyph", "bitmap"}, NextPlace,
         n' \in 0..NGlyphs + 1, f' = f
  PROVE  LoadingInv'
<1>1. at' = "locate" /\ place' = place + 1
  BY DEF NextPlace, Goto
<1>2. place' \in 1..Places + 1
  BY <1>1, Reading, FontAssumption
<1> QED  BY <1>1, <1>2 DEF FontInv, LoadingInv, Labels

LEMMA FilesStay ==
  ASSUME FontInv, UNCHANGED <<making, files>>, at \notin {"import", "write", "remove"},
         at' \notin {"import", "write", "remove"}
  PROVE  FilesInv' /\ MakingInv'
<1>1. UNCHANGED <<font, items, out, short, target, disk, origin>>
  BY DEF making, files
<1>2. FilesInv'
  BY <1>1 DEF FontInv, FilesInv
<1>3. MakingInv'
  BY <1>1 DEF FontInv, MakingInv
<1> QED  BY <1>2, <1>3

\* The name is where the header ends, and CR and LF are after it.
LEMMA NameOf ==
  ASSUME NEW fn \in Given, NEW st \in Layouts(fn), NEW s \in Seq(Chars), Agrees(s, fn, st)
  PROVE  /\ Len(fn.name) \in Nat
         /\ \A k \in 1..Len(fn.name) : 2 + k <= Len(s) => s[2 + k] = fn.name[k]
         /\ Len(fn.name) + 3 <= Len(s) => s[Len(fn.name) + 3] = CR
         /\ Len(fn.name) + 4 <= Len(s) => s[Len(fn.name) + 4] = LF
<1> DEFINE name == fn.name
           m == Len(name)
           b == <<CR, LF>>
           h == name \o b
<1>1. name \in Seq(Chars) /\ m \in Nat
  BY GivenFonts
<1>2. b \in Seq(Chars) /\ Len(b) = 2 /\ b[1] = CR /\ b[2] = LF
  BY ItemTypes
<1>3. FontItems(fn)[3].bytes = h
  <2>1. FontItems(fn)[3] = Strict(h)
    BY FontItemsAre
  <2> HIDE DEF h
  <2> QED  BY <2>1 DEF Strict
<1>4. st[3] = 2 /\ st[3 + 1] = m + 4 /\ 3 \in 1..Count /\ Len(s) \in Nat
  BY LayoutOf, GlyphIndex
<1>5. \A p \in 1..st[3 + 1] - st[3] : st[3] + p <= Len(s) => s[st[3] + p] = FontItems(fn)[3].bytes[p]
  BY <1>4 DEF Agrees
<1> HIDE DEF name, m, b
<1>6. Len(h) = m + 2 /\ \A p \in 1..m + 2 : h[p] = IF p <= m THEN name[p] ELSE b[p - m]
  <2>1. /\ Len(h) = Len(name) + Len(b)
        /\ \A p \in 1..Len(name) + Len(b) : h[p] = IF p <= Len(name) THEN name[p] ELSE b[p - Len(name)]
    BY <1>1, <1>2, ConcatProperties
  <2>2. Len(name) = m
    BY DEF m
  <2> HIDE DEF h
  <2> QED  BY <1>2, <2>1, <2>2
<1> HIDE DEF h
<1>7. \A p \in 1..m + 2 : 2 + p <= Len(s) => s[2 + p] = h[p]
  <2>1. ASSUME NEW p \in 1..m + 2, 2 + p <= Len(s) PROVE s[2 + p] = h[p]
    <3>1. p \in 1..st[3 + 1] - st[3] /\ st[3] + p = 2 + p
      BY <1>1, <1>4
    <3> QED  BY <1>3, <1>5, <2>1, <3>1
  <2> QED  BY <2>1
<1>8. ASSUME NEW k \in 1..m, 2 + k <= Len(s) PROVE s[2 + k] = name[k]
  <2>1. k \in 1..m + 2 /\ k <= m
    BY <1>1
  <2> QED  BY <1>6, <1>7, <1>8, <2>1
<1>9. ASSUME m + 3 <= Len(s) PROVE s[m + 3] = CR
  <2>1. m + 1 \in 1..m + 2 /\ ~(m + 1 <= m) /\ (m + 1) - m = 1 /\ 2 + (m + 1) = m + 3
    BY <1>1
  <2>2. h[m + 1] = b[(m + 1) - m]
    BY <1>6, <2>1
  <2> QED  BY <1>2, <1>7, <1>9, <2>1, <2>2
<1>10. ASSUME m + 4 <= Len(s) PROVE s[m + 4] = LF
  <2>1. m + 2 \in 1..m + 2 /\ ~(m + 2 <= m) /\ (m + 2) - m = 2 /\ 2 + (m + 2) = m + 4
    BY <1>1
  <2>2. h[m + 2] = b[(m + 2) - m]
    BY <1>6, <2>1
  <2> QED  BY <1>2, <1>7, <1>10, <2>1, <2>2
<1> QED  BY <1>1, <1>8, <1>9, <1>10 DEF name, m

\* What a file's name may be: its bytes are those of the header, the magic number apart.
LEMMA NameBytes ==
  ASSUME FontInv, at = "name",
         NEW read \in Nat, read <= NameMax, read <= Left,
         \A k \in 1..NameMax : k < read => File[pos + k] # LF
  PROVE  \A k \in 1..read : pos + k \in 1..Len(File) /\ File[pos + k] \in 0..255
<1>1. /\ place \in 1..Places /\ File \in Seq(Chars) /\ Len(File) \in Nat /\ File # Absent
      /\ pos = 2 /\ Left = Len(File) - 2 /\ pos <= Len(File)
  BY Reading DEF FontInv, LoadingInv
<1>2. origin[place] \in Given /\ Saved(File, origin[place]) /\ File # <<>>
  BY <1>1 DEF FontInv, FilesInv, File
<1> DEFINE fn == origin[place]
           name == fn.name
           m == Len(name)
<1>3. PICK st \in Layouts(fn) : Agrees(File, fn, st)
  BY <1>2 DEF Saved
<1>4. name \in Seq(0..255) /\ m \in Nat /\ m >= 1 /\ m <= NameMax
  BY <1>2, GivenFonts
<1>5. /\ \A k \in 1..m : 2 + k <= Len(File) => File[2 + k] = name[k]
      /\ m + 3 <= Len(File) => File[m + 3] = CR
      /\ m + 4 <= Len(File) => File[m + 4] = LF
  BY <1>1, <1>2, <1>3, NameOf
<1> HIDE DEF fn, name, m
<1>6. read <= m + 2
  <2>1. SUFFICES ASSUME read > m + 2 PROVE FALSE
    BY <1>4
  <2>2. m + 2 \in 1..NameMax /\ m + 4 <= Len(File) /\ m + 2 < read /\ pos + (m + 2) = m + 4
    BY <1>1, <1>4, <2>1, FontAssumption
  <2> QED  BY <1>5, <2>2
<1>7. ASSUME NEW k \in 1..read PROVE pos + k \in 1..Len(File) /\ File[pos + k] \in 0..255
  <2>1. pos + k = 2 + k /\ 2 + k \in 1..Len(File) /\ 2 + k <= Len(File)
    BY <1>1
  <2>2. CASE k \in 1..m
    <3>1. name[k] \in 0..255
      BY <1>4, <2>2, ElementOfSeq, Zenon DEF m
    <3> QED  BY <1>5, <2>1, <2>2, <3>1
  <2>3. CASE k = m + 1
    <3>1. 2 + k = m + 3
      BY <1>4, <2>3
    <3> QED  BY <1>5, <2>1, <3>1 DEF CR
  <2>4. CASE k = m + 2
    <3>1. 2 + k = m + 4
      BY <1>4, <2>4
    <3> QED  BY <1>5, <2>1, <3>1 DEF LF
  <2>5. k \in 1..m \/ k = m + 1 \/ k = m + 2
    BY <1>4, <1>6
  <2> QED  BY <2>2, <2>3, <2>4, <2>5
<1> QED  BY <1>7

\* Numbers in a file are those of two bytes.
LEMMA WordsRead ==
  ASSUME FontInv, at \in {"metrics", "glyph", "bitmap"}
  PROVE  /\ \A i \in 1..Len(File) - 1 : ShortAt(i) \in SHORTs /\ WordAt(i) \in USHORTs
         /\ \A i \in 1..Len(File) : \A junk \in Junk : (File[i] % 256) + 256 * junk \in USHORTs
<1>1. Len(File) \in Nat /\ \A i \in 1..Len(File) : File[i] \in Nat
  BY Reading
<1>2. ASSUME NEW a \in Nat, NEW b \in Nat, b < 256
      PROVE  (a % 256) + 256 * b \in Nat /\ (a % 256) + 256 * b < 65536
  <2>1. a % 256 \in Nat /\ a % 256 < 256
    OBVIOUS
  <2> QED  BY <1>2, <2>1
<1>3. \A c \in Nat : c % 256 \in Nat /\ c % 256 < 256
  OBVIOUS
<1>4. ASSUME NEW i \in 1..Len(File) - 1 PROVE WordAt(i) \in USHORTs /\ WordAt(i) \in Int
  <2>1. i \in 1..Len(File) /\ i + 1 \in 1..Len(File)
    BY <1>1
  <2>2. File[i] \in Nat /\ File[i + 1] % 256 \in Nat /\ File[i + 1] % 256 < 256
    BY <1>1, <1>3, <2>1
  <2>3. WordAt(i) \in Nat /\ WordAt(i) < 65536
    BY <1>2, <2>2 DEF WordAt
  <2> QED  BY <2>3 DEF USHORTs
<1>5. ASSUME NEW i \in 1..Len(File), NEW junk \in Junk PROVE (File[i] % 256) + 256 * junk \in USHORTs
  <2>1. junk \in Nat /\ junk < 256
    BY FontAssumption
  <2> QED  BY <1>1, <1>2, <2>1 DEF USHORTs
<1> QED  BY <1>4, <1>5, WordFacts DEF ShortAt

\* Of the steps that give a file up: the font's blocks are freed, and each was there.
LEMMA FreedBlocks ==
  ASSUME FontInv, at \in {"name", "metrics", "glyph", "bitmap", "found"}
  PROVE  /\ at \in {"name", "metrics"} => heap = {FontBlock}
         /\ at \in {"glyph", "bitmap", "found"} =>
              heap = {FontBlock} \cup UNION {GlyphBlocks(k) : k \in {j \in 1..NGlyphs : f.glyphs[j].bm # NULL}}
         /\ at \in {"glyph", "bitmap"} => heap = {FontBlock} \cup UNION {GlyphBlocks(k) : k \in 1..n - 1}
<1>1. CASE at \in {"name", "metrics"}
  <2>1. heap = Blocks(0) /\ 1..0 = {}
    BY <1>1 DEF FontInv, HeapInv
  <2> QED  BY <1>1, <2>1 DEF Blocks
<1>2. ASSUME NEW last \in Nat, last <= NGlyphs, heap = Blocks(last), Loaded(last)
      PROVE  heap = {FontBlock} \cup UNION {GlyphBlocks(k) : k \in {j \in 1..NGlyphs : f.glyphs[j].bm # NULL}}
  <2>1. {j \in 1..NGlyphs : f.glyphs[j].bm # NULL} = 1..last
    BY <1>2, FontAssumption DEF Loaded
  <2> QED  BY <1>2, <2>1 DEF Blocks
<1>3. CASE at \in {"glyph", "bitmap"}
  <2>1. n \in 1..NGlyphs + 1 /\ heap = Blocks(n - 1) /\ Loaded(n - 1)
    BY <1>3, FontAssumption DEF FontInv, HeapInv, LoadingInv
  <2>2. n - 1 \in Nat /\ n - 1 <= NGlyphs
    BY <2>1, FontAssumption
  <2> QED  BY <1>2, <1>3, <2>1, <2>2 DEF Blocks
<1>4. CASE at = "found"
  <2>1. NGlyphs \in Nat /\ heap = Blocks(NGlyphs) /\ Loaded(NGlyphs)
    BY <1>4, FontAssumption DEF FontInv, HeapInv
  <2> QED  BY <1>2, <1>4, <2>1
<1> QED  BY <1>1, <1>3, <1>4

LEMMA NameFailsStep ==
  ASSUME FontInv, at \in {"name", "metrics"}, NameFails
  PROVE  LoadingInv' /\ HeapInv'
<1>1. n' \in 0..NGlyphs + 1 /\ f' = f /\ NextPlace /\ at' = "locate"
  BY DEF NameFails, FontInv, LoadingInv, NextPlace, Goto
<1>2. LoadingInv'
  BY <1>1, NextPlaceStep
<1>3. heap' = {} /\ faults' = faults
  BY FreedBlocks DEF NameFails, Free
<1>4. HeapInv'
  BY <1>1, <1>3 DEF FontInv, HeapInv
<1> QED  BY <1>2, <1>4

LEMMA GlyphFailsStep ==
  ASSUME FontInv, at \in {"glyph", "bitmap"}, GlyphFails
  PROVE  LoadingInv' /\ HeapInv'
<1>1. n' \in 0..NGlyphs + 1 /\ f' = f /\ NextPlace /\ at' = "locate"
  BY DEF GlyphFails, FontInv, LoadingInv, NextPlace, Goto
<1>2. LoadingInv'
  BY <1>1, NextPlaceStep
<1>3. heap' = {} /\ faults' = faults
  <2>1. heap = {FontBlock} \cup UNION {GlyphBlocks(k) : k \in {j \in 1..NGlyphs : f.glyphs[j].bm # NULL}}
    BY FreedBlocks
  <2> QED  BY <2>1 DEF GlyphFails, dropfont, Free
<1>4. HeapInv'
  BY <1>1, <1>3 DEF FontInv, HeapInv
<1> QED  BY <1>2, <1>4

LEMMA LocateStep ==
  ASSUME FontInv, TryFont \/ CannotLocate
  PROVE  FontInv'
<1>1. at = "locate" /\ at' \in {"locate", "header", "lost"} /\ UNCHANGED <<making, files, f, n, heap, faults>>
  BY DEF TryFont, CannotLocate, NextPlace, Goto, loading
<1>2. FilesInv' /\ MakingInv'
  BY <1>1, FilesStay
<1>3. HeapInv'
  BY <1>1 DEF FontInv, HeapInv
<1>4. LoadingInv'
  <2>1. /\ place \in 1..Places + 1 /\ n \in 0..NGlyphs + 1 /\ IsFont(f) /\ Places \in Nat
    BY FontAssumption DEF FontInv, LoadingInv
  <2>2. CASE TryFont /\ File # Absent
    <3>1. at' = "header" /\ place' = place /\ place <= Places /\ pos' = 0 /\ disk' = disk
      BY <2>2 DEF TryFont, Goto, files
    <3>2. Len(File) \in Nat /\ File' = File
      <4>1. place \in 1..Places
        BY <2>1, <3>1
      <4> QED  BY <3>1, <4>1, FilesType DEF FontInv, File
    <3>3. 0 \in 0..Len(File)
      BY <3>2
    <3> QED  BY <1>1, <2>1, <2>2, <3>1, <3>2, <3>3 DEF LoadingInv, Labels
  <2>3. CASE TryFont /\ File = Absent
    <3>1. at' = "locate" /\ place' = place + 1 /\ place <= Places
      BY <2>3 DEF TryFont, NextPlace, Goto
    <3>2. place' \in 1..Places + 1
      BY <2>1, <3>1
    <3> QED  BY <1>1, <2>1, <3>1, <3>2 DEF LoadingInv, Labels
  <2>4. CASE CannotLocate
    <3>1. at' = "lost" /\ place' = place
      BY <2>4 DEF CannotLocate, Goto, loading
    <3> QED  BY <1>1, <2>1, <3>1 DEF LoadingInv, Labels
  <2> QED  BY <1>1, <2>2, <2>3, <2>4
<1> QED  BY <1>2, <1>3, <1>4 DEF FontInv

LEMMA ReadHeaderStep ==
  ASSUME FontInv, ReadHeader
  PROVE  FontInv'
<1>1. at = "header" /\ UNCHANGED <<making, files, faults>>
  BY DEF ReadHeader
<1>2. heap = {} /\ faults \subseteq {"memory"}
  BY <1>1 DEF FontInv, HeapInv
<1>3. CASE Left >= 2 /\ File[1] = FontMagic
  <2>1. at' = "name" /\ pos' = 2 /\ f' = NoFont /\ n' = 0 /\ heap' = heap \cup {FontBlock} /\ place' = place
    BY <1>3 DEF ReadHeader, Goto
  <2>2. FilesInv' /\ MakingInv'
    BY <1>1, <2>1, FilesStay
  <2>3. /\ place \in 1..Places + 1 /\ place <= Places /\ File # Absent /\ Len(File) \in Nat /\ 2 \in 0..Len(File)
        /\ 0 \in 0..NGlyphs + 1
    BY <1>1, <1>3, Reading, FontAssumption DEF FontInv, LoadingInv
  <2>4. File' = File
    BY <1>1, <2>1 DEF File, files
  <2>5. LoadingInv'
    BY <2>1, <2>3, <2>4, NoFontType DEF LoadingInv, Labels, IsFont
  <2>6. HeapInv'
    <3>1. heap' = Blocks(0)
      <4>1. 1..0 = {}
        OBVIOUS
      <4> QED  BY <1>2, <2>1, <4>1 DEF Blocks
    <3>2. Loaded(0)'
      BY <2>1, NoFontType DEF Loaded
    <3> QED  BY <1>1, <1>2, <2>1, <3>1, <3>2 DEF HeapInv, Blocks
  <2> QED  BY <2>2, <2>5, <2>6 DEF FontInv
<1>4. CASE ~(Left >= 2 /\ File[1] = FontMagic)
  <2>1. NextPlace /\ UNCHANGED <<pos, f, n, heap>>
    BY <1>4 DEF ReadHeader
  <2>2. at' = "locate" /\ n' \in 0..NGlyphs + 1
    BY <2>1 DEF NextPlace, Goto, FontInv, LoadingInv
  <2>3. FilesInv' /\ MakingInv'
    BY <1>1, <2>2, FilesStay
  <2>4. LoadingInv'
    BY <1>1, <2>1, <2>2, NextPlaceStep
  <2>5. HeapInv'
    BY <1>1, <1>2, <2>1, <2>2 DEF HeapInv
  <2> QED  BY <2>3, <2>4, <2>5 DEF FontInv
<1> QED  BY <1>3, <1>4

LEMMA ReadNameStep ==
  ASSUME FontInv, ReadName
  PROVE  FontInv'
<1>1. at = "name" /\ UNCHANGED <<making, files>>
  BY DEF ReadName
<1> DEFINE ends == {k \in 1..NameMax : k <= Left /\ File[pos + k] = LF}
           read == IF ends = {} THEN NameMax ELSE Min(ends)
           last == IF ends = {} THEN NameMax ELSE Min(ends) - 1
<1>2. CASE read <= Left /\ last > 0 /\ File[pos + last] = CR
  <2>1. /\ f' = [f EXCEPT !.name = SubSeq(File, pos + 1, pos + read)]
        /\ pos' = pos + read /\ at' = "metrics" /\ UNCHANGED <<place, n, heap, faults>>
    BY <1>2 DEF ReadName, Goto
  <2>2. FilesInv' /\ MakingInv'
    BY <1>1, <2>1, FilesStay
  <2>3. /\ place \in 1..Places /\ File \in Seq(Chars) /\ Len(File) \in Nat /\ File # Absent
        /\ pos \in Nat /\ Left \in Nat /\ Left = Len(File) - pos
    BY <1>1, Reading
  <2>4. read \in Nat /\ read <= NameMax /\ \A k \in 1..NameMax : k < read => k \notin ends
    <3>1. NameMax \in Nat
      BY FontAssumption
    <3>2. CASE ends = {}
      BY <3>1, <3>2
    <3>3. CASE ends # {}
      <4>1. ends \in SUBSET Nat /\ ends \subseteq 1..NameMax
        BY <3>1
      <4> HIDE DEF ends
      <4>2. PICK m \in ends : \A k \in ends : m <= k
        BY <3>3, <4>1, NatLeast
      <4>3. Min(ends) \in ends /\ \A k \in ends : Min(ends) <= k
        BY <4>2 DEF Min
      <4> DEFINE least == Min(ends)
      <4>6. least \in ends /\ \A k \in ends : least <= k
        BY <4>3
      <4> HIDE DEF least
      <4>7. least \in 1..NameMax
        BY <4>1, <4>6
      <4>8. ASSUME NEW k \in 1..NameMax, k < least, k \in ends PROVE FALSE
        BY <3>1, <4>6, <4>7, <4>8
      <4>4. Min(ends) \in Nat /\ Min(ends) <= NameMax /\ \A k \in 1..NameMax : k < Min(ends) => k \notin ends
        BY <3>1, <4>7, <4>8 DEF least
      <4>5. read = Min(ends)
        BY <3>3
      <4> QED  BY <4>4, <4>5
    <3> QED  BY <3>2, <3>3
  <2>5. \A k \in 1..NameMax : k < read => File[pos + k] # LF
    <3> HIDE DEF read
    <3>1. ASSUME NEW k \in 1..NameMax, k < read PROVE File[pos + k] # LF
      <4>1. k <= Left
        BY <1>2, <2>3, <2>4, <3>1, FontAssumption
      <4> QED  BY <2>4, <3>1, <4>1
    <3> QED  BY <3>1
  <2> HIDE DEF read, last, ends
  <2>6. \A k \in 1..read : pos + k \in 1..Len(File) /\ File[pos + k] \in 0..255
    BY <1>1, <1>2, <2>4, <2>5, NameBytes
  <2>7. SubSeq(File, pos + 1, pos + read) \in Seq(0..255)
    <3>1. pos + 1 \in Nat /\ pos + read \in Nat /\ (pos + read) - (pos + 1) + 1 = read
      BY <2>3, <2>4
    <3>2. SubSeq(File, pos + 1, pos + read) = [k \in 1..read |-> File[k + (pos + 1) - 1]]
      BY <3>1 DEF SubSeq
    <3>3. \A k \in 1..read : File[k + (pos + 1) - 1] \in 0..255
      <4>1. ASSUME NEW k \in 1..read PROVE k + (pos + 1) - 1 = pos + k
        BY <2>3, <2>4
      <4> QED  BY <2>6, <4>1
    <3> DEFINE name == [k \in 1..read |-> File[k + (pos + 1) - 1]]
    <3>4. name \in [1..read -> 0..255]
      BY <3>3
    <3> HIDE DEF name
    <3>5. name \in Seq(0..255)
      BY <2>4, <3>4, SeqDef
    <3> QED  BY <3>2, <3>5 DEF name
  <2>8. /\ f \in Fonts /\ n \in 0..NGlyphs + 1
        /\ \A k \in 1..NGlyphs : f.glyphs[k].bm # NULL => IsBitmap(f.glyphs[k].bm)
    BY DEF FontInv, LoadingInv, IsFont
  <2>9. f' \in Fonts /\ f'.glyphs = f.glyphs
    BY <2>1, <2>7, <2>8 DEF Fonts
  <2>10. File' = File /\ pos' \in 0..Len(File) /\ place <= Places /\ place \in 1..Places + 1
    <3>1. pos' \in 0..Len(File)
      BY <1>2, <2>1, <2>3, <2>4
    <3> QED  BY <1>1, <2>1, <2>3, <3>1, FontAssumption DEF File, files
  <2>11. LoadingInv'
    BY <2>1, <2>3, <2>8, <2>9, <2>10 DEF LoadingInv, Labels, IsFont
  <2>12. HeapInv'
    BY <1>1, <2>1, <2>9 DEF FontInv, HeapInv, Loaded, Blocks
  <2> QED  BY <2>2, <2>11, <2>12 DEF FontInv
<1>3. CASE ~(read <= Left /\ last > 0 /\ File[pos + last] = CR)
  <2>1. NameFails
    BY <1>3 DEF ReadName
  <2>2. at' = "locate"
    BY <2>1 DEF NameFails, NextPlace, Goto
  <2> QED  BY <1>1, <2>1, <2>2, NameFailsStep, FilesStay DEF FontInv
<1> QED  BY <1>2, <1>3

LEMMA ReadMetricsStep ==
  ASSUME FontInv, ReadMetrics
  PROVE  FontInv'
<1>1. at = "metrics" /\ UNCHANGED <<making, files>>
  BY DEF ReadMetrics
<1>2. CASE Left >= 4
  <2>1. /\ f' = [f EXCEPT !.ascent = ShortAt(pos + 1), !.descent = ShortAt(pos + 3)]
        /\ pos' = pos + 4 /\ n' = 1 /\ at' = "glyph" /\ UNCHANGED <<place, heap, faults>>
    BY <1>2 DEF ReadMetrics, Goto
  <2>2. FilesInv' /\ MakingInv'
    BY <1>1, <2>1, FilesStay
  <2>3. /\ place \in 1..Places /\ Len(File) \in Nat /\ File # Absent
        /\ pos \in Nat /\ Left \in Nat /\ Left = Len(File) - pos
    BY <1>1, Reading
  <2>4. ShortAt(pos + 1) \in SHORTs /\ ShortAt(pos + 3) \in SHORTs
    <3>1. pos + 1 \in 1..Len(File) - 1 /\ pos + 3 \in 1..Len(File) - 1
      BY <1>2, <2>3
    <3> QED  BY <1>1, <3>1, WordsRead
  <2>5. /\ f \in Fonts /\ \A k \in 1..NGlyphs : f.glyphs[k].bm # NULL => IsBitmap(f.glyphs[k].bm)
    BY DEF FontInv, LoadingInv, IsFont
  <2>6. f' \in Fonts /\ f'.glyphs = f.glyphs
    BY <2>1, <2>4, <2>5 DEF Fonts
  <2>7. File' = File /\ pos' \in 0..Len(File) /\ place <= Places /\ place \in 1..Places + 1
    <3>1. pos' \in 0..Len(File)
      BY <1>2, <2>1, <2>3
    <3> QED  BY <1>1, <2>1, <2>3, <3>1, FontAssumption DEF File, files
  <2>8. 1 \in 0..NGlyphs + 1
    BY FontAssumption
  <2>9. LoadingInv'
    BY <2>1, <2>3, <2>5, <2>6, <2>7, <2>8 DEF LoadingInv, Labels, IsFont
  <2>10. HeapInv'
    <3>1. heap' = Blocks(0) /\ Loaded(0)' /\ faults' \subseteq {"memory"} /\ n' - 1 = 0
      BY <1>1, <2>1, <2>6 DEF FontInv, HeapInv, Loaded
    <3> QED  BY <2>1, <3>1 DEF HeapInv, Blocks
  <2> QED  BY <2>2, <2>9, <2>10 DEF FontInv
<1>3. CASE ~(Left >= 4)
  <2>1. NameFails
    BY <1>3 DEF ReadMetrics
  <2>2. at' = "locate"
    BY <2>1 DEF NameFails, NextPlace, Goto
  <2> QED  BY <1>1, <2>1, <2>2, NameFailsStep, FilesStay DEF FontInv
<1> QED  BY <1>2, <1>3

LEMMA ReadGlyphStep ==
  ASSUME FontInv, ReadGlyph
  PROVE  FontInv'
<1>1. at = "glyph" /\ n <= NGlyphs /\ UNCHANGED <<making, files>>
  BY DEF ReadGlyph
<1>2. CASE Left >= 10
  <2> DEFINE g == [ascent |-> ShortAt(pos + 1), descent |-> ShortAt(pos + 3), lbearing |-> ShortAt(pos + 5),
                   rbearing |-> ShortAt(pos + 7), width |-> ShortAt(pos + 9), bm |-> NULL]
  <2>1. /\ f' = [f EXCEPT !.glyphs[n] = g]
        /\ pos' = pos + 10 /\ at' = "bitmap" /\ UNCHANGED <<place, n, heap, faults>>
    BY <1>2 DEF ReadGlyph, Goto
  <2>2. FilesInv' /\ MakingInv'
    BY <1>1, <2>1, FilesStay
  <2>3. /\ place \in 1..Places /\ Len(File) \in Nat /\ File # Absent
        /\ pos \in Nat /\ Left \in Nat /\ Left = Len(File) - pos
    BY <1>1, Reading
  <2>4. g \in Glyphs /\ g.bm = NULL
    <3>1. /\ pos + 1 \in 1..Len(File) - 1 /\ pos + 3 \in 1..Len(File) - 1 /\ pos + 5 \in 1..Len(File) - 1
          /\ pos + 7 \in 1..Len(File) - 1 /\ pos + 9 \in 1..Len(File) - 1
      BY <1>2, <2>3
    <3>2. /\ ShortAt(pos + 1) \in SHORTs /\ ShortAt(pos + 3) \in SHORTs /\ ShortAt(pos + 5) \in SHORTs
          /\ ShortAt(pos + 7) \in SHORTs /\ ShortAt(pos + 9) \in SHORTs
      BY <1>1, <3>1, WordsRead
    <3> QED  BY <3>2 DEF Glyphs
  <2>5. /\ f \in Fonts /\ n \in 1..NGlyphs /\ n \in 0..NGlyphs + 1
        /\ \A k \in 1..NGlyphs : f.glyphs[k].bm # NULL => IsBitmap(f.glyphs[k].bm)
    BY <1>1, FontAssumption DEF FontInv, LoadingInv, IsFont
  <2> HIDE DEF g
  <2>6. /\ f' \in Fonts /\ f'.glyphs[n] = g
        /\ \A k \in 1..NGlyphs : k # n => f'.glyphs[k] = f.glyphs[k]
    BY <2>1, <2>4, <2>5 DEF Fonts
  <2>7. \A k \in 1..NGlyphs : f'.glyphs[k].bm # NULL => f'.glyphs[k].bm = f.glyphs[k].bm
    BY <2>4, <2>6
  <2>8. File' = File /\ pos' \in 0..Len(File) /\ place <= Places /\ place \in 1..Places + 1
    <3>1. pos' \in 0..Len(File)
      BY <1>2, <2>1, <2>3
    <3> QED  BY <1>1, <2>1, <2>3, <3>1, FontAssumption DEF File, files
  <2>9. LoadingInv'
    <3>1. \A k \in 1..NGlyphs : f'.glyphs[k].bm # NULL => IsBitmap(f'.glyphs[k].bm)
      BY <2>5, <2>7
    <3> QED  BY <2>1, <2>3, <2>5, <2>6, <2>8, <3>1 DEF LoadingInv, Labels, IsFont
  <2>10. HeapInv'
    <3>1. heap = Blocks(n - 1) /\ Loaded(n - 1) /\ faults \subseteq {"memory"}
      BY <1>1 DEF FontInv, HeapInv
    <3>2. f.glyphs[n].bm = NULL
      BY <2>5, <3>1, FontAssumption DEF Loaded
    <3>3. \A k \in 1..NGlyphs : f'.glyphs[k].bm = f.glyphs[k].bm
      BY <2>4, <2>6, <3>2
    <3>4. Loaded(n - 1)'
      BY <2>1, <3>1, <3>3 DEF Loaded
    <3> QED  BY <2>1, <3>1, <3>4 DEF HeapInv, Blocks
  <2> QED  BY <2>2, <2>9, <2>10 DEF FontInv
<1>3. CASE ~(Left >= 10)
  <2>1. GlyphFails
    BY <1>3 DEF ReadGlyph
  <2>2. at' = "locate"
    BY <2>1 DEF GlyphFails, NextPlace, Goto
  <2> QED  BY <1>1, <2>1, <2>2, GlyphFailsStep, FilesStay DEF FontInv
<1> QED  BY <1>2, <1>3

\* The height and the width that a bitmap's header is taken to have.
LEMMA WidthsAre ==
  ASSUME FontInv, at = "bitmap", Left >= 5, NEW w \in WidthsRead
  PROVE  HeightRead \in USHORTs /\ w \in USHORTs /\ HeightRead \in Nat /\ w \in Nat
<1>1. /\ Len(File) \in Nat /\ pos \in Nat /\ Left \in Nat /\ Left = Len(File) - pos
  BY Reading
<1>2. pos + 3 \in 1..Len(File) - 1 /\ pos + 5 \in 1..Len(File) /\ (Left # 5 => pos + 5 \in 1..Len(File) - 1)
  BY <1>1
<1>3. HeightRead \in USHORTs
  BY <1>2, WordsRead DEF HeightRead
<1>4. w \in USHORTs
  <2>1. CASE Left = 5
    <3>1. PICK junk \in Junk : w = (File[pos + 5] % 256) + 256 * junk
      BY <2>1 DEF WidthsRead
    <3> QED  BY <1>2, <3>1, WordsRead
  <2>2. CASE Left # 5
    <3>1. w = WordAt(pos + 5)
      BY <2>2 DEF WidthsRead
    <3> QED  BY <1>2, <2>2, <3>1, WordsRead
  <2> QED  BY <2>1, <2>2
<1> QED  BY <1>3, <1>4 DEF USHORTs

LEMMA BitmapRead ==
  ASSUME NEW h \in USHORTs, NEW w \in USHORTs, NEW i
  PROVE  LET bm == [mbm_buy(h, w) EXCEPT !.bits = BitsAt(i, mbm_need(h, w))] IN
         /\ IsBitmap(bm) /\ bm # NULL /\ bm \in [height : USHORTs, width : USHORTs, bits : SUBSET Nat]
<1> DEFINE need == mbm_need(h, w)
           bits == BitsAt(i, need)
           bm == [mbm_buy(h, w) EXCEPT !.bits = bits]
<1>1. need \in Nat
  BY NeedIsEnough DEF USHORTs
<1>2. bits \subseteq 0..8 * need - 1
  BY DEF BitsAt
<1> HIDE DEF bits, need
<1>3. bm = [height |-> h, width |-> w, bits |-> bits]
  BY DEF mbm_buy
<1>4. bits \in SUBSET Nat
  BY <1>1, <1>2
<1>5. bm \in [height : USHORTs, width : USHORTs, bits : SUBSET Nat]
  BY <1>3, <1>4
<1>6. IsBitmap(bm)
  BY <1>2, <1>3 DEF IsBitmap, AllBits, need
<1> QED  BY <1>5, <1>6, FontAssumption DEF bits, need

LEMMA LoadBitmapStep ==
  ASSUME FontInv, LoadBitmap
  PROVE  FontInv'
<1>1. at = "bitmap" /\ UNCHANGED <<making, files>>
  BY DEF LoadBitmap
<1>2. CASE GlyphFails
  <2>1. at' = "locate"
    BY <1>2 DEF GlyphFails, NextPlace, Goto
  <2> QED  BY <1>1, <1>2, <2>1, GlyphFailsStep, FilesStay DEF FontInv
<1>3. CASE ~GlyphFails
  <2>1. HeaderRead /\ \E w \in WidthsRead :
          LET need == mbm_need(HeightRead, w) IN
          /\ need <= BitsLeft
          /\ f' = [f EXCEPT !.glyphs[n].bm = [mbm_buy(HeightRead, w) EXCEPT !.bits = BitsAt(pos + 7, need)]]
          /\ pos' = IF Left = 5 THEN Len(File) ELSE pos + 6 + need
          /\ heap' = heap \cup GlyphBlocks(n)
          /\ n' = n + 1 /\ Goto("glyph") /\ UNCHANGED <<place, faults>>
    BY <1>3 DEF LoadBitmap
  <2>2. PICK w \in WidthsRead :
          LET need == mbm_need(HeightRead, w) IN
          /\ need <= BitsLeft
          /\ f' = [f EXCEPT !.glyphs[n].bm = [mbm_buy(HeightRead, w) EXCEPT !.bits = BitsAt(pos + 7, need)]]
          /\ pos' = IF Left = 5 THEN Len(File) ELSE pos + 6 + need
          /\ heap' = heap \cup GlyphBlocks(n)
          /\ n' = n + 1 /\ Goto("glyph") /\ UNCHANGED <<place, faults>>
    BY <2>1
  <2> DEFINE need == mbm_need(HeightRead, w)
             bm == [mbm_buy(HeightRead, w) EXCEPT !.bits = BitsAt(pos + 7, need)]
  <2>3. /\ need <= BitsLeft /\ f' = [f EXCEPT !.glyphs[n].bm = bm]
        /\ pos' = IF Left = 5 THEN Len(File) ELSE pos + 6 + need
        /\ heap' = heap \cup GlyphBlocks(n) /\ n' = n + 1 /\ at' = "glyph" /\ UNCHANGED <<place, faults>>
    BY <2>2 DEF Goto
  <2>4. /\ place \in 1..Places /\ Len(File) \in Nat /\ File # Absent
        /\ pos \in Nat /\ Left \in Nat /\ Left = Len(File) - pos /\ Left >= 5
    BY <1>1, <2>1, Reading DEF HeaderRead
  <2>5. HeightRead \in USHORTs /\ w \in USHORTs
    BY <1>1, <2>2, <2>4, WidthsAre
  <2>6. need \in Nat
    <3>1. HeightRead \in Nat /\ w \in Nat
      BY <2>5 DEF USHORTs
    <3> QED  BY <3>1, NeedIsEnough
  <2>7. IsBitmap(bm) /\ bm # NULL /\ bm \in [height : USHORTs, width : USHORTs, bits : SUBSET Nat]
    BY <2>5, BitmapRead
  <2> HIDE DEF need, bm
  <2>8. FilesInv' /\ MakingInv'
    BY <1>1, <2>3, FilesStay
  <2>9. /\ f \in Fonts /\ n \in 1..NGlyphs /\ n \in Nat /\ n' \in 1..NGlyphs + 1
        /\ \A k \in 1..NGlyphs : f.glyphs[k].bm # NULL => IsBitmap(f.glyphs[k].bm)
    BY <1>1, <2>3, FontAssumption DEF FontInv, LoadingInv, IsFont
  <2>10. f' \in Fonts /\ f'.glyphs[n].bm = bm /\ \A k \in 1..NGlyphs : k # n => f'.glyphs[k] = f.glyphs[k]
    <3>1. f.glyphs \in [1..NGlyphs -> Glyphs] /\ f.glyphs[n] \in Glyphs
      BY <2>9 DEF Fonts
    <3> DEFINE g == [f.glyphs[n] EXCEPT !.bm = bm]
    <3>2. g \in Glyphs /\ g.bm = bm
      BY <2>7, <3>1 DEF Glyphs
    <3>3. f' = [f EXCEPT !.glyphs = [f.glyphs EXCEPT ![n] = g]]
      BY <2>3, <2>9 DEF Fonts
    <3> HIDE DEF g
    <3> QED  BY <2>9, <3>1, <3>2, <3>3 DEF Fonts
  <2>11. File' = File /\ pos' \in 0..Len(File) /\ place <= Places /\ place \in 1..Places + 1
    <3>1. pos' \in 0..Len(File)
      BY <2>3, <2>4, <2>6 DEF BitsLeft
    <3> QED  BY <1>1, <2>3, <2>4, <3>1, FontAssumption DEF File, files
  <2>12. LoadingInv'
    <3>1. \A k \in 1..NGlyphs : f'.glyphs[k].bm # NULL => IsBitmap(f'.glyphs[k].bm)
      BY <2>7, <2>9, <2>10
    <3>2. n' >= 1 /\ n' \in 0..NGlyphs + 1
      BY <2>9, FontAssumption
    <3> QED  BY <2>3, <2>4, <2>10, <2>11, <3>1, <3>2 DEF LoadingInv, Labels, IsFont
  <2>13. HeapInv'
    <3>1. heap = Blocks(n - 1) /\ Loaded(n - 1) /\ faults \subseteq {"memory"}
      BY <1>1 DEF FontInv, HeapInv
    <3>2. n' - 1 = n
      BY <2>3, <2>9
    <3>3. heap' = Blocks(n)
      <4>1. 1..n = (1..n - 1) \cup {n}
        BY <2>9
      <4> QED  BY <2>3, <3>1, <4>1 DEF Blocks
    <3>4. \A j \in 1..NGlyphs : f'.glyphs[j].bm # NULL <=> j <= n
      <4>1. ASSUME NEW j \in 1..NGlyphs PROVE f'.glyphs[j].bm # NULL <=> j <= n
        <5>1. CASE j = n
          BY <2>7, <2>9, <2>10, <5>1
        <5>2. CASE j # n
          BY <2>9, <2>10, <3>1, <5>2, FontAssumption DEF Loaded
        <5> QED  BY <5>1, <5>2
      <4> QED  BY <4>1
    <3> QED  BY <2>3, <3>1, <3>2, <3>3, <3>4 DEF HeapInv, Loaded, Blocks
  <2> QED  BY <2>8, <2>12, <2>13 DEF FontInv
<1> QED  BY <1>2, <1>3

LEMMA NoMemoryStep ==
  ASSUME FontInv, NoMemory
  PROVE  FontInv'
<1> DEFINE drop == {FontBlock} \cup UNION {GlyphBlocks(k) : k \in 1..n - 1}
<1>1. at = "bitmap" /\ UNCHANGED <<making, files, pos, n, f>> /\ NextPlace
  BY DEF NoMemory
<1>2. at' = "locate" /\ n' \in 0..NGlyphs + 1
  BY <1>1 DEF NextPlace, Goto, FontInv, LoadingInv
<1>3. /\ heap' = heap \ drop
      /\ faults' = faults \cup {"memory"} \cup (IF drop \subseteq heap THEN {} ELSE {"misuse"})
  BY DEF NoMemory
<1>4. heap = drop
  BY <1>1, FreedBlocks
<1>5. FilesInv' /\ MakingInv'
  BY <1>1, <1>2, FilesStay
<1>6. LoadingInv'
  BY <1>1, <1>2, NextPlaceStep
<1> HIDE DEF drop
<1>7. HeapInv'
  <2>1. heap' = {} /\ faults' \subseteq {"memory"}
    BY <1>3, <1>4 DEF FontInv, HeapInv
  <2> QED  BY <1>2, <2>1 DEF HeapInv
<1> QED  BY <1>5, <1>6, <1>7 DEF FontInv

LEMMA CheckMetricsStep ==
  ASSUME FontInv, CheckMetrics
  PROVE  FontInv'
<1>1. at = "glyph" /\ n > NGlyphs /\ UNCHANGED <<making, files>>
  BY DEF CheckMetrics
<1>2. CASE checkfontmetrics(f)
  <2>1. at' = "found" /\ UNCHANGED <<place, pos, n, f, heap, faults>>
    BY <1>2 DEF CheckMetrics, Goto
  <2>2. FilesInv' /\ MakingInv'
    BY <1>1, <2>1, FilesStay
  <2>3. LoadingInv'
    BY <2>1 DEF FontInv, LoadingInv, Labels
  <2>4. n - 1 = NGlyphs
    BY <1>1, FontAssumption DEF FontInv, LoadingInv
  <2>5. HeapInv'
    BY <1>1, <2>1, <2>4 DEF FontInv, HeapInv, Blocks, Loaded
  <2> QED  BY <2>2, <2>3, <2>5 DEF FontInv
<1>3. CASE ~checkfontmetrics(f)
  <2>1. GlyphFails
    BY <1>3 DEF CheckMetrics
  <2>2. at' = "locate"
    BY <2>1 DEF GlyphFails, NextPlace, Goto
  <2> QED  BY <1>1, <2>1, <2>2, GlyphFailsStep, FilesStay DEF FontInv
<1> QED  BY <1>2, <1>3

LEMMA DropFontStep ==
  ASSUME FontInv, DropFont
  PROVE  FontInv'
<1>1. at = "found" /\ at' = "done" /\ dropfont /\ UNCHANGED <<making, files, place, pos, n, f>>
  BY DEF DropFont, Goto
<1>2. FilesInv' /\ MakingInv'
  BY <1>1, FilesStay
<1>3. LoadingInv'
  BY <1>1 DEF FontInv, LoadingInv, Labels
<1>4. heap' = {} /\ faults' = faults
  <2>1. heap = {FontBlock} \cup UNION {GlyphBlocks(k) : k \in {j \in 1..NGlyphs : f.glyphs[j].bm # NULL}}
    BY <1>1, FreedBlocks
  <2> QED  BY <1>1, <2>1 DEF dropfont, Free
<1>5. HeapInv'
  BY <1>1, <1>4 DEF FontInv, HeapInv
<1> QED  BY <1>2, <1>3, <1>5 DEF FontInv

-----------------------------------------------------------------------------
(***************************************************************************)
(* What is read of a file, whole or not: the inductive invariants of       *)
(* LoadedIsSaved and WholeIsFound.                                         *)
(***************************************************************************)

\* The metrics that were read last; before the first bitmap, the font's are before those of
\* the first glyph.
MetricsRead ==
  /\ at = "glyph" /\ n = 1 => f.ascent = ShortAt(pos - 3) /\ f.descent = ShortAt(pos - 1)
  /\ at = "bitmap" /\ n = 1 => f.ascent = ShortAt(pos - 13) /\ f.descent = ShortAt(pos - 11)
  /\ at = "bitmap" =>
       /\ f.glyphs[n].ascent = ShortAt(pos - 9) /\ f.glyphs[n].descent = ShortAt(pos - 7)
       /\ f.glyphs[n].lbearing = ShortAt(pos - 5) /\ f.glyphs[n].rbearing = ShortAt(pos - 3)
       /\ f.glyphs[n].width = ShortAt(pos - 1)

\* How many bytes the bits of a glyph's bitmap are taken to need.
Need(k) == mbm_need(f.glyphs[k].bm.height, f.glyphs[k].bm.width)

SameMetrics(fn, k) == \A m \in Metrics : f.glyphs[k][m] = fn.glyphs[k][m]
ReadAt(k, fn, st) == SameMetrics(fn, k) /\ f.glyphs[k].bm.bits = BitsAt(Magic(st, k) + 7, Need(k))

\* Each glyph so far was read where it is in the file: the bits of each are taken to end where
\* the next one's metrics begin.
Exact(fn, st) ==
  /\ \A k \in 1..n - 1 : ReadAt(k, fn, st)
  /\ \A k \in 1..n - 2 : Magic(st, k + 1) = Magic(st, k) + 16 + Need(k)
  /\ n > 1 =>
       /\ f.ascent = fn.ascent /\ f.descent = fn.descent
       /\ at = "glyph" =>
            \/ pos = Magic(st, n - 1) + 6 + Need(n - 1)
            \/ Need(n - 1) = 0 /\ pos = Len(File) /\ pos >= Magic(st, n - 1)
       /\ at = "bitmap" => pos = Magic(st, n - 1) + 16 + Need(n - 1)

\* A magic number was taken for bits: there are too few left for the glyphs that are left.
Slipped(st) ==
  /\ n <= NGlyphs
  /\ at = "glyph" => Magic(st, n) <= pos
  /\ at = "bitmap" => Magic(st, n) < pos

Follows(fn, st) == Agrees(File, fn, st) /\ (Exact(fn, st) \/ Slipped(st))

\* What is read of a file is what was saved, or it will not be a font.
RestoredInv ==
  /\ MetricsRead
  /\ at \in {"glyph", "bitmap"} => \E st \in Layouts(origin[place]) : Follows(origin[place], st)
  /\ LoadedIsSaved

\* A whole file, whose name can be read.
Whole(i) == disk[i] # Absent /\ disk[i] = Image(origin[i]) /\ Len(origin[i].name) <= NameMax - 2
SameGlyph(fn, k) ==
  /\ SameMetrics(fn, k)
  /\ f.glyphs[k].bm.height = fn.glyphs[k].bm.height /\ f.glyphs[k].bm.width = fn.glyphs[k].bm.width

\* Of a whole file, each part is read where it is.
Complete(fn, st) == Full(fn, st) /\ Agrees(File, fn, st) /\ Len(File) = st[Count + 1]
Reaches(fn, st) ==
  /\ at = "metrics" => pos = st[4]
  /\ at = "glyph" => pos = st[9 * n - 3]
  /\ at = "bitmap" => pos = Magic(st, n) /\ SameMetrics(fn, n)
  /\ at \in {"glyph", "bitmap"} =>
       /\ f.ascent = fn.ascent /\ f.descent = fn.descent
       /\ \A k \in 1..n - 1 : SameGlyph(fn, k)

\* A whole file is given up only for want of memory.
Passed == \A i \in 1..place - 1 : Whole(i) => "memory" \in faults
Succeeds ==
  at \in {"header", "name", "metrics", "glyph", "bitmap"} /\ Whole(place) /\ "memory" \notin faults =>
    \E st \in Layouts(origin[place]) : Complete(origin[place], st) /\ Reaches(origin[place], st)
WholeInv == Passed /\ Succeeds /\ (at = "lost" => place > Places)

-----------------------------------------------------------------------------
(***************************************************************************)
(* What is read of a file.                                                 *)
(***************************************************************************)

\* A number is where its item is in the file.
LEMMA WordRead ==
  ASSUME NEW fn \in Given, NEW st \in Layouts(fn), File \in Seq(Chars), Agrees(File, fn, st),
         NEW i \in 1..Count, NEW v \in SHORTs \cup USHORTs, FontItems(fn)[i].bytes = Word(v),
         st[i + 1] = st[i] + 2, st[i] + 2 <= Len(File)
  PROVE  WordAt(st[i] + 1) = USHORT(v) /\ (v \in SHORTs => ShortAt(st[i] + 1) = v)
<1>1. st[i] \in Nat /\ Len(File) \in Nat
  <2>1. i \in 1..Count + 1
    BY GlyphIndex
  <2>2. \A j \in 1..Count + 1 : st[j] \in Nat
    BY LayoutOf
  <2> QED  BY <2>1, <2>2
<1>2. \A p \in 1..2 : File[st[i] + p] = Word(v)[p]
  <2>1. \A p \in 1..st[i + 1] - st[i] : st[i] + p <= Len(File) => File[st[i] + p] = FontItems(fn)[i].bytes[p]
    BY DEF Agrees
  <2>2. st[i + 1] - st[i] = 2
    BY <1>1
  <2>3. ASSUME NEW p \in 1..2 PROVE st[i] + p <= Len(File)
    BY <1>1
  <2> QED  BY <2>1, <2>2, <2>3
<1>3. File[st[i] + 1] = Word(v)[1] /\ File[(st[i] + 1) + 1] = Word(v)[2]
  <2>1. (st[i] + 1) + 1 = st[i] + 2
    BY <1>1
  <2> QED  BY <1>2, <2>1
<1>4. WordAt(st[i] + 1) = USHORT(v)
  BY <1>3, WordBack DEF WordAt
<1> QED  BY <1>4, WordBack DEF ShortAt

\* The metrics of a glyph are before its bitmap's magic number, those of the font after the name.
LEMMA MetricsOf ==
  ASSUME NEW fn \in Given, NEW st \in Layouts(fn), File \in Seq(Chars), Agrees(File, fn, st)
  PROVE  /\ st[6] <= Len(File) => ShortAt(st[4] + 1) = fn.ascent /\ ShortAt(st[4] + 3) = fn.descent
         /\ \A k \in 1..NGlyphs : LET m == Magic(st, k) IN
              m <= Len(File) =>
                /\ ShortAt(m - 9) = fn.glyphs[k].ascent /\ ShortAt(m - 7) = fn.glyphs[k].descent
                /\ ShortAt(m - 5) = fn.glyphs[k].lbearing /\ ShortAt(m - 3) = fn.glyphs[k].rbearing
                /\ ShortAt(m - 1) = fn.glyphs[k].width
<1>1. Len(File) \in Nat
  OBVIOUS
<1>2. ASSUME st[6] <= Len(File) PROVE ShortAt(st[4] + 1) = fn.ascent /\ ShortAt(st[4] + 3) = fn.descent
  <2>1. fn.ascent \in SHORTs /\ fn.descent \in SHORTs
    BY GivenFonts
  <2>2. FontItems(fn)[4].bytes = Word(fn.ascent) /\ FontItems(fn)[5].bytes = Word(fn.descent)
    <3>1. FontItems(fn)[4] = Strict(Word(fn.ascent)) /\ FontItems(fn)[5] = Strict(Word(fn.descent))
      BY FontItemsAre
    <3> QED  BY <3>1 DEF Strict
  <2>3. /\ 4 \in 1..Count /\ 5 \in 1..Count /\ st[4] \in Nat /\ st[5] = st[4] + 2 /\ st[6] = st[4] + 4
        /\ st[4 + 1] = st[4] + 2 /\ st[5 + 1] = st[5] + 2
    <3>1. 4 \in 1..Count /\ 5 \in 1..Count /\ 4 \in 1..Count + 1
      BY GlyphIndex
    <3>2. st[4] \in Nat /\ st[5] = st[4] + 2 /\ st[6] = st[4] + 4
      BY <3>1, LayoutOf
    <3> QED  BY <3>1, <3>2
  <2>4. st[4] + 2 <= Len(File) /\ st[5] + 2 <= Len(File) /\ st[5] + 1 = st[4] + 3
    BY <1>1, <1>2, <2>3
  <2>5. ShortAt(st[4] + 1) = fn.ascent
    BY <2>1, <2>2, <2>3, <2>4, WordRead
  <2>6. ShortAt(st[5] + 1) = fn.descent
    BY <2>1, <2>2, <2>3, <2>4, WordRead
  <2> QED  BY <2>4, <2>5, <2>6
<1>3. ASSUME NEW k \in 1..NGlyphs, Magic(st, k) <= Len(File)
      PROVE  LET m == Magic(st, k) IN
             /\ ShortAt(m - 9) = fn.glyphs[k].ascent /\ ShortAt(m - 7) = fn.glyphs[k].descent
             /\ ShortAt(m - 5) = fn.glyphs[k].lbearing /\ ShortAt(m - 3) = fn.glyphs[k].rbearing
             /\ ShortAt(m - 1) = fn.glyphs[k].width
  <2> DEFINE g == fn.glyphs[k]
             a == st[9 * k - 3]
             m == Magic(st, k)
  <2>1. /\ g.ascent \in SHORTs /\ g.descent \in SHORTs /\ g.lbearing \in SHORTs
        /\ g.rbearing \in SHORTs /\ g.width \in SHORTs
    BY GivenFonts
  <2>2. /\ FontItems(fn)[9 * k - 3].bytes = Word(g.ascent) /\ FontItems(fn)[9 * k - 2].bytes = Word(g.descent)
        /\ FontItems(fn)[9 * k - 1].bytes = Word(g.lbearing) /\ FontItems(fn)[9 * k].bytes = Word(g.rbearing)
        /\ FontItems(fn)[9 * k + 1].bytes = Word(g.width)
    <3>1. /\ FontItems(fn)[9 * k - 3] = Strict(Word(g.ascent)) /\ FontItems(fn)[9 * k - 2] = Strict(Word(g.descent))
          /\ FontItems(fn)[9 * k - 1] = Strict(Word(g.lbearing)) /\ FontItems(fn)[9 * k] = Strict(Word(g.rbearing))
          /\ FontItems(fn)[9 * k + 1] = Strict(Word(g.width))
      BY FontItemsAre
    <3> QED  BY <3>1 DEF Strict
  <2>3. /\ 9 * k - 3 \in 1..Count /\ 9 * k - 2 \in 1..Count /\ 9 * k - 1 \in 1..Count
        /\ 9 * k \in 1..Count /\ 9 * k + 1 \in 1..Count /\ 9 * k - 3 \in 1..Count + 1
    <3>1. k \in Nat /\ k >= 1 /\ 9 * k + 5 <= Count /\ Count \in Nat
      BY GlyphIndex DEF Count
    <3> QED  BY <3>1
  <2>4. /\ a \in Nat /\ st[9 * k - 3] = a /\ st[9 * k - 2] = a + 2 /\ st[9 * k - 1] = a + 4
        /\ st[9 * k] = a + 6 /\ st[9 * k + 1] = a + 8 /\ st[9 * k + 2] = a + 10
    BY <2>3, LayoutOf
  <2>5. m = a + 10
    BY <2>4 DEF Magic
  <2>6. /\ st[(9 * k - 3) + 1] = st[9 * k - 3] + 2 /\ st[(9 * k - 2) + 1] = st[9 * k - 2] + 2
        /\ st[(9 * k - 1) + 1] = st[9 * k - 1] + 2 /\ st[9 * k + 1] = st[9 * k] + 2
        /\ st[(9 * k + 1) + 1] = st[9 * k + 1] + 2
    <3>1. /\ (9 * k - 3) + 1 = 9 * k - 2 /\ (9 * k - 2) + 1 = 9 * k - 1 /\ (9 * k - 1) + 1 = 9 * k
          /\ (9 * k + 1) + 1 = 9 * k + 2
      OBVIOUS
    <3> HIDE DEF a
    <3>2. a + 4 = (a + 2) + 2 /\ a + 6 = (a + 4) + 2 /\ a + 8 = (a + 6) + 2 /\ a + 10 = (a + 8) + 2
      BY <2>4
    <3>3. st[(9 * k - 3) + 1] = st[9 * k - 3] + 2 /\ st[(9 * k - 2) + 1] = st[9 * k - 2] + 2
      BY <2>4, <3>1, <3>2, Zenon
    <3>4. st[(9 * k - 1) + 1] = st[9 * k - 1] + 2 /\ st[9 * k + 1] = st[9 * k] + 2
      BY <2>4, <3>1, <3>2, Zenon
    <3>5. st[(9 * k + 1) + 1] = st[9 * k + 1] + 2
      BY <2>4, <3>1, <3>2, Zenon
    <3> QED  BY <3>3, <3>4, <3>5
  <2>7. m <= Len(File) /\ m \in Nat
    <3>1. m <= Len(File)
      BY <1>3
    <3>2. a \in Nat
      BY <2>4
    <3> HIDE DEF m, a
    <3> QED  BY <2>5, <3>1, <3>2
  <2> HIDE DEF m, g, a
  <2>8. /\ st[9 * k - 3] + 2 <= Len(File) /\ st[9 * k - 2] + 2 <= Len(File) /\ st[9 * k - 1] + 2 <= Len(File)
        /\ st[9 * k] + 2 <= Len(File) /\ st[9 * k + 1] + 2 <= Len(File)
    BY <1>1, <2>4, <2>5, <2>7
  <2>9. /\ st[9 * k - 3] + 1 = m - 9 /\ st[9 * k - 2] + 1 = m - 7 /\ st[9 * k - 1] + 1 = m - 5
        /\ st[9 * k] + 1 = m - 3 /\ st[9 * k + 1] + 1 = m - 1
    BY <2>4, <2>5
  <2>10. ShortAt(st[9 * k - 3] + 1) = g.ascent
    BY <2>1, <2>2, <2>3, <2>6, <2>8, WordRead
  <2>11. ShortAt(st[9 * k - 2] + 1) = g.descent
    BY <2>1, <2>2, <2>3, <2>6, <2>8, WordRead
  <2>12. ShortAt(st[9 * k - 1] + 1) = g.lbearing
    BY <2>1, <2>2, <2>3, <2>6, <2>8, WordRead
  <2>13. ShortAt(st[9 * k] + 1) = g.rbearing
    BY <2>1, <2>2, <2>3, <2>6, <2>8, WordRead
  <2>14. ShortAt(st[9 * k + 1] + 1) = g.width
    BY <2>1, <2>2, <2>3, <2>6, <2>8, WordRead
  <2>15. /\ ShortAt(m - 9) = g.ascent /\ ShortAt(m - 7) = g.descent /\ ShortAt(m - 5) = g.lbearing
         /\ ShortAt(m - 3) = g.rbearing /\ ShortAt(m - 1) = g.width
    BY <2>9, <2>10, <2>11, <2>12, <2>13, <2>14
  <2> QED  BY <2>15 DEF m, g
<1> QED  BY <1>2, <1>3

\* The bits of a byte.
LEMMA ByteSplit ==
  ASSUME NEW b0 \in 0..1, NEW b1 \in 0..1, NEW b2 \in 0..1, NEW b3 \in 0..1,
         NEW b4 \in 0..1, NEW b5 \in 0..1, NEW b6 \in 0..1, NEW b7 \in 0..1
  PROVE  LET x == b0 + 2 * b1 + 4 * b2 + 8 * b3 + 16 * b4 + 32 * b5 + 64 * b6 + 128 * b7 IN
         /\ (x \div 1) % 2 = b0 /\ (x \div 2) % 2 = b1 /\ (x \div 4) % 2 = b2 /\ (x \div 8) % 2 = b3
         /\ (x \div 16) % 2 = b4 /\ (x \div 32) % 2 = b5 /\ (x \div 64) % 2 = b6 /\ (x \div 128) % 2 = b7
<1> DEFINE x == b0 + 2 * b1 + 4 * b2 + 8 * b3 + 16 * b4 + 32 * b5 + 64 * b6 + 128 * b7
<1>1. (x \div 1) % 2 = b0
  OBVIOUS
<1>2. (x \div 2) % 2 = b1
  OBVIOUS
<1>3. (x \div 4) % 2 = b2
  OBVIOUS
<1>4. (x \div 8) % 2 = b3
  OBVIOUS
<1>5. (x \div 16) % 2 = b4
  OBVIOUS
<1>6. (x \div 32) % 2 = b5
  OBVIOUS
<1>7. (x \div 64) % 2 = b6
  OBVIOUS
<1>8. (x \div 128) % 2 = b7
  OBVIOUS
<1> QED  BY <1>1, <1>2, <1>3, <1>4, <1>5, <1>6, <1>7, <1>8

LEMMA BitBack ==
  ASSUME NEW b, NEW k \in Nat, NEW r \in 0..7
  PROVE  (Byte(b, k) \div Power[r + 1]) % 2 = Bit(b, 8 * k + r)
<1> DEFINE b0 == Bit(b, 8 * k)
           b1 == Bit(b, 8 * k + 1)
           b2 == Bit(b, 8 * k + 2)
           b3 == Bit(b, 8 * k + 3)
           b4 == Bit(b, 8 * k + 4)
           b5 == Bit(b, 8 * k + 5)
           b6 == Bit(b, 8 * k + 6)
           b7 == Bit(b, 8 * k + 7)
           x == b0 + 2 * b1 + 4 * b2 + 8 * b3 + 16 * b4 + 32 * b5 + 64 * b6 + 128 * b7
<1>1. /\ b0 \in 0..1 /\ b1 \in 0..1 /\ b2 \in 0..1 /\ b3 \in 0..1
      /\ b4 \in 0..1 /\ b5 \in 0..1 /\ b6 \in 0..1 /\ b7 \in 0..1
  BY ByteIs
<1>2. Byte(b, k) = x
  BY DEF Byte
<1> HIDE DEF b0, b1, b2, b3, b4, b5, b6, b7
<1>3. /\ (x \div 1) % 2 = b0 /\ (x \div 2) % 2 = b1 /\ (x \div 4) % 2 = b2 /\ (x \div 8) % 2 = b3
      /\ (x \div 16) % 2 = b4 /\ (x \div 32) % 2 = b5 /\ (x \div 64) % 2 = b6 /\ (x \div 128) % 2 = b7
  BY <1>1, ByteSplit
<1> HIDE DEF x
<1>4. /\ Power[1] = 1 /\ Power[2] = 2 /\ Power[3] = 4 /\ Power[4] = 8
      /\ Power[5] = 16 /\ Power[6] = 32 /\ Power[7] = 64 /\ Power[8] = 128
  BY DEF Power
<1>5. CASE r = 0
  <2>1. r + 1 = 1 /\ 8 * k + r = 8 * k
    BY <1>5
  <2> QED  BY <1>2, <1>3, <1>4, <2>1, Zenon DEF b0
<1>6. CASE r = 1
  <2>1. r + 1 = 2
    BY <1>6
  <2> QED  BY <1>2, <1>3, <1>4, <1>6, <2>1, Zenon DEF b1
<1>7. CASE r = 2
  <2>1. r + 1 = 3
    BY <1>7
  <2> QED  BY <1>2, <1>3, <1>4, <1>7, <2>1, Zenon DEF b2
<1>8. CASE r = 3
  <2>1. r + 1 = 4
    BY <1>8
  <2> QED  BY <1>2, <1>3, <1>4, <1>8, <2>1, Zenon DEF b3
<1>9. CASE r = 4
  <2>1. r + 1 = 5
    BY <1>9
  <2> QED  BY <1>2, <1>3, <1>4, <1>9, <2>1, Zenon DEF b4
<1>10. CASE r = 5
  <2>1. r + 1 = 6
    BY <1>10
  <2> QED  BY <1>2, <1>3, <1>4, <1>10, <2>1, Zenon DEF b5
<1>11. CASE r = 6
  <2>1. r + 1 = 7
    BY <1>11
  <2> QED  BY <1>2, <1>3, <1>4, <1>11, <2>1, Zenon DEF b6
<1>12. CASE r = 7
  <2>1. r + 1 = 8
    BY <1>12
  <2> QED  BY <1>2, <1>3, <1>4, <1>12, <2>1, Zenon DEF b7
<1> QED  BY <1>5, <1>6, <1>7, <1>8, <1>9, <1>10, <1>11, <1>12

\* Bits that are read where they were written are those that were written.
LEMMA BitsBack ==
  ASSUME NEW fn \in Given, NEW st \in Layouts(fn), File \in Seq(Chars), Agrees(File, fn, st),
         NEW k \in 1..NGlyphs, st[9 * k + 5] = Magic(st, k) + 6, st[9 * k + 6] <= Len(File)
  PROVE  LET b == fn.glyphs[k].bm IN BitsAt(Magic(st, k) + 7, mbm_need(b.height, b.width)) = b.bits
<1> DEFINE b == fn.glyphs[k].bm
           need == mbm_need(b.height, b.width)
           m == Magic(st, k)
           i == 9 * k + 5
<1>1. IsBitmap(b)
  BY GivenFonts
<1>2. b.bits \subseteq 0..8 * need - 1
  BY <1>1 DEF IsBitmap, AllBits
<1>3. i \in 1..Count /\ i + 1 = 9 * k + 6
  <2>1. k \in Nat /\ k >= 1 /\ 9 * k + 5 <= Count /\ Count \in Nat
    BY GlyphIndex DEF Count
  <2> QED  BY <2>1
<1>4. need \in Nat /\ FontItems(fn)[i].bytes = Bytes(b)
  <2>1. FontItems(fn)[i] = Strict(Bytes(b))
    BY FontItemsAre
  <2> HIDE DEF b
  <2>2. FontItems(fn)[i].bytes = Bytes(b)
    BY <2>1 DEF Strict
  <2>3. need \in Nat
    BY ItemBytes DEF b
  <2> QED  BY <2>2, <2>3
<1>5. m \in Nat /\ st[i] = m + 6 /\ st[i + 1] = m + 6 + need /\ Len(File) \in Nat
  <2>1. st[9 * k + 6] = st[9 * k + 5] + need
    BY LayoutOf
  <2>2. m \in Nat
    BY MagicUp
  <2> QED  BY <1>3, <2>1, <2>2
<1>6. \A p \in 1..need : File[(m + 6) + p] = Byte(b, p - 1)
  <2>1. \A p \in 1..st[i + 1] - st[i] : st[i] + p <= Len(File) => File[st[i] + p] = FontItems(fn)[i].bytes[p]
    BY <1>3 DEF Agrees
  <2>2. m + 6 + need <= Len(File)
    BY <1>3, <1>5
  <2> HIDE DEF need, m, i, b
  <2>3. ASSUME NEW p \in 1..need PROVE File[(m + 6) + p] = Byte(b, p - 1)
    <3>1. p \in 1..st[i + 1] - st[i] /\ st[i] + p <= Len(File) /\ st[i] + p = (m + 6) + p
      BY <1>4, <1>5, <2>2
    <3>2. File[(m + 6) + p] = Bytes(b)[p]
      BY <1>4, <2>1, <3>1
    <3>3. Bytes(b)[p] = Byte(b, p - 1)
      BY DEF Bytes, need
    <3> QED  BY <3>2, <3>3
  <2> QED  BY <2>3
<1> HIDE DEF need, m, i, b
<1>7. ASSUME NEW c \in 0..8 * need - 1
      PROVE  (File[(m + 7) + c \div 8] \div Power[(c % 8) + 1]) % 2 = 1 <=> c \in b.bits
  <2> DEFINE q == c \div 8
             r == c % 8
  <2>1. c \in Nat /\ c < 8 * need /\ q \in Nat /\ q + 1 \in 1..need /\ r \in 0..7 /\ 8 * q + r = c
    BY <1>4
  <2> HIDE DEF q, r
  <2>2. (m + 6) + (q + 1) = (m + 7) + q /\ (q + 1) - 1 = q
    BY <1>5, <2>1
  <2>3. File[(m + 7) + q] = Byte(b, q)
    BY <1>6, <2>1, <2>2
  <2>4. (Byte(b, q) \div Power[r + 1]) % 2 = Bit(b, 8 * q + r)
    BY <2>1, BitBack
  <2>5. (File[(m + 7) + q] \div Power[r + 1]) % 2 = Bit(b, c)
    BY <2>1, <2>3, <2>4
  <2>6. Bit(b, c) = 1 <=> c \in b.bits
    BY DEF Bit
  <2> QED  BY <2>5, <2>6 DEF q, r
<1>8. BitsAt(m + 7, need) = {c \in 0..8 * need - 1 : (File[(m + 7) + c \div 8] \div Power[(c % 8) + 1]) % 2 = 1}
  BY DEF BitsAt
<1>9. BitsAt(m + 7, need) = b.bits
  BY <1>2, <1>7, <1>8
<1> QED  BY <1>9 DEF m, need, b

\* Bitmaps that are where the metrics before them say, in a file of that length, lost nothing
\* of their headers: of each the bits are where the next one's metrics say.
LEMMA NothingLost ==
  ASSUME NEW fn \in Given, NEW st \in Layouts(fn), NEW k \in 1..NGlyphs,
         Magic(st, k) + 6 + mbm_need(fn.glyphs[k].bm.height, fn.glyphs[k].bm.width) <= st[9 * k + 6]
  PROVE  /\ st[9 * k + 5] = Magic(st, k) + 6
         /\ st[9 * k + 6] = Magic(st, k) + 6 + mbm_need(fn.glyphs[k].bm.height, fn.glyphs[k].bm.width)
<1> DEFINE need == mbm_need(fn.glyphs[k].bm.height, fn.glyphs[k].bm.width)
           m == Magic(st, k)
<1>1. /\ st[9 * k + 3] - m \in 1..2 /\ st[9 * k + 4] - st[9 * k + 3] \in 1..2
      /\ st[9 * k + 5] - st[9 * k + 4] \in 1..2 /\ st[9 * k + 6] = st[9 * k + 5] + need
  BY LayoutOf DEF Magic
<1>2. m \in Nat /\ need \in Nat
  BY MagicUp, ItemBytes
<1>3. /\ st[9 * k + 3] \in Nat /\ st[9 * k + 4] \in Nat /\ st[9 * k + 5] \in Nat
  <2>1. 9 * k + 3 \in 1..Count + 1 /\ 9 * k + 4 \in 1..Count + 1 /\ 9 * k + 5 \in 1..Count + 1
    <3>1. k \in Nat /\ k >= 1 /\ 9 * k + 5 <= Count /\ Count \in Nat
      BY GlyphIndex DEF Count
    <3> QED  BY <3>1
  <2> QED  BY <2>1, LayoutOf
<1> DEFINE c == st[9 * k + 3]
           d == st[9 * k + 4]
           e == st[9 * k + 5]
<1>4. /\ c - m \in 1..2 /\ d - c \in 1..2 /\ e - d \in 1..2 /\ st[9 * k + 6] = e + need
      /\ c \in Nat /\ d \in Nat /\ e \in Nat /\ m + 6 + need <= e + need
  BY <1>1, <1>3
<1> HIDE DEF c, d, e, m, need
<1>5. e = m + 6
  BY <1>2, <1>4
<1>6. e = st[9 * k + 5]
  BY DEF e
<1> QED  BY <1>4, <1>5, <1>6 DEF m, need

\* A file that is being read: which font it was written from, and how it is laid out.
LEMMA FileWritten ==
  ASSUME FontInv, at \in {"metrics", "glyph", "bitmap"}, Left >= 1
  PROVE  /\ origin[place] \in Given /\ checkfontmetrics(origin[place])
         /\ \E st \in Layouts(origin[place]) : Agrees(File, origin[place], st)
<1>1. place \in 1..Places /\ File # Absent /\ Len(File) \in Nat /\ pos \in Nat /\ Left = Len(File) - pos
  BY Reading
<1>2. File # <<>>
  BY <1>1
<1> QED  BY <1>1, <1>2 DEF FontInv, FilesInv, File, Saved

\* The metrics of a glyph that stays as it is, and its bits.
LEMMA ReadStays ==
  ASSUME NEW fn, NEW st, NEW k, f'.glyphs[k] = f.glyphs[k], File' = File
  PROVE  Need(k)' = Need(k) /\ SameMetrics(fn, k)' = SameMetrics(fn, k) /\ ReadAt(k, fn, st)' = ReadAt(k, fn, st)
<1>1. Need(k)' = Need(k) /\ SameMetrics(fn, k)' = SameMetrics(fn, k)
  BY DEF Need, SameMetrics
<1>2. BitsAt(Magic(st, k) + 7, Need(k))' = BitsAt(Magic(st, k) + 7, Need(k))
  BY <1>1 DEF BitsAt
<1>3. f'.glyphs[k].bm.bits = f.glyphs[k].bm.bits
  OBVIOUS
<1> QED  BY <1>1, <1>2, <1>3, Zenon DEF ReadAt

\* How much the bits of the bitmap before are taken to need is a number.
LEMMA NeedBefore ==
  ASSUME FontInv, at \in {"glyph", "bitmap"}, NEW k \in 1..n - 1
  PROVE  /\ k \in 1..NGlyphs /\ f.glyphs[k].bm # NULL /\ IsBitmap(f.glyphs[k].bm)
         /\ Need(k) \in Nat
<1>1. k \in 1..NGlyphs /\ k <= n - 1
  BY FontAssumption DEF FontInv, LoadingInv
<1>2. f.glyphs[k].bm # NULL
  BY <1>1 DEF FontInv, HeapInv, Loaded
<1>3. IsBitmap(f.glyphs[k].bm)
  BY <1>1, <1>2 DEF FontInv, LoadingInv, IsFont
<1>4. f.glyphs[k].bm.height \in Nat /\ f.glyphs[k].bm.width \in Nat
  BY <1>3 DEF IsBitmap, USHORTs
<1>5. Need(k) \in Nat
  BY <1>4, NeedIsEnough DEF Need
<1> QED  BY <1>1, <1>2, <1>3, <1>5

LEMMA RestoredMetrics ==
  ASSUME FontInv, RestoredInv, ReadMetrics
  PROVE  RestoredInv'
<1>1. at = "metrics" /\ UNCHANGED <<disk, origin>>
  BY DEF ReadMetrics, files
<1>2. CASE Left >= 4
  <2>1. /\ f' = [f EXCEPT !.ascent = ShortAt(pos + 1), !.descent = ShortAt(pos + 3)]
        /\ pos' = pos + 4 /\ n' = 1 /\ at' = "glyph" /\ place' = place
    BY <1>2 DEF ReadMetrics, Goto
  <2>2. pos \in Nat /\ Left \in Nat
    BY <1>1, Reading
  <2>3. f \in Fonts
    BY DEF FontInv, LoadingInv, IsFont
  <2>4. f'.ascent = ShortAt(pos + 1) /\ f'.descent = ShortAt(pos + 3)
    BY <2>1, <2>3 DEF Fonts
  <2>5. File' = File
    BY <1>1, <2>1 DEF File
  <2>6. pos' - 3 = pos + 1 /\ pos' - 1 = pos + 3
    BY <2>1, <2>2
  <2>7. MetricsRead'
    BY <2>1, <2>4, <2>5, <2>6 DEF MetricsRead, ShortAt, WordAt
  <2>8. PICK st \in Layouts(origin[place]) : Agrees(File, origin[place], st)
    BY <1>1, <1>2, <2>2, FileWritten
  <2>9. Exact(origin[place], st)'
    <3>1. 1..n' - 1 = {} /\ 1..n' - 2 = {} /\ ~(n' > 1)
      BY <2>1
    <3> QED  BY <3>1 DEF Exact
  <2>10. Follows(origin[place], st)'
    BY <1>1, <2>1, <2>5, <2>8, <2>9 DEF Follows, Exact, Slipped
  <2>11. LoadedIsSaved'
    BY <2>1 DEF LoadedIsSaved
  <2> QED  BY <1>1, <2>1, <2>7, <2>8, <2>10, <2>11 DEF RestoredInv, Follows, Exact, Slipped, Agrees
<1>3. CASE ~(Left >= 4)
  <2>1. at' = "locate"
    BY <1>3 DEF ReadMetrics, NameFails, NextPlace, Goto
  <2> QED  BY <2>1 DEF RestoredInv, MetricsRead, LoadedIsSaved
<1> QED  BY <1>2, <1>3

LEMMA RestoredGlyph ==
  ASSUME FontInv, RestoredInv, ReadGlyph
  PROVE  RestoredInv'
<1>1. at = "glyph" /\ n <= NGlyphs /\ UNCHANGED <<disk, origin>>
  BY DEF ReadGlyph, files
<1>2. CASE Left >= 10
  <2> DEFINE g == [ascent |-> ShortAt(pos + 1), descent |-> ShortAt(pos + 3), lbearing |-> ShortAt(pos + 5),
                   rbearing |-> ShortAt(pos + 7), width |-> ShortAt(pos + 9), bm |-> NULL]
  <2>1. f' = [f EXCEPT !.glyphs[n] = g]
    BY <1>2 DEF ReadGlyph
  <2>2. pos' = pos + 10 /\ at' = "bitmap" /\ place' = place /\ n' = n
    BY <1>2 DEF ReadGlyph, Goto
  <2>3. pos \in Nat /\ Len(File) \in Nat /\ Left = Len(File) - pos
    BY <1>1, Reading
  <2>4. f \in Fonts /\ n \in 1..NGlyphs /\ n \in Nat /\ n >= 1
    BY <1>1, FontAssumption DEF FontInv, LoadingInv, IsFont
  <2>5. /\ f'.glyphs[n] = g /\ f'.ascent = f.ascent /\ f'.descent = f.descent
        /\ \A k \in 1..NGlyphs : k # n => f'.glyphs[k] = f.glyphs[k]
    <3> HIDE DEF g
    <3> QED  BY <2>1, <2>4 DEF Fonts
  <2>6. File' = File
    BY <1>1, <2>2 DEF File
  <2>7. MetricsRead'
    <3>1. /\ pos' - 13 = pos - 3 /\ pos' - 11 = pos - 1 /\ pos' - 9 = pos + 1 /\ pos' - 7 = pos + 3
          /\ pos' - 5 = pos + 5 /\ pos' - 3 = pos + 7 /\ pos' - 1 = pos + 9
      BY <2>2, <2>3
    <3>2. n = 1 => f.ascent = ShortAt(pos - 3) /\ f.descent = ShortAt(pos - 1)
      BY <1>1 DEF RestoredInv, MetricsRead
    <3>3. /\ f'.glyphs[n].ascent = ShortAt(pos + 1) /\ f'.glyphs[n].descent = ShortAt(pos + 3)
          /\ f'.glyphs[n].lbearing = ShortAt(pos + 5) /\ f'.glyphs[n].rbearing = ShortAt(pos + 7)
          /\ f'.glyphs[n].width = ShortAt(pos + 9)
      BY <2>5
    <3> HIDE DEF g
    <3> QED  BY <2>2, <2>5, <2>6, <3>1, <3>2, <3>3 DEF MetricsRead, ShortAt, WordAt
  <2> HIDE DEF g
  <2>8. PICK fn \in Given : fn = origin[place] /\ fn = origin'[place']
    <3>1. origin[place] \in Given
      BY <1>1, <1>2, <2>3, FileWritten
    <3> QED  BY <1>1, <2>2, <3>1
  <2>9. PICK st \in Layouts(fn) : Follows(fn, st)
    BY <1>1, <2>8 DEF RestoredInv
  <2>10. \A k \in 1..n - 1 : f'.glyphs[k] = f.glyphs[k]
    BY <2>4, <2>5, FontAssumption
  <2>11. \A k \in 1..NGlyphs : Magic(st, k) \in Nat
    BY MagicUp
  <2>12. ASSUME Exact(fn, st) PROVE Exact(fn, st)'
    <3>1. \A k \in 1..n - 1 : Need(k)' = Need(k) /\ ReadAt(k, fn, st)' = ReadAt(k, fn, st)
      BY <2>6, <2>10, ReadStays
    <3>2. (\A k \in 1..n - 2 : k \in 1..n - 1) /\ (n > 1 => n - 1 \in 1..n - 1 /\ n - 1 \in 1..NGlyphs)
      BY <2>4, GlyphIndex
    <3>3. /\ \A k \in 1..n - 1 : ReadAt(k, fn, st)
          /\ \A k \in 1..n - 2 : Magic(st, k + 1) = Magic(st, k) + 16 + Need(k)
      BY <2>12 DEF Exact
    <3>4. ASSUME n > 1
          PROVE  /\ f'.ascent = fn.ascent /\ f'.descent = fn.descent
                 /\ pos' = Magic(st, n - 1) + 16 + Need(n - 1)
      <4>1. /\ f.ascent = fn.ascent /\ f.descent = fn.descent
            /\ \/ pos = Magic(st, n - 1) + 6 + Need(n - 1)
               \/ Need(n - 1) = 0 /\ pos = Len(File) /\ pos >= Magic(st, n - 1)
        BY <1>1, <2>12, <3>4 DEF Exact
      <4>2. pos # Len(File)
        BY <1>2, <2>3
      <4>3. Need(n - 1) \in Nat /\ Magic(st, n - 1) \in Nat
        BY <1>1, <2>11, <3>2, <3>4, NeedBefore
      <4>4. pos = Magic(st, n - 1) + 6 + Need(n - 1)
        BY <4>1, <4>2
      <4> QED  BY <2>2, <2>5, <4>1, <4>3, <4>4
    <3>5. \A k \in 1..n - 1 : ReadAt(k, fn, st)'
      BY <3>1, <3>3
    <3>6. \A k \in 1..n - 2 : Magic(st, k + 1) = Magic(st, k) + 16 + Need(k)'
      BY <3>1, <3>2, <3>3
    <3>7. n > 1 => Need(n - 1)' = Need(n - 1)
      BY <2>2, <2>10, <3>2 DEF Need
    <3> QED  BY <2>2, <3>4, <3>5, <3>6, <3>7 DEF Exact
  <2>13. ASSUME Slipped(st) PROVE Slipped(st)'
    <3>1. n <= NGlyphs /\ Magic(st, n) <= pos /\ Magic(st, n) \in Nat
      BY <1>1, <2>4, <2>11, <2>13 DEF Slipped
    <3>2. Magic(st, n) < pos'
      BY <2>2, <2>3, <3>1
    <3> QED  BY <2>2, <3>1, <3>2 DEF Slipped
  <2>14. Follows(fn, st)'
    BY <2>6, <2>9, <2>12, <2>13 DEF Follows
  <2>15. LoadedIsSaved'
    BY <2>2 DEF LoadedIsSaved
  <2> QED  BY <2>7, <2>8, <2>9, <2>14, <2>15 DEF RestoredInv
<1>3. CASE ~(Left >= 10)
  <2>1. at' = "locate"
    BY <1>3 DEF ReadGlyph, GlyphFails, NextPlace, Goto
  <2> QED  BY <2>1 DEF RestoredInv, MetricsRead, LoadedIsSaved
<1> QED  BY <1>2, <1>3

\* A glyph's bitmap is read: at the magic number of this glyph, or at one of a later glyph.
LEMMA RestoredBitmap ==
  ASSUME FontInv, RestoredInv, LoadBitmap
  PROVE  RestoredInv'
<1>1. at = "bitmap" /\ UNCHANGED <<disk, origin>>
  BY DEF LoadBitmap, files
<1>2. CASE GlyphFails
  <2>1. at' = "locate"
    BY <1>2 DEF GlyphFails, NextPlace, Goto
  <2> QED  BY <2>1 DEF RestoredInv, MetricsRead, LoadedIsSaved
<1>3. CASE ~GlyphFails
  <2>1. HeaderRead /\ \E w \in WidthsRead :
          LET need == mbm_need(HeightRead, w) IN
          /\ need <= BitsLeft
          /\ f' = [f EXCEPT !.glyphs[n].bm = [mbm_buy(HeightRead, w) EXCEPT !.bits = BitsAt(pos + 7, need)]]
          /\ pos' = IF Left = 5 THEN Len(File) ELSE pos + 6 + need
          /\ n' = n + 1 /\ Goto("glyph") /\ UNCHANGED place
    BY <1>3 DEF LoadBitmap
  <2>2. PICK w \in WidthsRead :
          LET need == mbm_need(HeightRead, w) IN
          /\ need <= BitsLeft
          /\ f' = [f EXCEPT !.glyphs[n].bm = [mbm_buy(HeightRead, w) EXCEPT !.bits = BitsAt(pos + 7, need)]]
          /\ pos' = IF Left = 5 THEN Len(File) ELSE pos + 6 + need
          /\ n' = n + 1 /\ Goto("glyph") /\ UNCHANGED place
    BY <2>1
  <2> DEFINE bm == [mbm_buy(HeightRead, w) EXCEPT !.bits = BitsAt(pos + 7, mbm_need(HeightRead, w))]
             need == mbm_need(HeightRead, w)
  <2>3. f' = [f EXCEPT !.glyphs[n].bm = bm]
    BY <2>2
  <2>4. n' = n + 1 /\ at' = "glyph" /\ place' = place
    BY <2>2 DEF Goto
  <2>5. need <= BitsLeft /\ pos' = IF Left = 5 THEN Len(File) ELSE pos + 6 + need
    BY <2>2
  <2>6. bm.height = HeightRead /\ bm.width = w /\ bm.bits = BitsAt(pos + 7, need)
    BY DEF mbm_buy
  <2>7. /\ pos \in Nat /\ Len(File) \in Nat /\ Left = Len(File) - pos /\ Left >= 5
        /\ File[pos + 1] = BitmapMagic /\ File \in Seq(Chars)
    BY <1>1, <2>1, Reading DEF HeaderRead
  <2>8. f \in Fonts /\ n \in 1..NGlyphs /\ n \in Nat /\ n >= 1 /\ NGlyphs \in Nat
    BY <1>1, FontAssumption DEF FontInv, LoadingInv, IsFont
  <2>9. PICK c \in 1..NGlyphs : c = n
    BY <2>8
  <2> HIDE DEF bm
  <2>10. /\ f'.glyphs[n] = [f.glyphs[n] EXCEPT !.bm = bm] /\ f'.ascent = f.ascent /\ f'.descent = f.descent
        /\ \A k \in 1..NGlyphs : k # n => f'.glyphs[k] = f.glyphs[k]
    BY <2>3, <2>8 DEF Fonts
  <2>11. f'.glyphs[n].bm = bm /\ \A m \in Metrics : f'.glyphs[n][m] = f.glyphs[n][m]
    <3>1. f.glyphs[n] \in Glyphs
      BY <2>8 DEF Fonts
    <3> QED  BY <2>10, <3>1 DEF Glyphs, Metrics
  <2>12. File' = File
    BY <1>1, <2>4 DEF File
  <2>13. need \in Nat /\ Need(c)' = need
    <3>1. HeightRead \in Nat /\ w \in Nat
      BY <1>1, <2>2, <2>7, WidthsAre
    <3>2. need \in Nat
      BY <3>1, NeedIsEnough
    <3>3. f'.glyphs[c].bm = bm
      BY <2>11, <2>9
    <3> QED  BY <2>6, <3>2, <3>3 DEF Need, need
  <2> HIDE DEF need
  <2>14. pos' \in Nat /\ pos <= pos'
    BY <2>5, <2>7, <2>13
  <2>15. MetricsRead'
    <3>1. n' # 1
      BY <2>4, <2>8
    <3> QED  BY <2>4, <3>1 DEF MetricsRead
  <2>16. PICK fn \in Given : fn = origin[place] /\ fn = origin'[place']
    <3>1. origin[place] \in Given
      <4>1. Left >= 1
        BY <2>7
      <4> QED  BY <1>1, <4>1, FileWritten
    <3> QED  BY <1>1, <2>4, <3>1
  <2>17. PICK st \in Layouts(fn) : Follows(fn, st)
    BY <1>1, <2>16 DEF RestoredInv
  <2>18. \A k \in 1..NGlyphs : Magic(st, k) \in Nat
    BY MagicUp
  <2>19. PICK j \in 1..NGlyphs : pos = Magic(st, j)
    <3>1. pos + 1 \in 1..Len(File)
      BY <2>7
    <3>2. PICK j \in 1..NGlyphs : pos + 1 = Magic(st, j) + 1
      BY <2>7, <2>17, <3>1, Marker DEF Follows
    <3>3. pos = Magic(st, j)
      BY <2>7, <2>18, <3>2
    <3> QED  BY <3>3
  <2>20. ASSUME NEW i \in 1..NGlyphs, Magic(st, i) < pos PROVE i < j
    <3>1. ASSUME j <= i PROVE FALSE
      <4>1. CASE j = i
        BY <2>7, <2>19, <2>20, <4>1
      <4>2. CASE j # i
        <5>1. j \in 1..i - 1
          BY <3>1, <4>2
        <5>2. Magic(st, j) + 13 <= Magic(st, i)
          BY <5>1, MagicUp
        <5> QED  BY <2>7, <2>18, <2>19, <2>20, <5>2
      <4> QED  BY <4>1, <4>2
    <3> QED  BY <3>1
  <2>21. ASSUME n < j PROVE Slipped(st)'
    <3>1. n + 1 <= NGlyphs /\ n + 1 \in 1..NGlyphs /\ (n + 1 = j \/ n + 1 \in 1..j - 1)
      BY <2>8, <2>21
    <3>2. Magic(st, n + 1) <= pos
      <4>1. CASE n + 1 = j
        BY <2>7, <2>19, <4>1
      <4>2. CASE n + 1 \in 1..j - 1
        <5>1. Magic(st, n + 1) + 13 <= Magic(st, j)
          BY <4>2, MagicUp
        <5> QED  BY <2>18, <2>19, <3>1, <5>1
      <4> QED  BY <3>1, <4>1, <4>2
    <3>3. Magic(st, n + 1) <= pos'
      BY <2>7, <2>14, <2>18, <3>1, <3>2
    <3> QED  BY <2>4, <3>1, <3>3 DEF Slipped
  <2>22. ASSUME Slipped(st) PROVE n < j
    <3>1. Magic(st, n) < pos
      BY <1>1, <2>22 DEF Slipped
    <3> QED  BY <2>8, <2>20, <3>1
  <2>23. ASSUME Exact(fn, st) PROVE n <= j
    <3>1. CASE n = 1
      BY <3>1
    <3>2. CASE n # 1
      <4>1. n > 1 /\ n - 1 \in 1..n - 1
        BY <2>8, <3>2
      <4>2. pos = Magic(st, n - 1) + 16 + Need(n - 1)
        BY <1>1, <2>23, <4>1 DEF Exact
      <4>3. n - 1 \in 1..NGlyphs /\ Need(n - 1) \in Nat
        BY <1>1, <4>1, NeedBefore
      <4>4. Magic(st, n - 1) < pos
        BY <2>18, <4>2, <4>3
      <4>5. n - 1 < j
        BY <2>20, <4>3, <4>4
      <4> QED  BY <2>8, <4>5
    <3> QED  BY <3>1, <3>2
  <2>24. ASSUME Exact(fn, st), j = n PROVE Exact(fn, st)'
    <3>1. pos = Magic(st, n)
      BY <2>19, <2>24
    <3>2. Magic(st, n) <= Len(File)
      BY <2>7, <3>1
    <3>3. SameMetrics(fn, c)'
      <4>1. /\ f.glyphs[n].ascent = ShortAt(pos - 9) /\ f.glyphs[n].descent = ShortAt(pos - 7)
            /\ f.glyphs[n].lbearing = ShortAt(pos - 5) /\ f.glyphs[n].rbearing = ShortAt(pos - 3)
            /\ f.glyphs[n].width = ShortAt(pos - 1)
        BY <1>1 DEF RestoredInv, MetricsRead
      <4>2. /\ ShortAt(pos - 9) = fn.glyphs[n].ascent /\ ShortAt(pos - 7) = fn.glyphs[n].descent
            /\ ShortAt(pos - 5) = fn.glyphs[n].lbearing /\ ShortAt(pos - 3) = fn.glyphs[n].rbearing
            /\ ShortAt(pos - 1) = fn.glyphs[n].width
        BY <2>7, <2>8, <2>17, <3>1, <3>2, MetricsOf DEF Follows
      <4>3. \A m \in Metrics : f.glyphs[n][m] = fn.glyphs[n][m]
        BY <4>1, <4>2 DEF Metrics
      <4> QED  BY <2>11, <2>9, <4>3 DEF SameMetrics
    <3>4. ReadAt(c, fn, st)'
      <4>1. bm.bits = BitsAt(Magic(st, c) + 7, need)
        BY <2>6, <2>9, <3>1
      <4>2. f'.glyphs[c].bm.bits = BitsAt(Magic(st, c) + 7, need)
        BY <2>11, <2>9, <4>1
      <4>3. BitsAt(Magic(st, c) + 7, Need(c))' = BitsAt(Magic(st, c) + 7, need)
        BY <2>12, <2>13 DEF BitsAt
      <4> QED  BY <3>3, <4>2, <4>3 DEF ReadAt
    <3>5. ASSUME NEW k \in 1..n - 1 PROVE Need(k)' = Need(k) /\ ReadAt(k, fn, st)'
      <4>1. ReadAt(k, fn, st)
        BY <2>24 DEF Exact
      <4>2. f'.glyphs[k] = f.glyphs[k]
        BY <2>8, <2>10
      <4> QED  BY <2>12, <4>1, <4>2, ReadStays
    <3>6. ASSUME NEW k \in 1..n - 1 PROVE Magic(st, k + 1) = Magic(st, k) + 16 + Need(k)
      <4>1. CASE k \in 1..n - 2
        BY <2>24, <4>1 DEF Exact
      <4>2. CASE k = n - 1
        <5>1. n > 1 /\ k + 1 = n
          BY <2>8, <4>2
        <5>2. pos = Magic(st, n - 1) + 16 + Need(n - 1)
          BY <1>1, <2>24, <5>1 DEF Exact
        <5> QED  BY <3>1, <4>2, <5>1, <5>2
      <4>3. k \in 1..n - 2 \/ k = n - 1
        BY <2>8
      <4> QED  BY <4>1, <4>2, <4>3
    <3>7. f'.ascent = fn.ascent /\ f'.descent = fn.descent
      <4>1. CASE n = 1
        <5>1. f.ascent = ShortAt(pos - 13) /\ f.descent = ShortAt(pos - 11)
          BY <1>1, <4>1 DEF RestoredInv, MetricsRead
        <5>2. pos = st[4] + 14 /\ st[4] \in Nat /\ st[6] = st[4] + 4
          <6>1. 1 \in 1..NGlyphs /\ 4 \in 1..Count + 1
            BY <2>8, GlyphIndex
          <6>2. st[9 * 1 + 2] = st[9 * 1 - 3] + 10 /\ st[4] \in Nat /\ st[6] = st[4] + 4
            BY <6>1, LayoutOf
          <6>3. pos = st[9 * 1 + 2]
            BY <3>1, <4>1 DEF Magic
          <6>4. 9 * 1 - 3 = 6
            OBVIOUS
          <6> QED  BY <6>2, <6>3, <6>4
        <5>3. st[6] <= Len(File) /\ pos - 13 = st[4] + 1 /\ pos - 11 = st[4] + 3
          <6>1. pos \in Nat /\ Len(File) \in Nat /\ pos <= Len(File)
            BY <2>7
          <6>2. st[4] + 4 <= Len(File)
            BY <5>2, <6>1
          <6> QED  BY <5>2, <6>2
        <5>4. ShortAt(st[4] + 1) = fn.ascent /\ ShortAt(st[4] + 3) = fn.descent
          BY <2>7, <2>17, <5>3, MetricsOf DEF Follows
        <5> QED  BY <2>10, <5>1, <5>3, <5>4
      <4>2. CASE n # 1
        <5>1. n > 1
          BY <2>8, <4>2
        <5> QED  BY <2>10, <2>24, <5>1 DEF Exact
      <4> QED  BY <4>1, <4>2
    <3>8. \/ pos' = Magic(st, c) + 6 + Need(c)'
          \/ Need(c)' = 0 /\ pos' = Len(File) /\ pos' >= Magic(st, c)
      <4>1. CASE Left = 5
        <5>1. need = 0
          BY <2>5, <2>13, <4>1 DEF BitsLeft
        <5> QED  BY <2>5, <2>7, <2>13, <2>9, <3>1, <4>1, <5>1
      <4>2. CASE Left # 5
        BY <2>5, <2>13, <2>9, <3>1, <4>2
      <4> QED  BY <4>1, <4>2
    <3>9. n' - 1 = c /\ n' - 2 = n - 1
      BY <2>4, <2>8, <2>9
    <3>10. \A k \in 1..n' - 1 : ReadAt(k, fn, st)'
      <4>1. \A k \in 1..c : k = c \/ k \in 1..n - 1
        BY <2>8, <2>9
      <4> QED  BY <3>4, <3>5, <3>9, <4>1
    <3>11. \A k \in 1..n' - 2 : Magic(st, k + 1) = Magic(st, k) + 16 + Need(k)'
      BY <3>5, <3>6, <3>9
    <3> QED  BY <2>4, <2>12, <3>7, <3>8, <3>9, <3>10, <3>11 DEF Exact
  <2>25. Exact(fn, st)' \/ Slipped(st)'
    <3>1. Exact(fn, st) \/ Slipped(st)
      BY <2>17 DEF Follows
    <3>2. n < j \/ (Exact(fn, st) /\ n = j)
      BY <2>8, <2>22, <2>23, <3>1
    <3> QED  BY <2>21, <2>24, <3>2
  <2>26. Follows(fn, st)'
    BY <2>12, <2>17, <2>25 DEF Follows
  <2>27. LoadedIsSaved'
    BY <2>4 DEF LoadedIsSaved
  <2> QED  BY <2>15, <2>16, <2>17, <2>26, <2>27 DEF RestoredInv
<1> QED  BY <1>2, <1>3

\* A font whose metrics agree with its bitmaps was read where it is.
LEMMA RestoredCheck ==
  ASSUME FontInv, RestoredInv, at = "glyph", n > NGlyphs, checkfontmetrics(f)
  PROVE  /\ f.ascent = origin[place].ascent /\ f.descent = origin[place].descent
         /\ f.glyphs = origin[place].glyphs
<1>1. /\ place \in 1..Places /\ File # Absent /\ File \in Seq(Chars) /\ Len(File) \in Nat
      /\ pos \in Nat /\ pos <= Len(File)
  BY Reading
<1>2. n = NGlyphs + 1 /\ n \in Nat /\ n > 1 /\ n - 1 = NGlyphs /\ NGlyphs \in Nat /\ NGlyphs >= 1
  BY GlyphIndex DEF FontInv, LoadingInv
<1>3. PICK fn \in Given : fn = origin[place]
  BY <1>1 DEF FontInv, FilesInv, File
<1>4. PICK st \in Layouts(fn) : Agrees(File, fn, st) /\ (Exact(fn, st) \/ Slipped(st))
  BY <1>3 DEF RestoredInv, Follows
<1>5. Exact(fn, st)
  BY <1>2, <1>4 DEF Slipped
<1>14. File # <<>>
  <2>1. NGlyphs \in 1..n - 1 /\ NGlyphs \in 1..NGlyphs
    BY <1>2
  <2>2. Need(NGlyphs) \in Nat
    BY <2>1, NeedBefore
  <2>3. Magic(st, NGlyphs) \in Nat /\ Magic(st, NGlyphs) >= 10
    <3>1. st[9 * NGlyphs + 2] = st[9 * NGlyphs - 3] + 10
      BY <2>1, LayoutOf
    <3>2. 9 * NGlyphs - 3 \in 1..Count + 1
      BY <1>2 DEF Count
    <3>3. st[9 * NGlyphs - 3] \in Nat
      BY <3>2, LayoutOf
    <3> QED  BY <3>1, <3>3 DEF Magic
  <2>4. \/ pos = Magic(st, NGlyphs) + 6 + Need(NGlyphs)
        \/ Need(NGlyphs) = 0 /\ pos = Len(File) /\ pos >= Magic(st, NGlyphs)
    BY <1>2, <1>5 DEF Exact
  <2>5. pos >= 10
    BY <1>1, <2>2, <2>3, <2>4
  <2> QED  BY <1>1, <2>5
<1>15. checkfontmetrics(fn)
  BY <1>1, <1>3, <1>14 DEF FontInv, FilesInv, File, Saved
<1> DEFINE need(k) == mbm_need(fn.glyphs[k].bm.height, fn.glyphs[k].bm.width)
<1>6. ASSUME NEW k \in 1..NGlyphs
      PROVE  /\ f.glyphs[k].bm # NULL /\ IsBitmap(f.glyphs[k].bm) /\ IsBitmap(fn.glyphs[k].bm)
             /\ f.glyphs[k] \in Glyphs /\ fn.glyphs[k] \in Glyphs
             /\ SameMetrics(fn, k) /\ f.glyphs[k].bm.bits = BitsAt(Magic(st, k) + 7, Need(k))
             /\ f.glyphs[k].bm.height = fn.glyphs[k].bm.height /\ f.glyphs[k].bm.width = fn.glyphs[k].bm.width
             /\ Need(k) = need(k) /\ need(k) \in Nat /\ Magic(st, k) \in Nat
  <2>1. k \in 1..n - 1
    BY <1>2
  <2>2. f.glyphs[k].bm # NULL /\ IsBitmap(f.glyphs[k].bm) /\ Need(k) \in Nat
    BY <2>1, NeedBefore
  <2>3. IsBitmap(fn.glyphs[k].bm) /\ fn.glyphs[k] \in Glyphs
    BY GivenFonts
  <2>4. f.glyphs[k] \in Glyphs
    BY DEF FontInv, LoadingInv, IsFont, Fonts
  <2>5. SameMetrics(fn, k) /\ f.glyphs[k].bm.bits = BitsAt(Magic(st, k) + 7, Need(k))
    BY <1>5, <2>1 DEF Exact, ReadAt
  <2>6. /\ f.glyphs[k].ascent = fn.glyphs[k].ascent /\ f.glyphs[k].descent = fn.glyphs[k].descent
        /\ f.glyphs[k].lbearing = fn.glyphs[k].lbearing /\ f.glyphs[k].rbearing = fn.glyphs[k].rbearing
    BY <2>5 DEF SameMetrics, Metrics
  <2>7. f.glyphs[k].bm.height = fn.glyphs[k].bm.height /\ f.glyphs[k].bm.width = fn.glyphs[k].bm.width
    <3>1. /\ USHORT(f.glyphs[k].ascent + f.glyphs[k].descent) = f.glyphs[k].bm.height
          /\ USHORT(f.glyphs[k].rbearing - f.glyphs[k].lbearing) = f.glyphs[k].bm.width
      BY Zenon DEF checkfontmetrics
    <3>2. /\ USHORT(fn.glyphs[k].ascent + fn.glyphs[k].descent) = fn.glyphs[k].bm.height
          /\ USHORT(fn.glyphs[k].rbearing - fn.glyphs[k].lbearing) = fn.glyphs[k].bm.width
      BY <1>15, Zenon DEF checkfontmetrics
    <3> QED  BY <2>6, <3>1, <3>2
  <2>8. Need(k) = need(k)
    BY <2>7 DEF Need
  <2>9. Magic(st, k) \in Nat
    BY MagicUp
  <2> HIDE DEF need
  <2> QED  BY <2>2, <2>3, <2>4, <2>5, <2>7, <2>8, <2>9
<1>7. f.ascent = fn.ascent /\ f.descent = fn.descent
  BY <1>2, <1>5 DEF Exact
<1> HIDE DEF need
<1>8. ASSUME NEW k \in 1..NGlyphs PROVE Magic(st, k) <= Magic(st, NGlyphs)
  <2>1. CASE k = NGlyphs
    BY <1>2, <1>6, <2>1
  <2>2. CASE k # NGlyphs
    <3>1. k \in 1..NGlyphs - 1 /\ NGlyphs \in 1..NGlyphs
      BY <1>2, <2>2
    <3>2. Magic(st, k) + 13 <= Magic(st, NGlyphs)
      BY <3>1, MagicUp
    <3>3. Magic(st, k) \in Nat /\ Magic(st, NGlyphs) \in Nat
      BY <1>6, <3>1
    <3> QED  BY <3>2, <3>3
  <2> QED  BY <2>1, <2>2
<1>9. Magic(st, NGlyphs) <= pos
  <2>1. NGlyphs \in 1..NGlyphs
    BY <1>2
  <2>2. need(NGlyphs) \in Nat /\ Need(NGlyphs) = need(NGlyphs) /\ Magic(st, NGlyphs) \in Nat
    BY <1>6, <2>1
  <2>3. \/ pos = Magic(st, NGlyphs) + 6 + Need(NGlyphs)
        \/ Need(NGlyphs) = 0 /\ pos = Len(File) /\ pos >= Magic(st, NGlyphs)
    BY <1>2, <1>5 DEF Exact
  <2> QED  BY <1>1, <2>2, <2>3
<1>10. ASSUME NEW k \in 1..NGlyphs
       PROVE  need(k) = 0 \/ (Magic(st, k) + 6 + need(k) <= st[9 * k + 6] /\ Magic(st, k) + 6 + need(k) <= Len(File))
  <2>1. need(k) \in Nat /\ Need(k) = need(k) /\ Magic(st, k) \in Nat
    BY <1>6
  <2>2. CASE k = NGlyphs
    <3>1. Count + 1 = 9 * k + 6
      BY <1>2, <2>2 DEF Count
    <3>2. Len(File) <= st[9 * k + 6]
      BY <1>4, <3>1 DEF Agrees
    <3>3. st[9 * k + 6] \in Nat
      <4>1. 9 * k + 6 \in 1..Count + 1
        BY <1>2, <2>2, <3>1
      <4> QED  BY <4>1, LayoutOf
    <3>4. \/ pos = Magic(st, k) + 6 + Need(k)
          \/ Need(k) = 0 /\ pos = Len(File) /\ pos >= Magic(st, k)
      BY <1>2, <1>5, <2>2 DEF Exact
    <3>5. CASE pos = Magic(st, k) + 6 + Need(k)
      <4>1. pos = Magic(st, k) + 6 + need(k)
        BY <2>1, <3>5
      <4>2. pos <= Len(File) /\ pos <= st[9 * k + 6]
        BY <1>1, <3>2, <3>3
      <4> QED  BY <4>1, <4>2
    <3>6. CASE Need(k) = 0
      <4>1. need(k) = 0
        BY <2>1, <3>6, Zenon
      <4> QED  BY <4>1, Zenon
    <3> QED  BY <3>4, <3>5, <3>6
  <2>3. CASE k # NGlyphs
    <3>1. k \in 1..n - 2 /\ k + 1 \in 1..NGlyphs
      BY <1>2, <2>3
    <3>2. Magic(st, k + 1) = Magic(st, k) + 16 + Need(k)
      BY <1>5, <3>1 DEF Exact
    <3>3. Magic(st, k + 1) = st[9 * k + 6] + 10
      <4>1. st[9 * (k + 1) + 2] = st[9 * (k + 1) - 3] + 10
        BY <3>1, LayoutOf
      <4>2. 9 * (k + 1) - 3 = 9 * k + 6
        OBVIOUS
      <4> QED  BY <4>1, <4>2 DEF Magic
    <3>4. st[9 * k + 6] \in Nat
      <4>1. 9 * k + 6 \in 1..Count + 1
        <5>1. Count + 1 = 9 * NGlyphs + 6
          BY <1>2 DEF Count
        <5> QED  BY <1>2, <5>1
      <4> QED  BY <4>1, LayoutOf
    <3>5. st[9 * k + 6] = Magic(st, k) + 6 + need(k)
      BY <2>1, <3>2, <3>3, <3>4
    <3>6. Magic(st, k + 1) <= Len(File)
      <4>1. Magic(st, k + 1) <= Magic(st, NGlyphs) /\ Magic(st, k + 1) \in Nat
        BY <1>6, <1>8, <3>1
      <4>2. Magic(st, NGlyphs) \in Nat
        BY <1>2, <1>6
      <4> QED  BY <1>1, <1>9, <4>1, <4>2
    <3> QED  BY <1>1, <2>1, <3>2, <3>5, <3>6
  <2> QED  BY <2>2, <2>3
<1>11. ASSUME NEW k \in 1..NGlyphs PROVE f.glyphs[k].bm.bits = fn.glyphs[k].bm.bits
  <2>1. need(k) \in Nat /\ Need(k) = need(k) /\ f.glyphs[k].bm.bits = BitsAt(Magic(st, k) + 7, need(k))
    BY <1>6
  <2>2. CASE need(k) = 0
    <3>1. BitsAt(Magic(st, k) + 7, 0) = {}
      <4>1. 0..8 * 0 - 1 = {}
        OBVIOUS
      <4> QED  BY <4>1 DEF BitsAt
    <3>2. fn.glyphs[k].bm.bits = {}
      <4>1. fn.glyphs[k].bm.bits \subseteq 0..8 * need(k) - 1
        BY <1>6 DEF IsBitmap, AllBits, need
      <4>2. 0..8 * need(k) - 1 = {}
        BY <2>2
      <4> QED  BY <4>1, <4>2
    <3> QED  BY <2>1, <2>2, <3>1, <3>2
  <2>3. CASE need(k) # 0
    <3>1. Magic(st, k) + 6 + need(k) <= st[9 * k + 6] /\ Magic(st, k) + 6 + need(k) <= Len(File)
      BY <1>10, <2>3
    <3>2. st[9 * k + 5] = Magic(st, k) + 6 /\ st[9 * k + 6] = Magic(st, k) + 6 + need(k)
      BY <3>1, NothingLost DEF need
    <3>3. st[9 * k + 6] <= Len(File)
      BY <3>1, <3>2
    <3>4. BitsAt(Magic(st, k) + 7, need(k)) = fn.glyphs[k].bm.bits
      BY <1>1, <1>4, <3>2, <3>3, BitsBack DEF need
    <3> QED  BY <2>1, <3>4
  <2> QED  BY <2>2, <2>3
<1>12. ASSUME NEW k \in 1..NGlyphs PROVE f.glyphs[k] = fn.glyphs[k]
  <2>1. /\ f.glyphs[k].ascent = fn.glyphs[k].ascent /\ f.glyphs[k].descent = fn.glyphs[k].descent
        /\ f.glyphs[k].lbearing = fn.glyphs[k].lbearing /\ f.glyphs[k].rbearing = fn.glyphs[k].rbearing
        /\ f.glyphs[k].width = fn.glyphs[k].width
    BY <1>6 DEF SameMetrics, Metrics
  <2>2. f.glyphs[k].bm = fn.glyphs[k].bm
    <3> DEFINE b == f.glyphs[k].bm
               c == fn.glyphs[k].bm
    <3>1. IsBitmap(b) /\ IsBitmap(c) /\ b.height = c.height /\ b.width = c.width /\ b.bits = c.bits
      BY <1>6, <1>11
    <3> HIDE DEF b, c
    <3>2. /\ b = [height |-> b.height, width |-> b.width, bits |-> b.bits]
          /\ c = [height |-> c.height, width |-> c.width, bits |-> c.bits]
      BY <3>1, Zenon DEF IsBitmap
    <3>3. b = c
      BY <3>1, <3>2, Zenon
    <3> QED  BY <3>3 DEF b, c
  <2>3. f.glyphs[k] \in Glyphs /\ fn.glyphs[k] \in Glyphs
    BY <1>6
  <2> QED  BY <2>1, <2>2, <2>3 DEF Glyphs
<1>13. f.glyphs = fn.glyphs
  <2>1. f.glyphs \in [1..NGlyphs -> Glyphs]
    BY DEF FontInv, LoadingInv, IsFont, Fonts
  <2>2. fn.glyphs \in [1..NGlyphs -> Glyphs]
    BY GivenFonts DEF Fonts
  <2>3. PICK a \in [1..NGlyphs -> Glyphs] : a = f.glyphs
    BY <2>1
  <2>4. PICK b \in [1..NGlyphs -> Glyphs] : b = fn.glyphs
    BY <2>2
  <2>5. \A k \in 1..NGlyphs : a[k] = b[k]
    BY <1>12, <2>3, <2>4
  <2>6. a = [k \in 1..NGlyphs |-> a[k]] /\ b = [k \in 1..NGlyphs |-> b[k]]
    OBVIOUS
  <2>7. a = b
    BY <2>5, <2>6, Zenon
  <2> QED  BY <2>3, <2>4, <2>7
<1> QED  BY <1>3, <1>7, <1>13

\* The other steps of the two programs.
LEMMA RestoredElse ==
  ASSUME FontInv, RestoredInv,
         Makefont \/ TryFont \/ CannotLocate \/ ReadHeader \/ ReadName \/ NoMemory \/ DropFont \/ UNCHANGED vars
  PROVE  RestoredInv'
<1>1. CASE UNCHANGED vars
  <2>1. UNCHANGED <<at, f, n, pos, place, disk, origin>> /\ File' = File
    BY <1>1 DEF vars, File
  <2>2. MetricsRead'
    BY <2>1 DEF RestoredInv, MetricsRead, ShortAt, WordAt
  <2>3. ASSUME at \in {"glyph", "bitmap"}
        PROVE  \E st \in Layouts(origin[place]) : Follows(origin[place], st)'
    <3>1. PICK fn : fn = origin[place] /\ fn = origin'[place']
      BY <2>1
    <3>2. PICK st \in Layouts(fn) : Follows(fn, st)
      BY <2>3, <3>1 DEF RestoredInv
    <3>3. \A k : Need(k)' = Need(k) /\ ReadAt(k, fn, st)' = ReadAt(k, fn, st)
      BY <2>1, ReadStays
    <3>4. Need(n - 1)' = Need(n - 1)
      BY <2>1 DEF Need
    <3>5. Exact(fn, st) => Exact(fn, st)'
      BY <2>1, <3>3, <3>4 DEF Exact
    <3>6. Slipped(st) => Slipped(st)'
      BY <2>1 DEF Slipped
    <3>7. Follows(fn, st)'
      BY <2>1, <3>2, <3>5, <3>6 DEF Follows
    <3> QED  BY <3>1, <3>2, <3>7
  <2>4. LoadedIsSaved'
    BY <2>1 DEF RestoredInv, LoadedIsSaved
  <2> QED  BY <2>1, <2>2, <2>3, <2>4 DEF RestoredInv
<1>2. CASE ~UNCHANGED vars
  <2>1. at' \in {"write", "remove", "locate", "header", "lost", "name", "metrics", "done"}
    <3>1. CASE Makefont
      BY <3>1 DEF FontInv, Makefont, Import, Write, RemoveOutput, CloseOutput, Goto
    <3>2. CASE TryFont \/ CannotLocate \/ ReadHeader
      BY <3>2 DEF TryFont, CannotLocate, ReadHeader, NextPlace, Goto
    <3>3. CASE ReadName \/ NoMemory \/ DropFont
      BY <3>3 DEF ReadName, NameFails, NoMemory, DropFont, NextPlace, Goto
    <3> QED  BY <1>2, <3>1, <3>2, <3>3
  <2> QED  BY <2>1 DEF RestoredInv, MetricsRead, LoadedIsSaved
<1> QED  BY <1>1, <1>2

LEMMA RestoredStep ==
  ASSUME FontInv, RestoredInv, [Next]_vars
  PROVE  RestoredInv'
<1>1. CASE CheckMetrics
  <2>1. at = "glyph" /\ n > NGlyphs /\ UNCHANGED <<disk, origin>>
    BY <1>1 DEF CheckMetrics, files
  <2>2. CASE checkfontmetrics(f)
    <3>1. at' = "found" /\ place' = place /\ f' = f
      BY <1>1, <2>2 DEF CheckMetrics, Goto
    <3>2. LoadedIsSaved'
      BY <2>1, <2>2, <3>1, RestoredCheck DEF LoadedIsSaved
    <3> QED  BY <3>1, <3>2 DEF RestoredInv, MetricsRead
  <2>3. CASE ~checkfontmetrics(f)
    <3>1. at' = "locate"
      BY <1>1, <2>3 DEF CheckMetrics, GlyphFails, NextPlace, Goto
    <3> QED  BY <3>1 DEF RestoredInv, MetricsRead, LoadedIsSaved
  <2> QED  BY <2>2, <2>3
<1>2. CASE Ended
  BY <1>2, RestoredElse DEF Ended
<1> QED  BY <1>1, <1>2, RestoredMetrics, RestoredGlyph, RestoredBitmap, RestoredElse DEF Next, Loadfont

-----------------------------------------------------------------------------
(***************************************************************************)
(* A whole file is read to its end.                                        *)
(***************************************************************************)

\* What a whole file has, and where.
LEMMA CompleteFile ==
  ASSUME NEW fn \in Given, NEW st \in Layouts(fn), File \in Seq(Chars), Complete(fn, st)
  PROVE  /\ Len(File) >= 2 /\ File[1] = FontMagic /\ st[4] \in Nat /\ st[4] + 4 <= Len(File) /\ st[6] = st[4] + 4
         /\ \A k \in 1..NGlyphs :
              LET b == fn.glyphs[k].bm IN
              /\ st[9 * k - 3] \in Nat /\ Magic(st, k) = st[9 * k - 3] + 10
              /\ mbm_need(b.height, b.width) \in Nat
              /\ st[9 * k + 6] = Magic(st, k) + 6 + mbm_need(b.height, b.width) /\ st[9 * k + 6] <= Len(File)
              /\ File[Magic(st, k) + 1] = BitmapMagic
              /\ WordAt(Magic(st, k) + 3) = b.height /\ WordAt(Magic(st, k) + 5) = b.width
<1>1. Len(File) \in Nat /\ Len(File) = st[Count + 1] /\ Full(fn, st) /\ Agrees(File, fn, st)
  BY DEF Complete
<1>2. Count \in Nat /\ Count >= 14 /\ \A i \in 1..Count + 1 : st[i] \in Nat
  BY GlyphIndex, LayoutOf
<1>3. ASSUME NEW i \in 1..Count + 1 PROVE st[i] <= Len(File)
  <2>1. Count + 1 \in i..Count + 1
    BY <1>2
  <2> QED  BY <1>1, <2>1, LayoutUp
<1>4. Len(File) >= 2 /\ st[4] \in Nat /\ st[4] + 4 <= Len(File) /\ st[6] = st[4] + 4
  <2>1. 3 \in 1..Count + 1 /\ 4 \in 1..Count + 1 /\ 6 \in 1..Count + 1
    BY <1>2
  <2>2. st[3] = 2 /\ st[6] = st[4] + 4
    BY LayoutOf
  <2>3. st[3] <= Len(File) /\ st[6] <= Len(File) /\ st[4] \in Nat
    BY <1>2, <1>3, <2>1
  <2> QED  BY <2>2, <2>3
<1>5. ASSUME NEW i \in 1..Count, NEW p \in 1..ItemSize(fn, i) PROVE File[st[i] + p] = FontItems(fn)[i].bytes[p]
  <2>1. st[i + 1] = st[i] + ItemSize(fn, i) /\ ItemSize(fn, i) \in Nat
    BY <1>1, ItemBytes DEF Full
  <2>2. i \in 1..Count + 1 /\ i + 1 \in 1..Count + 1
    BY <1>2
  <2>3. st[i] \in Nat /\ st[i + 1] <= Len(File)
    BY <1>2, <1>3, <2>2
  <2>4. p \in 1..st[i + 1] - st[i] /\ st[i] + p <= Len(File)
    BY <1>1, <2>1, <2>3
  <2> QED  BY <1>1, <2>4 DEF Agrees
<1>6. File[1] = FontMagic
  <2>1. 1 \in 1..Count /\ 1 \in 1..ItemSize(fn, 1) /\ st[1] + 1 = 1
    <3>1. ItemSize(fn, 1) = 1 /\ st[1] = 0
      BY ItemBytes, LayoutOf
    <3> QED  BY <1>2, <3>1
  <2>2. FontItems(fn)[1] = Strict(<<FontMagic>>)
    BY FontItemsAre
  <2>3. FontItems(fn)[1].bytes[1] = FontMagic
    BY <2>2 DEF Strict
  <2> QED  BY <1>5, <2>1, <2>3
<1>7. ASSUME NEW k \in 1..NGlyphs
      PROVE  LET b == fn.glyphs[k].bm IN
             /\ st[9 * k - 3] \in Nat /\ Magic(st, k) = st[9 * k - 3] + 10
             /\ mbm_need(b.height, b.width) \in Nat
             /\ st[9 * k + 6] = Magic(st, k) + 6 + mbm_need(b.height, b.width) /\ st[9 * k + 6] <= Len(File)
             /\ File[Magic(st, k) + 1] = BitmapMagic
             /\ WordAt(Magic(st, k) + 3) = b.height /\ WordAt(Magic(st, k) + 5) = b.width
  <2> DEFINE b == fn.glyphs[k].bm
             need == mbm_need(b.height, b.width)
             m == Magic(st, k)
  <2>1. /\ 9 * k - 3 \in 1..Count + 1 /\ 9 * k + 2 \in 1..Count /\ 9 * k + 3 \in 1..Count
        /\ 9 * k + 4 \in 1..Count /\ 9 * k + 5 \in 1..Count /\ 9 * k + 6 \in 1..Count + 1
        /\ 9 * k + 2 \in 1..Count + 1
    <3>1. k \in Nat /\ k >= 1 /\ 9 * k + 5 <= Count
      BY GlyphIndex DEF Count
    <3> QED  BY <1>2, <3>1
  <2>2. /\ st[9 * k - 3] \in Nat /\ m = st[9 * k - 3] + 10 /\ m = st[9 * k + 2] /\ m \in Nat
        /\ st[9 * k + 6] <= Len(File) /\ st[9 * k + 6] = st[9 * k + 5] + need
    <3>1. st[9 * k + 2] = st[9 * k - 3] + 10 /\ st[9 * k + 6] = st[9 * k + 5] + need
      BY LayoutOf
    <3>2. st[9 * k - 3] \in Nat /\ st[9 * k + 2] \in Nat
      BY <1>2, <2>1
    <3>3. st[9 * k + 6] <= Len(File)
      BY <1>3, <2>1
    <3> QED  BY <3>1, <3>2, <3>3 DEF Magic
  <2>3. need \in Nat /\ b.height \in USHORTs /\ b.width \in USHORTs
    <3>1. IsBitmap(b)
      BY GivenFonts
    <3>2. need \in Nat
      BY ItemBytes
    <3> QED  BY <3>1, <3>2 DEF IsBitmap
  <2>4. /\ FontItems(fn)[9 * k + 2] = Loose(<<BitmapMagic, 0>>)
        /\ FontItems(fn)[9 * k + 3] = Loose(Word(b.height)) /\ FontItems(fn)[9 * k + 4] = Loose(Word(b.width))
    BY FontItemsAre
  <2> HIDE DEF b, need, m
  <2>5. /\ FontItems(fn)[9 * k + 2].loose /\ FontItems(fn)[9 * k + 2].bytes = <<BitmapMagic, 0>>
        /\ FontItems(fn)[9 * k + 3].loose /\ FontItems(fn)[9 * k + 3].bytes = Word(b.height)
        /\ FontItems(fn)[9 * k + 4].loose /\ FontItems(fn)[9 * k + 4].bytes = Word(b.width)
    BY <2>4 DEF Loose
  <2>6. ItemSize(fn, 9 * k + 2) = 2 /\ ItemSize(fn, 9 * k + 3) = 2 /\ ItemSize(fn, 9 * k + 4) = 2
    BY <2>1, <2>5, LooseItems
  <2>7. /\ st[(9 * k + 2) + 1] = st[9 * k + 2] + 2 /\ st[(9 * k + 3) + 1] = st[9 * k + 3] + 2
        /\ st[(9 * k + 4) + 1] = st[9 * k + 4] + 2
    BY <1>1, <2>1, <2>6 DEF Full
  <2>8. st[9 * k + 3] = m + 2 /\ st[9 * k + 4] = m + 4 /\ st[9 * k + 5] = m + 6
    <3>1. (9 * k + 2) + 1 = 9 * k + 3 /\ (9 * k + 3) + 1 = 9 * k + 4 /\ (9 * k + 4) + 1 = 9 * k + 5
      OBVIOUS
    <3>2. st[9 * k + 3] = m + 2
      BY <2>2, <2>7, <3>1, Zenon
    <3>3. st[9 * k + 4] = (m + 2) + 2
      BY <2>7, <3>1, <3>2, Zenon
    <3>4. st[9 * k + 5] = ((m + 2) + 2) + 2
      BY <2>7, <3>1, <3>3, Zenon
    <3>5. (m + 2) + 2 = m + 4 /\ ((m + 2) + 2) + 2 = m + 6
      BY <2>2
    <3> QED  BY <3>2, <3>3, <3>4, <3>5, Zenon
  <2>9. File[m + 1] = BitmapMagic
    <3>1. 1 \in 1..ItemSize(fn, 9 * k + 2)
      BY <2>6
    <3>2. File[st[9 * k + 2] + 1] = FontItems(fn)[9 * k + 2].bytes[1]
      BY <1>5, <2>1, <3>1
    <3>3. FontItems(fn)[9 * k + 2].bytes[1] = BitmapMagic
      BY <2>5
    <3> QED  BY <2>2, <3>2, <3>3, Zenon
  <2>10. st[9 * k + 3] + 2 <= Len(File) /\ st[9 * k + 4] + 2 <= Len(File)
    <3>1. m + 6 + need <= Len(File)
      BY <2>2, <2>8, Zenon
    <3>2. m \in Nat /\ need \in Nat /\ Len(File) \in Nat
      BY <1>1, <2>2, <2>3
    <3>3. (m + 2) + 2 <= Len(File) /\ (m + 4) + 2 <= Len(File)
      BY <3>1, <3>2
    <3> QED  BY <2>8, <3>3, Zenon
  <2>11. WordAt(st[9 * k + 3] + 1) = USHORT(b.height) /\ USHORT(b.height) = b.height
    <3>1. st[9 * k + 3] + 2 <= Len(File) /\ st[(9 * k + 3) + 1] = st[9 * k + 3] + 2
      BY <2>7, <2>10
    <3>2. PICK v \in SHORTs \cup USHORTs : v = b.height
      BY <2>3
    <3>3. PICK i \in 1..Count : i = 9 * k + 3
      BY <2>1
    <3>4. FontItems(fn)[i].bytes = Word(v) /\ st[i] + 2 <= Len(File) /\ st[i + 1] = st[i] + 2
      BY <2>5, <3>1, <3>2, <3>3, Zenon
    <3>5. Agrees(File, fn, st)
      BY <1>1
    <3>6. WordAt(st[i] + 1) = USHORT(v)
      BY <3>4, <3>5, WordRead
    <3>7. USHORT(v) = v
      BY <2>3, <3>2, WordBack
    <3> QED  BY <3>2, <3>3, <3>6, <3>7, Zenon
  <2>12. WordAt(st[9 * k + 4] + 1) = USHORT(b.width) /\ USHORT(b.width) = b.width
    <3>1. st[9 * k + 4] + 2 <= Len(File) /\ st[(9 * k + 4) + 1] = st[9 * k + 4] + 2
      BY <2>7, <2>10
    <3>2. PICK v \in SHORTs \cup USHORTs : v = b.width
      BY <2>3
    <3>3. PICK i \in 1..Count : i = 9 * k + 4
      BY <2>1
    <3>4. FontItems(fn)[i].bytes = Word(v) /\ st[i] + 2 <= Len(File) /\ st[i + 1] = st[i] + 2
      BY <2>5, <3>1, <3>2, <3>3, Zenon
    <3>5. Agrees(File, fn, st)
      BY <1>1
    <3>6. WordAt(st[i] + 1) = USHORT(v)
      BY <3>4, <3>5, WordRead
    <3>7. USHORT(v) = v
      BY <2>3, <3>2, WordBack
    <3> QED  BY <3>2, <3>3, <3>6, <3>7, Zenon
  <2>13. st[9 * k + 3] + 1 = m + 3 /\ st[9 * k + 4] + 1 = m + 5
    <3>1. (m + 2) + 1 = m + 3 /\ (m + 4) + 1 = m + 5
      BY <2>2
    <3> QED  BY <2>8, <3>1, Zenon
  <2>14. WordAt(m + 3) = b.height /\ WordAt(m + 5) = b.width
    BY <2>11, <2>12, <2>13
  <2>15. st[9 * k + 6] = m + 6 + need
    BY <2>2, <2>8
  <2> QED  BY <2>2, <2>3, <2>9, <2>14, <2>15 DEF b, need, m
<1> QED  BY <1>4, <1>6, <1>7

\* A file is given up: it is not whole, or there is no memory.
LEMMA GivenUp ==
  ASSUME FontInv, WholeInv, at \in {"locate", "header", "name", "metrics", "glyph", "bitmap"},
         UNCHANGED <<disk, origin>>, NextPlace, faults \subseteq faults',
         Whole(place) => "memory" \in faults'
  PROVE  WholeInv'
<1>1. at' = "locate" /\ place' = place + 1 /\ place \in Int
  BY FontAssumption DEF NextPlace, Goto, FontInv, LoadingInv
<1>2. ASSUME NEW i \in 1..place' - 1, Whole(i)' PROVE "memory" \in faults'
  <2>1. Whole(i)
    BY <1>2 DEF Whole
  <2>2. CASE i = place
    BY <2>1, <2>2
  <2>3. CASE i # place
    <3>1. i \in 1..place - 1
      BY <1>1, <2>3
    <3> QED  BY <2>1, <3>1 DEF WholeInv, Passed
  <2> QED  BY <2>2, <2>3
<1>3. Passed'
  BY <1>2 DEF Passed
<1> QED  BY <1>1, <1>3 DEF WholeInv, Succeeds

LEMMA NothingPassed ==
  ASSUME WholeInv, UNCHANGED <<disk, origin, place>>, faults \subseteq faults'
  PROVE  Passed'
<1>1. \A i \in 1..place - 1 : Whole(i)' => Whole(i)
  BY DEF Whole
<1> QED  BY <1>1 DEF WholeInv, Passed

\* The next part of a file is read, where it is if the file is whole.
LEMMA GoesOn ==
  ASSUME WholeInv, UNCHANGED <<disk, origin, place, faults>>,
         at' \in {"header", "name", "metrics", "glyph", "bitmap"},
         Whole(place) /\ "memory" \notin faults =>
           \E fn \in Given : /\ fn = origin[place]
                             /\ \E st \in Layouts(fn) : Complete(fn, st) /\ Reaches(fn, st)'
  PROVE  WholeInv'
<1>1. Passed'
  BY NothingPassed
<1>2. ASSUME Whole(place)', "memory" \notin faults'
      PROVE  (\E st \in Layouts(origin[place]) : Complete(origin[place], st) /\ Reaches(origin[place], st))'
  <2>1. Whole(place) /\ "memory" \notin faults
    BY <1>2 DEF Whole
  <2>2. PICK fn \in Given : /\ fn = origin[place]
                            /\ \E st \in Layouts(fn) : Complete(fn, st) /\ Reaches(fn, st)'
    BY <2>1
  <2>3. PICK st \in Layouts(fn) : Complete(fn, st) /\ Reaches(fn, st)'
    BY <2>2
  <2>4. Complete(fn, st)'
    <3>1. File' = File
      BY DEF File
    <3> QED  BY <2>3, <3>1 DEF Complete
  <2>5. origin'[place'] = fn
    BY <2>2
  <2> QED  BY <2>3, <2>4, <2>5
<1> QED  BY <1>1, <1>2 DEF WholeInv, Succeeds

\* What is known of a file that is being read and is whole.
LEMMA BeingRead ==
  ASSUME FontInv, WholeInv, at \in {"header", "name", "metrics", "glyph", "bitmap"},
         Whole(place), "memory" \notin faults
  PROVE  \E fn \in Given : /\ fn = origin[place] /\ Len(fn.name) <= NameMax - 2
                           /\ \E st \in Layouts(fn) : Complete(fn, st) /\ Reaches(fn, st)
<1>1. PICK st \in Layouts(origin[place]) : Complete(origin[place], st) /\ Reaches(origin[place], st)
  BY DEF WholeInv, Succeeds
<1>2. place \in 1..Places /\ File # Absent
  BY Reading
<1>3. origin[place] \in Given
  BY <1>2 DEF FontInv, FilesInv, File
<1> QED  BY <1>1, <1>3 DEF Whole

LEMMA WholeInit == Init => WholeInv
<1> SUFFICES ASSUME Init PROVE WholeInv
  OBVIOUS
<1>1. place = 1 /\ at = "import"
  BY DEF Init
<1>2. 1..place - 1 = {}
  BY <1>1
<1> QED  BY <1>1, <1>2 DEF WholeInv, Passed, Succeeds

LEMMA WholeLocate ==
  ASSUME FontInv, WholeInv, TryFont \/ CannotLocate
  PROVE  WholeInv'
<1>1. CASE CannotLocate
  <2>1. at' = "lost" /\ place > Places /\ UNCHANGED <<disk, origin, place, faults>>
    BY <1>1 DEF CannotLocate, Goto, files, loading
  <2>2. Passed'
    BY <2>1, NothingPassed
  <2> QED  BY <2>1, <2>2 DEF WholeInv, Succeeds
<1>2. CASE TryFont /\ File = Absent
  <2>1. NextPlace /\ UNCHANGED <<disk, origin, faults>> /\ at = "locate"
    BY <1>2 DEF TryFont, files
  <2>2. ~Whole(place)
    BY <1>2 DEF Whole, File
  <2> QED  BY <2>1, <2>2, GivenUp
<1>3. CASE TryFont /\ File # Absent
  <2>1. at' = "header" /\ place <= Places /\ UNCHANGED <<disk, origin, place, faults>>
    BY <1>3 DEF TryFont, files, Goto
  <2>2. ASSUME Whole(place)
        PROVE  \E fn \in Given : /\ fn = origin[place]
                                 /\ \E st \in Layouts(fn) : Complete(fn, st) /\ Reaches(fn, st)'
    <3>1. place \in 1..Places
      BY <2>1, FontAssumption DEF FontInv, LoadingInv
    <3>2. PICK fn \in Given : fn = origin[place]
      BY <1>3, <3>1 DEF FontInv, FilesInv, File
    <3>3. PICK st \in Layouts(fn) : /\ Full(fn, st) /\ Agrees(Image(fn), fn, st)
                                    /\ Len(Image(fn)) = st[Count + 1]
      BY ImageFacts
    <3>4. File = Image(fn)
      BY <2>2, <3>2 DEF Whole, File
    <3>5. Complete(fn, st) /\ Reaches(fn, st)'
      BY <2>1, <3>3, <3>4 DEF Complete, Reaches
    <3> QED  BY <3>2, <3>5
  <2> QED  BY <2>1, <2>2, GoesOn
<1> QED  BY <1>1, <1>2, <1>3

LEMMA WholeHeader ==
  ASSUME FontInv, WholeInv, ReadHeader
  PROVE  WholeInv'
<1>1. at = "header" /\ UNCHANGED <<disk, origin, faults>>
  BY DEF ReadHeader, files
<1>2. ASSUME Whole(place), "memory" \notin faults
      PROVE  /\ Left >= 2 /\ File[1] = FontMagic
             /\ \E fn \in Given : fn = origin[place] /\ \E st \in Layouts(fn) : Complete(fn, st)
  <2>1. PICK fn \in Given : fn = origin[place] /\ \E st \in Layouts(fn) : Complete(fn, st)
    BY <1>1, <1>2, BeingRead
  <2>2. File \in Seq(Chars) /\ Len(File) \in Nat /\ Left = Len(File) - 0
    BY <1>1, Reading DEF FontInv, LoadingInv
  <2>3. Len(File) >= 2 /\ File[1] = FontMagic
    BY <2>1, <2>2, CompleteFile
  <2> QED  BY <2>1, <2>2, <2>3
<1>3. CASE Left >= 2 /\ File[1] = FontMagic
  <2>1. at' = "name" /\ place' = place
    BY <1>3 DEF ReadHeader, Goto
  <2>2. \A fn, st : Reaches(fn, st)'
    BY <2>1 DEF Reaches
  <2> QED  BY <1>1, <1>2, <2>1, <2>2, GoesOn
<1>4. CASE ~(Left >= 2 /\ File[1] = FontMagic)
  <2>1. NextPlace
    BY <1>4 DEF ReadHeader
  <2> QED  BY <1>1, <1>2, <1>4, <2>1, GivenUp
<1> QED  BY <1>3, <1>4

\* The name ends at the first LF, which is after the CR that is after the name.
LEMMA WholeName ==
  ASSUME FontInv, WholeInv, ReadName
  PROVE  WholeInv'
<1>1. at = "name" /\ UNCHANGED <<disk, origin>>
  BY DEF ReadName, files
<1> DEFINE ends == {k \in 1..NameMax : k <= Left /\ File[pos + k] = LF}
           read == IF ends = {} THEN NameMax ELSE Min(ends)
           last == IF ends = {} THEN NameMax ELSE Min(ends) - 1
<1>2. ASSUME Whole(place), "memory" \notin faults
      PROVE  /\ read <= Left /\ last > 0 /\ File[pos + last] = CR
             /\ \E fn \in Given : fn = origin[place] /\ \E st \in Layouts(fn) : Complete(fn, st) /\ pos + read = st[4]
  <2>1. PICK fn \in Given : /\ fn = origin[place] /\ Len(fn.name) <= NameMax - 2
                            /\ \E st \in Layouts(fn) : Complete(fn, st)
    BY <1>1, <1>2, BeingRead
  <2>2. PICK st \in Layouts(fn) : Complete(fn, st)
    BY <2>1
  <2> DEFINE m == Len(fn.name)
  <2>3. /\ File \in Seq(Chars) /\ Len(File) \in Nat /\ Left = Len(File) - 2 /\ pos = 2 /\ Left \in Nat
        /\ NameMax \in Nat
    BY <1>1, Reading, FontAssumption DEF FontInv, LoadingInv
  <2>4. st[4] = m + 4 /\ st[4] + 4 <= Len(File)
    BY <2>2, <2>3, CompleteFile, LayoutOf
  <2>5. /\ m \in Nat
        /\ \A k \in 1..m : 2 + k <= Len(File) => File[2 + k] = fn.name[k]
        /\ m + 3 <= Len(File) => File[m + 3] = CR
        /\ m + 4 <= Len(File) => File[m + 4] = LF
    BY <2>2, <2>3, NameOf DEF Complete
  <2>6. \A k \in 1..m : fn.name[k] # LF
    BY GivenFonts
  <2>7. m <= NameMax - 2
    BY <2>1
  <2> HIDE DEF m
  <2>8. File[m + 3] = CR /\ File[m + 4] = LF /\ \A k \in 1..m : File[2 + k] # LF
    <3>1. \A k \in 1..m : 2 + k <= Len(File)
      BY <2>3, <2>4, <2>5
    <3>2. m + 3 <= Len(File) /\ m + 4 <= Len(File)
      BY <2>3, <2>4, <2>5
    <3> QED  BY <2>5, <2>6, <3>1, <3>2
  <2>9. m + 2 \in ends
    <3>1. m + 2 \in 1..NameMax /\ m + 2 <= Left /\ pos + (m + 2) = m + 4
      BY <2>3, <2>4, <2>5, <2>7
    <3> QED  BY <2>8, <3>1
  <2>10. ASSUME NEW k \in ends PROVE m + 2 <= k
    <3>1. k \in 1..NameMax /\ k \in Nat /\ k >= 1 /\ File[2 + k] = LF
      BY <2>3, <2>10
    <3>2. CASE k \in 1..m
      BY <2>8, <3>1, <3>2
    <3>3. CASE k = m + 1
      <4>1. 2 + k = m + 3
        BY <2>5, <3>3
      <4> QED  BY <2>8, <3>1, <4>1 DEF CR, LF
    <3>4. k \in 1..m \/ k = m + 1 \/ m + 2 <= k
      BY <2>5, <3>1
    <3> QED  BY <3>2, <3>3, <3>4
  <2>11. Min(ends) = m + 2 /\ ends # {}
    <3>1. \A k \in ends : k \in Nat
      BY <2>3
    <3> HIDE DEF ends
    <3>2. Min(ends) \in ends /\ \A k \in ends : Min(ends) <= k
      BY <2>9, <2>10 DEF Min
    <3> DEFINE least == Min(ends)
    <3>3. least \in ends /\ \A k \in ends : least <= k
      BY <3>2
    <3> HIDE DEF least
    <3>4. least \in Nat /\ least <= m + 2 /\ m + 2 <= least
      BY <2>9, <2>10, <3>1, <3>3
    <3>5. least = m + 2
      BY <2>5, <3>4
    <3> QED  BY <2>9, <3>5 DEF least
  <2>12. read = m + 2 /\ last = m + 1
    <3> HIDE DEF ends
    <3>1. (m + 2) - 1 = m + 1
      BY <2>5
    <3> QED  BY <2>11, <3>1, Zenon
  <2> HIDE DEF read, last, ends
  <2>13. read <= Left /\ last > 0 /\ pos + last = m + 3 /\ pos + read = st[4]
    BY <2>3, <2>4, <2>5, <2>12
  <2> QED  BY <2>1, <2>2, <2>8, <2>13
<1>3. CASE read <= Left /\ last > 0 /\ File[pos + last] = CR
  <2>1. at' = "metrics" /\ pos' = pos + read /\ UNCHANGED <<place, faults>>
    BY <1>3 DEF ReadName, Goto
  <2> HIDE DEF read, last, ends
  <2>2. \A fn, st : pos + read = st[4] => Reaches(fn, st)'
    BY <2>1 DEF Reaches
  <2> QED  BY <1>1, <1>2, <2>1, <2>2, GoesOn
<1>4. CASE ~(read <= Left /\ last > 0 /\ File[pos + last] = CR)
  <2>1. NameFails
    BY <1>4 DEF ReadName
  <2> HIDE DEF read, last, ends
  <2>2. NextPlace /\ faults \subseteq faults'
    BY <2>1 DEF NameFails, Free
  <2> QED  BY <1>1, <1>2, <1>4, <2>2, GivenUp
<1> QED  BY <1>3, <1>4

\* What gives a file up frees blocks, and leaves what failed as it is.
LEMMA FailsGiveUp == /\ NameFails => NextPlace /\ faults \subseteq faults'
                     /\ GlyphFails => NextPlace /\ faults \subseteq faults'
BY DEF NameFails, GlyphFails, dropfont, Free

LEMMA WholeMetrics ==
  ASSUME FontInv, WholeInv, ReadMetrics
  PROVE  WholeInv'
<1>1. at = "metrics" /\ UNCHANGED <<disk, origin>>
  BY DEF ReadMetrics, files
<1>2. /\ File \in Seq(Chars) /\ Len(File) \in Nat /\ Left = Len(File) - pos /\ pos \in Nat
      /\ f \in Fonts
  BY <1>1, Reading DEF FontInv, LoadingInv, IsFont
<1>3. ASSUME Whole(place), "memory" \notin faults
      PROVE  \E fn \in Given : /\ fn = origin[place]
                               /\ \E st \in Layouts(fn) : Complete(fn, st) /\ pos = st[4]
  <2>1. PICK fn \in Given : /\ fn = origin[place]
                            /\ \E st \in Layouts(fn) : Complete(fn, st) /\ Reaches(fn, st)
    BY <1>1, <1>3, BeingRead
  <2> QED  BY <1>1, <2>1 DEF Reaches
<1>4. CASE Left >= 4
  <2>1. /\ f' = [f EXCEPT !.ascent = ShortAt(pos + 1), !.descent = ShortAt(pos + 3)]
        /\ pos' = pos + 4 /\ n' = 1 /\ at' = "glyph" /\ UNCHANGED <<place, faults>>
    BY <1>4 DEF ReadMetrics, Goto
  <2>2. f'.ascent = ShortAt(pos + 1) /\ f'.descent = ShortAt(pos + 3)
    BY <1>2, <2>1 DEF Fonts
  <2>3. ASSUME NEW fn \in Given, NEW st \in Layouts(fn), Complete(fn, st), pos = st[4]
        PROVE  Reaches(fn, st)'
    <3>1. st[6] <= Len(File) /\ st[6] = st[4] + 4
      BY <1>2, <2>3, CompleteFile
    <3>2. f'.ascent = fn.ascent /\ f'.descent = fn.descent
      BY <1>2, <2>2, <2>3, <3>1, MetricsOf DEF Complete
    <3>3. 9 * n' - 3 = 6 /\ 1..n' - 1 = {}
      BY <2>1
    <3>4. pos' = st[9 * n' - 3]
      BY <2>1, <2>3, <3>1, <3>3
    <3> QED  BY <2>1, <3>2, <3>3, <3>4 DEF Reaches
  <2> QED  BY <1>1, <1>3, <2>1, <2>3, GoesOn
<1>5. CASE ~(Left >= 4)
  <2>1. NameFails
    BY <1>5 DEF ReadMetrics
  <2>2. ASSUME Whole(place), "memory" \notin faults PROVE FALSE
    <3>1. PICK fn \in Given : \E st \in Layouts(fn) : Complete(fn, st) /\ pos = st[4]
      BY <1>3, <2>2
    <3>2. PICK st \in Layouts(fn) : Complete(fn, st) /\ pos = st[4]
      BY <3>1
    <3>3. pos + 4 <= Len(File)
      BY <1>2, <3>2, CompleteFile
    <3> QED  BY <1>2, <1>5, <3>3
  <2> QED  BY <1>1, <2>1, <2>2, FailsGiveUp, GivenUp
<1> QED  BY <1>4, <1>5

\* A glyph that stays as it is.
LEMMA GlyphStays ==
  ASSUME NEW fn, NEW k, f'.glyphs[k] = f.glyphs[k]
  PROVE  SameMetrics(fn, k)' = SameMetrics(fn, k) /\ SameGlyph(fn, k)' = SameGlyph(fn, k)
<1>1. SameMetrics(fn, k)' = SameMetrics(fn, k)
  BY DEF SameMetrics
<1> QED  BY <1>1 DEF SameGlyph

LEMMA WholeGlyph ==
  ASSUME FontInv, WholeInv, ReadGlyph
  PROVE  WholeInv'
<1>1. at = "glyph" /\ n <= NGlyphs /\ UNCHANGED <<disk, origin>>
  BY DEF ReadGlyph, files
<1>2. /\ File \in Seq(Chars) /\ Len(File) \in Nat /\ Left = Len(File) - pos /\ pos \in Nat
      /\ f \in Fonts /\ n \in 1..NGlyphs /\ n \in Nat
  BY <1>1, Reading, FontAssumption DEF FontInv, LoadingInv, IsFont
<1>3. PICK c \in 1..NGlyphs : c = n
  BY <1>2
<1>4. ASSUME Whole(place), "memory" \notin faults
      PROVE  \E fn \in Given : /\ fn = origin[place]
                               /\ \E st \in Layouts(fn) : Complete(fn, st) /\ Reaches(fn, st)
  BY <1>1, <1>4, BeingRead
<1>5. ASSUME NEW fn \in Given, NEW st \in Layouts(fn), Complete(fn, st), Reaches(fn, st)
      PROVE  pos + 10 = Magic(st, c) /\ Magic(st, c) <= Len(File) /\ Left >= 10
  <2>1. pos = st[9 * c - 3]
    BY <1>1, <1>3, <1>5 DEF Reaches
  <2> DEFINE need == mbm_need(fn.glyphs[c].bm.height, fn.glyphs[c].bm.width)
  <2>2. /\ Magic(st, c) = st[9 * c - 3] + 10 /\ need \in Nat
        /\ st[9 * c + 6] = Magic(st, c) + 6 + need /\ st[9 * c + 6] <= Len(File)
    BY <1>2, <1>5, CompleteFile
  <2> DEFINE m == Magic(st, c)
  <2>3. m = pos + 10 /\ m + 6 + need <= Len(File) /\ need \in Nat
    BY <2>1, <2>2
  <2> HIDE DEF m, need
  <2>4. m + 0 <= Len(File)
    BY <1>2, <2>3
  <2>5. m <= Len(File) /\ pos + 10 <= Len(File)
    BY <1>2, <2>3, <2>4
  <2>6. Left >= 10
    BY <1>2, <2>5
  <2> QED  BY <2>3, <2>5, <2>6 DEF m
<1>6. CASE Left >= 10
  <2> DEFINE g == [ascent |-> ShortAt(pos + 1), descent |-> ShortAt(pos + 3), lbearing |-> ShortAt(pos + 5),
                   rbearing |-> ShortAt(pos + 7), width |-> ShortAt(pos + 9), bm |-> NULL]
  <2>1. f' = [f EXCEPT !.glyphs[n] = g]
    BY <1>6 DEF ReadGlyph
  <2>2. pos' = pos + 10 /\ at' = "bitmap" /\ n' = n /\ UNCHANGED <<place, faults>>
    BY <1>6 DEF ReadGlyph, Goto
  <2>3. /\ f'.glyphs[c] = g /\ f'.ascent = f.ascent /\ f'.descent = f.descent
        /\ \A k \in 1..NGlyphs : k # c => f'.glyphs[k] = f.glyphs[k]
    <3> HIDE DEF g
    <3> QED  BY <1>2, <1>3, <2>1 DEF Fonts
  <2>4. /\ f'.glyphs[c].ascent = ShortAt(pos + 1) /\ f'.glyphs[c].descent = ShortAt(pos + 3)
        /\ f'.glyphs[c].lbearing = ShortAt(pos + 5) /\ f'.glyphs[c].rbearing = ShortAt(pos + 7)
        /\ f'.glyphs[c].width = ShortAt(pos + 9)
    BY <2>3
  <2> HIDE DEF g
  <2>5. ASSUME NEW fn \in Given, NEW st \in Layouts(fn), Complete(fn, st), Reaches(fn, st)
        PROVE  Reaches(fn, st)'
    <3>1. pos + 10 = Magic(st, c) /\ Magic(st, c) <= Len(File)
      BY <1>5, <2>5
    <3>2. /\ Magic(st, c) - 9 = pos + 1 /\ Magic(st, c) - 7 = pos + 3 /\ Magic(st, c) - 5 = pos + 5
          /\ Magic(st, c) - 3 = pos + 7 /\ Magic(st, c) - 1 = pos + 9
      BY <1>2, <3>1
    <3>3. /\ ShortAt(pos + 1) = fn.glyphs[c].ascent /\ ShortAt(pos + 3) = fn.glyphs[c].descent
          /\ ShortAt(pos + 5) = fn.glyphs[c].lbearing /\ ShortAt(pos + 7) = fn.glyphs[c].rbearing
          /\ ShortAt(pos + 9) = fn.glyphs[c].width
      <4>1. Agrees(File, fn, st) /\ c \in 1..NGlyphs /\ File \in Seq(Chars)
        BY <1>2, <2>5 DEF Complete
      <4> DEFINE m == Magic(st, c)
      <4>2. /\ ShortAt(m - 9) = fn.glyphs[c].ascent /\ ShortAt(m - 7) = fn.glyphs[c].descent
            /\ ShortAt(m - 5) = fn.glyphs[c].lbearing /\ ShortAt(m - 3) = fn.glyphs[c].rbearing
            /\ ShortAt(m - 1) = fn.glyphs[c].width
        BY <2>5, <3>1, <4>1, MetricsOf
      <4> QED  BY <3>2, <4>2, Zenon
    <3>4. SameMetrics(fn, c)'
      BY <2>4, <3>3 DEF SameMetrics, Metrics
    <3>5. \A k \in 1..n - 1 : SameGlyph(fn, k)'
      <4>1. ASSUME NEW k \in 1..n - 1 PROVE SameGlyph(fn, k)'
        <5>1. SameGlyph(fn, k)
          BY <1>1, <2>5 DEF Reaches
        <5>2. f'.glyphs[k] = f.glyphs[k]
          <6>1. k \in 1..NGlyphs /\ k # c
            BY <1>2, <1>3, FontAssumption
          <6> QED  BY <2>3, <6>1
        <5> QED  BY <5>1, <5>2, GlyphStays
      <4> QED  BY <4>1
    <3>6. f'.ascent = fn.ascent /\ f'.descent = fn.descent
      BY <1>1, <2>3, <2>5 DEF Reaches
    <3>7. n' = c /\ pos' = Magic(st, c)
      BY <1>3, <2>2, <3>1
    <3> QED  BY <2>2, <3>4, <3>5, <3>6, <3>7 DEF Reaches
  <2> QED  BY <1>1, <1>4, <2>2, <2>5, GoesOn
<1>7. CASE ~(Left >= 10)
  <2>1. GlyphFails
    BY <1>7 DEF ReadGlyph
  <2>2. ASSUME Whole(place), "memory" \notin faults PROVE FALSE
    BY <1>4, <1>5, <1>7, <2>2
  <2> QED  BY <1>1, <2>1, <2>2, FailsGiveUp, GivenUp
<1> QED  BY <1>6, <1>7

LEMMA WholeBitmap ==
  ASSUME FontInv, WholeInv, LoadBitmap
  PROVE  WholeInv'
<1>1. at = "bitmap" /\ UNCHANGED <<disk, origin>>
  BY DEF LoadBitmap, files
<1>2. /\ File \in Seq(Chars) /\ Len(File) \in Nat /\ Left = Len(File) - pos /\ pos \in Nat
      /\ f \in Fonts /\ n \in 1..NGlyphs /\ n \in Nat
  BY <1>1, Reading DEF FontInv, LoadingInv, IsFont
<1>3. PICK c \in 1..NGlyphs : c = n
  BY <1>2
<1>4. ASSUME Whole(place), "memory" \notin faults
      PROVE  \E fn \in Given : /\ fn = origin[place]
                               /\ \E st \in Layouts(fn) : Complete(fn, st) /\ Reaches(fn, st)
  BY <1>1, <1>4, BeingRead
\* There is all of the bitmap, so there is nothing to fail for.
<1>5. ASSUME NEW fn \in Given, NEW st \in Layouts(fn), Complete(fn, st), Reaches(fn, st)
      PROVE  LET b == fn.glyphs[c].bm IN
             /\ pos = Magic(st, c) /\ HeaderRead /\ HeightRead = b.height /\ WidthsRead = {b.width} /\ Left # 5
             /\ mbm_need(b.height, b.width) <= BitsLeft
             /\ st[9 * c + 6] = pos + 6 + mbm_need(b.height, b.width)
  <2> DEFINE b == fn.glyphs[c].bm
             need == mbm_need(b.height, b.width)
             m == Magic(st, c)
  <2>1. pos = m
    BY <1>1, <1>3, <1>5 DEF Reaches
  <2>2. /\ need \in Nat /\ st[9 * c + 6] = m + 6 + need /\ st[9 * c + 6] <= Len(File)
        /\ File[m + 1] = BitmapMagic /\ WordAt(m + 3) = b.height /\ WordAt(m + 5) = b.width
    BY <1>2, <1>5, CompleteFile
  <2> HIDE DEF m, need, b
  <2>3. st[9 * c + 6] = pos + 6 + need /\ pos + 6 + need <= Len(File)
    BY <2>1, <2>2, Zenon
  <2>4. Left >= 5 /\ Left # 5 /\ need <= Left - 6
    <3>1. need \in Nat /\ pos + 6 + need <= Len(File)
      BY <2>2, <2>3
    <3> QED  BY <1>2, <3>1
  <2>5. HeaderRead /\ HeightRead = b.height /\ WidthsRead = {b.width} /\ need <= BitsLeft
    BY <2>1, <2>2, <2>4 DEF HeaderRead, HeightRead, WidthsRead, BitsLeft
  <2> QED  BY <2>1, <2>3, <2>4, <2>5 DEF m, need, b
<1>6. CASE GlyphFails
  <2>1. CASE Whole(place) /\ "memory" \notin faults
    <3>1. PICK fn \in Given : /\ fn = origin[place]
                              /\ \E st \in Layouts(fn) : Complete(fn, st) /\ Reaches(fn, st)
      BY <1>4, <2>1
    <3>2. PICK st \in Layouts(fn) : Complete(fn, st) /\ Reaches(fn, st)
      BY <3>1
    <3> DEFINE b == fn.glyphs[c].bm
    <3>3. HeaderRead /\ HeightRead = b.height /\ WidthsRead = {b.width} /\ mbm_need(b.height, b.width) <= BitsLeft
      BY <1>5, <3>2
    <3> HIDE DEF b
    <3>4. Goto("glyph")
      BY <3>3 DEF LoadBitmap
    <3> QED  BY <1>6, <3>4 DEF GlyphFails, NextPlace, Goto
  <2>2. CASE ~(Whole(place) /\ "memory" \notin faults)
    BY <1>1, <1>6, <2>2, FailsGiveUp, GivenUp
  <2> QED  BY <2>1, <2>2
<1>7. CASE ~GlyphFails
  <2>1. PICK w \in WidthsRead :
          LET need == mbm_need(HeightRead, w) IN
          /\ f' = [f EXCEPT !.glyphs[n].bm = [mbm_buy(HeightRead, w) EXCEPT !.bits = BitsAt(pos + 7, need)]]
          /\ pos' = IF Left = 5 THEN Len(File) ELSE pos + 6 + need
          /\ n' = n + 1 /\ Goto("glyph") /\ UNCHANGED <<place, faults>>
    BY <1>7 DEF LoadBitmap
  <2> DEFINE bm == [mbm_buy(HeightRead, w) EXCEPT !.bits = BitsAt(pos + 7, mbm_need(HeightRead, w))]
  <2>2. f' = [f EXCEPT !.glyphs[n].bm = bm]
    BY <2>1
  <2>3. /\ pos' = IF Left = 5 THEN Len(File) ELSE pos + 6 + mbm_need(HeightRead, w)
        /\ n' = n + 1 /\ at' = "glyph" /\ UNCHANGED <<place, faults>>
    BY <2>1 DEF Goto
  <2>4. bm.height = HeightRead /\ bm.width = w
    BY DEF mbm_buy
  <2> HIDE DEF bm
  <2>5. /\ f'.glyphs[c] = [f.glyphs[c] EXCEPT !.bm = bm] /\ f'.ascent = f.ascent /\ f'.descent = f.descent
        /\ \A k \in 1..NGlyphs : k # c => f'.glyphs[k] = f.glyphs[k]
    BY <1>2, <1>3, <2>2 DEF Fonts
  <2>6. f'.glyphs[c].bm = bm /\ \A m \in Metrics : f'.glyphs[c][m] = f.glyphs[c][m]
    <3>1. f.glyphs[c] \in Glyphs
      BY <1>2 DEF Fonts
    <3> QED  BY <2>5, <3>1 DEF Glyphs, Metrics
  <2>7. ASSUME NEW fn \in Given, NEW st \in Layouts(fn), Complete(fn, st), Reaches(fn, st)
        PROVE  Reaches(fn, st)'
    <3> DEFINE b == fn.glyphs[c].bm
               need == mbm_need(b.height, b.width)
    <3>1. /\ HeightRead = b.height /\ WidthsRead = {b.width} /\ Left # 5 /\ st[9 * c + 6] = pos + 6 + need
      BY <1>5, <2>7
    <3>2. w = b.width
      BY <3>1
    <3>3. pos' = st[9 * c + 6]
      BY <2>3, <3>1, <3>2
    <3>4. f'.glyphs[c].bm.height = b.height /\ f'.glyphs[c].bm.width = b.width
      BY <2>4, <2>6, <3>1, <3>2
    <3> HIDE DEF b, need
    <3>5. SameMetrics(fn, c)'
      <4>1. SameMetrics(fn, c)
        BY <1>1, <1>3, <2>7 DEF Reaches
      <4> QED  BY <2>6, <4>1 DEF SameMetrics
    <3>6. SameGlyph(fn, c)'
      BY <3>4, <3>5 DEF SameGlyph, b
    <3>7. ASSUME NEW k \in 1..n - 1 PROVE SameGlyph(fn, k)'
      <4>1. SameGlyph(fn, k)
        BY <1>1, <2>7 DEF Reaches
      <4>2. f'.glyphs[k] = f.glyphs[k]
        <5>1. k \in 1..NGlyphs /\ k # c
          BY <1>2, <1>3, FontAssumption
        <5> QED  BY <2>5, <5>1
      <4> QED  BY <4>1, <4>2, GlyphStays
    <3>8. \A k \in 1..n' - 1 : SameGlyph(fn, k)'
      <4>1. n' - 1 = c /\ \A k \in 1..c : k = c \/ k \in 1..n - 1
        BY <1>2, <1>3, <2>3
      <4> QED  BY <3>6, <3>7, <4>1
    <3>9. f'.ascent = fn.ascent /\ f'.descent = fn.descent
      BY <1>1, <2>5, <2>7 DEF Reaches
    <3>10. pos' = st[9 * n' - 3]
      <4>1. 9 * n' - 3 = 9 * c + 6
        BY <1>2, <1>3, <2>3
      <4> QED  BY <3>3, <4>1
    <3> QED  BY <2>3, <3>8, <3>9, <3>10 DEF Reaches
  <2> QED  BY <1>1, <1>4, <2>3, <2>7, GoesOn
<1> QED  BY <1>6, <1>7

\* The font of a whole file agrees with its bitmaps, for the one that was saved did.
LEMMA WholeCheck ==
  ASSUME FontInv, WholeInv, CheckMetrics
  PROVE  WholeInv'
<1>1. at = "glyph" /\ n > NGlyphs /\ UNCHANGED <<disk, origin>>
  BY DEF CheckMetrics, files
<1>2. CASE checkfontmetrics(f)
  <2>1. at' = "found" /\ UNCHANGED <<place, faults>>
    BY <1>2 DEF CheckMetrics, Goto
  <2>2. Passed'
    BY <1>1, <2>1, NothingPassed
  <2> QED  BY <2>1, <2>2 DEF WholeInv, Succeeds
<1>3. CASE ~checkfontmetrics(f)
  <2>1. GlyphFails
    BY <1>3 DEF CheckMetrics
  <2>2. ASSUME Whole(place), "memory" \notin faults PROVE FALSE
    <3>1. PICK fn \in Given : /\ fn = origin[place]
                              /\ \E st \in Layouts(fn) : Complete(fn, st) /\ Reaches(fn, st)
      BY <1>1, <2>2, BeingRead
    <3>2. PICK st \in Layouts(fn) : Complete(fn, st) /\ Reaches(fn, st)
      BY <3>1
    <3>3. place \in 1..Places /\ File # Absent /\ File \in Seq(Chars) /\ Len(File) \in Nat
      BY <1>1, Reading
    <3>4. File # <<>>
      BY <3>2, <3>3, CompleteFile
    <3>5. checkfontmetrics(fn)
      BY <3>1, <3>3, <3>4 DEF FontInv, FilesInv, File, Saved
    <3>6. f.ascent = fn.ascent /\ f.descent = fn.descent /\ \A k \in 1..n - 1 : SameGlyph(fn, k)
      BY <1>1, <3>2 DEF Reaches
    <3>7. \A k \in 1..NGlyphs : k \in 1..n - 1
      BY <1>1, FontAssumption DEF FontInv, LoadingInv
    <3>8. \A k \in 1..NGlyphs :
            /\ f.glyphs[k].ascent = fn.glyphs[k].ascent /\ f.glyphs[k].descent = fn.glyphs[k].descent
            /\ f.glyphs[k].lbearing = fn.glyphs[k].lbearing /\ f.glyphs[k].rbearing = fn.glyphs[k].rbearing
            /\ f.glyphs[k].bm.height = fn.glyphs[k].bm.height /\ f.glyphs[k].bm.width = fn.glyphs[k].bm.width
      BY <3>6, <3>7 DEF SameGlyph, SameMetrics, Metrics
    <3>9. checkfontmetrics(f)
      BY <3>5, <3>6, <3>8, Zenon DEF checkfontmetrics
    <3> QED  BY <1>3, <3>9
  <2> QED  BY <1>1, <2>1, <2>2, FailsGiveUp, GivenUp
<1> QED  BY <1>2, <1>3

\* The other steps: no file is being read, or there is no memory.
LEMMA WholeElse ==
  ASSUME FontInv, WholeInv, Makefont \/ NoMemory \/ DropFont \/ UNCHANGED vars
  PROVE  WholeInv'
<1>1. CASE Makefont
  <2>1. UNCHANGED loading /\ at \in {"import", "write", "remove"} /\ at' \in {"write", "remove", "locate"}
    BY <1>1 DEF Makefont, Import, Write, RemoveOutput, CloseOutput, Goto
  <2>2. place' = 1
    BY <2>1 DEF loading, FontInv, LoadingInv
  <2>3. 1..place' - 1 = {}
    BY <2>2
  <2> QED  BY <2>1, <2>3 DEF WholeInv, Passed, Succeeds
<1>2. CASE NoMemory
  <2>1. at = "bitmap" /\ NextPlace /\ UNCHANGED <<disk, origin>> /\ faults \subseteq faults' /\ "memory" \in faults'
    BY <1>2 DEF NoMemory, files
  <2> QED  BY <2>1, GivenUp
<1>3. CASE DropFont
  <2>1. at' = "done" /\ UNCHANGED <<disk, origin, place>> /\ faults \subseteq faults'
    BY <1>3 DEF DropFont, Goto, files, dropfont, Free
  <2>2. Passed'
    BY <2>1, NothingPassed
  <2> QED  BY <2>1, <2>2 DEF WholeInv, Succeeds
<1>4. CASE UNCHANGED vars
  <2>1. UNCHANGED <<at, disk, origin, place, pos, f, n, faults>>
    BY <1>4 DEF vars
  <2>2. CASE at \in {"header", "name", "metrics", "glyph", "bitmap"}
    <3>1. ASSUME Whole(place), "memory" \notin faults
          PROVE  \E fn \in Given : /\ fn = origin[place]
                                   /\ \E st \in Layouts(fn) : Complete(fn, st) /\ Reaches(fn, st)'
      <4>1. PICK fn \in Given : /\ fn = origin[place]
                                /\ \E st \in Layouts(fn) : Complete(fn, st) /\ Reaches(fn, st)
        BY <2>2, <3>1, BeingRead
      <4>2. PICK st \in Layouts(fn) : Complete(fn, st) /\ Reaches(fn, st)
        BY <4>1
      <4>3. \A k : SameMetrics(fn, k)' = SameMetrics(fn, k) /\ SameGlyph(fn, k)' = SameGlyph(fn, k)
        BY <2>1, GlyphStays
      <4>4. SameMetrics(fn, n)' = SameMetrics(fn, n)
        BY <2>1 DEF SameMetrics
      <4>5. Reaches(fn, st)'
        BY <2>1, <4>2, <4>3, <4>4 DEF Reaches
      <4> QED  BY <4>1, <4>2, <4>5
    <3>2. at' \in {"header", "name", "metrics", "glyph", "bitmap"}
      BY <2>1, <2>2
    <3> QED  BY <2>1, <3>1, <3>2, GoesOn
  <2>3. CASE at \notin {"header", "name", "metrics", "glyph", "bitmap"}
    <3>1. Passed'
      BY <2>1, NothingPassed
    <3> QED  BY <2>1, <2>3, <3>1 DEF WholeInv, Succeeds
  <2> QED  BY <2>2, <2>3
<1> QED  BY <1>1, <1>2, <1>3, <1>4

LEMMA WholeStep ==
  ASSUME FontInv, WholeInv, [Next]_vars
  PROVE  WholeInv'
<1>1. CASE Ended
  BY <1>1, WholeElse DEF Ended
<1> QED  BY <1>1, WholeLocate, WholeHeader, WholeName, WholeMetrics, WholeGlyph, WholeBitmap, WholeCheck, WholeElse
         DEF Next, Loadfont

-----------------------------------------------------------------------------
(***************************************************************************)
(* The theorems about fonts.                                               *)
(***************************************************************************)

LEMMA MakefontStep ==
  ASSUME FontInv, Makefont
  PROVE  FontInv'
<1>1. UNCHANGED loading /\ at \in {"import", "write", "remove"} /\ at' \in {"write", "remove", "locate"}
  BY DEF Makefont, Import, Write, RemoveOutput, CloseOutput, Goto
<1>2. UNCHANGED <<place, pos, n, f, heap, faults>>
  BY <1>1 DEF loading
<1>3. LoadingInv'
  BY <1>1, <1>2 DEF FontInv, LoadingInv, Labels
<1>4. HeapInv'
  BY <1>1, <1>2 DEF FontInv, HeapInv
<1>5. FilesInv' /\ MakingInv'
  <2>1. CASE Write
    <3>1. UNCHANGED <<disk, origin>>
      BY <2>1 DEF Write, files
    <3>2. FilesInv'
      BY <3>1 DEF FontInv, FilesInv
    <3> QED  BY <2>1, <3>2, WriteStep
  <2> QED  BY <2>1, ImportStep, OutputStep DEF Makefont
<1> QED  BY <1>3, <1>4, <1>5 DEF FontInv

\* What holds of files, of makefont and of loadfont() at every moment: what a file begins
\* with, and which blocks the font that is being loaded has.
THEOREM FontInvariant == Spec => []FontInv
<1>1. Init => FontInv
  BY InitFonts
<1>2. FontInv /\ [Next]_vars => FontInv'
  <2> SUFFICES ASSUME FontInv, [Next]_vars PROVE FontInv'
    OBVIOUS
  <2>1. CASE Makefont
    BY <2>1, MakefontStep
  <2>2. CASE TryFont \/ CannotLocate
    BY <2>2, LocateStep
  <2>3. CASE Loadfont
    BY <2>3, ReadHeaderStep, ReadNameStep, ReadMetricsStep, ReadGlyphStep, LoadBitmapStep, NoMemoryStep,
       CheckMetricsStep DEF Loadfont
  <2>4. CASE DropFont
    BY <2>4, DropFontStep
  <2>5. CASE Ended \/ UNCHANGED vars
    <3>1. UNCHANGED vars
      BY <2>5 DEF Ended
    <3> QED  BY <3>1 DEF vars, FontInv, FilesInv, MakingInv, LoadingInv, HeapInv, File, Blocks, Loaded
  <2> QED  BY <2>1, <2>2, <2>3, <2>4, <2>5 DEF Next
<1> QED  BY <1>1, <1>2, PTL DEF Spec

\* Every variable keeps its type; what loadfont() makes of any beginning of any file, whole
\* or not, is a font whose metrics fit a short and whose bitmaps have as many bits as they say.
THEOREM FontTypeOK == Spec => []TypeOK
<1>1. FontInv => TypeOK
  <2> SUFFICES ASSUME FontInv PROVE TypeOK
    OBVIOUS
  <2>1. /\ at \in Labels /\ short \in 0..MaxShortWrites /\ target \in 1..Places /\ place \in 1..Places + 1
        /\ at \in {"header", "name", "metrics", "glyph", "bitmap"} => place <= Places /\ pos \in 0..Len(File)
        /\ n \in 0..NGlyphs + 1 /\ faults \subseteq {"memory", "misuse"}
    BY DEF FontInv, MakingInv, LoadingInv, HeapInv
  <2>2. \A i \in 1..Places : \A k \in 1..Len(disk[i]) : disk[i][k] \in 0..BitmapMagic
    BY FilesType DEF FontInv, Chars
  <2>3. IsFont(f)
    BY DEF FontInv, LoadingInv
  <2>4. heap \subseteq {FontBlock} \cup UNION {GlyphBlocks(k) : k \in 1..NGlyphs}
    <3>1. ASSUME NEW last \in Int, last <= NGlyphs
          PROVE  Blocks(last) \subseteq {FontBlock} \cup UNION {GlyphBlocks(k) : k \in 1..NGlyphs}
      <4>1. 1..last \subseteq 1..NGlyphs
        BY <3>1, FontAssumption
      <4> QED  BY <4>1 DEF Blocks
    <3>2. 0 <= NGlyphs /\ NGlyphs \in Int /\ n - 1 \in Int /\ n - 1 <= NGlyphs
      BY <2>1, FontAssumption
    <3>3. heap = {} \/ heap = Blocks(0) \/ heap = Blocks(n - 1) \/ heap = Blocks(NGlyphs)
      BY <2>1 DEF FontInv, HeapInv, Labels
    <3> QED  BY <3>1, <3>2, <3>3
  <2> QED  BY <2>1, <2>2, <2>3, <2>4 DEF TypeOK
<1> QED  BY <1>1, FontInvariant, PTL

\* Whatever is wrong with a file, and wherever memory is exhausted: what was allocated for
\* it is freed, once, and nothing else is (loadfont.c:55-56, dropfont.c:34-40).
THEOREM FontNothingLeaks == Spec => []NothingLeaks
<1>1. FontInv => NothingLeaks
  BY DEF FontInv, HeapInv, NothingLeaks
<1> QED  BY <1>1, FontInvariant, PTL

\* A font that loads is the font that was saved, whatever happened to its file.  A bitmap is
\* accepted only at a magic number, and these are only where bitmaps were written.  Either
\* each glyph was read where it is, and then its bits are all there or its metrics, which are
\* checked, would not agree; or a glyph was passed, and the file has too few for the others.
THEOREM FontLoadedIsSaved == Spec => []LoadedIsSaved
<1>1. Init => RestoredInv
  BY DEF Init, RestoredInv, MetricsRead, LoadedIsSaved
<1>2. FontInv /\ RestoredInv /\ [Next]_vars => RestoredInv'
  BY RestoredStep
<1>3. RestoredInv => LoadedIsSaved
  BY DEF RestoredInv
<1> QED  BY <1>1, <1>2, <1>3, FontInvariant, PTL DEF Spec

\* slap does without a font only when there is none: of a whole file, whose name can be read,
\* each part is found where it is, so that only want of memory makes loadfont() give it up.
THEOREM FontWholeIsFound == Spec => []WholeIsFound
<1>1. Init => WholeInv
  BY WholeInit
<1>2. FontInv /\ WholeInv /\ [Next]_vars => WholeInv'
  BY WholeStep
<1>3. FontInv /\ WholeInv => WholeIsFound
  <2> SUFFICES ASSUME FontInv, WholeInv, at = "lost", "memory" \notin faults, NEW i \in 1..Places,
                      disk[i] # Absent, disk[i] = Image(origin[i]), ~(Len(origin[i].name) > NameMax - 2)
               PROVE  FALSE
    BY DEF WholeIsFound
  <2>1. i \in 1..place - 1
    BY FontAssumption DEF WholeInv, FontInv, LoadingInv
  <2>2. ~Whole(i)
    BY <2>1 DEF WholeInv, Passed
  <2>3. Len(origin[i].name) \in Nat /\ NameMax \in Nat
    <3>1. origin[i] \in Given
      BY DEF FontInv, FilesInv
    <3> QED  BY <3>1, GivenFonts, FontAssumption
  <2> QED  BY <2>2, <2>3 DEF Whole
<1> QED  BY <1>1, <1>2, <1>3, FontInvariant, PTL DEF Spec

=============================================================================
