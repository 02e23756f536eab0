--------------------------- MODULE PlusPrintProofs ---------------------------
(***************************************************************************)
(* PlusPrint keeps its head and its paper on track, and prints what Label  *)
(* promises, for every size of label, every height of the print head and   *)
(* every set of bitmaps.  The argument is the inductive invariant IInv of  *)
(* PlusPrint; around it stand facts about largest and smallest elements,   *)
(* and about the rows of bands.                                            *)
(***************************************************************************)
EXTENDS PlusPrint, TLAPS, WellFoundedInduction

-----------------------------------------------------------------------------
(***************************************************************************)
(* Largest and smallest elements.                                          *)
(***************************************************************************)

\* A nonempty set of natural numbers has a smallest element.
LEMMA LeastExists ==
  ASSUME NEW S \in SUBSET Nat, S # {}
  PROVE  \E x \in S : \A y \in S : x <= y
<1> DEFINE Less == {ss \in Nat \X Nat : ss[1] < ss[2]}
<1>1. IsWellFoundedOn(Less, Nat)
  BY NatLessThanWellFounded, Zenon DEF OpToRel
<1>2. PICK x \in S : \A y \in S : ~(<<y, x>> \in Less)
  BY <1>1, WFMin
<1>3. ASSUME NEW y \in S PROVE x <= y
  <2>1. x \in Nat /\ y \in Nat /\ <<y, x>> \in Nat \X Nat
    OBVIOUS
  <2>2. ~(y < x)
    BY <1>2, <2>1
  <2> QED
    BY <2>1, <2>2
<1> QED
  BY <1>3

\* A nonempty set of natural numbers below n has a largest element.
LEMMA GreatestExists ==
  ASSUME NEW n \in Nat, NEW S \in SUBSET (0..n), S # {}
  PROVE  \E x \in S : \A y \in S : y <= x
<1> DEFINE T == {n - x : x \in S}
<1>1. T \in SUBSET Nat /\ T # {}
  <2>1. \A x \in S : n - x \in Nat
    OBVIOUS
  <2> QED
    BY <2>1
<1>2. PICK t \in T : \A u \in T : t <= u
  BY <1>1, LeastExists
<1>3. PICK x \in S : t = n - x
  OBVIOUS
<1>4. ASSUME NEW y \in S PROVE y <= x
  <2>1. n - y \in T
    OBVIOUS
  <2>2. n - x <= n - y
    BY <1>2, <1>3, <2>1
  <2> QED
    BY <2>2
<1> QED
  BY <1>4

-----------------------------------------------------------------------------
(***************************************************************************)
(* Rows and bands.                                                         *)
(***************************************************************************)

\* The pairs of a row and a slice that Dots consists of.
LEMMA DotType == \A d \in Dots : d[1] \in 0..NBands * H - 1 /\ d[2] \in 0..NSlices - 1
BY DEF Dots

\* The first rows of neighbouring bands are as far apart as the feed between them.
LEMMA FirstRowStep ==
  ASSUME NEW b \in Nat
  PROVE  /\ FirstRow(b) \in Nat
         /\ FirstRow(b + 1) = FirstRow(b) + (IF b % 2 = 1 THEN 2 * H - 1 ELSE 1)
<1>1. H \in Nat
  BY PlusAssumption
<1>2. CASE b % 2 = 0
  <2>1. b - (b % 2) = b /\ (b + 1) % 2 = 1 /\ (b + 1) - ((b + 1) % 2) = b
    BY <1>2
  <2>2. FirstRow(b) = b * H /\ FirstRow(b + 1) = b * H + 1
    BY <2>1, <1>1, <1>2 DEF FirstRow
  <2> QED
    BY <2>2, <1>1, <1>2
<1>3. CASE b % 2 = 1
  <2>1. b - (b % 2) = b - 1 /\ (b + 1) % 2 = 0 /\ (b + 1) - ((b + 1) % 2) = b + 1 /\ b - 1 \in Nat
    BY <1>3
  <2>2. FirstRow(b) = (b - 1) * H + 1 /\ FirstRow(b + 1) = (b + 1) * H
    BY <2>1, <1>1, <1>3 DEF FirstRow
  <2>3. (b + 1) * H = (b - 1) * H + 2 * H /\ (b - 1) * H \in Nat
    BY <1>1, <2>1
  <2> QED
    BY <2>2, <2>3, <1>1, <1>3
<1> QED
  BY <1>2, <1>3

\* The quotient, where there are that many whole divisors and less than one more.
LEMMA Quotient ==
  ASSUME NEW p \in Nat, NEW m \in Nat \ {0}, NEW k \in 0..m - 1
  PROVE  (p * m + k) \div m = p
<1> DEFINE x == p * m + k
           q == x \div m
<1>1. x \in Nat /\ q \in Nat /\ m * q <= x /\ x < m * (q + 1)
  OBVIOUS
<1>2. ~(q > p)
  <2>1. SUFFICES ASSUME q >= p + 1 PROVE FALSE
    BY <1>1
  <2>2. m * q >= m * (p + 1)
    BY <2>1, <1>1
  <2> QED  BY <2>2, <1>1
<1>3. ~(q < p)
  <2>1. SUFFICES ASSUME p >= q + 1 PROVE FALSE
    BY <1>1
  <2>2. m * p >= m * (q + 1)
    BY <2>1, <1>1
  <2> QED  BY <2>2, <1>1
<1> QED  BY <1>1, <1>2, <1>3

\* The rows of a band, two apart, and no other ones, belong to it.
LEMMA RowOfBand ==
  ASSUME NEW b \in Nat, NEW n \in 0..H - 1, NEW s
  PROVE  FirstRow(b) + 2 * n \in Nat /\ BandOf(<<FirstRow(b) + 2 * n, s>>) = b
<1> DEFINE p == b \div 2
           o == b % 2
           r == FirstRow(b) + 2 * n
<1>1. H \in Nat /\ H > 0 /\ n \in Nat /\ 2 * n <= 2 * H - 2
  BY PlusAssumption
<1>2. p \in Nat /\ o \in 0..1 /\ b = 2 * p + o
  OBVIOUS
<1>3. p * (2 * H) \in Nat
  BY <1>1, <1>2
<1>4. r = p * (2 * H) + (o + 2 * n)
  <2>1. FirstRow(b) = (2 * p) * H + o
    BY <1>2 DEF FirstRow
  <2>2. (2 * p) * H = p * (2 * H)
    BY <1>1, <1>2
  <2> QED  BY <2>1, <2>2, <1>1, <1>2, <1>3
<1>5. o + 2 * n \in 0..2 * H - 1
  BY <1>1, <1>2
<1>6. r \div (2 * H) = p
  BY <1>1, <1>2, <1>4, <1>5, Quotient
<1>7. r % 2 = o
  <2>1. r = 2 * (p * H + n) + o /\ p * H + n \in Nat
    BY <1>1, <1>2, <1>4
  <2> HIDE DEF r, p
  <2> QED  BY <2>1, <1>2
<1>8. r \in Nat
  BY <1>1, <1>2, <1>3, <1>4
<1> QED  BY <1>2, <1>6, <1>7, <1>8 DEF BandOf

LEMMA BandOfRow ==
  ASSUME NEW d \in Dots
  PROVE  \E n \in 0..H - 1 : d = <<FirstRow(BandOf(d)) + 2 * n, d[2]>>
<1> DEFINE r == d[1]
           q == r \div (2 * H)
           o == r % 2
           n == (r - q * (2 * H) - o) \div 2
<1>1. H \in Nat /\ H > 0 /\ r \in Nat /\ d = <<r, d[2]>>
  BY PlusAssumption DEF Dots
<1>2. q \in Nat /\ q * (2 * H) <= r /\ r < q * (2 * H) + 2 * H
  BY <1>1
<1>3. o \in 0..1 /\ q * (2 * H) = 2 * (q * H) /\ q * H \in Nat
  BY <1>1, <1>2
<1>4. r = q * (2 * H) + o + 2 * n /\ n \in 0..H - 1
  <2> DEFINE m == q * H
  <2>1. m \in Nat /\ 2 * m <= r /\ r < 2 * m + 2 * H /\ n = (r - 2 * m - o) \div 2
    BY <1>2, <1>3
  <2> HIDE DEF m, q, r
  <2>2. r \in Nat
    BY <1>1
  <2> QED  BY <2>1, <2>2, <1>1, <1>3
<1>5. FirstRow(BandOf(d)) = q * (2 * H) + o
  <2>1. BandOf(d) = 2 * q + o
    BY DEF BandOf
  <2>2. (2 * q + o) % 2 = o
    BY <1>2, <1>3
  <2>3. FirstRow(BandOf(d)) = (2 * q) * H + o
    BY <2>1, <2>2, <1>2, <1>3 DEF FirstRow
  <2> QED  BY <2>3, <1>1, <1>2
<1> QED  BY <1>1, <1>4, <1>5

\* Every dot belongs to a band of the label.
LEMMA BandOfType ==
  ASSUME NEW d \in Dots
  PROVE  BandOf(d) \in 0..NBands - 1
<1> DEFINE r == d[1]
           q == r \div (2 * H)
           p == NBands \div 2
<1>1. H \in Nat /\ H > 0 /\ NBands \in Nat /\ NBands = 2 * p /\ p \in Nat
  BY PlusAssumption
<1>2. r \in Nat /\ r < NBands * H
  BY DotType, <1>1
<1>3. q \in Nat /\ (2 * H) * q <= r
  BY <1>1, <1>2
<1>4. q < p
  <2>1. SUFFICES ASSUME q >= p PROVE FALSE
    BY <1>1, <1>3
  <2>2. (2 * H) * q >= (2 * H) * p
    BY <2>1, <1>1, <1>3
  <2>3. (2 * H) * p = NBands * H
    BY <1>1
  <2> QED
    BY <2>2, <2>3, <1>1, <1>2, <1>3
<1>5. r % 2 \in 0..1 /\ BandOf(d) = 2 * q + (r % 2)
  BY <1>2 DEF BandOf
<1> QED
  BY <1>1, <1>3, <1>4, <1>5

\* The dirty zone of a band that has marks: its edges are slices.
LEMMA EdgesType ==
  ASSUME NEW b, Dirty(b) # {}
  PROVE  /\ BandMin(b) \in 0..NSlices - 1 /\ BandMax(b) \in 0..NSlices - 1
         /\ BandMin(b) <= BandMax(b)
         /\ Dirty(b) \subseteq BandMin(b)..BandMax(b)
<1>1. NSlices \in Nat /\ NSlices > 0 /\ NSlices - 1 \in Nat
  BY PlusAssumption
<1>2. Dirty(b) \in SUBSET (0..NSlices - 1) /\ Dirty(b) \in SUBSET Nat
  BY <1>1 DEF Dirty
<1>3. Min(Dirty(b)) \in Dirty(b) /\ (\A y \in Dirty(b) : Min(Dirty(b)) <= y)
  <2>1. \E x \in Dirty(b) : \A y \in Dirty(b) : x <= y
    BY <1>2, LeastExists
  <2> QED
    BY <2>1 DEF Min
<1>4. Max(Dirty(b)) \in Dirty(b) /\ (\A y \in Dirty(b) : Max(Dirty(b)) >= y)
  <2>1. \E x \in Dirty(b) : \A y \in Dirty(b) : y <= x
    BY <1>1, <1>2, GreatestExists
  <2>2. \E x \in Dirty(b) : \A y \in Dirty(b) : x >= y
    BY <2>1, <1>2
  <2> QED
    BY <2>2 DEF Max
<1> QED
  BY <1>2, <1>3, <1>4 DEF BandMin, BandMax


\* The band recorded when the bitmap has been mapped is a band of the label.
LEMMA MappedLastType ==
  ASSUME NEW img \in SUBSET Dots
  PROVE  MappedLast(img) \in 0..NBands - 1
<1> USE PlusAssumption
<1>1. CASE img = {}
  BY <1>1 DEF MappedLast
<1>2. CASE img # {}
  <2> DEFINE pair(x) == x[1] \div (2 * H)
             P == {pair(d) : d \in img}
  <2>0. NBands * H \in Nat /\ NSlices \in Nat /\ (\A d \in img : d \in Dots)
    OBVIOUS
  <2>1. \A d \in img : /\ d[1] \in Nat /\ d[1] <= NBands * H /\ d[2] \in Nat /\ d[2] <= NSlices
                        /\ pair(d) \in Nat /\ pair(d) <= NBands * H
    <3> SUFFICES ASSUME NEW d \in img
                 PROVE  /\ d[1] \in Nat /\ d[1] <= NBands * H /\ d[2] \in Nat /\ d[2] <= NSlices
                        /\ pair(d) \in Nat /\ pair(d) <= NBands * H
      OBVIOUS
    <3>1. d[1] \in Nat /\ d[1] <= NBands * H /\ d[2] \in Nat /\ d[2] <= NSlices
      BY DotType, <2>0
    <3>2. pair(d) \in Nat /\ (2 * H) * pair(d) <= d[1]
      BY <3>1
    <3>3. pair(d) <= (2 * H) * pair(d)
      BY <3>2
    <3> QED
      BY <3>1, <3>2, <3>3, <2>0
  <2>2. PICK p \in P : \A y \in P : y <= p
    <3>1. P \in SUBSET (0..NBands * H) /\ P # {}
      BY <1>2, <2>0, <2>1
    <3> QED
      BY <3>1, <2>0, GreatestExists
  <2> DEFINE A == {d \in img : pair(d) = p}
             C == {d[2] : d \in A}
  <2>3. PICK c \in C : \A y \in C : y <= c
    <3>1. C \in SUBSET (0..NSlices) /\ C # {}
      BY <2>0, <2>1, <2>2
    <3> HIDE DEF C
    <3> QED
      BY <3>1, <2>0, GreatestExists
  <2> DEFINE B == {d \in A : d[2] = c}
             R == {d[1] : d \in B}
  <2>4. PICK r \in R : \A y \in R : y <= r
    <3>1. R \in SUBSET (0..NBands * H) /\ R # {}
      BY <2>0, <2>1, <2>3
    <3> HIDE DEF R
    <3> QED
      BY <3>1, <2>0, GreatestExists
  <2>5. PICK d \in B : d[1] = r
    BY <2>4
  <2>6. ASSUME NEW e \in img PROVE Met(e, d)
    <3>1. d \in img /\ pair(d) = p /\ d[2] = c
      BY <2>5
    <3>2. pair(e) \in Nat /\ e[2] \in Nat /\ e[1] \in Nat /\ p \in Nat /\ c \in Nat /\ pair(e) <= p
      BY <2>1, <2>2, <3>1
    <3>3. pair(e) = p => e[2] <= c
      BY <2>3
    <3>4. pair(e) = p /\ e[2] = c => e[1] <= d[1]
      BY <2>4, <2>5
    <3> QED
      BY <3>1, <3>2, <3>3, <3>4 DEF Met
  <2> DEFINE last == CHOOSE x \in img : \A e \in img : Met(e, x)
  <2>7. last \in img
    BY <2>5, <2>6
  <2>8. BandOf(last) \in 0..NBands - 1
    BY <2>7, <2>0, BandOfType
  <2> QED
    BY <1>2, <2>8 DEF MappedLast
<1> QED
  BY <1>1, <1>2

-----------------------------------------------------------------------------
(***************************************************************************)
(* The invariant is inductive.                                             *)
(***************************************************************************)

\* At printlabel()'s entry the head is homed and there is no bitmap to map yet.
LEMMA InitIInv == Init => IInv
BY PlusAssumption DEF Init, IInv, TypeOK, OnTrack, LoopInv, AtLabels, Dots, Margin

\* A head on track is within the printer's reach.
LEMMA HeadRange == \A p \in 0..NSlices : p + Margin \in 0..NSlices + Margin
<1>1. NSlices \in Nat
  BY PlusAssumption
<1> QED
  BY <1>1 DEF Margin

\* A blank feed starts a label; its bitmap is mapped.
LEMMA StartStep == IInv /\ Start => IInv'
<1> SUFFICES ASSUME IInv, Start PROVE IInv'
  OBVIOUS
<1>1. image' \in SUBSET Dots
  BY PlusAssumption DEF Start
<1>2. lastband' \in 0..NBands
  BY <1>1, MappedLastType, PlusAssumption DEF Start
<1>3. TypeOK'
  <2>1. TypeOK /\ UNCHANGED <<band, pos, head>>
    BY DEF IInv, Start
  <2>2. at' \in AtLabels /\ tof' \in BOOLEAN /\ line' \in Nat /\ ink' \subseteq Dots
    BY DEF Start, Goto, AtLabels
  <2>3. count' \in 0..Labels
    BY <2>1, PlusAssumption DEF TypeOK, Start
  <2> QED
    BY <1>1, <1>2, <2>1, <2>2, <2>3 DEF TypeOK
<1>4. OnTrack' /\ LoopInv'
  BY DEF OnTrack, LoopInv, Start, Goto
<1> QED
  BY <1>3, <1>4 DEF IInv

\* The loop begins at the first row, two slices in.
LEMMA HomeStep == IInv /\ Home => IInv'
<1> SUFFICES ASSUME IInv, Home PROVE IInv'
  OBVIOUS
<1> USE PlusAssumption DEF Home, Goto
<1>1. lastband' \in 0..NBands
  BY DEF IInv, TypeOK, Adjusted
<1>2. TypeOK'
  BY <1>1 DEF IInv, TypeOK, AtLabels, Margin
<1>3. OnTrack'
  <2>1. 0 % 2 = 0 /\ FirstRow(0) = 0
    BY DEF FirstRow
  <2>2. line' = 0 /\ band' = 0
    BY DEF IInv, LoopInv
  <2>3. head' = pos' + Margin
    BY DEF Margin
  <2> QED
    BY <2>1, <2>2, <2>3 DEF OnTrack
<1>4. LoopInv'
  BY DEF IInv, LoopInv
<1> QED
  BY <1>2, <1>3, <1>4 DEF IInv

\* The loop test, and the test for marks.
LEMMA NextBandStep == IInv /\ NextBand => IInv'
<1> SUFFICES ASSUME IInv, NextBand PROVE IInv'
  OBVIOUS
<1> USE PlusAssumption DEF NextBand, Goto
<1>1. UNCHANGED <<host, pos, printer, count>> /\ at = "band"
  OBVIOUS
<1>2. UNCHANGED <<image, lastband, band, tof, pos, head, line, ink, count>>
  BY <1>1 DEF host, printer
<1>3. TypeOK'
  BY <1>2 DEF IInv, TypeOK, AtLabels
<1>4. OnTrack'
  BY <1>1, <1>2 DEF IInv, OnTrack, FirstRow
<1>5. LoopInv'
  <2>1. at' \in {"eject", "move", "feed", "overrun"} /\ (at' \in {"move", "feed"} => band <= lastband)
    OBVIOUS
  <2>2. at' = "move" => band < NBands /\ Dirty(band) # {}
    BY DEF BandMax
  <2>3. Dirty(band)' = Dirty(band)
    BY <1>2 DEF Dirty, Pins
  <2> QED
    BY <1>1, <1>2, <2>1, <2>2, <2>3 DEF IInv, LoopInv
<1> QED
  BY <1>3, <1>4, <1>5 DEF IInv

\* The movements to the dirty zone, and the overshoot behind it.
LEMMA MoveStep == IInv /\ (MoveForward \/ MoveBack \/ Overshoot) => IInv'
<1> SUFFICES ASSUME IInv, MoveForward \/ MoveBack \/ Overshoot PROVE IInv'
  OBVIOUS
<1> USE PlusAssumption DEF MoveForward, MoveBack, Overshoot, MoveRight, MoveLeft, Goto
<1>1. UNCHANGED <<image, lastband, band, tof, line, ink, count>>
  BY DEF host
<1>2. /\ at \in {"move", "overshoot"} /\ at' \in {"overshoot", "strike"}
      /\ head = pos + Margin /\ line = FirstRow(band)
      /\ band <= lastband /\ band < NBands /\ Dirty(band) # {} /\ ~tof
      /\ pos \in 0..NSlices /\ band \in Nat
  BY DEF IInv, OnTrack, LoopInv, TypeOK
<1>3. /\ BandMin(band) \in 0..NSlices - 1
      /\ BandMin(band)' = BandMin(band) /\ Dirty(band)' = Dirty(band)
  BY <1>1, <1>2, EdgesType DEF Dirty, Pins, BandMin
<1>4. pos' \in 0..NSlices /\ head' = pos' + Margin
  <2>1. CASE MoveForward
    BY <1>2, <1>3, <2>1 DEF Margin
  <2>2. CASE MoveBack
    BY <1>2, <1>3, <2>2 DEF Margin
  <2>3. CASE Overshoot
    <3>1. pos \in Nat /\ pos > 0 /\ pos <= NSlices /\ head = pos + 2
      BY <1>2, <2>3 DEF IInv, LoopInv, Margin
    <3>2. CASE pos > 1
      BY <2>3, <3>1, <3>2 DEF Margin
    <3>3. CASE pos = 1
      BY <2>3, <3>1, <3>3 DEF Margin
    <3> QED
      BY <3>1, <3>2, <3>3
  <2> QED
    BY <2>1, <2>2, <2>3
<1>5. /\ at' = "overshoot" => pos' = BandMin(band) /\ pos' > 0
      /\ at' = "strike" => pos' <= BandMin(band)
  BY <1>2, <1>3 DEF IInv, LoopInv
<1> HIDE DEF MoveForward, MoveBack, Overshoot
<1>6. TypeOK'
  <2>1. TypeOK /\ at' \in AtLabels
    BY <1>2 DEF IInv, AtLabels
  <2>2. head' \in 0..NSlices + Margin
    BY <1>4, HeadRange
  <2> QED
    BY <1>1, <1>4, <2>1, <2>2 DEF TypeOK
<1>7. OnTrack'
  BY <1>1, <1>2, <1>4 DEF OnTrack, FirstRow
<1>8. LoopInv'
  BY <1>1, <1>2, <1>3, <1>5 DEF LoopInv
<1> QED
  BY <1>6, <1>7, <1>8 DEF IInv

\* What the head burns are dots of the bitmap, on the rows it reaches: the
\* head is on track, and starts at pos.
LEMMA StrikeBurns ==
  ASSUME IInv, StrikeBand
  PROVE  /\ ink \subseteq ink'
         /\ \A d \in ink' \ ink : d \in image /\ \E n \in 0..H - 1 : d[1] = line + 2 * n
<1>1. /\ head = pos + Margin /\ line = FirstRow(band)
      /\ pos \in 0..NSlices /\ Dirty(band) # {}
  BY DEF IInv, TypeOK, OnTrack, LoopInv, StrikeBand
<1>2. BandMax(band) \in 0..NSlices - 1 /\ NSlices \in Nat
  BY <1>1, EdgesType, PlusAssumption
<1> DEFINE burned(s) == {<<line + 2 * n, head - Margin + (s - pos)>> : n \in Pins(band, s)}
<1>3. ink' = ink \cup UNION {burned(s) : s \in pos..BandMax(band)}
  BY DEF StrikeBand, Strike
<1>4. ASSUME NEW s \in pos..BandMax(band), NEW d \in burned(s)
      PROVE  d \in image /\ \E n \in 0..H - 1 : d[1] = line + 2 * n
  <2>1. PICK n \in Pins(band, s) : d = <<line + 2 * n, head - Margin + (s - pos)>>
    OBVIOUS
  <2>2. head - Margin + (s - pos) = s
    BY <1>1, <1>2 DEF Margin
  <2>3. n \in 0..H - 1 /\ <<FirstRow(band) + 2 * n, s>> \in image
    BY <2>1 DEF Pins
  <2> QED
    BY <1>1, <2>1, <2>2, <2>3
<1> QED
  BY <1>3, <1>4

\* A strike leaves the head behind the slices it burnt, and pos says so.
LEMMA StrikeStep == IInv /\ StrikeBand => IInv'
<1> SUFFICES ASSUME IInv, StrikeBand PROVE IInv'
  OBVIOUS
<1> USE PlusAssumption
<1>1. /\ at' = "feed" /\ pos' = BandMax(band) + 1
      /\ UNCHANGED <<image, lastband, band, tof, line, count>>
  BY DEF StrikeBand, Goto, host
<1>2. /\ TypeOK /\ head = pos + Margin /\ line = FirstRow(band) /\ band <= lastband
      /\ pos \in 0..NSlices /\ Dirty(band) # {} /\ ~tof
  BY DEF IInv, TypeOK, OnTrack, LoopInv, StrikeBand
<1>3. BandMax(band) \in 0..NSlices - 1
  BY <1>2, EdgesType
<1>4. pos' \in 0..NSlices /\ head' = pos' + Margin
  <2>1. head' = head + (BandMax(band) - pos + 1)
    BY DEF StrikeBand, Strike
  <2> QED
    BY <1>1, <1>2, <1>3, <2>1 DEF Margin
<1>5. head' \in 0..NSlices + Margin
  BY <1>4, HeadRange
<1>6. ink' \subseteq Dots
  BY <1>2, StrikeBurns DEF TypeOK
<1>7. TypeOK'
  BY <1>1, <1>2, <1>4, <1>5, <1>6 DEF TypeOK, AtLabels
<1>8. OnTrack'
  BY <1>1, <1>2, <1>4 DEF OnTrack, FirstRow
<1>9. LoopInv'
  BY <1>1, <1>2 DEF LoopInv
<1> QED
  BY <1>7, <1>8, <1>9 DEF IInv

\* The feed after a band leads to the first row of the next one.
LEMMA FeedStep == IInv /\ FeedBand => IInv' /\ line' \in Nat /\ line' > line
<1> SUFFICES ASSUME IInv, FeedBand PROVE IInv' /\ line' \in Nat /\ line' > line
  OBVIOUS
<1> USE PlusAssumption
<1>1. /\ at' = "band" /\ band' = band + 1
      /\ UNCHANGED <<image, lastband, pos, tof, head, ink, count>>
  BY DEF FeedBand, Goto
<1>2. /\ TypeOK /\ head = pos + Margin /\ line = FirstRow(band) /\ band <= lastband
      /\ band \in Nat /\ lastband \in 0..NBands /\ ~tof
  BY DEF IInv, TypeOK, OnTrack, LoopInv, FeedBand
<1>3. line' = line + (IF band % 2 = 1 THEN 2 * H - 1 ELSE 1)
  BY DEF FeedBand, FeedAfter
<1>4. line \in Nat /\ line' = FirstRow(band + 1)
  BY <1>2, <1>3, FirstRowStep
<1>5. line' \in Nat /\ line' > line
  BY <1>3, <1>4
<1>6. TypeOK'
  <2>1. band' \in 0..NBands + 1
    BY <1>1, <1>2
  <2> QED
    BY <1>1, <1>2, <1>5, <2>1 DEF TypeOK, AtLabels
<1>7. OnTrack'
  BY <1>1, <1>2, <1>4 DEF OnTrack, FirstRow
<1>8. LoopInv'
  BY <1>1, <1>2 DEF LoopInv
<1> QED
  BY <1>5, <1>6, <1>7, <1>8 DEF IInv

\* The end of a label, and the ways out of printlabel().
LEMMA LeaveStep == IInv /\ (Eject \/ Fail \/ UNCHANGED vars) => IInv'
<1> SUFFICES ASSUME IInv, Eject \/ Fail \/ UNCHANGED vars PROVE IInv'
  OBVIOUS
<1> USE PlusAssumption
<1>1. CASE Eject
  <2>1. TypeOK'
    BY <1>1 DEF IInv, TypeOK, Eject, Goto, AtLabels, Margin
  <2> QED
    BY <1>1, <2>1 DEF IInv, OnTrack, LoopInv, Eject, Goto
<1>2. CASE Fail
  <2>1. TypeOK'
    BY <1>2 DEF IInv, TypeOK, Fail, Goto, AtLabels, host, printer
  <2> QED
    BY <1>2, <2>1 DEF IInv, OnTrack, LoopInv, Fail, Goto
<1>3. CASE UNCHANGED vars
  BY <1>3 DEF IInv, TypeOK, OnTrack, LoopInv, vars, FirstRow, Dirty, Pins, BandMin
<1> QED
  BY <1>1, <1>2, <1>3

\* Every statement of printlabel() keeps the inductive invariant.
LEMMA Inductive == IInv /\ [Next]_vars => IInv'
BY StartStep, HomeStep, NextBandStep, MoveStep, StrikeStep, FeedStep, LeaveStep
   DEF Next, PrintLabel, Over

\* The inductive invariant: at every statement of printlabel(), pos and line
\* agree with the head and the paper, and the loop's bounds with the bitmap's bands.
THEOREM Invariance == Spec => []IInv
BY InitIInv, Inductive, PTL DEF Spec

-----------------------------------------------------------------------------
(***************************************************************************)
(* The theorems.                                                           *)
(***************************************************************************)

\* TypeOK: printlabel()'s variables keep their types; pos and the head stay
\* within the label's width.
THEOREM TypeCorrect == Spec => []TypeOK
<1>1. IInv => TypeOK
  BY DEF IInv
<1> QED
  BY <1>1, Invariance, PTL

\* OnTrack: the dead reckoning of slplus.c:878-936 is right: at every band, the
\* head is where pos says and the paper is at the band's first row.
THEOREM StaysOnTrack == Spec => []OnTrack
<1>1. IInv => OnTrack
  BY DEF IInv
<1> QED
  BY <1>1, Invariance, PTL

\* The loop's bound follows the bitmap through printlabel().
LEMMA BoundKept == IInv /\ LastInv /\ [Next]_vars => LastInv'
<1> SUFFICES ASSUME IInv, LastInv, [Next]_vars PROVE LastInv'
  OBVIOUS
<1>1. CASE Start
  BY <1>1 DEF Start, Goto, LastInv
<1>2. CASE Home
  BY <1>2 DEF Home, Goto, LastInv
<1>3. CASE NextBand
  BY <1>3 DEF NextBand, Goto, LastInv, host
<1>4. CASE MoveForward \/ MoveBack \/ Overshoot \/ StrikeBand \/ FeedBand
  BY <1>4 DEF MoveForward, MoveBack, Overshoot, StrikeBand, FeedBand, Goto, LastInv, host
<1>5. CASE Eject \/ Fail
  BY <1>5 DEF Eject, Fail, Goto, LastInv
<1>6. CASE UNCHANGED vars
  BY <1>6 DEF vars, LastInv
<1> QED
  BY <1>1, <1>2, <1>3, <1>4, <1>5, <1>6 DEF Next, PrintLabel, Over

\* OverrunOnlyAtEnd: slplus.c:878 reads map[nbands], and takes what it finds there for a
\* band, only when the bitmap's last dot is on the last band of the label.
THEOREM OverrunsAtEnd == Spec => []OverrunOnlyAtEnd
<1> DEFINE Inv == IInv /\ LastInv /\ (at = "overrun" => band = NBands /\ band <= lastband)
<1>1. Init => Inv
  BY InitIInv DEF Init, LastInv
<1>2. Inv /\ [Next]_vars => Inv'
  <2> SUFFICES ASSUME Inv, [Next]_vars PROVE Inv'
    OBVIOUS
  <2>1. IInv' /\ LastInv'
    BY Inductive, BoundKept
  <2>2. (at = "overrun" => band = NBands /\ band <= lastband)'
    <3>1. CASE NextBand
      BY <3>1 DEF NextBand, Goto, host
    <3>2. CASE UNCHANGED vars
      BY <3>2 DEF vars
    <3>3. CASE Start \/ Home \/ MoveForward \/ MoveBack \/ Overshoot \/ StrikeBand \/ FeedBand \/ Eject \/ Fail
      BY <3>3 DEF Start, Home, MoveForward, MoveBack, Overshoot, StrikeBand, FeedBand, Eject, Fail, Goto
    <3> QED
      BY <3>1, <3>2, <3>3 DEF Next, PrintLabel, Over
  <2> QED
    BY <2>1, <2>2
<1>3. Inv => OverrunOnlyAtEnd
  <2> SUFFICES ASSUME Inv, at = "overrun" PROVE MappedLast(image) = NBands - 1
    BY DEF OverrunOnlyAtEnd
  <2>1. MappedLast(image) \in 0..NBands - 1
    BY MappedLastType DEF IInv, TypeOK
  <2>2. NBands \in Nat /\ NBands <= Adjusted(MappedLast(image))
    BY PlusAssumption DEF LastInv
  <2> QED
    BY <2>1, <2>2 DEF Adjusted
<1> QED
  BY <1>1, <1>2, <1>3, PTL DEF Spec

\* What is on the label when the loop has left the bands below b: all their dots, but for
\* the bands that pass for blank.
Printed(b) == {d \in image : BandOf(d) < b /\ BandMax(BandOf(d)) # 0}

InkInv ==
  /\ at = "home" => ink = {}
  /\ at \in {"band", "move", "overshoot", "strike", "eject"} => ink = Printed(band)
  /\ at = "feed" => ink = Printed(band + 1)
  /\ at \in {"move", "overshoot", "strike"} => BandMax(band) # 0
  /\ at = "band" => band <= lastband + 1
  /\ at = "eject" => band = lastband + 1

\* A strike burns all dots of its band.
LEMMA StrikeExact ==
  ASSUME IInv, StrikeBand
  PROVE  ink' = ink \cup {d \in image : BandOf(d) = band}
<1>1. /\ head = pos + Margin /\ line = FirstRow(band) /\ pos \in 0..NSlices /\ pos <= BandMin(band)
      /\ band \in Nat /\ Dirty(band) # {} /\ image \subseteq Dots
  BY DEF IInv, TypeOK, OnTrack, LoopInv, StrikeBand
<1>2. /\ BandMin(band) \in Nat /\ BandMax(band) \in 0..NSlices - 1 /\ NSlices \in Nat
      /\ Dirty(band) \subseteq BandMin(band)..BandMax(band)
  BY <1>1, EdgesType, PlusAssumption
<1> DEFINE burned(s) == {<<line + 2 * n, head - Margin + (s - pos)>> : n \in Pins(band, s)}
<1>3. ink' = ink \cup UNION {burned(s) : s \in pos..BandMax(band)}
  BY DEF StrikeBand, Strike
<1>4. ASSUME NEW s \in pos..BandMax(band)
      PROVE  burned(s) = {<<FirstRow(band) + 2 * n, s>> : n \in Pins(band, s)}
  <2>1. head - Margin + (s - pos) = s
    BY <1>1, <1>2 DEF Margin
  <2> QED  BY <1>1, <2>1
<1>5. ASSUME NEW s \in pos..BandMax(band), NEW d \in burned(s)
      PROVE  d \in image /\ BandOf(d) = band
  <2>1. PICK n \in Pins(band, s) : d = <<FirstRow(band) + 2 * n, s>>
    BY <1>4
  <2>2. n \in 0..H - 1 /\ d \in image
    BY <2>1 DEF Pins
  <2> QED  BY <2>1, <2>2, <1>1, RowOfBand
<1>6. ASSUME NEW d \in image, BandOf(d) = band
      PROVE  \E s \in pos..BandMax(band) : d \in burned(s)
  <2>1. PICK n \in 0..H - 1 : d = <<FirstRow(band) + 2 * n, d[2]>>
    BY <1>1, <1>6, BandOfRow
  <2>2. n \in Pins(band, d[2]) /\ d[2] \in 0..NSlices - 1
    BY <2>1, <1>1, <1>6, DotType DEF Pins
  <2>3. d[2] \in Dirty(band)
    BY <2>2 DEF Dirty
  <2>4. d[2] \in pos..BandMax(band)
    BY <2>3, <1>1, <1>2
  <2> QED  BY <2>1, <2>2, <2>4, <1>4
<1> HIDE DEF burned
<1> QED  BY <1>3, <1>5, <1>6

\* What was printed changes with the bands, and not with anything else.
LEMMA PrintedFacts ==
  ASSUME image \subseteq Dots, NEW b \in Nat
  PROVE  /\ Printed(0) = {}
         /\ BandMax(b) = 0 => Printed(b + 1) = Printed(b)
         /\ BandMax(b) # 0 => Printed(b + 1) = Printed(b) \cup {d \in image : BandOf(d) = b}
<1>1. \A d \in image : BandOf(d) \in Nat
  BY BandOfType
<1>2. Printed(0) = {}
  BY <1>1 DEF Printed
<1>3. ASSUME NEW d \in image
      PROVE  /\ BandOf(d) = b => BandMax(BandOf(d)) = BandMax(b)
             /\ BandOf(d) < b + 1 <=> BandOf(d) < b \/ BandOf(d) = b
  <2>1. BandOf(d) < b + 1 <=> BandOf(d) < b \/ BandOf(d) = b
    <3> HIDE DEF BandOf
    <3> QED  BY <1>1
  <2> QED  BY <2>1
<1>4. CASE BandMax(b) = 0
  <2>1. \A d \in image : /\ BandOf(d) < b + 1 /\ BandMax(BandOf(d)) # 0
                          <=> BandOf(d) < b /\ BandMax(BandOf(d)) # 0
    BY <1>3, <1>4
  <2> QED  BY <1>2, <1>4, <2>1 DEF Printed
<1>5. CASE BandMax(b) # 0
  <2>1. \A d \in image : /\ BandOf(d) < b + 1 /\ BandMax(BandOf(d)) # 0
                          <=> (BandOf(d) < b /\ BandMax(BandOf(d)) # 0) \/ BandOf(d) = b
    BY <1>3, <1>5
  <2>2. Printed(b + 1) = Printed(b) \cup {d \in image : BandOf(d) = b}
    BY <2>1 DEF Printed
  <2> QED  BY <1>2, <1>5, <2>2
<1> QED  BY <1>4, <1>5

LEMMA InkKept == IInv /\ InkInv /\ [Next]_vars => InkInv'
<1> SUFFICES ASSUME IInv, InkInv, [Next]_vars PROVE InkInv'
  OBVIOUS
<1>1. image \subseteq Dots /\ band \in Nat /\ lastband \in Nat
  BY PlusAssumption DEF IInv, TypeOK
<1>2. UNCHANGED image => \A b : Printed(b)' = Printed(b) /\ BandMax(b)' = BandMax(b)
  BY DEF Printed, BandMax, Dirty, Pins
<1>3. CASE Start
  BY <1>3 DEF Start, Goto, InkInv
<1>4. CASE Home
  <2>1. at' = "band" /\ UNCHANGED image /\ band' = 0 /\ ink' = {}
    BY <1>4 DEF Home, Goto, InkInv
  <2>2. lastband' \in 0..NBands
    <3>1. IInv'
      BY <1>4, Inductive
    <3> QED  BY <3>1 DEF IInv, TypeOK
  <2>3. Printed(band)' = {}
    <3>1. Printed(0) = {}
      BY <1>1, PrintedFacts
    <3>2. \A d \in image : ~(BandOf(d) < 0)
      BY <3>1, <1>1, BandOfType
    <3> QED  BY <2>1, <3>2 DEF Printed
  <2>4. (band <= lastband + 1)'
    <3>1. lastband' \in Nat
      BY <2>2, PlusAssumption
    <3>2. \A n \in Nat : 0 <= n + 1
      OBVIOUS
    <3> QED  BY <2>1, <3>1, <3>2
  <2> QED  BY <2>1, <2>3, <2>4 DEF InkInv
<1>5. CASE NextBand
  <2>1. UNCHANGED <<image, lastband, band, ink>> /\ at = "band" /\ ink = Printed(band)
    BY <1>5 DEF NextBand, host, printer, InkInv
  <2>2. CASE at' = "eject"
    BY <1>1, <1>2, <1>5, <2>1, <2>2 DEF NextBand, Goto, InkInv
  <2>3. CASE at' = "move"
    BY <1>2, <1>5, <2>1, <2>3 DEF NextBand, Goto, InkInv
  <2>4. CASE at' = "feed"
    <3>1. CASE band < NBands
      <4>1. BandMax(band) = 0
        BY <1>1, <1>5, <2>4, <3>1, PlusAssumption DEF NextBand, Goto
      <4> QED  BY <1>1, <1>2, <2>1, <2>4, <4>1, PrintedFacts DEF InkInv
    <3>2. CASE band = NBands
      <4>1. \A d \in image : BandOf(d) # band
        BY <1>1, <3>2, BandOfType, PlusAssumption
      <4>2. Printed(band + 1) = Printed(band)
        BY <1>1, <4>1, PrintedFacts
      <4> QED  BY <1>2, <2>1, <2>4, <4>2 DEF InkInv
    <3> QED  BY <1>5, <2>4, <3>1, <3>2 DEF NextBand, Goto
  <2>5. CASE at' = "overrun"
    BY <2>5 DEF InkInv
  <2> QED  BY <1>5, <2>2, <2>3, <2>4, <2>5 DEF NextBand, Goto
<1>6. CASE MoveForward \/ MoveBack \/ Overshoot
  <2>1. /\ UNCHANGED <<image, lastband, band, ink>>
        /\ at \in {"move", "overshoot"} /\ at' \in {"overshoot", "strike"}
    BY <1>6 DEF MoveForward, MoveBack, Overshoot, host, Goto
  <2> QED  BY <1>2, <2>1 DEF InkInv
<1>7. CASE StrikeBand
  <2>1. UNCHANGED <<image, band>> /\ at = "strike" /\ at' = "feed"
    BY <1>7 DEF StrikeBand, host, Goto
  <2>2. ink' = ink \cup {d \in image : BandOf(d) = band} /\ ink = Printed(band) /\ BandMax(band) # 0
    BY <1>7, <2>1, StrikeExact DEF InkInv
  <2>3. ink' = Printed(band + 1)
    BY <1>1, <2>2, PrintedFacts
  <2> QED  BY <1>2, <2>1, <2>3 DEF InkInv
<1>8. CASE FeedBand
  <2>1. UNCHANGED <<image, lastband, ink>> /\ at = "feed" /\ at' = "band" /\ band' = band + 1
    BY <1>8 DEF FeedBand, Goto
  <2>2. band <= lastband
    BY <2>1 DEF IInv, LoopInv
  <2> QED  BY <1>1, <1>2, <2>1, <2>2 DEF InkInv
<1>9. CASE Eject \/ Fail
  BY <1>9 DEF Eject, Fail, Goto, InkInv
<1>10. CASE UNCHANGED vars
  BY <1>2, <1>10 DEF vars, InkInv
<1> QED
  BY <1>3, <1>4, <1>5, <1>6, <1>7, <1>8, <1>9, <1>10 DEF Next, PrintLabel, Over

\* ExactInk: when slplus.c:813-946 ejects a label, it has the dots of the bitmap, each
\* where it belongs, but for those that the loop's bound and its test for marks lose.
THEOREM PrintsExactly == Spec => []ExactInk
<1>1. Init => IInv /\ InkInv
  BY InitIInv DEF Init, InkInv
<1>2. IInv /\ InkInv /\ [Next]_vars => IInv' /\ InkInv'
  BY Inductive, InkKept
<1>3. IInv /\ InkInv => ExactInk
  <2> SUFFICES ASSUME IInv, InkInv, at = "eject"
               PROVE  ink = {d \in image : BandOf(d) \in Visited /\ BandMax(BandOf(d)) # 0}
    BY DEF ExactInk
  <2>1. image \subseteq Dots /\ lastband \in Nat /\ band = lastband + 1 /\ ink = Printed(band)
    BY PlusAssumption DEF IInv, TypeOK, InkInv
  <2>2. \A d \in image : BandOf(d) < lastband + 1 <=> BandOf(d) \in 0..lastband
    <3>1. \A d \in image : BandOf(d) \in Nat
      BY <2>1, BandOfType
    <3> QED  BY <2>1, <3>1
  <2> QED  BY <2>1, <2>2 DEF Printed, Visited
<1> QED  BY <1>1, <1>2, <1>3, PTL DEF Spec

\* RefinesLabel: printlabel() implements Label: it burns only dots of the bitmap
\* and only under the head, never feeds backwards, and starts no label before
\* the last one was ejected.
THEOREM ImplementsLabel == Spec => RefinesLabel
<1>1. Init => Paper!Init
  BY DEF Init, Paper!Init
<1>2. IInv /\ [Next]_vars => [Paper!Next]_(Paper!lvars)
  <2> SUFFICES ASSUME IInv, [Next]_vars PROVE Paper!Next \/ UNCHANGED Paper!lvars
    OBVIOUS
  <2> USE DEF Paper!lvars
  <2>1. CASE Start
    <3>1. tof
      BY <2>1 DEF IInv, LoopInv, Start
    <3> QED
      BY <2>1, <3>1 DEF Start, Paper!Start, Paper!Next
  <2>2. CASE StrikeBand
    <3>1. ~tof /\ UNCHANGED <<image, line, tof>>
      BY <2>2 DEF IInv, LoopInv, StrikeBand, host
    <3>2. ink \subseteq ink' /\ ink' \ ink \subseteq image
      BY <2>2, StrikeBurns
    <3>3. \A d \in ink' \ ink : \E k \in {2 * n : n \in 0..H - 1} : d[1] = line + k
      BY <2>2, StrikeBurns
    <3> QED
      BY <3>1, <3>2, <3>3 DEF Paper!Burn, Paper!Next
  <2>3. CASE FeedBand
    <3>1. ~tof /\ UNCHANGED <<image, ink, tof>> /\ line' \in Nat /\ line' > line
      BY <2>3, FeedStep DEF IInv, LoopInv, FeedBand
    <3> QED
      BY <3>1 DEF Paper!Feed, Paper!Next
  <2>4. CASE Eject
    <3>1. ~tof /\ tof' /\ UNCHANGED <<image, line, ink>>
      BY <2>4 DEF IInv, LoopInv, Eject
    <3> QED
      BY <3>1 DEF Paper!Eject, Paper!Next
  <2>5. CASE Home \/ NextBand \/ MoveForward \/ MoveBack \/ Overshoot \/ Fail \/ UNCHANGED vars
    BY <2>5 DEF Home, NextBand, MoveForward, MoveBack, Overshoot, Fail, vars, host, printer
  <2> QED
    BY <2>1, <2>2, <2>3, <2>4, <2>5 DEF Next, PrintLabel, Over
<1> QED
  BY <1>1, <1>2, Invariance, PTL DEF Spec, RefinesLabel, Paper!Spec

=============================================================================
