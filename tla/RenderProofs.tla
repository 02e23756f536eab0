----------------------------- MODULE RenderProofs -----------------------------
(***************************************************************************)
(* Proofs about Render, for every font, bitmap and file: the current line  *)
(* fits on the page, a page with ink is printed and a blank one is not,    *)
(* and -s leaves no label without ink on its first line; no dot is set     *)
(* outside the bitmap; glyphs are drawn whole or left out; and every copy  *)
(* prints the same labels.                                                 *)
(***************************************************************************)
EXTENDS Render, WellFoundedInduction, SequenceTheorems, TLAPS

-----------------------------------------------------------------------------
(***************************************************************************)
(* The page.                                                               *)
(***************************************************************************)

\* What RenderAssumption says of the font and the bitmap.
LEMMA Sizes ==
  /\ MaxShort \in Nat
  /\ FontAscent \in SHORT /\ FontDescent \in SHORT
  /\ FontAscent + FontDescent >= 0
  /\ Height \in 1..2 * MaxShort + 1 /\ Width \in 1..2 * MaxShort + 1
  /\ UIntValues \in Nat /\ UIntValues > 16 * (MaxShort + 1)
  /\ LineHeight \in Nat /\ LineHeight = FontAscent + FontDescent
<1>1. MaxShort \in Nat
  BY DEF MaxShort
<1>2. FontAscent \in SHORT /\ FontDescent \in SHORT /\ FontAscent + FontDescent >= 0
  BY RenderAssumption
<1>3. Height \in USHORT \ {0} /\ Width \in USHORT \ {0}
  BY RenderAssumption
<1>4. UIntValues \in Nat /\ UIntValues > 16 * (MaxShort + 1)
  BY RenderAssumption
<1> QED
  BY <1>1, <1>2, <1>3, <1>4 DEF SHORT, USHORT, LineHeight

\* A UINT is a natural number below UIntValues.
LEMMA UINTType == \A n \in Int : UINT(n) \in 0..UIntValues - 1
  BY Sizes DEF UINT

\* A number that is one already is not changed.
LEMMA UINTSame == \A n \in 0..UIntValues - 1 : UINT(n) = n
  BY Sizes DEF UINT

\* A negative number becomes a large one.
LEMMA UINTWraps == \A n \in -UIntValues..-1 : UINT(n) = n + UIntValues
  BY Sizes DEF UINT

\* A number just above the range becomes a small one.
LEMMA UINTOver == \A n \in UIntValues..2 * UIntValues - 1 : UINT(n) = n - UIntValues
  BY Sizes DEF UINT

\* What wraps around on the way comes back: only the sum has to be in the range.
LEMMA UINTSum ==
  ASSUME NEW m \in -UIntValues..2 * UIntValues - 1, NEW k \in Int, m + k \in 0..UIntValues - 1
  PROVE  UINT(UINT(m) + k) = m + k
<1>1. UIntValues \in Nat
  BY Sizes
<1>2. CASE m \in 0..UIntValues - 1
  <2>1. UINT(m) = m
    BY <1>2, UINTSame
  <2> QED
    BY <2>1, UINTSame
<1>3. CASE m \in -UIntValues..-1
  <2>1. UINT(m) = m + UIntValues
    BY <1>3, UINTWraps
  <2>2. UINT(m) + k = (m + k) + UIntValues
    BY <1>1, <2>1
  <2>3. (m + k) + UIntValues \in UIntValues..2 * UIntValues - 1
    BY <1>1
  <2>4. UINT((m + k) + UIntValues) = ((m + k) + UIntValues) - UIntValues
    BY <2>3, UINTOver
  <2> QED
    BY <1>1, <2>2, <2>4
<1>4. CASE m \in UIntValues..2 * UIntValues - 1
  <2>1. UINT(m) = m - UIntValues
    BY <1>4, UINTOver
  <2>2. UINT(m) + k = (m + k) - UIntValues
    BY <1>1, <2>1
  <2>3. (m + k) - UIntValues \in -UIntValues..-1
    BY <1>1
  <2>4. UINT((m + k) - UIntValues) = ((m + k) - UIntValues) + UIntValues
    BY <2>3, UINTWraps
  <2> QED
    BY <1>1, <2>2, <2>4
<1> QED
  BY <1>1, <1>2, <1>3, <1>4

\* The page has the bitmap's dimensions, one way or the other.
LEMMA PageSize ==
  /\ VHeight \in 1..2 * MaxShort + 1 /\ VWidth \in 1..2 * MaxShort + 1
  /\ \/ VHeight = Height /\ VWidth = Width
     \/ VHeight = Width /\ VWidth = Height
<1>1. Height \in 1..2 * MaxShort + 1 /\ Width \in 1..2 * MaxShort + 1 /\ MaxShort \in Nat
  BY Sizes
<1> QED
  BY <1>1 DEF VHeight, VWidth, Larger, Smaller

\* The metrics of a glyph.
LEMMA GlyphType ==
  ASSUME NEW c \in Characters
  PROVE  /\ Glyphs[c].ascent \in SHORT /\ Glyphs[c].ascent <= FontAscent
         /\ Glyphs[c].descent \in SHORT /\ Glyphs[c].descent <= FontDescent
         /\ Glyphs[c].lbearing \in SHORT /\ Glyphs[c].width \in SHORT
         /\ \A d \in Glyphs[c].dots :
              /\ d[1] \in Nat /\ d[2] \in Nat
              /\ d[1] < Glyphs[c].ascent + Glyphs[c].descent
              /\ d[2] <= 2 * MaxShort + 1
<1>1. Glyphs[c] \in Metrics /\ MetricsOK(Glyphs[c])
  BY RenderAssumption
<1>2. Glyphs[c].dots \in SUBSET (USHORT \X USHORT)
  BY <1>1 DEF Metrics
<1>3. /\ Glyphs[c].ascent \in SHORT /\ Glyphs[c].descent \in SHORT
      /\ Glyphs[c].lbearing \in SHORT /\ Glyphs[c].width \in SHORT
  BY <1>1 DEF Metrics
<1>4. MaxShort \in Nat
  BY Sizes
<1>5. ASSUME NEW d \in Glyphs[c].dots
      PROVE  /\ d[1] \in Nat /\ d[2] \in Nat
             /\ d[1] < Glyphs[c].ascent + Glyphs[c].descent
             /\ d[2] <= 2 * MaxShort + 1
  <2>1. d \in USHORT \X USHORT
    BY <1>2
  <2>2. d \in (0..Glyphs[c].ascent + Glyphs[c].descent - 1)
                \X (0..Glyphs[c].rbearing - Glyphs[c].lbearing - 1)
    BY <1>1 DEF MetricsOK
  <2>3. d[1] \in 0..Glyphs[c].ascent + Glyphs[c].descent - 1
    BY <2>2
  <2>4. d[1] \in USHORT /\ d[2] \in USHORT
    BY <2>1
  <2> QED
    BY <2>3, <2>4, <1>3, <1>4 DEF SHORT, USHORT
<1> QED
  BY <1>1, <1>3, <1>5 DEF MetricsOK

\* A dot on the page is in the bitmap, and is found again there.
LEMMA DotOnPage ==
  \A r, c \in Nat : OnPage(r, c) =>
    /\ Physical(r, c) \in (0..Height - 1) \X (0..Width - 1)
    /\ Logical(Physical(r, c)) = <<r, c>>
<1> SUFFICES ASSUME NEW r \in Nat, NEW c \in Nat, OnPage(r, c)
             PROVE  /\ Physical(r, c) \in (0..Height - 1) \X (0..Width - 1)
                    /\ Logical(Physical(r, c)) = <<r, c>>
  OBVIOUS
<1>1. r < VHeight /\ c < VWidth
  BY DEF OnPage
<1>2. CASE Height # VHeight
  <2>1. VHeight = Width /\ VWidth = Height
    BY <1>2, PageSize
  <2>2. Physical(r, c) = <<c, (VHeight - 1) - r>>
    BY <1>2 DEF Physical
  <2>3. Logical(Physical(r, c)) = <<(VHeight - 1) - ((VHeight - 1) - r), c>>
    BY <1>2, <2>2 DEF Logical
  <2> QED
    BY <1>1, <2>1, <2>2, <2>3, PageSize
<1>3. CASE Height = VHeight
  <2>1. VWidth = Width
    BY <1>3, PageSize
  <2>2. Physical(r, c) = <<r, c>> /\ Logical(Physical(r, c)) = <<r, c>>
    BY <1>3 DEF Physical, Logical
  <2> QED
    BY <1>1, <1>3, <2>1, <2>2, PageSize
<1> QED
  BY <1>2, <1>3

\* What the steps leave alone decides the geometry.
LEMMA SamePage ==
  ASSUME portrait' = portrait
  PROVE  VHeight' = VHeight /\ VWidth' = VWidth /\ \A d : Logical(d)' = Logical(d)
  BY DEF VHeight, VWidth, Logical

\* The current line, of which row is the baseline as a UINT.
LEMMA Line ==
  ASSUME IInv, at \in {"read", "draw"}
  PROVE  /\ Top \in 0..VHeight /\ Top + LineHeight <= VHeight
         /\ Baseline = FontAscent + Top
         /\ Baseline \in -(MaxShort + 1)..3 * MaxShort + 1
         /\ row = UINT(Baseline)
<1>1. row \in 0..UIntValues - 1 /\ Top + LineHeight <= VHeight
  BY DEF IInv, PageType, EveryLineFits
<1>2. row - FontAscent \in -UIntValues..2 * UIntValues - 1
  BY <1>1, Sizes DEF SHORT
<1>3. Top \in Nat
  BY <1>2, UINTType, Sizes DEF Top
<1>4. Top \in 0..VHeight
  BY <1>1, <1>3, Sizes, PageSize
<1>5. Baseline \in -(MaxShort + 1)..3 * MaxShort + 1
  BY <1>4, Sizes, PageSize DEF Baseline, SHORT
<1>6. UINT(UINT(row - FontAscent) + FontAscent) = (row - FontAscent) + FontAscent
  <2>1. (row - FontAscent) + FontAscent \in 0..UIntValues - 1 /\ FontAscent \in Int
    BY <1>1, Sizes DEF SHORT
  <2> QED
    BY <1>2, <2>1, UINTSum
<1>7. row = UINT(Baseline)
  <2>1. (row - FontAscent) + FontAscent = row
    BY <1>1, Sizes DEF SHORT
  <2>2. Baseline = UINT(row - FontAscent) + FontAscent
    BY <1>3, Sizes DEF Baseline, Top, SHORT
  <2> QED
    BY <1>6, <2>1, <2>2
<1> QED
  BY <1>1, <1>4, <1>5, <1>7 DEF Baseline

\* The top of a line whose baseline is given as a UINT.
LEMMA TopOf ==
  ASSUME NEW n \in 0..4 * MaxShort + 4
  PROVE  UINT(UINT(FontAscent + n) - FontAscent) = n
<1>1. /\ FontAscent + n \in -UIntValues..2 * UIntValues - 1 /\ -FontAscent \in Int
      /\ (FontAscent + n) + (-FontAscent) \in 0..UIntValues - 1
      /\ (FontAscent + n) + (-FontAscent) = n
  BY Sizes DEF SHORT
<1>2. UINT(UINT(FontAscent + n) + (-FontAscent)) = n
  BY <1>1, UINTSum
<1>3. UINT(FontAscent + n) + (-FontAscent) = UINT(FontAscent + n) - FontAscent
  BY <1>1, UINTType, Sizes DEF SHORT
<1> QED
  BY <1>2, <1>3

-----------------------------------------------------------------------------
(***************************************************************************)
(* The invariant, step by step.                                            *)
(***************************************************************************)

\* No label and no ink at the start.
LEMMA InitIInv == Init => IInv
<1> SUFFICES ASSUME Init PROVE IInv
  OBVIOUS
<1> USE DEF Init
<1>1. PageType
  <2>1. 0 \in 0..UIntValues - 1
    BY Sizes
  <2>2. {} \in Bitmaps /\ <<>> \in Seq(Bitmaps)
    BY DEF Bitmaps
  <2> QED
    BY <2>1, <2>2 DEF PageType
<1>2. EveryLineFits /\ InkAccounted /\ TopInv /\ TopLineUsed
  BY DEF EveryLineFits, InkAccounted, TopInv, TopLineUsed
<1> QED
  BY <1>1, <1>2 DEF IInv

\* The labels after PrintIfDirty are bitmaps with ink, and with ink on their
\* first line if -s was given.
LEMMA PrintKeeps ==
  ASSUME IInv, at \in {"read", "draw"}, PrintIfDirty, UNCHANGED input
  PROVE  /\ labels' \in Seq(Bitmaps)
         /\ \A i \in DOMAIN labels' : labels'[i] # {}
         /\ TopLineUsed'
<1>1. labels \in Seq(Bitmaps) /\ bm \in Bitmaps
  BY DEF IInv, PageType
<1>2. \A i \in DOMAIN labels : labels[i] # {}
  BY DEF IInv, InkAccounted
<1>3. squeeze => \A i \in DOMAIN labels : HasTop(labels[i])
  BY DEF IInv, TopLineUsed
<1>4. portrait' = portrait /\ squeeze' = squeeze
  BY DEF input
<1>5. \A bits : HasTop(bits)' <=> HasTop(bits)
  BY <1>4, SamePage DEF HasTop, LineHeight
<1>6. CASE dirty
  <2>1. labels' = Append(labels, bm)
    BY <1>6 DEF PrintIfDirty
  <2>2. bm # {} /\ (squeeze => HasTop(bm))
    BY <1>6 DEF IInv, InkAccounted, TopInv
  <2>3. /\ labels' \in Seq(Bitmaps)
        /\ \A i \in DOMAIN labels' : labels'[i] = bm \/ \E k \in DOMAIN labels : labels'[i] = labels[k]
    BY <1>1, <2>1
  <2>4. squeeze => \A i \in DOMAIN labels' : HasTop(labels'[i])
    BY <2>2, <2>3, <1>3
  <2> QED
    BY <2>2, <2>3, <2>4, <1>2, <1>4, <1>5 DEF TopLineUsed
<1>7. CASE ~dirty
  <2>1. labels' = labels
    BY <1>7 DEF PrintIfDirty
  <2> QED
    BY <2>1, <1>1, <1>2, <1>3, <1>4, <1>5 DEF TopLineUsed
<1> QED
  BY <1>6, <1>7

\* A step that leaves the row and the ink alone keeps the invariant.
LEMMA SameInk ==
  ASSUME IInv, UNCHANGED <<input, row, bm, dirty, labels>>,
         at' \in {"copy", "read", "draw"} \cup Ends,
         at' \in {"read", "draw"} => at \in {"read", "draw"},
         col' \in 0..UIntValues - 1
  PROVE  IInv'
<1>1. portrait' = portrait /\ squeeze' = squeeze
  BY DEF input
<1>2. PageType'
  BY DEF IInv, PageType
<1>3. EveryLineFits'
  BY <1>1, SamePage DEF IInv, EveryLineFits, Top, LineHeight
<1>4. InkAccounted'
  BY DEF IInv, InkAccounted
<1>5. \A bits : HasTop(bits)' <=> HasTop(bits)
  BY <1>1, SamePage DEF HasTop, LineHeight
<1>6. TopInv' /\ TopLineUsed'
  <2>1. HasTop(bm)' <=> HasTop(bm)
    BY <1>5 DEF HasTop
  <2>2. TopInv'
    BY <1>1, <2>1 DEF IInv, TopInv, Top
  <2>3. TopLineUsed'
    BY <1>1, <1>5 DEF IInv, TopLineUsed
  <2> QED
    BY <2>2, <2>3
<1> QED
  BY <1>2, <1>3, <1>4, <1>6 DEF IInv

\* A space's width is a width.
LEMMA SpaceType == SpaceWidth \in Nat
<1>1. \A i \in 1..4 : SpaceLike[i] \in Characters
  BY RenderAssumption DEF SpaceLike
<1>2. \A c \in Characters : Extent(Glyphs[c]) \in Nat
  <2>1. SUFFICES ASSUME NEW c \in Characters PROVE Extent(Glyphs[c]) \in Nat
    OBVIOUS
  <2>2. Glyphs[c] \in Metrics /\ Glyphs[c].lbearing <= Glyphs[c].rbearing
    BY RenderAssumption DEF MetricsOK
  <2>3. Glyphs[c].lbearing \in SHORT /\ Glyphs[c].rbearing \in SHORT
    BY <2>2 DEF Metrics
  <2> QED
    BY <2>2, <2>3, Sizes DEF Extent, SHORT
<1> DEFINE drawn == {i \in 1..4 : Extent(Glyphs[SpaceLike[i]]) # 0}
<1>3. CASE drawn = {}
  BY <1>3 DEF SpaceWidth
<1>4. CASE drawn # {}
  <2>1. \E i \in drawn : \A j \in drawn : i <= j
    <3>1. CASE 1 \in drawn
      BY <3>1
    <3>2. CASE 1 \notin drawn /\ 2 \in drawn
      BY <3>2
    <3>3. CASE 1 \notin drawn /\ 2 \notin drawn /\ 3 \in drawn
      BY <3>3
    <3>4. CASE 1 \notin drawn /\ 2 \notin drawn /\ 3 \notin drawn
      BY <3>4, <1>4
    <3> QED
      BY <3>1, <3>2, <3>3, <3>4
  <2>2. (CHOOSE i \in drawn : \A j \in drawn : i <= j) \in 1..4
    BY <2>1
  <2> QED
    BY <2>2, <1>1, <1>2, <1>4 DEF SpaceWidth
<1> QED
  BY <1>3, <1>4

\* The steps that set no ink and stay on the line.
LEMMA QuietStep ==
  ASSUME IInv,
         \/ Return \/ ReadChunk \/ ChunkDone \/ Squeezed \/ CarriageReturn
         \/ Tab \/ Undefined \/ UNCHANGED vars
  PROVE  IInv'
<1>1. col \in 0..UIntValues - 1 /\ at \in {"copy", "read", "draw"} \cup Ends
  BY DEF IInv, PageType
<1>2. CASE Return
  BY <1>1, <1>2, SameInk DEF Return, Goto, Ends, page
<1>3. CASE ReadChunk
  <2>1. at = "read" /\ at' \in {"wild", "draw"}
    BY <1>3 DEF ReadChunk, Goto
  <2>2. UNCHANGED <<input, row, col, bm, dirty, labels>>
    BY <1>3 DEF ReadChunk, page
  <2> QED
    BY <1>1, <2>1, <2>2, SameInk DEF Ends
<1>4. CASE ChunkDone
  BY <1>1, <1>4, SameInk DEF ChunkDone, Goto, page
<1>5. CASE Squeezed
  BY <1>1, <1>5, SameInk DEF Squeezed, Advance, page
<1>6. CASE CarriageReturn
  <2>1. col' \in 0..UIntValues - 1
    BY <1>6, Sizes DEF CarriageReturn
  <2> QED
    BY <1>1, <1>6, <2>1, SameInk DEF CarriageReturn, Advance
<1>7. CASE Tab
  <2>1. UNCHANGED <<input, row, bm, dirty, labels>>
    BY <1>7 DEF Tab, Advance
  <2>2. CASE SpaceWidth = 0
    <3>1. at' = "divzero" /\ col' = col
      BY <1>7, <2>2 DEF Tab, Goto
    <3> QED
      BY <1>1, <2>1, <3>1, SameInk DEF Ends
  <2>3. CASE SpaceWidth # 0
    <3>1. at' = at /\ col' = UINT(TabStop(col))
      BY <1>7, <2>3 DEF Tab
    <3>2. (col \div SpaceWidth) \in Int
      BY <1>1, <2>3, SpaceType
    <3>3. ((col \div SpaceWidth) % TABSIZE) \in Int
      BY <3>2 DEF TABSIZE
    <3>4. TabStop(col) \in Int
      BY <1>1, <3>3, SpaceType DEF TabStop, TABSIZE
    <3> QED
      BY <1>1, <2>1, <3>1, <3>4, UINTType, SameInk
  <2> QED
    BY <2>2, <2>3
<1>8. CASE Undefined
  <2>1. col' \in 0..UIntValues - 1
    BY <1>1, <1>8, SpaceType, UINTType DEF Undefined
  <2> QED
    BY <1>1, <1>8, <2>1, SameInk DEF Undefined, Advance
<1>9. CASE UNCHANGED vars
  BY <1>1, <1>9, SameInk DEF vars, input
<1> QED
  BY <1>2, <1>3, <1>4, <1>5, <1>6, <1>7, <1>8, <1>9

\* A blank page that the font fits on.
LEMMA BlankStep ==
  ASSUME Blank, UNCHANGED input, at' \in {"read", "draw", "error"},
         at' # "error" => LineHeight <= VHeight,
         labels' \in Seq(Bitmaps), \A i \in DOMAIN labels' : labels'[i] # {}, TopLineUsed'
  PROVE  IInv'
<1>1. portrait' = portrait
  BY DEF input
<1>2. PageType'
  <2>1. {} \in Bitmaps
    BY DEF Bitmaps
  <2>2. 0 \in 0..UIntValues - 1 /\ UINT(FontAscent) \in 0..UIntValues - 1
    BY Sizes, UINTType DEF SHORT
  <2> QED
    BY <2>1, <2>2 DEF Blank, PageType, Ends
<1>3. Top' = 0
  <2>1. 0 \in 0..4 * MaxShort + 4 /\ FontAscent + 0 = FontAscent
    BY Sizes DEF SHORT
  <2>2. UINT(UINT(FontAscent) - FontAscent) = 0
    BY <2>1, TopOf
  <2> QED
    BY <2>2 DEF Blank, Top
<1>4. EveryLineFits'
  <2>1. LineHeight' = LineHeight
    BY DEF LineHeight
  <2> QED
    BY <1>1, <1>3, <2>1, SamePage, Sizes, PageSize DEF EveryLineFits
<1>5. InkAccounted' /\ TopInv'
  BY <1>3 DEF Blank, InkAccounted, TopInv
<1> QED
  BY <1>2, <1>4, <1>5 DEF IInv

\* The start of a copy.
LEMMA Render1Step == IInv /\ Render1 => IInv'
<1> SUFFICES ASSUME IInv, Render1 PROVE IInv'
  OBVIOUS
<1>1. UNCHANGED input /\ Blank /\ labels' = labels
  BY DEF Render1
<1>2. at' \in {"read", "draw", "error"} /\ (at' # "error" => LineHeight <= VHeight)
  BY Sizes, PageSize DEF Render1, Goto
<1>3. portrait' = portrait /\ squeeze' = squeeze
  BY <1>1 DEF input
<1>4. TopLineUsed'
  <2>1. \A bits : HasTop(bits)' <=> HasTop(bits)
    BY <1>3, SamePage DEF HasTop, LineHeight
  <2> QED
    BY <1>1, <1>3, <2>1 DEF IInv, TopLineUsed
<1>5. labels' \in Seq(Bitmaps) /\ \A i \in DOMAIN labels' : labels'[i] # {}
  BY <1>1 DEF IInv, PageType, InkAccounted
<1> QED
  BY <1>1, <1>2, <1>4, <1>5, BlankStep

\* A page is printed, and a blank one begins.
LEMMA NewPageStep == IInv /\ (NewPage \/ FormFeed) => IInv'
<1> SUFFICES ASSUME IInv, NewPage \/ FormFeed PROVE IInv'
  OBVIOUS
<1>1. /\ at = "draw" /\ at' = at
      /\ PrintIfDirty /\ Blank /\ UNCHANGED input
  BY DEF NewPage, FormFeed, AtControl, Advance
<1>2. LineHeight <= VHeight
  <2>1. Top \in 0..VHeight /\ Top + LineHeight <= VHeight
    BY <1>1, Line
  <2> QED
    BY <2>1, Sizes, PageSize
<1>3. /\ labels' \in Seq(Bitmaps)
      /\ \A i \in DOMAIN labels' : labels'[i] # {}
      /\ TopLineUsed'
  BY <1>1, PrintKeeps
<1> QED
  BY <1>1, <1>2, <1>3, BlankStep

\* The last page of a copy is printed.
LEMMA EndOfFileStep == IInv /\ EndOfFile => IInv'
<1> SUFFICES ASSUME IInv, EndOfFile PROVE IInv'
  OBVIOUS
<1>1. /\ at = "read" /\ at' = "copy" /\ PrintIfDirty
      /\ UNCHANGED input /\ UNCHANGED <<row, col, bm, dirty>>
  BY DEF EndOfFile, Goto, page
<1>2. /\ labels' \in Seq(Bitmaps)
      /\ \A i \in DOMAIN labels' : labels'[i] # {}
      /\ TopLineUsed'
  BY <1>1, PrintKeeps
<1>3. PageType'
  BY <1>1, <1>2 DEF IInv, PageType
<1>4. EveryLineFits' /\ InkAccounted' /\ TopInv'
  BY <1>1, <1>2 DEF EveryLineFits, InkAccounted, TopInv
<1> QED
  BY <1>2, <1>3, <1>4 DEF IInv

\* The next line fits as well: its room is what PageFull asked for, although the sums may
\* wrap around.
LEMMA NextLine ==
  ASSUME IInv, at = "draw", ~(UINT(row + LineHeight + FontDescent) >= VHeight)
  PROVE  /\ UINT(UINT(row + LineHeight) - FontAscent) = Top + LineHeight
         /\ Top + LineHeight + LineHeight < VHeight
<1>1. /\ Top \in 0..VHeight /\ Top + LineHeight <= VHeight
      /\ row = UINT(Baseline) /\ Baseline = FontAscent + Top
      /\ Baseline \in -(MaxShort + 1)..3 * MaxShort + 1
  BY Line
<1>2. row \in 0..UIntValues - 1
  BY DEF IInv, PageType
<1>3. /\ Baseline \in -UIntValues..2 * UIntValues - 1
      /\ LineHeight + FontDescent \in Int
      /\ Baseline + (LineHeight + FontDescent) \in 0..UIntValues - 1
      /\ Baseline + (LineHeight + FontDescent) = Top + LineHeight + LineHeight
  BY <1>1, Sizes, PageSize DEF SHORT
<1>4. UINT(row + (LineHeight + FontDescent)) = Top + LineHeight + LineHeight
  BY <1>1, <1>3, UINTSum
<1>5. row + (LineHeight + FontDescent) = row + LineHeight + FontDescent
  BY <1>2, Sizes DEF SHORT
<1>6. Top + LineHeight + LineHeight < VHeight
  BY <1>1, <1>4, <1>5, Sizes, PageSize
<1>7. UINT(row + LineHeight) = UINT(FontAscent + (Top + LineHeight))
  <2>1. Baseline + LineHeight = FontAscent + (Top + LineHeight)
    BY <1>1, Sizes, PageSize DEF SHORT
  <2>2. CASE Baseline >= 0
    <3>1. row = Baseline
      <4>1. Baseline \in 0..UIntValues - 1
        BY <1>1, <2>2, Sizes
      <4> QED
        BY <1>1, <4>1, UINTSame
    <3> QED
      BY <2>1, <3>1
  <2>3. CASE Baseline < 0 /\ Baseline + LineHeight >= 0
    <3>1. Baseline + LineHeight \in 0..UIntValues - 1 /\ LineHeight \in Int
      BY <1>1, <2>3, Sizes DEF SHORT
    <3>2. UINT(row + LineHeight) = Baseline + LineHeight
      BY <1>1, <1>3, <3>1, UINTSum
    <3>3. UINT(Baseline + LineHeight) = Baseline + LineHeight
      BY <3>1, UINTSame
    <3> QED
      BY <2>1, <3>2, <3>3
  <2>4. CASE Baseline + LineHeight < 0
    <3>1. Baseline \in -UIntValues..-1 /\ Baseline + LineHeight \in -UIntValues..-1
      BY <1>1, <2>4, Sizes DEF SHORT
    <3>2. /\ row = Baseline + UIntValues
          /\ UINT(Baseline + LineHeight) = (Baseline + LineHeight) + UIntValues
      BY <1>1, <3>1, UINTWraps
    <3>3. /\ row + LineHeight = (Baseline + LineHeight) + UIntValues
          /\ (Baseline + LineHeight) + UIntValues \in 0..UIntValues - 1
      BY <3>1, <3>2, Sizes
    <3>4. UINT(row + LineHeight) = (Baseline + LineHeight) + UIntValues
      BY <3>3, UINTSame
    <3> QED
      BY <2>1, <3>2, <3>4
  <2> QED
    BY <1>1, <2>2, <2>3, <2>4, Sizes
<1>8. UINT(UINT(FontAscent + (Top + LineHeight)) - FontAscent) = Top + LineHeight
  <2>1. Top + LineHeight \in 0..4 * MaxShort + 4
    BY <1>1, Sizes, PageSize
  <2> QED
    BY <2>1, TopOf
<1> QED
  BY <1>6, <1>7, <1>8

LEMMA NewLineStep == IInv /\ NewLine => IInv'
<1> SUFFICES ASSUME IInv, NewLine PROVE IInv'
  OBVIOUS
<1>1. /\ at = "draw" /\ at' = at /\ UNCHANGED <<bm, dirty, labels>> /\ UNCHANGED input
      /\ row' = UINT(row + LineHeight) /\ col' = 0
      /\ ~(squeeze /\ ~dirty)
      /\ ~(UINT(row + LineHeight + FontDescent) >= VHeight)
  BY DEF NewLine, AtControl, Advance, Leading, PageFull
<1>2. /\ Top \in 0..VHeight /\ Top + LineHeight <= VHeight
      /\ row = UINT(Baseline) /\ Baseline = FontAscent + Top
      /\ Baseline \in -(MaxShort + 1)..3 * MaxShort + 1
  BY <1>1, Line
<1>3. row' \in 0..UIntValues - 1
  <2>1. row + LineHeight \in Int
    BY Sizes DEF IInv, PageType
  <2> QED
    BY <1>1, <2>1, UINTType
<1>4. Top' = Top + LineHeight /\ Top + LineHeight + LineHeight < VHeight
  BY <1>1, NextLine DEF Top
<1>5. portrait' = portrait /\ squeeze' = squeeze
  BY <1>1 DEF input
<1>6. \A bits : HasTop(bits)' <=> HasTop(bits)
  BY <1>5, SamePage DEF HasTop, LineHeight
<1>7. PageType'
  BY <1>1, <1>3, Sizes DEF IInv, PageType
<1>8. EveryLineFits'
  <2>1. LineHeight' = LineHeight
    BY DEF LineHeight
  <2>2. Top' + LineHeight <= VHeight
    BY <1>2, <1>4, Sizes, PageSize
  <2> QED
    BY <1>5, <2>1, <2>2, SamePage DEF EveryLineFits
<1>9. InkAccounted'
  BY <1>1 DEF IInv, InkAccounted
<1>10. TopInv'
  <2>1. HasTop(bm)' <=> HasTop(bm)
    BY <1>1, <1>6 DEF HasTop
  <2> QED
    BY <1>1, <1>5, <2>1 DEF IInv, TopInv
<1>11. TopLineUsed'
  BY <1>1, <1>5, <1>6 DEF IInv, TopLineUsed
<1> QED
  BY <1>7, <1>8, <1>9, <1>10, <1>11 DEF IInv

\* What put_glyph() sets are dots of the page.
LEMMA DrawnOnPage ==
  ASSUME IInv, NEW c \in Characters, NEW d \in Drawn(Glyphs[c], row, col)
  PROVE  /\ d \in Glyphs[c].dots
         /\ Place(Glyphs[c], row, col, d)[1] \in Nat /\ Place(Glyphs[c], row, col, d)[2] \in Nat
         /\ OnPage(Place(Glyphs[c], row, col, d)[1], Place(Glyphs[c], row, col, d)[2])
<1> DEFINE g == Glyphs[c]
<1>1. d \in Dots(g, row, col) /\ \A e \in OffPage(g, row, col) : Before(d, e)
  BY DEF Drawn
<1>2. d \in g.dots
  BY <1>1 DEF Dots
<1>3. d[1] \in Nat /\ d[2] \in Nat
  BY <1>2, GlyphType
<1>4. d \notin OffPage(g, row, col)
  BY <1>1, <1>3 DEF Before
<1>5. OnPage(Place(g, row, col, d)[1], Place(g, row, col, d)[2])
  BY <1>1, <1>4 DEF OffPage
<1>6. row \in Int /\ col \in Int
  BY Sizes DEF IInv, PageType
<1>7. /\ g.ascent \in Int /\ g.lbearing \in Int
  BY GlyphType, Sizes DEF SHORT
<1>8. LeftEdge(g, col) \in Int
  BY <1>6, <1>7 DEF LeftEdge
<1>9. UINT(row - g.ascent + d[1]) \in Nat /\ UINT(LeftEdge(g, col) + d[2]) \in Nat
  BY <1>3, <1>6, <1>7, <1>8, UINTType, Sizes
<1> QED
  BY <1>2, <1>5, <1>9 DEF Place

\* A glyph's ink goes to the rows that its metrics say, from the top of the line on.
LEMMA InkRow ==
  ASSUME IInv, at = "draw", NEW c \in Characters, NEW d \in Glyphs[c].dots
  PROVE  /\ UINT(row - Glyphs[c].ascent + d[1]) = Baseline - Glyphs[c].ascent + d[1]
         /\ Baseline - Glyphs[c].ascent + d[1] \in Top..Top + LineHeight - 1
<1> DEFINE g == Glyphs[c]
<1>1. /\ g.ascent \in SHORT /\ g.ascent <= FontAscent
      /\ g.descent \in SHORT /\ g.descent <= FontDescent
      /\ d[1] \in Nat /\ d[1] < g.ascent + g.descent
  BY GlyphType
<1>2. /\ Top \in 0..VHeight /\ Top + LineHeight <= VHeight
      /\ row = UINT(Baseline) /\ Baseline = FontAscent + Top
      /\ Baseline \in -(MaxShort + 1)..3 * MaxShort + 1
  BY Line
<1>3. row \in 0..UIntValues - 1
  BY DEF IInv, PageType
<1>4. Baseline - g.ascent + d[1] \in Top..Top + LineHeight - 1
  BY <1>1, <1>2, Sizes, PageSize DEF SHORT
<1>5. /\ Baseline \in -UIntValues..2 * UIntValues - 1
      /\ d[1] - g.ascent \in Int
      /\ Baseline + (d[1] - g.ascent) \in 0..UIntValues - 1
      /\ Baseline + (d[1] - g.ascent) = Baseline - g.ascent + d[1]
  BY <1>1, <1>2, <1>4, Sizes, PageSize DEF SHORT
<1>6. UINT(row + (d[1] - g.ascent)) = Baseline - g.ascent + d[1]
  BY <1>2, <1>5, UINTSum
<1>7. row + (d[1] - g.ascent) = row - g.ascent + d[1]
  BY <1>1, <1>3, Sizes DEF SHORT
<1> QED
  BY <1>4, <1>6, <1>7

\* So on a page's first line it goes there.
LEMMA FirstLineInk ==
  ASSUME IInv, at = "draw", Top = 0, NEW c \in Characters, NEW d \in Drawn(Glyphs[c], row, col)
  PROVE  Place(Glyphs[c], row, col, d)[1] < LineHeight
<1>1. d \in Glyphs[c].dots
  BY DEF Drawn, Dots
<1>2. UINT(row - Glyphs[c].ascent + d[1]) \in 0..LineHeight - 1
  BY <1>1, InkRow, Sizes
<1> QED
  BY <1>2, Sizes DEF Place

\* A glyph leaves the line where it is, and its dots are dots of the page.
LEMMA PutGlyphStep == IInv /\ PutGlyph => IInv'
<1> SUFFICES ASSUME IInv, PutGlyph PROVE IInv'
  OBVIOUS
<1> PICK c \in Characters :
      /\ AtGlyph(c)
      /\ bm' = bm \cup Ink(Glyphs[c], row, col)
      /\ dirty' = (dirty \/ Drawn(Glyphs[c], row, col) # {})
      /\ col' = NextColumn(Glyphs[c], col)
      /\ Goto(IF OffPage(Glyphs[c], row, col) = {} THEN "draw" ELSE "assert")
      /\ Advance
      /\ UNCHANGED <<row, labels>>
  BY DEF PutGlyph
<1> DEFINE g == Glyphs[c]
           dot(d) == Physical(Place(g, row, col, d)[1], Place(g, row, col, d)[2])
<1>1. at = "draw" /\ at' \in {"draw", "assert"} /\ UNCHANGED <<input, row, labels>>
  BY DEF AtGlyph, Goto, Advance
<1>2. portrait' = portrait /\ squeeze' = squeeze
  BY <1>1 DEF input
<1>3. \A d \in Drawn(g, row, col) : /\ dot(d) \in (0..Height - 1) \X (0..Width - 1)
                          /\ Logical(dot(d))[1] = Place(g, row, col, d)[1]
  BY DrawnOnPage, DotOnPage
<1>4. bm' = bm \cup {dot(d) : d \in Drawn(g, row, col)}
  BY DEF Ink
<1>5. PageType'
  <2>1. bm' \in Bitmaps
    BY <1>3, <1>4 DEF IInv, PageType, Bitmaps
  <2>2. col' \in 0..UIntValues - 1
    <3>0. col \in 0..UIntValues - 1 /\ UIntValues \in Nat /\ MaxShort \in Nat
      BY Sizes DEF IInv, PageType
    <3>1. col \in Int /\ g.lbearing \in Int /\ g.width \in Int
      <4>1. g.lbearing \in SHORT /\ g.width \in SHORT
        BY GlyphType
      <4> HIDE DEF g
      <4> QED
        BY <3>0, <4>1 DEF SHORT
    <3>2. LeftEdge(g, col) \in Int
      BY <3>1 DEF LeftEdge
    <3>3. LeftEdge(g, col) + g.width + (IF Clipped(g, col) THEN -g.lbearing ELSE 0) \in Int
      BY <3>1, <3>2
    <3> QED
      BY <3>3, UINTType DEF NextColumn
  <2>3. dirty' \in BOOLEAN
    BY DEF IInv, PageType
  <2> QED
    BY <1>1, <2>1, <2>2, <2>3 DEF IInv, PageType, Ends
<1>6. EveryLineFits'
  BY <1>1, <1>2, SamePage DEF IInv, EveryLineFits, Top, LineHeight
<1>7. InkAccounted'
  <2>1. dirty' <=> bm' # {}
    BY <1>1, <1>4 DEF IInv, InkAccounted
  <2> QED
    BY <1>1, <2>1 DEF IInv, InkAccounted
<1>8. \A bits : HasTop(bits)' <=> HasTop(bits)
  BY <1>2, SamePage DEF HasTop, LineHeight
<1>9. TopInv'
  <2> SUFFICES ASSUME squeeze PROVE IF dirty' THEN HasTop(bm') ELSE Top' = 0
    <3>1. HasTop(bm)' <=> HasTop(bm')
      BY <1>2, SamePage DEF HasTop, LineHeight
    <3> QED
      BY <1>2, <3>1 DEF TopInv
  <2>1. CASE dirty
    <3>1. HasTop(bm)
      BY <1>1, <2>1 DEF IInv, TopInv
    <3> QED
      BY <1>4, <2>1, <3>1 DEF HasTop
  <2>2. CASE ~dirty /\ Drawn(g, row, col) # {}
    <3>1. Top = 0
      BY <1>1, <2>2 DEF IInv, TopInv
    <3>2. PICK d \in Drawn(g, row, col) : TRUE
      BY <2>2
    <3>3. Logical(dot(d))[1] < LineHeight
      BY <1>1, <1>3, <3>1, FirstLineInk
    <3>4. dot(d) \in bm'
      BY <1>4
    <3> QED
      BY <2>2, <3>3, <3>4 DEF HasTop
  <2>3. CASE ~dirty /\ Drawn(g, row, col) = {}
    BY <1>1, <2>3 DEF IInv, TopInv, Top
  <2> QED
    BY <2>1, <2>2, <2>3
<1>10. TopLineUsed'
  BY <1>1, <1>2, <1>8 DEF IInv, TopLineUsed
<1> QED
  BY <1>5, <1>6, <1>7, <1>9, <1>10 DEF IInv

\* Every step of render() keeps the invariant.
LEMMA Inductive == IInv /\ [Next]_vars => IInv'
  BY QuietStep, Render1Step, NewPageStep, EndOfFileStep, NewLineStep, PutGlyphStep
     DEF Next, Step, Over

-----------------------------------------------------------------------------
(***************************************************************************)
(* The theorems.                                                           *)
(***************************************************************************)

\* The inductive invariant: the current line fits, the ink is accounted for,
\* and with -s a page without ink is at its first line.
THEOREM Invariance == Spec => []IInv
<1>1. Init => IInv
  BY InitIInv
<1>2. IInv /\ [Next]_vars => IInv'
  BY Inductive
<1> QED
  BY <1>1, <1>2, PTL DEF Spec

\* EveryLineFits: the page breaks of render.c:279 come soon enough, for every
\* font that checkfontmetrics() accepts, every bitmap, and both orientations.
THEOREM LinesFit == Spec => []EveryLineFits
<1>1. IInv => EveryLineFits
  BY DEF IInv
<1> QED
  BY <1>1, Invariance, PTL

\* InkAccounted: arena.dirty is right, and no blank label is printed.
THEOREM NoBlankLabels == Spec => []InkAccounted
<1>1. IInv => InkAccounted
  BY DEF IInv
<1> QED
  BY <1>1, Invariance, PTL

\* TopLineUsed: with -s, every label printed has ink on its first line.
THEOREM TopLines == Spec => []TopLineUsed
<1>1. IInv => TopLineUsed
  BY DEF IInv
<1> QED
  BY <1>1, Invariance, PTL

\* A page with ink that a step takes away was printed by it, and no step goes
\* back up a page that stays.
LEMMA PageTurns ==
  ASSUME IInv, Next, at # "copy", ~(bm \subseteq bm') \/ Top' < Top
  PROVE  bm' = {} /\ (bm # {} => labels' # <<>> /\ Last(labels') = bm)
<1>1. Top \in Int
  BY UINTType, Sizes DEF IInv, PageType, Top, SHORT
<1>2. CASE NewPage \/ FormFeed
  <2>1. at = "draw" /\ PrintIfDirty /\ bm' = {}
    BY <1>2 DEF NewPage, FormFeed, AtControl, Blank
  <2>2. SUFFICES ASSUME bm # {} PROVE labels' # <<>> /\ Last(labels') = bm
    BY <2>1
  <2>3. labels' = Append(labels, bm)
    BY <2>1, <2>2 DEF IInv, InkAccounted, PrintIfDirty
  <2>4. labels \in Seq(Bitmaps) /\ bm \in Bitmaps
    BY DEF IInv, PageType
  <2>5. Len(labels') = Len(labels) + 1 /\ labels'[Len(labels) + 1] = bm /\ Len(labels) \in Nat
    BY <2>3, <2>4
  <2>6. labels' # <<>>
    BY <2>5
  <2> QED
    BY <2>5, <2>6 DEF Last
<1>3. CASE NewLine
  <2>1. /\ at = "draw" /\ bm' = bm /\ row' = UINT(row + LineHeight)
        /\ ~(UINT(row + LineHeight + FontDescent) >= VHeight)
    BY <1>3 DEF NewLine, AtControl, PageFull
  <2>2. Top' = Top + LineHeight
    BY <2>1, NextLine DEF Top
  <2>3. ~(Top' < Top) /\ bm \subseteq bm'
    BY <1>1, <2>1, <2>2, Sizes
  <2> QED
    BY <2>3
<1>4. CASE \/ Return \/ ReadChunk \/ EndOfFile \/ ChunkDone \/ PutGlyph \/ Tab
           \/ Squeezed \/ CarriageReturn \/ Undefined \/ Over
  <2>1. bm \subseteq bm' /\ Top' = Top
    BY <1>4 DEF Top, Return, ReadChunk, EndOfFile, ChunkDone, PutGlyph, Tab, Squeezed,
                CarriageReturn, Undefined, Over, page, vars
  <2> QED
    BY <1>1, <2>1
<1>5. ~Render1
  BY DEF Render1
<1> QED
  BY <1>2, <1>3, <1>4, <1>5 DEF Next, Step

\* PagesTurn: ink leaves a page only when the page has just been printed.
THEOREM NoInkLost == Spec => PagesTurn
<1>1. IInv /\ [Next]_vars =>
        [at # "copy" /\ (~(bm \subseteq bm') \/ Top' < Top)
          => bm' = {} /\ (bm # {} => labels' # <<>> /\ Last(labels') = bm)]_vars
  BY PageTurns
<1> QED
  BY <1>1, Invariance, PTL DEF Spec, PagesTurn

-----------------------------------------------------------------------------
(***************************************************************************)
(* The chunks.  What is said of all chunks is an argument about a least    *)
(* counterexample, for which the library has that the numbers are well     *)
(* ordered.                                                                *)
(***************************************************************************)

LEMMA NatLeast ==
  ASSUME NEW T \in SUBSET Nat, T # {}
  PROVE  \E m \in T : \A k \in T : m <= k
<1> DEFINE R == {ss \in Nat \X Nat : ss[1] < ss[2]}
<1>1. OpToRel(<, Nat) = R
  BY DEF OpToRel
<1>2. IsWellFoundedOn(R, Nat)
  BY NatLessThanWellFounded, <1>1
<1>3. \E x \in T : \A y \in T : ~(<<y, x>> \in R)
  <2> HIDE DEF R
  <2> QED  BY <1>2, WFMin, Zenon
<1>4. PICK x \in T : \A y \in T : ~(<<y, x>> \in R)
  BY <1>3
<1>5. ASSUME NEW k \in T PROVE x <= k
  <2>1. k \in Nat /\ x \in Nat
    OBVIOUS
  <2>2. ~(k < x)
    BY <1>4, <2>1
  <2> QED  BY <2>1, <2>2
<1> QED  BY <1>5

LEMMA UpTo ==
  ASSUME NEW last \in Nat, NEW T, 0 \in T, \A k \in 0..last - 1 : k \in T => k + 1 \in T
  PROVE  \A k \in 0..last : k \in T
<1> DEFINE C == {k \in 0..last : k \notin T}
<1> SUFFICES ASSUME C # {} PROVE FALSE
  OBVIOUS
<1>1. PICK m \in C : \A k \in C : m <= k
  <2>1. C \in SUBSET Nat
    OBVIOUS
  <2> HIDE DEF C
  <2> QED  BY <2>1, NatLeast
<1>2. m \in 0..last /\ m # 0 /\ m \notin T
  OBVIOUS
<1>3. m - 1 \in 0..last - 1 /\ m - 1 \notin C
  BY <1>1, <1>2
<1>4. m - 1 \in T
  BY <1>3
<1>5. (m - 1) + 1 \in T
  BY <1>3, <1>4
<1> QED  BY <1>2, <1>5

\* fgets() reads at least one character unless the file is at its end.
LEMMA ChunkType ==
  ASSUME file \in Seq(Characters), NEW i \in Nat \ {0}, i <= Len(file)
  PROVE  Chunk(i) \in Seq(Characters) /\ Len(Chunk(i)) \in Nat \ {0}
<1> DEFINE T == {n \in i..Len(file) : n = Len(file) \/ n = i + BUFSIZ - 2 \/ file[n] = "LF"}
           Stops(n) == /\ n = Len(file) \/ n = i + BUFSIZ - 2 \/ file[n] = "LF"
                       /\ \A k \in i..n - 1 : k # i + BUFSIZ - 2 /\ file[k] # "LF"
           last == CHOOSE n \in i..Len(file) : Stops(n)
<1>1. Len(file) \in Nat /\ Len(file) \in T /\ T \in SUBSET Nat
  OBVIOUS
<1>2. PICK m \in T : \A k \in T : m <= k
  <2> HIDE DEF T
  <2> QED  BY <1>1, NatLeast
<1>3. Stops(m)
  <2>1. m \in i..Len(file) /\ (m = Len(file) \/ m = i + BUFSIZ - 2 \/ file[m] = "LF")
    OBVIOUS
  <2>2. ASSUME NEW k \in i..m - 1 PROVE k # i + BUFSIZ - 2 /\ file[k] # "LF"
    <3>1. k \in i..Len(file) /\ ~(m <= k)
      BY <2>1, <1>1
    <3>2. k \notin T
      BY <1>2, <3>1
    <3> QED  BY <3>1, <3>2
  <2> QED  BY <2>1, <2>2
<1>4. last \in i..Len(file)
  <2>1. m \in i..Len(file)
    OBVIOUS
  <2> HIDE DEF Stops, T
  <2> QED  BY <1>3, <2>1
<1>5. Chunk(i) = SubSeq(file, i, last)
  BY DEF Chunk
<1> HIDE DEF last
<1> QED  BY <1>1, <1>4, <1>5

\* A chunk's characters, less the backspaces, are characters.
LEMMA FoldType ==
  ASSUME NEW s \in Seq(Characters)
  PROVE  Fold(s) \in Seq(Characters)
<1> DEFINE Next1(g, k) == IF s[k] = "BS" THEN Front(g[k - 1]) ELSE Append(g[k - 1], s[k])
           Rec(g, n) == g = [k \in 0..n |-> IF k = 0 THEN <<>> ELSE Next1(g, k)]
           T == {n \in Nat : \E g : Rec(g, n)}
           last == Len(s)
<1>1. last \in Nat /\ \A k \in 1..last : s[k] \in Characters
  OBVIOUS
<1>2. 0 \in T
  <2> DEFINE g == [k \in 0..0 |-> <<>>]
  <2>1. g = [k \in 0..0 |-> IF k = 0 THEN <<>> ELSE Next1(g, k)]
    OBVIOUS
  <2>2. Rec(g, 0)
    BY <2>1
  <2> HIDE DEF Rec, g
  <2> QED  BY <2>2
<1>3. ASSUME NEW n \in 0..last - 1, n \in T PROVE n + 1 \in T
  <2>1. PICK g : Rec(g, n)
    BY <1>3
  <2> DEFINE h == [k \in 0..n + 1 |-> IF k = 0 THEN <<>> ELSE Next1(g, k)]
  <2>2. \A k \in 0..n : h[k] = g[k]
    <3>1. n \in Nat
      BY <1>1
    <3>2. \A k \in 0..n : g[k] = IF k = 0 THEN <<>> ELSE Next1(g, k)
      BY <2>1
    <3>3. \A k \in 0..n : k \in 0..n + 1
      BY <3>1
    <3> HIDE DEF Next1
    <3> QED  BY <3>2, <3>3
  <2>3. \A k \in 0..n + 1 : k # 0 => h[k - 1] = g[k - 1]
    <3>1. \A k \in 0..n + 1 : k # 0 => k - 1 \in 0..n
      BY <1>1
    <3> HIDE DEF h
    <3> QED  BY <2>2, <3>1
  <2>4. \A k \in 0..n + 1 : k # 0 => Next1(h, k) = Next1(g, k)
    <3> HIDE DEF h
    <3> QED  BY <2>3
  <2>5. h = [k \in 0..n + 1 |-> IF k = 0 THEN <<>> ELSE Next1(h, k)]
    <3> HIDE DEF h, Next1
    <3> QED  BY <2>4 DEF h
  <2>6. Rec(h, n + 1)
    BY <2>5
  <2>7. n + 1 \in Nat
    BY <1>1
  <2> HIDE DEF h, Rec
  <2> QED  BY <2>6, <2>7
<1>4. last \in T
  <2>1. last \in 0..last
    BY <1>1
  <2> HIDE DEF T, last
  <2> QED  BY <1>1, <1>2, <1>3, <2>1, UpTo
<1>5. \E g : Rec(g, last)
  BY <1>4, Zenon
<1> DEFINE out[k \in 0..Len(s)] ==
             IF k = 0 THEN <<>> ELSE IF s[k] = "BS" THEN Front(out[k - 1]) ELSE Append(out[k - 1], s[k])
<1>6. Rec(out, last)
  BY <1>5, Zenon
<1>7. Fold(s) = out[last]
  BY DEF Fold
<1> HIDE DEF out
<1> DEFINE S == {k \in Nat : out[k] \in Seq(Characters)}
<1>8. out[0] = <<>> /\ \A k \in 0..last : k # 0 => out[k] = Next1(out, k)
  <2>1. 0 \in 0..last
    BY <1>1
  <2>2. \A k \in 0..last : out[k] = IF k = 0 THEN <<>> ELSE Next1(out, k)
    <3> HIDE DEF Next1, last
    <3> QED  BY <1>6
  <2> HIDE DEF Next1, last
  <2> QED  BY <2>1, <2>2
<1>9. 0 \in S
  <2>1. out[0] = <<>> /\ <<>> \in Seq(Characters)
    BY <1>8
  <2> QED  BY <2>1
<1>10. ASSUME NEW k \in 0..last - 1, k \in S PROVE k + 1 \in S
  <2>1. k + 1 \in 0..last /\ k + 1 # 0 /\ (k + 1) - 1 = k /\ s[k + 1] \in Characters /\ k + 1 \in Nat
    BY <1>1
  <2>2. out[k + 1] = IF s[k + 1] = "BS" THEN Front(out[k]) ELSE Append(out[k], s[k + 1])
    BY <1>8, <2>1
  <2>3. out[k] \in Seq(Characters)
    BY <1>10
  <2>4. Front(out[k]) \in Seq(Characters)
    <3> DEFINE q == out[k]
    <3>1. q \in Seq(Characters) /\ Len(q) \in Nat
      BY <2>3
    <3>2. Len(q) - 1 <= Len(q)
      BY <3>1
    <3> HIDE DEF q
    <3>3. SubSeq(q, 1, Len(q) - 1) \in Seq(Characters)
      BY <3>1, <3>2
    <3> QED  BY <3>3 DEF Front, q
  <2> DEFINE q == out[k]
             c == s[k + 1]
  <2>5. c \in Characters /\ q \in Seq(Characters) /\ Front(q) \in Seq(Characters)
    BY <2>1, <2>3, <2>4
  <2>6. out[k + 1] = IF c = "BS" THEN Front(q) ELSE Append(q, c)
    BY <2>2
  <2> HIDE DEF q, c
  <2>7. out[k + 1] \in Seq(Characters)
    BY <2>5, <2>6
  <2> QED  BY <2>1, <2>7
<1>11. last \in S
  <2>1. last \in 0..last
    BY <1>1
  <2> HIDE DEF S, last
  <2> QED  BY <1>1, <1>9, <1>10, <2>1, UpTo
<1> QED  BY <1>7, <1>11

-----------------------------------------------------------------------------
(***************************************************************************)
(* The types.                                                              *)
(***************************************************************************)

\* The part of TypeOK that is about the file.
ReadType ==
  /\ portrait \in BOOLEAN /\ squeeze \in BOOLEAN /\ file \in Files
  /\ copy \in Nat /\ next \in Nat \ {0} /\ buf \in Seq(Characters)

LEMMA ReadTypes == ReadType /\ [Next]_vars => ReadType'
<1> SUFFICES ASSUME ReadType, [Next]_vars PROVE ReadType'
  OBVIOUS
<1> USE DEF ReadType
<1>1. file \in Seq(Characters)
  BY RenderAssumption
<1>2. CASE Render1
  <2>1. UNCHANGED input /\ copy' = copy + 1 /\ next' = 1 /\ buf' = <<>>
    BY <1>2 DEF Render1
  <2> QED  BY <2>1 DEF input
<1>3. CASE ReadChunk
  <2>1. /\ next <= Len(file) /\ next' = next + Len(Chunk(next))
        /\ UNCHANGED input /\ UNCHANGED copy
        /\ buf' = <<>> \/ buf' = Fold(Chunk(next))
    BY <1>3 DEF ReadChunk
  <2>2. Chunk(next) \in Seq(Characters) /\ Len(Chunk(next)) \in Nat \ {0}
    BY <1>1, <2>1, ChunkType
  <2>3. Fold(Chunk(next)) \in Seq(Characters)
    BY <2>2, FoldType
  <2>4. buf' \in Seq(Characters)
    <3>1. <<>> \in Seq(Characters)
      OBVIOUS
    <3> QED  BY <2>1, <2>3, <3>1, Zenon
  <2>5. next' \in Nat \ {0}
    <3> DEFINE l == Len(Chunk(next))
    <3>1. next \in Nat \ {0} /\ l \in Nat \ {0} /\ next' = next + l
      BY <2>1, <2>2
    <3> HIDE DEF l
    <3> QED  BY <3>1
  <2> QED  BY <2>1, <2>4, <2>5 DEF input
<1>4. CASE \/ PutGlyph \/ Tab \/ Squeezed \/ NewLine \/ NewPage
           \/ CarriageReturn \/ FormFeed \/ Undefined
  <2>1. Advance /\ buf # <<>>
    BY <1>4 DEF PutGlyph, Tab, Squeezed, NewLine, NewPage, CarriageReturn, FormFeed, Undefined,
                AtGlyph, AtControl
  <2>2. Tail(buf) \in Seq(Characters)
    BY <2>1
  <2> QED  BY <2>1, <2>2 DEF Advance, input
<1>5. CASE Return \/ EndOfFile \/ ChunkDone \/ Over \/ UNCHANGED vars
  BY <1>5 DEF Return, EndOfFile, ChunkDone, Over, vars, input
<1> QED
  BY <1>2, <1>3, <1>4, <1>5 DEF Next, Step

LEMMA ReadTypeAlways == Spec => []ReadType
<1>1. Init => ReadType
  BY DEF Init, ReadType
<1> QED
  BY <1>1, ReadTypes, PTL DEF Spec

\* TypeOK: render()'s variables keep their types, and no dot is set outside the bitmap, for
\* every font, bitmap and file.
THEOREM RenderTypeOK == Spec => []TypeOK
<1>1. IInv /\ ReadType => TypeOK
  BY DEF IInv, PageType, ReadType, TypeOK
<1> QED
  BY <1>1, Invariance, ReadTypeAlways, PTL

-----------------------------------------------------------------------------
(***************************************************************************)
(* Whole glyphs.                                                           *)
(***************************************************************************)

\* A glyph whose box lies on the page passes the test, but for those that WholeGlyphs names.
LEMMA BoxFits ==
  ASSUME IInv, at = "draw", NEW c \in Characters, BoxOnPage(Glyphs[c]),
         Glyphs[c].lbearing <= 0, Glyphs[c].rbearing >= 0, ~Below(Glyphs[c])
  PROVE  Fits(Glyphs[c], row, col)
<1> DEFINE g == Glyphs[c]
<1>1. Glyphs[c] \in Metrics /\ MetricsOK(Glyphs[c])
  BY RenderAssumption
<1>2. /\ g.ascent \in SHORT /\ g.descent \in SHORT /\ g.lbearing \in SHORT /\ g.rbearing \in SHORT
      /\ g.ascent + g.descent >= 0
  BY <1>1 DEF Metrics, MetricsOK
<1>3. row \in 0..UIntValues - 1 /\ col \in 0..UIntValues - 1
  BY DEF IInv, PageType
<1>4. /\ LeftEdge(g, col) + (g.rbearing - g.lbearing) <= VWidth
      /\ Baseline - g.ascent >= 0 /\ Baseline + g.descent <= VHeight
  BY DEF BoxOnPage, Extent
<1>5. LeftEdge(g, col) \in Nat
  BY <1>2, <1>3, Sizes DEF LeftEdge, Clipped, SHORT
<1>6. LeftEdge(g, col) + g.rbearing \in 0..VWidth
  <2> DEFINE e == LeftEdge(g, col)
  <2>1. e \in Nat /\ e + (g.rbearing - g.lbearing) <= VWidth
    BY <1>4, <1>5
  <2> HIDE DEF e
  <2>2. e + g.rbearing \in 0..VWidth
    BY <1>2, <2>1, PageSize, Sizes DEF SHORT
  <2> QED  BY <2>2 DEF e
<1>7. UINT(LeftEdge(g, col) + g.rbearing) <= VWidth
  <2> DEFINE e == LeftEdge(g, col) + g.rbearing
  <2>1. e \in 0..VWidth
    BY <1>6
  <2> HIDE DEF e
  <2>2. e \in 0..UIntValues - 1
    BY <2>1, Sizes, PageSize
  <2>3. UINT(e) = e
    BY <2>2, UINTSame
  <2>4. UINT(e) <= VWidth
    BY <2>1, <2>3, PageSize, Sizes
  <2> QED  BY <2>4 DEF e
<1>8. row = UINT(Baseline) /\ Baseline \in -(MaxShort + 1)..3 * MaxShort + 1
  BY Line
<1>9. row >= UINT(g.ascent)
  <2>1. CASE g.ascent >= 0
    <3>1. g.ascent \in 0..UIntValues - 1 /\ Baseline \in 0..UIntValues - 1 /\ Baseline >= g.ascent
      BY <1>2, <1>4, <1>8, <2>1, Sizes DEF SHORT
    <3> QED
      BY <1>8, <3>1, UINTSame
  <2>2. CASE g.ascent < 0
    <3>1. Baseline < 0
      BY <1>8, <2>2, Sizes DEF Below
    <3>2. /\ g.ascent \in -UIntValues..-1 /\ Baseline \in -UIntValues..-1
          /\ g.ascent + UIntValues <= Baseline + UIntValues
      BY <1>2, <1>4, <1>8, <2>2, <3>1, Sizes DEF SHORT
    <3> QED
      BY <1>8, <3>2, UINTWraps
  <2> QED
    BY <1>2, <2>1, <2>2, Sizes DEF SHORT
<1>10. UINT(row + g.descent) <= VHeight
  <2>1. /\ Baseline \in -UIntValues..2 * UIntValues - 1 /\ g.descent \in Int
        /\ Baseline + g.descent \in 0..UIntValues - 1
    BY <1>2, <1>4, <1>8, Sizes, PageSize DEF SHORT
  <2>2. UINT(row + g.descent) = Baseline + g.descent
    BY <1>8, <2>1, UINTSum
  <2> QED
    BY <1>4, <2>2
<1> QED
  BY <1>7, <1>9, <1>10 DEF Fits

\* A step at a glyph puts that glyph.
LEMMA GlyphIsPut ==
  ASSUME Next, NEW c \in Characters, AtGlyph(c)
  PROVE  /\ bm' = bm \cup Ink(Glyphs[c], row, col)
         /\ at' = IF OffPage(Glyphs[c], row, col) = {} THEN "draw" ELSE "assert"
<1>1. at = "draw" /\ buf # <<>> /\ c = Head(buf) /\ Printing(c)
  BY DEF AtGlyph
<1>2. PutGlyph
  <2>1. \A x : ~AtControl(x)
    BY <1>1 DEF AtControl
  <2>2. ~(Tab \/ Squeezed \/ NewLine \/ NewPage \/ CarriageReturn \/ FormFeed \/ Undefined)
    BY <2>1 DEF Tab, Squeezed, NewLine, NewPage, CarriageReturn, FormFeed, Undefined
  <2>3. ~(Render1 \/ Return \/ ReadChunk \/ EndOfFile \/ ChunkDone \/ Over)
    BY <1>1 DEF Render1, Return, ReadChunk, EndOfFile, ChunkDone, Over, Ends
  <2> QED
    BY <2>2, <2>3 DEF Next, Step
<1>3. PICK x \in Characters :
        /\ AtGlyph(x)
        /\ bm' = bm \cup Ink(Glyphs[x], row, col)
        /\ Goto(IF OffPage(Glyphs[x], row, col) = {} THEN "draw" ELSE "assert")
  BY <1>2 DEF PutGlyph
<1>4. x = c
  BY <1>1, <1>3 DEF AtGlyph
<1> QED
  BY <1>3, <1>4 DEF Goto

\* When no dot is off the page the whole glyph was drawn, or none of it.
LEMMA GlyphWhole ==
  ASSUME IInv, Next, NEW c \in Characters, AtGlyph(c), at' = "draw"
  PROVE  \/ bm' = bm \cup InkOf(Glyphs[c])
         \/ /\ bm' = bm
            /\ BoxOnPage(Glyphs[c]) =>
                 Glyphs[c].lbearing > 0 \/ Glyphs[c].rbearing < 0 \/ Below(Glyphs[c])
<1> DEFINE g == Glyphs[c]
<1>1. bm' = bm \cup Ink(g, row, col) /\ OffPage(g, row, col) = {}
  BY GlyphIsPut
<1>2. Drawn(g, row, col) = Dots(g, row, col)
  BY <1>1 DEF Drawn
<1>3. CASE Fits(g, row, col)
  <2>1. Drawn(g, row, col) = g.dots
    BY <1>2, <1>3 DEF Dots
  <2>2. at = "draw"
    BY DEF AtGlyph
  <2>3. \A d \in g.dots : UINT(row - g.ascent + d[1]) = Baseline - g.ascent + d[1]
    BY <2>2, InkRow
  <2>4. \A d \in g.dots : Physical(Place(g, row, col, d)[1], Place(g, row, col, d)[2])
                          = Physical(Baseline - g.ascent + d[1], UINT(LeftEdge(g, col) + d[2]))
    BY <2>3 DEF Place
  <2>5. Ink(g, row, col) = InkOf(g)
    BY <2>1, <2>4, Zenon DEF Ink, InkOf
  <2> QED
    BY <1>1, <2>5
<1>4. CASE ~Fits(g, row, col)
  <2>1. Ink(g, row, col) = {}
    BY <1>2, <1>4 DEF Dots, Ink
  <2>2. bm' = bm
    BY <1>1, <2>1
  <2>3. BoxOnPage(g) => g.lbearing > 0 \/ g.rbearing < 0 \/ Below(g)
    <3>1. SUFFICES ASSUME BoxOnPage(g), ~(g.lbearing > 0 \/ g.rbearing < 0 \/ Below(g)) PROVE FALSE
      OBVIOUS
    <3>2. g.lbearing \in Int /\ g.rbearing \in Int
      <4>1. g \in Metrics
        BY RenderAssumption
      <4> QED  BY <4>1, Sizes DEF Metrics, SHORT
    <3>3. /\ at = "draw"
          /\ g.lbearing <= 0 /\ g.rbearing >= 0 /\ ~Below(g)
      BY <3>1, <3>2 DEF AtGlyph
    <3> QED
      BY <1>4, <3>1, <3>3, BoxFits
  <2> QED
    BY <2>2, <2>3
<1> QED
  BY <1>3, <1>4

\* WholeGlyphs: a glyph is drawn whole or not at all, and is left out for the reasons that
\* put_glyph() has, for every font that checkfontmetrics() accepts (render.c:150-168).
THEOREM GlyphsAreWhole == Spec => WholeGlyphs
<1>1. IInv /\ [Next]_vars =>
        [\A c \in Characters : LET g == Glyphs[c] IN
           AtGlyph(c) /\ at' = "draw" =>
             \/ bm' = bm \cup InkOf(g)
             \/ bm' = bm /\ (BoxOnPage(g) => g.lbearing > 0 \/ g.rbearing < 0 \/ Below(g))]_vars
  BY GlyphWhole
<1> QED
  BY <1>1, Invariance, PTL DEF Spec, WholeGlyphs

-----------------------------------------------------------------------------
(***************************************************************************)
(* Copies.  The copy that is being rendered is a record, what follows it a *)
(* function, and the copy a trail of such records from a start that is the *)
(* same for all copies: so all trails end with the same labels.            *)
(***************************************************************************)

\* Where render1() is, and the labels that this copy has printed.
Here(out) ==
  [at |-> at, next |-> next, buf |-> buf, row |-> row, col |-> col, bm |-> bm, dirty |-> dirty, out |-> out]

Start ==
  [at |-> "read", next |-> 1, buf |-> <<>>, row |-> UINT(FontAscent), col |-> 0, bm |-> {}, dirty |-> FALSE,
   out |-> <<>>]

Going(s) == s.at \in {"read", "draw"}

PrintedOf(s) == IF s.dirty THEN Append(s.out, s.bm) ELSE s.out

ReadOf(s) ==
  IF s.next <= Len(file)
    THEN [s EXCEPT !.next = s.next + Len(Chunk(s.next)),
                   !.at = IF Underflows(Chunk(s.next)) THEN "wild" ELSE "draw",
                   !.buf = IF Underflows(Chunk(s.next)) THEN <<>> ELSE Fold(Chunk(s.next))]
    ELSE [s EXCEPT !.at = "copy", !.out = PrintedOf(s)]

GlyphOf(s, g) ==
  [at |-> IF OffPage(g, s.row, s.col) = {} THEN "draw" ELSE "assert", next |-> s.next, buf |-> s.buf,
   row |-> s.row, col |-> NextColumn(g, s.col), bm |-> s.bm \cup Ink(g, s.row, s.col),
   dirty |-> IF Drawn(g, s.row, s.col) = {} THEN s.dirty ELSE TRUE, out |-> s.out]

TabOf(s) ==
  IF SpaceWidth = 0 THEN [s EXCEPT !.at = "divzero"] ELSE [s EXCEPT !.col = UINT(TabStop(s.col))]

PageOf(s) ==
  [s EXCEPT !.out = PrintedOf(s), !.row = UINT(FontAscent), !.col = 0, !.bm = {}, !.dirty = FALSE]

LineOf(s) ==
  IF squeeze /\ ~s.dirty THEN s
  ELSE IF PageFull(s.row) THEN PageOf(s) ELSE [s EXCEPT !.row = UINT(s.row + LineHeight), !.col = 0]

CharOf(s, c) ==
  CASE Printing(c) -> GlyphOf(s, Glyphs[c])
    [] ~Printing(c) /\ c = "HT" -> TabOf(s)
    [] ~Printing(c) /\ c = "LF" -> LineOf(s)
    [] ~Printing(c) /\ c = "CR" -> [s EXCEPT !.col = 0]
    [] ~Printing(c) /\ c = "FF" -> PageOf(s)
    [] OTHER -> [s EXCEPT !.col = UINT(s.col + SpaceWidth)]

\* What a step makes of a copy.
StepOf(s) ==
  IF s.at = "read" THEN ReadOf(s)
  ELSE IF s.buf = <<>> THEN [s EXCEPT !.at = "read"]
  ELSE [CharOf(s, Head(s.buf)) EXCEPT !.buf = Tail(s.buf)]

\* The first k steps of a copy, and what they come to.
Trail(F, k) ==
  /\ k \in Nat /\ F[0] = Start
  /\ \A i \in 0..k - 1 : Going(F[i]) /\ F[i + 1] = StepOf(F[i])
Reached(s) == \E F, k : Trail(F, k) /\ F[k] = s

\* The arguments and the file decide what a step does.
LEMMA SameStep ==
  ASSUME UNCHANGED input
  PROVE  \A s : StepOf(s)' = StepOf(s)
<1>1. portrait' = portrait /\ squeeze' = squeeze /\ file' = file
  BY DEF input
<1>2. VHeight' = VHeight /\ VWidth' = VWidth
  BY <1>1 DEF VHeight, VWidth
<1>3. \A i : Chunk(i)' = Chunk(i)
  BY <1>1 DEF Chunk
<1>4. \A g, r, c : Dots(g, r, c)' = Dots(g, r, c)
  BY <1>2 DEF Dots, Fits
<1>5. \A g, r, c : OffPage(g, r, c)' = OffPage(g, r, c)
  BY <1>2, <1>4 DEF OffPage, OnPage
<1>6. \A g, r, c : Drawn(g, r, c)' = Drawn(g, r, c)
  BY <1>4, <1>5 DEF Drawn
<1>7. \A r, c : Physical(r, c)' = Physical(r, c)
  BY <1>2 DEF Physical
<1>8. \A g, r, c : Ink(g, r, c)' = Ink(g, r, c)
  BY <1>6, <1>7 DEF Ink
<1>9. \A s : ReadOf(s)' = ReadOf(s)
  BY <1>1, <1>3 DEF ReadOf, PrintedOf
<1>10. \A s, g : GlyphOf(s, g)' = GlyphOf(s, g)
  BY <1>5, <1>6, <1>8 DEF GlyphOf
<1>11. \A s : LineOf(s)' = LineOf(s)
  BY <1>1, <1>2 DEF LineOf, PageFull, PageOf
<1>12. \A s, c : CharOf(s, c)' = CharOf(s, c)
  BY <1>10, <1>11 DEF CharOf, TabOf, PageOf
<1> QED
  BY <1>9, <1>12 DEF StepOf

\* A step that reads.
LEMMA ReadFollows ==
  ASSUME at \in {"read", "draw"}, ReadChunk \/ ChunkDone,
         NEW old, NEW out, labels = old \o out
  PROVE  labels' = old \o out /\ Here(out)' = StepOf(Here(out))
<1>1. CASE ReadChunk
  <2>1. at = "read" /\ next <= Len(file) /\ next' = next + Len(Chunk(next))
        /\ at' = (IF Underflows(Chunk(next)) THEN "wild" ELSE "draw")
        /\ buf' = (IF Underflows(Chunk(next)) THEN <<>> ELSE Fold(Chunk(next)))
        /\ row' = row /\ col' = col /\ bm' = bm /\ dirty' = dirty /\ labels' = labels
    BY <1>1 DEF ReadChunk, Goto, page
  <2>2. StepOf(Here(out)) =
          [at |-> at', next |-> next', buf |-> buf', row |-> row', col |-> col', bm |-> bm', dirty |-> dirty',
           out |-> out]
    BY <2>1 DEF StepOf, ReadOf, Here
  <2> QED
    BY <2>1, <2>2 DEF Here
<1>2. CASE ChunkDone
  <2>1. at = "draw" /\ buf = <<>> /\ at' = "read"
        /\ next' = next /\ buf' = buf /\ row' = row /\ col' = col /\ bm' = bm /\ dirty' = dirty
        /\ labels' = labels
    BY <1>2 DEF ChunkDone, Goto, page
  <2>2. StepOf(Here(out)) =
          [at |-> at', next |-> next', buf |-> buf', row |-> row', col |-> col', bm |-> bm', dirty |-> dirty',
           out |-> out]
    BY <2>1 DEF StepOf, Here
  <2> QED
    BY <2>1, <2>2 DEF Here
<1> QED
  BY <1>1, <1>2

\* What is printed is printed by this copy.
LEMMA PrintFollows ==
  ASSUME PrintIfDirty, NEW old \in Seq(Bitmaps), NEW out \in Seq(Bitmaps), labels = old \o out,
         bm \in Bitmaps
  PROVE  PrintedOf(Here(out)) \in Seq(Bitmaps) /\ labels' = old \o PrintedOf(Here(out))
<1>1. PrintedOf(Here(out)) = IF dirty THEN Append(out, bm) ELSE out
  BY DEF PrintedOf, Here
<1>2. Append(old \o out, bm) = old \o Append(out, bm)
  <2>1. old \o out \in Seq(Bitmaps) /\ <<bm>> \in Seq(Bitmaps)
    OBVIOUS
  <2>2. (old \o out) \o <<bm>> = old \o (out \o <<bm>>)
    BY <2>1, ConcatAssociative
  <2>3. Append(old \o out, bm) = (old \o out) \o <<bm>> /\ Append(out, bm) = out \o <<bm>>
    BY <2>1, AppendIsConcat
  <2> QED  BY <2>2, <2>3
<1> QED
  BY <1>1, <1>2 DEF PrintIfDirty

\* A step of a copy is the one that StepOf() says.
LEMMA OneStep ==
  ASSUME IInv, ReadType, at \in {"read", "draw"}, Step,
         NEW old \in Seq(Bitmaps), NEW out \in Seq(Bitmaps), labels = old \o out
  PROVE  \E new \in Seq(Bitmaps) : labels' = old \o new /\ Here(new)' = StepOf(Here(out))
<1> DEFINE c == Head(buf)
           printed == PrintedOf(Here(out))
           After(new) == [at |-> at', next |-> next', buf |-> buf', row |-> row', col |-> col', bm |-> bm',
                          dirty |-> dirty', out |-> new]
           Drawing(new) == [at |-> at', next |-> next, buf |-> buf, row |-> row', col |-> col', bm |-> bm',
                            dirty |-> dirty', out |-> new]
<1>1. \A new : Here(new)' = After(new)
  BY DEF Here
<1>2. bm \in Bitmaps
  BY DEF IInv, PageType
<1>3. CASE ReadChunk \/ ChunkDone
  BY <1>3, ReadFollows
<1>4. CASE EndOfFile
  <2>1. /\ at = "read" /\ at' = "copy" /\ ~(next <= Len(file)) /\ PrintIfDirty
        /\ next' = next /\ buf' = buf /\ row' = row /\ col' = col /\ bm' = bm /\ dirty' = dirty
    <3>1. at = "read" /\ next > Len(file) /\ at' = "copy" /\ PrintIfDirty /\ UNCHANGED <<next, buf, page>>
      BY <1>4 DEF EndOfFile, Goto
    <3>2. ~(next <= Len(file))
      <4>1. next \in Nat /\ file \in Seq(Characters)
        BY RenderAssumption DEF ReadType
      <4> QED  BY <3>1, <4>1
    <3> QED  BY <3>1, <3>2 DEF page
  <2>2. StepOf(Here(out)) = After(printed)
    BY <2>1 DEF StepOf, ReadOf, Here
  <2> QED
    BY <1>1, <1>2, <2>1, <2>2, PrintFollows
<1>5. ASSUME at = "draw", buf # <<>>, Advance, NEW new, CharOf(Here(out), c) = Drawing(new)
      PROVE  StepOf(Here(out)) = After(new)
  <2>1. StepOf(Here(out)) = [CharOf(Here(out), c) EXCEPT !.buf = Tail(buf)]
    BY <1>5 DEF StepOf, Here
  <2>2. buf' = Tail(buf) /\ next' = next
    BY <1>5 DEF Advance
  <2>3. [Drawing(new) EXCEPT !.buf = Tail(buf)] = After(new)
    <3> DEFINE t == Tail(buf)
    <3> HIDE DEF t
    <3>1. [Drawing(new) EXCEPT !.buf = t] =
            [at |-> at', next |-> next, buf |-> t, row |-> row', col |-> col', bm |-> bm',
             dirty |-> dirty', out |-> new]
      OBVIOUS
    <3>2. buf' = t
      BY <2>2 DEF t
    <3>3. [Drawing(new) EXCEPT !.buf = t] = After(new)
      BY <2>2, <3>1, <3>2, Zenon
    <3> QED  BY <3>3 DEF t
  <2> HIDE DEF Drawing, After
  <2> QED
    BY <1>5, <2>1, <2>3
<1>6. CASE PutGlyph
  <2>1. PICK x \in Characters :
          /\ AtGlyph(x) /\ Advance
          /\ bm' = bm \cup Ink(Glyphs[x], row, col)
          /\ dirty' = (dirty \/ Drawn(Glyphs[x], row, col) # {})
          /\ col' = NextColumn(Glyphs[x], col)
          /\ at' = (IF OffPage(Glyphs[x], row, col) = {} THEN "draw" ELSE "assert")
          /\ row' = row /\ labels' = labels
    BY <1>6 DEF PutGlyph, Goto
  <2>2. at = "draw" /\ buf # <<>> /\ x = c /\ Printing(c)
    BY <2>1 DEF AtGlyph
  <2>3. CharOf(Here(out), c) = GlyphOf(Here(out), Glyphs[c])
    BY <2>2 DEF CharOf
  <2>4. GlyphOf(Here(out), Glyphs[c]) = Drawing(out)
    <3> DEFINE g == Glyphs[c]
               a == IF OffPage(g, row, col) = {} THEN "draw" ELSE "assert"
               d == IF Drawn(g, row, col) = {} THEN dirty ELSE TRUE
               i == bm \cup Ink(g, row, col)
               n == NextColumn(g, col)
    <3>1. /\ Here(out).row = row /\ Here(out).col = col /\ Here(out).bm = bm /\ Here(out).dirty = dirty
          /\ Here(out).next = next /\ Here(out).buf = buf /\ Here(out).out = out
      BY DEF Here
    <3>2. GlyphOf(Here(out), g) =
            [at |-> a, next |-> next, buf |-> buf, row |-> row, col |-> n, bm |-> i, dirty |-> d, out |-> out]
      <4> HIDE DEF g
      <4> QED  BY <3>1, Zenon DEF GlyphOf
    <3>3. a = at' /\ row' = row /\ n = col' /\ i = bm'
      BY <2>1, <2>2
    <3>4. d = dirty'
      <4>1. dirty \in BOOLEAN
        BY DEF IInv, PageType
      <4> QED  BY <2>1, <2>2, <4>1
    <3> HIDE DEF g, a, d, i, n
    <3>5. GlyphOf(Here(out), g) = Drawing(out)
      BY <3>2, <3>3, <3>4, Zenon
    <3> QED  BY <3>5 DEF g
  <2>5. StepOf(Here(out)) = After(out)
    BY <1>5, <2>1, <2>2, <2>3, <2>4
  <2> QED
    BY <1>1, <2>1, <2>5
<1>7. CASE Tab
  <2>1. /\ at = "draw" /\ buf # <<>> /\ c = "HT" /\ ~Printing(c) /\ Advance
        /\ at' = (IF SpaceWidth = 0 THEN "divzero" ELSE at)
        /\ col' = (IF SpaceWidth = 0 THEN col ELSE UINT(TabStop(col)))
        /\ row' = row /\ bm' = bm /\ dirty' = dirty /\ labels' = labels
    BY <1>7 DEF Tab, AtControl, Goto
  <2>2. CharOf(Here(out), c) = TabOf(Here(out))
    BY <2>1 DEF CharOf
  <2>3. TabOf(Here(out)) = Drawing(out)
    <3>1. CASE SpaceWidth = 0
      <4>1. at' = "divzero" /\ col' = col
        BY <2>1, <3>1
      <4> QED  BY <2>1, <3>1, <4>1 DEF TabOf, Here
    <3>2. CASE SpaceWidth # 0
      <4>1. at' = at /\ col' = UINT(TabStop(col))
        BY <2>1, <3>2
      <4> QED  BY <2>1, <3>2, <4>1 DEF TabOf, Here
    <3> QED  BY <3>1, <3>2
  <2>4. StepOf(Here(out)) = After(out)
    BY <1>5, <2>1, <2>2, <2>3
  <2> QED
    BY <1>1, <2>1, <2>4
<1>8. CASE Squeezed \/ NewLine
  <2>1. /\ at = "draw" /\ at' = at /\ buf # <<>> /\ c = "LF" /\ ~Printing(c) /\ Advance
        /\ bm' = bm /\ dirty' = dirty /\ labels' = labels
    BY <1>8 DEF Squeezed, NewLine, AtControl, page
  <2>2. \/ (squeeze /\ ~dirty) /\ row' = row /\ col' = col
        \/ ~(squeeze /\ ~dirty) /\ ~PageFull(row) /\ row' = UINT(row + LineHeight) /\ col' = 0
    BY <1>8 DEF Squeezed, NewLine, Leading, page
  <2>3. CharOf(Here(out), c) = LineOf(Here(out))
    BY <2>1 DEF CharOf
  <2>4. LineOf(Here(out)) = Drawing(out)
    <3>1. CASE squeeze /\ ~dirty
      <4>1. row' = row /\ col' = col
        BY <2>2, <3>1
      <4> QED  BY <2>1, <3>1, <4>1 DEF LineOf, Here
    <3>2. CASE ~(squeeze /\ ~dirty)
      <4>1. ~PageFull(row) /\ row' = UINT(row + LineHeight) /\ col' = 0
        BY <2>2, <3>2
      <4> QED  BY <2>1, <3>2, <4>1 DEF LineOf, Here
    <3> QED  BY <3>1, <3>2
  <2>5. StepOf(Here(out)) = After(out)
    BY <1>5, <2>1, <2>3, <2>4
  <2> QED
    BY <1>1, <2>1, <2>5
<1>9. CASE NewPage \/ FormFeed
  <2>1. /\ at = "draw" /\ at' = at /\ buf # <<>> /\ ~Printing(c) /\ Advance /\ PrintIfDirty
        /\ c = "FF" \/ (c = "LF" /\ ~(squeeze /\ ~dirty) /\ PageFull(row))
        /\ row' = UINT(FontAscent) /\ col' = 0 /\ bm' = {} /\ dirty' = FALSE
    BY <1>9 DEF NewPage, FormFeed, AtControl, Leading, Blank
  <2>2. CharOf(Here(out), c) = PageOf(Here(out))
    BY <2>1 DEF CharOf, LineOf, Here
  <2>3. PageOf(Here(out)) = Drawing(printed)
    <3> DEFINE p == PrintedOf(Here(out))
    <3> HIDE DEF p
    <3>1. PageOf(Here(out)) = [Here(out) EXCEPT !.out = p, !.row = UINT(FontAscent), !.col = 0, !.bm = {}, !.dirty = FALSE]
      BY DEF PageOf, p
    <3>2. PageOf(Here(out)) = [at |-> at, next |-> next, buf |-> buf, row |-> UINT(FontAscent), col |-> 0, bm |-> {},
                               dirty |-> FALSE, out |-> p]
      BY <3>1 DEF Here
    <3>3. PageOf(Here(out)) = Drawing(p)
      BY <2>1, <3>2, Zenon
    <3> QED  BY <3>3 DEF p
  <2>4. StepOf(Here(out)) = After(printed)
    BY <1>5, <2>1, <2>2, <2>3
  <2> QED
    BY <1>1, <1>2, <2>1, <2>4, PrintFollows
<1>10. CASE CarriageReturn \/ Undefined
  <2>1. /\ at = "draw" /\ at' = at /\ buf # <<>> /\ ~Printing(c) /\ Advance
        /\ \/ c = "CR" /\ col' = 0
           \/ c \notin Controls /\ col' = UINT(col + SpaceWidth)
        /\ row' = row /\ bm' = bm /\ dirty' = dirty /\ labels' = labels
    BY <1>10 DEF CarriageReturn, Undefined, AtControl
  <2>2. CharOf(Here(out), c) = [Here(out) EXCEPT !.col = col']
    BY <2>1 DEF CharOf, Controls, Here
  <2>3. CharOf(Here(out), c) = Drawing(out)
    BY <2>1, <2>2 DEF Here
  <2>4. StepOf(Here(out)) = After(out)
    BY <1>5, <2>1, <2>3
  <2> QED
    BY <1>1, <2>1, <2>4
<1> QED
  BY <1>3, <1>4, <1>6, <1>7, <1>8, <1>9, <1>10 DEF Step, Render1, Return

\* The steps of a copy, one after the other.
LEMMA Further ==
  ASSUME NEW s, Reached(s), Going(s)
  PROVE  Reached(StepOf(s))
<1>1. PICK F, k : Trail(F, k) /\ F[k] = s
  BY DEF Reached
<1> DEFINE G == [i \in 0..k + 1 |-> IF i = k + 1 THEN StepOf(s) ELSE F[i]]
<1>2. k \in Nat
  BY <1>1 DEF Trail
<1>3. G[k + 1] = StepOf(s) /\ \A i \in 0..k : G[i] = F[i]
  BY <1>2
<1> HIDE DEF G
<1>4. Trail(G, k + 1)
  <2>1. G[0] = Start
    <3>1. 0 \in 0..k /\ F[0] = Start
      BY <1>1, <1>2 DEF Trail
    <3> QED  BY <1>3, <3>1
  <2>2. ASSUME NEW i \in 0..(k + 1) - 1 PROVE Going(G[i]) /\ G[i + 1] = StepOf(G[i])
    <3>1. CASE i = k
      <4>1. G[i] = s
        BY <1>1, <1>2, <1>3, <3>1
      <4> QED  BY <1>3, <3>1, <4>1
    <3>2. CASE i # k
      <4>1. i \in 0..k - 1 /\ i \in 0..k /\ i + 1 \in 0..k
        BY <1>2, <3>2
      <4>2. Going(F[i]) /\ F[i + 1] = StepOf(F[i])
        BY <1>1, <4>1 DEF Trail
      <4>3. G[i] = F[i] /\ G[i + 1] = F[i + 1]
        BY <1>3, <4>1
      <4> QED  BY <4>2, <4>3
    <3> QED  BY <3>1, <3>2
  <2> QED  BY <1>2, <2>1, <2>2 DEF Trail
<1> QED  BY <1>3, <1>4 DEF Reached

\* Two trails of one length end alike.
LEMMA SameTrail ==
  ASSUME NEW F, NEW G, NEW k, NEW l, Trail(F, k), Trail(G, l), k <= l
  PROVE  F[k] = G[k]
<1> DEFINE T == {i \in Nat : F[i] = G[i]}
<1>1. k \in Nat /\ l \in Nat
  BY DEF Trail
<1>2. 0 \in T
  BY DEF Trail
<1>3. ASSUME NEW i \in 0..k - 1, i \in T PROVE i + 1 \in T
  <2>1. i \in 0..l - 1 /\ i + 1 \in Nat
    BY <1>1
  <2>2. F[i + 1] = StepOf(F[i]) /\ G[i + 1] = StepOf(G[i])
    BY <2>1 DEF Trail
  <2> QED  BY <1>3, <2>1, <2>2
<1>4. k \in T
  <2>1. k \in 0..k
    BY <1>1
  <2> HIDE DEF T
  <2> QED  BY <1>1, <1>2, <1>3, <2>1, UpTo
<1> QED  BY <1>4

\* A copy ends in one way.
LEMMA OneEnd ==
  ASSUME NEW s, NEW t, Reached(s), Reached(t), ~Going(s), ~Going(t)
  PROVE  s = t
<1>1. PICK F, k : Trail(F, k) /\ F[k] = s
  BY DEF Reached
<1>2. PICK G, l : Trail(G, l) /\ G[l] = t
  BY DEF Reached
<1>3. k \in Nat /\ l \in Nat
  BY <1>1, <1>2 DEF Trail
<1>4. ~(k < l)
  <2>1. SUFFICES ASSUME k < l PROVE FALSE
    OBVIOUS
  <2>2. G[k] = s
    BY <1>1, <1>2, <1>3, <2>1, SameTrail
  <2>3. k \in 0..l - 1
    BY <1>3, <2>1
  <2> QED  BY <1>2, <2>2, <2>3 DEF Trail
<1>5. ~(l < k)
  <2>1. SUFFICES ASSUME l < k PROVE FALSE
    OBVIOUS
  <2>2. F[l] = t
    BY <1>1, <1>2, <1>3, <2>1, SameTrail
  <2>3. l \in 0..k - 1
    BY <1>3, <2>1
  <2> QED  BY <1>1, <2>2, <2>3 DEF Trail
<1>6. k = l
  BY <1>3, <1>4, <1>5
<1> QED  BY <1>1, <1>2, <1>3, <1>6, SameTrail

LEMMA SameReached ==
  ASSUME UNCHANGED input
  PROVE  \A s : Reached(s) <=> Reached(s)'
<1>1. \A s : StepOf(s)' = StepOf(s)
  BY SameStep
<1>2. \A F, k : Trail(F, k) <=> Trail(F, k)'
  BY <1>1 DEF Trail, Start, Going
<1> QED  BY <1>2 DEF Reached

-----------------------------------------------------------------------------
\* The labels of c copies, each of which has printed L: the last copy's are L, and
\* those of every other are those of the copy after it.
Periodic(s, c, L) ==
  /\ Len(s) = Len(L) * c
  /\ c > 0 => \A j \in 1..Len(L) : s[Len(s) - Len(L) + j] = L[j]
  /\ \A i \in 1..Len(s) - Len(L) : s[i] = s[i + Len(L)]

\* The labels of c whole copies.
Alike(s, c) ==
  \E L \in Seq(Bitmaps) :
    /\ Periodic(s, c, L)
    /\ c > 0 => \E t : Reached(t) /\ t.at = "copy" /\ t.out = L

CopyInv ==
  /\ at \in {"copy", "done"} => Alike(labels, copy)
  /\ at \in {"read", "draw"} =>
       /\ copy > 0
       /\ \E old, out \in Seq(Bitmaps) :
            labels = old \o out /\ Alike(old, copy - 1) /\ Reached(Here(out))

\* One more copy.
LEMMA OneMore ==
  ASSUME NEW c \in Nat, NEW L \in Seq(Bitmaps), NEW s \in Seq(Bitmaps), Periodic(s, c, L)
  PROVE  Periodic(s \o L, c + 1, L)
<1> DEFINE t == s \o L
           n == Len(L)
           l == Len(s)
<1>1. n \in Nat /\ l \in Nat /\ Len(t) = l + n
  OBVIOUS
<1>2. \A i \in 1..l : t[i] = s[i]
  OBVIOUS
<1>3. \A j \in 1..n : t[l + j] = L[j]
  OBVIOUS
<1>4. l = n * c /\ (c > 0 => \A j \in 1..n : s[l - n + j] = L[j]) /\ \A i \in 1..l - n : s[i] = s[i + n]
  BY DEF Periodic
<1> HIDE DEF t, n, l
<1>5. Len(t) = n * (c + 1)
  BY <1>1, <1>4
<1>6. \A j \in 1..n : t[Len(t) - n + j] = L[j]
  <2>1. Len(t) - n = l
    BY <1>1
  <2> QED  BY <1>3, <2>1
<1>7. ASSUME NEW i \in 1..Len(t) - n PROVE t[i] = t[i + n]
  <2>1. i \in 1..l
    BY <1>1
  <2>2. CASE i <= l - n
    <3>1. i \in 1..l - n /\ i + n \in 1..l
      BY <1>1, <2>1, <2>2
    <3> QED  BY <1>2, <1>4, <2>1, <3>1
  <2>3. CASE ~(i <= l - n)
    <3>1. i - (l - n) \in 1..n /\ l - n + (i - (l - n)) = i /\ l + (i - (l - n)) = i + n
      BY <1>1, <2>1, <2>3
    <3>2. c > 0
      <4>1. CASE c = 0
        <5>1. l = 0
          BY <1>1, <1>4, <4>1
        <5> QED  BY <2>1, <5>1
      <4> QED  BY <4>1
    <3>3. s[i] = L[i - (l - n)]
      BY <1>4, <3>1, <3>2
    <3>4. t[i + n] = L[i - (l - n)]
      BY <1>3, <3>1
    <3> QED  BY <1>2, <2>1, <3>3, <3>4
  <2> QED  BY <2>2, <2>3
<1> QED  BY <1>5, <1>6, <1>7 DEF Periodic, t, n, l

\* What CopiesAlike says of labels that are periodic.
LEMMA PeriodicAlike ==
  ASSUME NEW c \in Nat \ {0}, NEW L \in Seq(Bitmaps), NEW s \in Seq(Bitmaps), Periodic(s, c, L)
  PROVE  LET n == Len(s) \div c
         IN Len(s) = n * c /\ \A i \in 1..Len(s) - n : s[i] = s[i + n]
<1>1. Len(L) \in Nat /\ Len(s) = Len(L) * c /\ \A i \in 1..Len(s) - Len(L) : s[i] = s[i + Len(L)]
  <2>1. Len(L) \in Nat
    OBVIOUS
  <2>2. Len(s) = Len(L) * c /\ \A i \in 1..Len(s) - Len(L) : s[i] = s[i + Len(L)]
    BY Zenon DEF Periodic
  <2> QED  BY <2>1, <2>2
<1>2. Len(s) \div c = Len(L)
  <2> DEFINE n == Len(L)
  <2>1. n \in Nat
    BY <1>1
  <2> HIDE DEF n
  <2>2. (n * c) \div c = n
    BY <2>1
  <2> QED  BY <1>1, <2>2 DEF n
<1> QED  BY <1>1, <1>2

LEMMA SameAlike ==
  ASSUME UNCHANGED input
  PROVE  \A s, c : Alike(s, c) => Alike(s, c)'
<1>1. \A s : Reached(s) <=> Reached(s)'
  BY SameReached
<1> QED  BY <1>1 DEF Alike

\* The next copy starts with a blank page, at the beginning of the file.
LEMMA CopyBegins ==
  ASSUME IInv, CopyInv, ReadType, Render1
  PROVE  CopyInv'
<1>1. /\ at = "copy" /\ at' \in {"read", "error"} /\ copy' = copy + 1 /\ labels' = labels
      /\ UNCHANGED input
  BY DEF Render1, Goto
<1>2. labels \in Seq(Bitmaps) /\ copy \in Nat
  BY DEF IInv, PageType, ReadType
<1>3. Alike(labels, copy)
  BY <1>1 DEF CopyInv
<1>4. \A s, c : Alike(s, c) => Alike(s, c)'
  BY <1>1, SameAlike
<1>5. ASSUME at' = "read" PROVE Here(<<>>)' = Start
  BY <1>5 DEF Render1, Blank, Here, Start, Goto
<1>6. Reached(Start)'
  <2> DEFINE F == [i \in 0..0 |-> Start]
  <2>1. Trail(F, 0)'
    BY DEF Trail, Start
  <2>2. F[0] = Start
    OBVIOUS
  <2> HIDE DEF F
  <2> QED  BY <2>1, <2>2 DEF Reached, Start
<1>7. labels' = labels \o <<>> /\ <<>> \in Seq(Bitmaps)
  BY <1>1, <1>2, ConcatEmptySeq
<1>8. copy' > 0 /\ copy' - 1 = copy
  BY <1>1, <1>2
<1> QED
  BY <1>1, <1>2, <1>3, <1>4, <1>5, <1>6, <1>7, <1>8 DEF CopyInv

\* The labels of a copy that ends are those of the copies before it.
LEMMA CopyEnds ==
  ASSUME NEW t, Reached(t), t.at = "copy", t.out \in Seq(Bitmaps),
         NEW old \in Seq(Bitmaps), NEW c \in Nat, Alike(old, c)
  PROVE  Alike(old \o t.out, c + 1)
<1>1. PICK L \in Seq(Bitmaps) :
        Periodic(old, c, L) /\ (c > 0 => \E u : Reached(u) /\ u.at = "copy" /\ u.out = L)
  BY DEF Alike
<1>2. Periodic(old, c, t.out)
  <2>1. CASE c > 0
    <3>1. PICK u : Reached(u) /\ u.at = "copy" /\ u.out = L
      BY <1>1, <2>1
    <3>2. u = t
      BY <3>1, OneEnd DEF Going
    <3>3. L = t.out
      BY <3>1, <3>2, Zenon
    <3> QED  BY <1>1, <3>3, Zenon
  <2>2. CASE c = 0
    <3> DEFINE new == t.out
    <3>1. Len(L) \in Nat /\ Len(new) \in Nat /\ Len(old) = Len(L) * 0
      BY <1>1, <2>2 DEF Periodic
    <3>2. Len(old) = 0 /\ Len(old) = Len(new) * 0
      BY <3>1
    <3> HIDE DEF new
    <3>3. Periodic(old, c, new)
      <4> DEFINE l == Len(old)
                 n == Len(new)
      <4>1. l = 0 /\ l = n * c /\ ~(c > 0) /\ n \in Nat
        BY <2>2, <3>1, <3>2
      <4> HIDE DEF l, n
      <4>2. 1..l - n = {}
        BY <4>1
      <4> QED  BY <4>1, <4>2, Zenon DEF Periodic, l, n
    <3> QED  BY <3>3 DEF new
  <2> QED  BY <2>1, <2>2
<1>3. Periodic(old \o t.out, c + 1, t.out)
  BY <1>2, OneMore
<1> QED  BY <1>3 DEF Alike

\* A copy goes on, or ends.
LEMMA CopyGoesOn ==
  ASSUME IInv, CopyInv, ReadType, Step, at \in {"read", "draw"}
  PROVE  CopyInv'
<1>1. PICK old, out \in Seq(Bitmaps) :
        labels = old \o out /\ Alike(old, copy - 1) /\ Reached(Here(out))
  BY DEF CopyInv
<1>2. PICK new \in Seq(Bitmaps) : labels' = old \o new /\ Here(new)' = StepOf(Here(out))
  BY <1>1, OneStep
<1>3. copy' = copy /\ UNCHANGED input /\ at' # "done"
  BY DEF Step, Render1, Return, ReadChunk, EndOfFile, ChunkDone, PutGlyph, Tab, Squeezed, NewLine,
         NewPage, CarriageReturn, FormFeed, Undefined, AtGlyph, AtControl, Advance, Goto, page
<1>4. copy \in Nat /\ copy > 0 /\ copy - 1 \in Nat
  BY DEF ReadType, CopyInv
<1>5. PICK t : t = StepOf(Here(out))
  OBVIOUS
<1>6. Reached(t)
  BY <1>1, <1>5, Further DEF Going, Here
<1>7. t.at = at' /\ t.out = new
  BY <1>2, <1>5 DEF Here
<1>8. \A s, c : Alike(s, c) => Alike(s, c)'
  BY <1>3, SameAlike
<1>9. CASE at' \in {"read", "draw"}
  <2>1. Reached(Here(new))'
    <3>1. Reached(t)'
      BY <1>3, <1>6, SameReached
    <3>2. Here(new)' = t
      BY <1>2, <1>5
    <3> QED  BY <3>1, <3>2, Zenon
  <2>2. Alike(old, copy - 1)'
    BY <1>1, <1>3, <1>8
  <2>3. \E o, n \in Seq(Bitmaps)' : labels' = o \o n /\ Alike(o, copy - 1)' /\ Reached(Here(n))'
    BY <1>2, <2>1, <2>2 DEF Bitmaps
  <2> QED
    BY <1>3, <1>4, <1>9, <2>3 DEF CopyInv
<1>10. CASE at' = "copy"
  <2>1. Alike(old \o new, (copy - 1) + 1)
    BY <1>1, <1>4, <1>6, <1>7, <1>10, CopyEnds
  <2>2. Alike(labels, copy)'
    <3>1. (copy - 1) + 1 = copy'
      BY <1>3, <1>4
    <3>2. Alike(labels', copy')
      BY <1>2, <2>1, <3>1, Zenon
    <3> QED  BY <1>8, <3>2
  <2> QED
    BY <1>10, <2>2 DEF CopyInv
<1>11. CASE at' \notin {"copy", "read", "draw"}
  BY <1>3, <1>11 DEF CopyInv
<1> QED
  BY <1>9, <1>10, <1>11

LEMMA CopyInvariant == IInv /\ ReadType /\ CopyInv /\ [Next]_vars => CopyInv'
<1> SUFFICES ASSUME IInv, ReadType, CopyInv, [Next]_vars PROVE CopyInv'
  OBVIOUS
<1>1. CASE Render1
  BY <1>1, CopyBegins
<1>2. CASE Return
  <2>1. at = "copy" /\ at' = "done" /\ copy' = copy /\ labels' = labels /\ UNCHANGED input
    BY <1>2 DEF Return, Goto
  <2>2. Alike(labels, copy)'
    BY <2>1, SameAlike DEF CopyInv
  <2> QED
    BY <2>1, <2>2 DEF CopyInv
<1>3. CASE Over \/ UNCHANGED vars
  <2>1. UNCHANGED vars
    BY <1>3 DEF Over
  <2>2. UNCHANGED input /\ at' = at /\ copy' = copy /\ labels' = labels
    BY <2>1 DEF vars, input
  <2>3. \A s, c : Alike(s, c) => Alike(s, c)'
    BY <2>2, SameAlike
  <2>4. \A out : Here(out)' = Here(out)
    BY <2>1 DEF Here, vars
  <2>5. \A s : Reached(s) => Reached(s)'
    BY <2>2, SameReached
  <2>6. CASE at \in {"copy", "done"}
    BY <2>2, <2>3, <2>6 DEF CopyInv
  <2>7. CASE at \in {"read", "draw"}
    <3>1. PICK old, out \in Seq(Bitmaps) :
            labels = old \o out /\ Alike(old, copy - 1) /\ Reached(Here(out))
      BY <2>7 DEF CopyInv
    <3>2. Reached(Here(out))'
      BY <2>4, <2>5, <3>1
    <3>3. Alike(old, copy - 1)'
      BY <2>2, <2>3, <3>1
    <3> QED
      BY <2>2, <2>7, <3>1, <3>2, <3>3 DEF CopyInv, Bitmaps
  <2>8. CASE at \notin {"copy", "done", "read", "draw"}
    BY <2>2, <2>8 DEF CopyInv
  <2> QED
    BY <2>6, <2>7, <2>8
<1>4. CASE /\ Step /\ ~Render1 /\ ~Return
  <2>1. at \in {"read", "draw"}
    BY <1>4 DEF Step, ReadChunk, EndOfFile, ChunkDone, PutGlyph, Tab, Squeezed, NewLine,
                NewPage, CarriageReturn, FormFeed, Undefined, AtGlyph, AtControl
  <2> QED
    BY <1>4, <2>1, CopyGoesOn
<1> QED
  BY <1>1, <1>2, <1>3, <1>4 DEF Next

\* CopiesAlike: every copy prints the same labels, for every file, font and number of
\* copies: nothing of one copy is left in the next (render.c:209-229).
THEOREM CopiesAreAlike == Spec => []CopiesAlike
<1>1. Init => CopyInv
  <2> SUFFICES ASSUME Init PROVE Alike(labels, copy) /\ at = "copy"
    BY DEF CopyInv
  <2>1. labels = <<>> /\ copy = 0 /\ at = "copy"
    BY DEF Init
  <2>2. Periodic(<<>>, 0, <<>>) /\ <<>> \in Seq(Bitmaps)
    BY DEF Periodic
  <2>3. Alike(<<>>, 0)
    <3>1. ~(0 > 0)
      OBVIOUS
    <3> QED  BY <2>2, <3>1, Zenon DEF Alike
  <2> QED
    BY <2>1, <2>3, Zenon
<1>2. IInv /\ ReadType /\ CopyInv => CopiesAlike
  <2> SUFFICES ASSUME IInv, ReadType, CopyInv, at = "done", copy > 0
               PROVE  LET n == Len(labels) \div copy
                      IN Len(labels) = n * copy /\ \A i \in 1..Len(labels) - n : labels[i] = labels[i + n]
    BY DEF CopiesAlike
  <2>1. PICK L \in Seq(Bitmaps) : Periodic(labels, copy, L)
    BY DEF CopyInv, Alike
  <2>2. copy \in Nat \ {0} /\ labels \in Seq(Bitmaps)
    BY DEF ReadType, IInv, PageType
  <2> QED
    BY <2>1, <2>2, PeriodicAlike
<1> QED
  BY <1>1, <1>2, CopyInvariant, Invariance, ReadTypeAlways, PTL DEF Spec

=============================================================================
