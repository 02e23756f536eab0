-------------------------------- MODULE Render --------------------------------
(***************************************************************************)
(* render() of slap (render.c): a text file becomes labels.  Characters    *)
(* are read a chunk at a time, backspaces are folded into the chunk, and   *)
(* the glyphs are put into the session's bitmap line by line.  A full      *)
(* bitmap is given to the driver's print(), here appended to "labels".     *)
(*                                                                         *)
(* Rows and columns are logical ones, row 0 at the top of the text; dots   *)
(* of a bitmap are physical ones, <<row, column>>.                         *)
(***************************************************************************)
EXTENDS Integers, Sequences, FiniteSets, SequencesExt

CONSTANTS
  Glyphs,      \* font->glyphs: from characters to their metrics and dots
  FontAscent,  \* font->ascent
  FontDescent, \* font->descent
  Height,      \* mbm_height(arena.bm)
  Width,       \* mbm_width(arena.bm)
  Files,       \* the files that may be printed: sequences of characters
  BUFSIZ,      \* the size of the line buffer
  NumCopies,   \* the argument of -c
  UIntValues   \* 2^32: how many values a UINT has

Characters == DOMAIN Glyphs

\* A SHORT that meets a UINT is converted, and UINTs wrap around.
UINT(n) == n % UIntValues

\* The characters render1() looks for when they are no glyphs, and the ones
\* whose width it takes for the space's.
Controls == {"BS", "HT", "LF", "CR", "FF"}
SpaceLike == <<" ", "m", "M", "_">>

\* What checkfontmetrics() makes sure of.
MetricsOK(g) ==
  /\ g.ascent <= FontAscent /\ g.descent <= FontDescent
  /\ g.ascent + g.descent >= 0
  /\ g.lbearing <= g.rbearing
  /\ g.dots \subseteq (0..g.ascent + g.descent - 1) \X (0..g.rbearing - g.lbearing - 1)

MaxShort == 32767
SHORT == -MaxShort - 1 .. MaxShort
USHORT == 0..2 * MaxShort + 1
Metrics == [ascent : SHORT, descent : SHORT, lbearing : SHORT, rbearing : SHORT,
            width : SHORT, dots : SUBSET (USHORT \X USHORT)]

ASSUME RenderAssumption ==
  /\ FontAscent \in SHORT /\ FontDescent \in SHORT /\ FontAscent + FontDescent >= 0
  /\ Controls \cup {SpaceLike[i] : i \in 1..4} \subseteq Characters
  /\ \A c \in Characters : Glyphs[c] \in Metrics /\ MetricsOK(Glyphs[c])
  /\ Height \in USHORT \ {0} /\ Width \in USHORT \ {0}
  /\ Files \subseteq Seq(Characters)
  /\ BUFSIZ \in Nat /\ BUFSIZ > 1
  /\ NumCopies \in Int
  /\ UIntValues \in Nat /\ UIntValues > 16 * (MaxShort + 1)

VARIABLES
  portrait, \* the argument portrait
  squeeze,  \* the argument squeeze
  file,     \* the contents of pf
  at,       \* what render1() does next, or how it ended
  copy,     \* i: copies begun
  next,     \* the file position: the next character to read
  buf,      \* what is left of the buffer from p on
  row,      \* the baseline of the current line; just below 2^32 when it is above the page
  col,      \* where the next glyph starts
  bm,       \* arena.bm: the set of its dots
  dirty,    \* arena.dirty
  labels    \* the bitmaps given to drv.print()

vars == <<portrait, squeeze, file, at, copy, next, buf, row, col, bm, dirty, labels>>
input == <<portrait, squeeze, file>>
page == <<row, col, bm, dirty>>

-----------------------------------------------------------------------------
(***************************************************************************)
(* Geometry.                                                               *)
(***************************************************************************)

Larger == IF Width > Height THEN Width ELSE Height
Smaller == IF Width < Height THEN Width ELSE Height
VHeight == IF portrait THEN Larger ELSE Smaller
VWidth == IF portrait THEN Smaller ELSE Larger

\* A mutant: the bitmap is rotated about its edge, not about its last row.
PhysicalOff(r, c) == IF Height # VHeight THEN <<c, VHeight - r>> ELSE <<r, c>>

\* set_labelimage_bit(): where a logical dot is in the bitmap.
Physical(r, c) == IF Height # VHeight THEN <<c, (VHeight - 1) - r>> ELSE <<r, c>>

OnPage(r, c) == r < VHeight /\ c < VWidth

\* mbm_width() of a glyph.
Extent(g) == g.rbearing - g.lbearing

\* The first of " mM_" whose bitmap is not empty decides the space's width.
SpaceWidth ==
  LET drawn == {i \in 1..4 : Extent(Glyphs[SpaceLike[i]]) # 0}
  IN IF drawn = {} THEN 0
     ELSE Extent(Glyphs[SpaceLike[CHOOSE i \in drawn : \A j \in drawn : i <= j]])

TABSIZE == 8

\* The column where the tab loop stops: it adds spaces until a multiple of
\* TABSIZE of them fits.
TabStop(c) == c + SpaceWidth * (TABSIZE - ((c \div SpaceWidth) % TABSIZE))

LineHeight == FontDescent + FontAscent

-----------------------------------------------------------------------------
(***************************************************************************)
(* The line buffer.                                                        *)
(***************************************************************************)

\* What fgets() reads at the file position i: up to a newline, and at most BUFSIZ - 1
\* characters.
Chunk(i) ==
  LET last == CHOOSE n \in i..Len(file) :
                /\ n = Len(file) \/ n = i + BUFSIZ - 2 \/ file[n] = "LF"
                /\ \A k \in i..n - 1 : k # i + BUFSIZ - 2 /\ file[k] # "LF"
  IN SubSeq(file, i, last)

\* More backspaces than characters before them in the chunk: q is moved to
\* before the buffer, and the next character is stored there.
Underflows(s) ==
  \E n \in 1..Len(s) :
    2 * Cardinality({k \in 1..n : s[k] = "BS"}) > n

\* A backspace deletes what is before it.
Fold(s) ==
  LET out[k \in 0..Len(s)] ==
        IF k = 0 THEN <<>> ELSE IF s[k] = "BS" THEN Front(out[k - 1]) ELSE Append(out[k - 1], s[k])
  IN out[Len(s)]

-----------------------------------------------------------------------------
Goto(label) == at' = label

\* Done with the character at p.
Advance == buf' = Tail(buf) /\ UNCHANGED <<input, copy, next>>

\* An empty page, and the baseline of its first line.
Blank == row' = UINT(FontAscent) /\ col' = 0 /\ bm' = {} /\ dirty' = FALSE

\* "careful not to print blank pages!"
PrintIfDirty == labels' = IF dirty THEN Append(labels, bm) ELSE labels

\* A mutant: the first page of a copy is what the last copy left.
OldPage == row' = UINT(FontAscent) /\ col' = 0 /\ dirty' = FALSE /\ UNCHANGED bm

\* A mutant: render1() does not clear the bitmap.
Render1Unclean ==
  /\ at = "copy" /\ copy < UINT(NumCopies)
  /\ copy' = copy + 1 /\ next' = 1 /\ buf' = <<>>
  /\ Goto(IF LineHeight > VHeight THEN "error" ELSE "read")
  /\ OldPage
  /\ UNCHANGED <<input, labels>>

\* Another copy: the file is rewound, the page is cleared, and the font must
\* fit on it.
Render1 ==
  /\ at = "copy" /\ copy < UINT(NumCopies)
  /\ copy' = copy + 1 /\ next' = 1 /\ buf' = <<>>
  /\ Goto(IF LineHeight > VHeight THEN "error" ELSE "read")
  /\ Blank
  /\ UNCHANGED <<input, labels>>

\* No copy is left.
Return ==
  /\ at = "copy" /\ copy >= UINT(NumCopies)
  /\ Goto("done")
  /\ UNCHANGED <<input, copy, next, buf, page, labels>>

\* The next chunk of the file is read, and its backspaces are processed.
ReadChunk ==
  /\ at = "read" /\ next <= Len(file)
  /\ next' = next + Len(Chunk(next))
  /\ IF Underflows(Chunk(next)) THEN Goto("wild") /\ buf' = <<>>
                                ELSE Goto("draw") /\ buf' = Fold(Chunk(next))
  /\ UNCHANGED <<input, copy, page, labels>>

\* The end of the file: what is on the page is printed.
EndOfFile ==
  /\ at = "read" /\ next > Len(file)
  /\ PrintIfDirty
  /\ Goto("copy")
  /\ UNCHANGED <<input, copy, next, buf, page>>

\* The chunk is rendered.
ChunkDone ==
  /\ at = "draw" /\ buf = <<>>
  /\ Goto("read")
  /\ UNCHANGED <<input, copy, next, buf, page, labels>>

-----------------------------------------------------------------------------
(***************************************************************************)
(* One character.                                                          *)
(***************************************************************************)

Printing(c) == Glyphs[c].width # 0

\* The loop is at character c, which is a glyph, or is none.
AtGlyph(c) == at = "draw" /\ buf # <<>> /\ c = Head(buf) /\ Printing(c)
AtControl(c) == at = "draw" /\ buf # <<>> /\ c = Head(buf) /\ ~Printing(c)

\* The glyph's left edge when its origin is at column c: it may not be to the
\* left of the page.
Clipped(g, c) == g.lbearing < 0 /\ -g.lbearing > c
LeftEdge(g, c) == IF Clipped(g, c) THEN 0 ELSE c + g.lbearing

\* A mutant: the last column is out of reach.
FitsInside(g, r, c) ==
  /\ UINT(LeftEdge(g, c) + g.rbearing) < VWidth
  /\ r >= UINT(g.ascent)
  /\ UINT(r + g.descent) <= VHeight

\* The test that discards a glyph, in UINT arithmetic.
Fits(g, r, c) ==
  /\ UINT(LeftEdge(g, c) + g.rbearing) <= VWidth
  /\ r >= UINT(g.ascent)
  /\ UINT(r + g.descent) <= VHeight

\* Dot d of a glyph comes before dot e in put_glyph()'s loops.
Before(d, e) == d[1] < e[1] \/ (d[1] = e[1] /\ d[2] < e[2])

\* Where dot d of a glyph goes when its origin is at row r and column c.
Place(g, r, c, d) == <<UINT(r - g.ascent + d[1]), UINT(LeftEdge(g, c) + d[2])>>

\* The dots put_glyph() sets, and those of them that are not on the page.
Dots(g, r, c) == IF Fits(g, r, c) THEN g.dots ELSE {}
OffPage(g, r, c) == {d \in Dots(g, r, c) : ~OnPage(Place(g, r, c, d)[1], Place(g, r, c, d)[2])}

\* They are set one by one, and the first one that is not on the page fails
\* set_labelimage_bit()'s assertion.
Drawn(g, r, c) == {d \in Dots(g, r, c) : \A e \in OffPage(g, r, c) : Before(d, e)}
Ink(g, r, c) == {Physical(Place(g, r, c, d)[1], Place(g, r, c, d)[2]) : d \in Drawn(g, r, c)}

\* The value put_glyph() returns.
NextColumn(g, c) ==
  UINT(LeftEdge(g, c) + g.width + (IF Clipped(g, c) THEN -g.lbearing ELSE 0))

\* A glyph is put at the print position.
PutGlyph ==
  \E c \in Characters :
    LET g == Glyphs[c] IN
      /\ AtGlyph(c)
      /\ bm' = bm \cup Ink(g, row, col)
      /\ dirty' = (dirty \/ Drawn(g, row, col) # {})
      /\ col' = NextColumn(g, col)
      /\ Goto(IF OffPage(g, row, col) = {} THEN "draw" ELSE "assert")
      /\ Advance
      /\ UNCHANGED <<row, labels>>

\* A horizontal tab; without a space's width, the loop divides by zero.
Tab ==
  /\ AtControl("HT")
  /\ IF SpaceWidth = 0 THEN Goto("divzero") /\ UNCHANGED col
                       ELSE UNCHANGED at /\ col' = UINT(TabStop(col))
  /\ Advance
  /\ UNCHANGED <<row, bm, dirty, labels>>

\* A mutant: the room below the baseline is forgotten.
BaselineOff(r) == UINT(r + LineHeight) >= VHeight

\* The next line would fall off the page.
PageFull(r) == UINT(r + LineHeight + FontDescent) >= VHeight

\* A newline on a page without ink, and -s asked for none of those.
Leading == squeeze /\ ~dirty

\* A mutant: the loop continues with the same newline.
SqueezedStays ==
  /\ AtControl("LF") /\ Leading
  /\ UNCHANGED vars

\* A leading newline is left out: neither row nor col changes.
Squeezed ==
  /\ AtControl("LF") /\ Leading
  /\ Advance
  /\ UNCHANGED <<at, page, labels>>

\* A newline that stays on the page.
NewLine ==
  /\ AtControl("LF") /\ ~Leading /\ ~PageFull(row)
  /\ row' = UINT(row + LineHeight) /\ col' = 0
  /\ Advance
  /\ UNCHANGED <<at, bm, dirty, labels>>

\* A newline past the last line: the page is printed, and a new one begins.
NewPage ==
  /\ AtControl("LF") /\ ~Leading /\ PageFull(row)
  /\ PrintIfDirty /\ Blank
  /\ Advance
  /\ UNCHANGED at

CarriageReturn ==
  /\ AtControl("CR")
  /\ col' = 0
  /\ Advance
  /\ UNCHANGED <<at, row, bm, dirty, labels>>

\* A mutant: the form feed forgets the page.
FormFeedLoses ==
  /\ AtControl("FF")
  /\ Blank
  /\ Advance
  /\ UNCHANGED <<at, labels>>

\* A form feed: the page is printed unless it is blank, and a new one begins.
FormFeed ==
  /\ AtControl("FF")
  /\ PrintIfDirty /\ Blank
  /\ Advance
  /\ UNCHANGED at

\* Anything else that has no glyph is as wide as a space.
Undefined ==
  /\ \E c \in Characters \ Controls : AtControl(c)
  /\ col' = UINT(col + SpaceWidth)
  /\ Advance
  /\ UNCHANGED <<at, row, bm, dirty, labels>>

-----------------------------------------------------------------------------
Init ==
  /\ portrait \in BOOLEAN /\ squeeze \in BOOLEAN /\ file \in Files
  /\ at = "copy" /\ copy = 0 /\ next = 1 /\ buf = <<>>
  /\ row = 0 /\ col = 0 /\ bm = {} /\ dirty = FALSE
  /\ labels = <<>>

Step ==
  \/ Render1 \/ Return \/ ReadChunk \/ EndOfFile \/ ChunkDone
  \/ PutGlyph \/ Tab \/ Squeezed \/ NewLine \/ NewPage
  \/ CarriageReturn \/ FormFeed \/ Undefined

Ends == {"done", "error", "assert", "wild", "divzero"}

\* render() has returned, or the process is over.
Over == at \in Ends /\ UNCHANGED vars

Next == Step \/ Over

Spec == Init /\ [][Next]_vars /\ WF_vars(Step)

-----------------------------------------------------------------------------
(***************************************************************************)
(* Properties.                                                             *)
(***************************************************************************)

\* The logical place of a dot of the bitmap.
Logical(d) == IF Height # VHeight THEN <<(VHeight - 1) - d[2], d[1]>> ELSE d

Bitmaps == SUBSET ((0..Height - 1) \X (0..Width - 1))

\* render()'s variables keep their types, and no dot is set outside the bitmap.
TypeOK ==
  /\ portrait \in BOOLEAN /\ squeeze \in BOOLEAN /\ file \in Files
  /\ at \in {"copy", "read", "draw"} \cup Ends
  /\ copy \in Nat /\ next \in Nat
  /\ buf \in Seq(Characters)
  /\ row \in 0..UIntValues - 1 /\ col \in 0..UIntValues - 1
  /\ bm \in Bitmaps /\ dirty \in BOOLEAN
  /\ labels \in Seq(Bitmaps)

\* The first row of the current line, and its baseline, which a font whose ascent
\* is negative has above it.
Top == UINT(row - FontAscent)
Baseline == FontAscent + Top

\* While characters are placed, the whole of the current line, from the font's
\* ascent to its descent, is on the page: the page breaks of render.c:279 come
\* soon enough, in both orientations, although row itself may have wrapped around.
EveryLineFits ==
  at \in {"read", "draw"} => Top + LineHeight <= VHeight

\* arena.dirty says whether the page has ink, and no blank label is printed.
InkAccounted ==
  /\ at \in {"read", "draw"} => (dirty <=> bm # {})
  /\ \A i \in DOMAIN labels : labels[i] # {}

\* Ink leaves the page, and the current line goes back up, only when the page
\* becomes the last label printed and a blank one takes its place.
PagesTurn ==
  [][at # "copy" /\ (~(bm \subseteq bm') \/ Top' < Top)
     => bm' = {} /\ (bm # {} => labels' # <<>> /\ Last(labels') = bm)]_vars

\* Every copy prints the same labels: nothing of one copy is left in the next.
CopiesAlike ==
  at = "done" /\ copy > 0 =>
    LET n == Len(labels) \div copy
    IN /\ Len(labels) = n * copy
       /\ \A i \in 1..Len(labels) - n : labels[i] = labels[i + n]

\* A bitmap has ink on its first line.
HasTop(bits) == \E d \in bits : Logical(d)[1] < LineHeight

\* With -s, every label has ink on its first line.
TopLineUsed ==
  squeeze => \A i \in DOMAIN labels : HasTop(labels[i])

\* The box of glyph g at the print position lies on the page.
BoxOnPage(g) ==
  /\ LeftEdge(g, col) + Extent(g) <= VWidth
  /\ Baseline - g.ascent >= 0 /\ Baseline + g.descent <= VHeight

\* The ink of glyph g at the print position.  Columns are UINTs: after a negative width
\* the print position is left of the page, just below 2^32.
InkOf(g) == {Physical(Baseline - g.ascent + d[1], UINT(LeftEdge(g, col) + d[2])) : d \in g.dots}

\* A glyph that lies wholly below a baseline that is on the page.
Below(g) == g.ascent < 0 /\ Baseline >= 0

\* A glyph is drawn whole or not at all, and one that starts at or left of its
\* origin, does not end left of it and reaches the baseline, or a baseline above the
\* page, is left out only when its box does not lie on the page.  Of those that do not,
\* a comma that ends left of its origin is lost at the left margin, where the UINT
\* col + g->rbearing of render.c:153 wraps around.
WholeGlyphs ==
  [][\A c \in Characters : LET g == Glyphs[c] IN
       AtGlyph(c) /\ at' = "draw" =>
         \/ bm' = bm \cup InkOf(g)
         \/ bm' = bm /\ (BoxOnPage(g) => g.lbearing > 0 \/ g.rbearing < 0 \/ Below(g))]_vars

\* render() ends, for every file and number of copies.
EventuallyEnds == <>(at \in Ends)

\* render.c:66-67 discards only glyphs "that would (even partially) fall off the
\* right-hand end".  So a glyph on the page is drawn, also when it lies below the
\* baseline: mjsfont.h:38 notes that ascent "can be negative".
BelowIsDrawn ==
  [][\A c \in Characters : LET g == Glyphs[c] IN
       AtGlyph(c) /\ BoxOnPage(g) /\ g.ascent < 0 /\ g.lbearing <= 0 /\ g.rbearing >= 0 =>
         InkOf(g) \subseteq bm']_vars

-----------------------------------------------------------------------------
(***************************************************************************)
(* The inductive invariant behind EveryLineFits, InkAccounted, PagesTurn   *)
(* and TopLineUsed.                                                        *)
(***************************************************************************)

\* The part of TypeOK that the pages depend on.
PageType ==
  /\ at \in {"copy", "read", "draw"} \cup Ends
  /\ row \in 0..UIntValues - 1 /\ col \in 0..UIntValues - 1
  /\ bm \in Bitmaps /\ dirty \in BOOLEAN
  /\ labels \in Seq(Bitmaps)

\* With -s, a page without ink is still at its first line.
TopInv ==
  squeeze /\ at \in {"read", "draw"} =>
    IF dirty THEN HasTop(bm) ELSE Top = 0

IInv == PageType /\ EveryLineFits /\ InkAccounted /\ TopInv /\ TopLineUsed

=============================================================================
