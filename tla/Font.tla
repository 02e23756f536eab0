-------------------------------- MODULE Font --------------------------------
(***************************************************************************)
(* Fonts on disk.  makefont imports a font and writes it to a file with    *)
(* savefont() and mbm_save(); slap looks in several places for a font, and *)
(* takes the first file that loadfont() and mbm_load() accept.  Writes may *)
(* fail or be short, makefont may be killed, and memory may be exhausted;  *)
(* what slap finds then is the beginning of a file, or no file at all.     *)
(*                                                                         *)
(* A file is a sequence of bytes.  The first seven bytes of a header stand *)
(* in one place of it, as a number that is no byte.                        *)
(***************************************************************************)
EXTENDS Bitmap, Integers, Sequences, FiniteSets, FiniteSetsExt, SequencesExt

CONSTANTS
  NGlyphs,        \* how many glyphs a font has
  NameMax,        \* FN_MAX, the bound on the length of a font's name
  Imported,       \* the fonts that import() may read
  Installed,      \* the fonts whose files may be there already
  Places,         \* how many files locate_font() tries
  MaxShortWrites, \* bound on the short writes of a file
  Junk,           \* the bytes that a variable which was not initialised may hold
  NULL            \* no bitmap

FontMagic == 256
BitmapMagic == 257
CR == 13
LF == 10
Absent == <<FontMagic, FontMagic>>  \* a file that is not there

SHORTs == {v \in Int : -32768 <= v /\ v <= 32767}
SHORT(v) == IF v % 65536 < 32768 THEN v % 65536 ELSE (v % 65536) - 65536
USHORT(v) == v % 65536

Metrics == {"ascent", "descent", "lbearing", "rbearing", "width"}
Glyphs ==
  [ascent : SHORTs, descent : SHORTs, lbearing : SHORTs, rbearing : SHORTs, width : SHORTs,
   bm : [height : USHORTs, width : USHORTs, bits : SUBSET Nat] \cup {NULL}]
Fonts == [name : Seq(0..255), ascent : SHORTs, descent : SHORTs, glyphs : [1..NGlyphs -> Glyphs]]
IsFont(f) == f \in Fonts /\ \A n \in 1..NGlyphs : f.glyphs[n].bm # NULL => IsBitmap(f.glyphs[n].bm)

\* What import() makes: a bitmap as large as the metrics say for each glyph of the source,
\* and an empty one for every other glyph, whatever its metrics.
ReadByImport(f) ==
  \A n \in 1..NGlyphs :
    LET g == f.glyphs[n] IN
    /\ g.bm # NULL
    /\ \/ g.bm.height = 0 /\ g.bm.width = 0
       \/ /\ g.ascent + g.descent >= 0 /\ g.bm.height = USHORT(g.ascent + g.descent)
          /\ g.rbearing >= g.lbearing /\ g.bm.width = USHORT(g.rbearing - g.lbearing)

ASSUME FontAssumption ==
  /\ NGlyphs \in Nat \ {0} /\ NameMax \in Nat \ {0} /\ Places \in Nat \ {0}
  /\ NULL \notin [height : USHORTs, width : USHORTs, bits : SUBSET Nat]
  /\ MaxShortWrites \in Nat /\ Junk \subseteq 0..255 /\ Junk # {}
  /\ \A f \in Imported \cup Installed :
       /\ IsFont(f) /\ ReadByImport(f) /\ Len(f.name) \in 1..NameMax
       /\ \A i \in 1..Len(f.name) : f.name[i] # LF  \* the scanf()s of makefont.c:150-156 stop there

VARIABLES
  at,     \* where makefont, and then slap, is
  font,   \* the font makefont has imported
  items,  \* what savefont() has still to write
  out,    \* what it has written
  short,  \* how many writes were short
  target, \* the file it writes
  disk,   \* the files
  origin, \* history: of each file, the font it was written from
  place,  \* the file slap is at
  pos,    \* how much of it was read
  f,      \* the font that loadfont() fills
  n,      \* the number of the glyph it is at, and the name's length before
  heap,   \* the blocks of memory that loadfont() has
  faults  \* history: "memory", an allocation failed; "misuse", a block was freed that is not there

vars == <<at, font, items, out, short, target, disk, origin, place, pos, f, n, heap, faults>>
making == <<font, items, out, short, target>>
files == <<disk, origin>>
loading == <<place, pos, f, n, heap, faults>>

Goto(label) == at' = label

-----------------------------------------------------------------------------
(***************************************************************************)
(* The file's format.  An item is what one call writes; of a loose item    *)
(* mbm_save() only asks whether any of its bytes was written.              *)
(***************************************************************************)

\* stols()
Word(v) == <<USHORT(v) % 256, USHORT(v) \div 256>>

Strict(bytes) == [bytes |-> bytes, loose |-> FALSE]
Loose(bytes) == [bytes |-> bytes, loose |-> TRUE]

\* The bits, as bytes.
Bit(b, k) == IF k \in b.bits THEN 1 ELSE 0
Byte(b, k) ==
  Bit(b, 8 * k) + 2 * Bit(b, 8 * k + 1) + 4 * Bit(b, 8 * k + 2) + 8 * Bit(b, 8 * k + 3)
  + 16 * Bit(b, 8 * k + 4) + 32 * Bit(b, 8 * k + 5) + 64 * Bit(b, 8 * k + 6) + 128 * Bit(b, 8 * k + 7)
Bytes(b) == [k \in 1..mbm_need(b.height, b.width) |-> Byte(b, k - 1)]

\* mbm_save()
BitmapItems(b) ==
  <<Loose(<<BitmapMagic, 0>>), Loose(Word(b.height)), Loose(Word(b.width)), Strict(Bytes(b))>>

GlyphItems(g) ==
  <<Strict(Word(g.ascent)), Strict(Word(g.descent)), Strict(Word(g.lbearing)),
    Strict(Word(g.rbearing)), Strict(Word(g.width))>> \o BitmapItems(g.bm)

FontItems(fn) ==
  <<Strict(<<FontMagic>>), Strict(<<0>>), Strict(fn.name \o <<CR, LF>>),
    Strict(Word(fn.ascent)), Strict(Word(fn.descent))>>
  \o FlattenSeq([k \in 1..NGlyphs |-> GlyphItems(fn.glyphs[k])])

\* The file of a font that was written without a fault.
Image(fn) == FlattenSeq([i \in 1..Len(FontItems(fn)) |-> FontItems(fn)[i].bytes])

\* A mutant: the width of the bitmap is not looked at.
WidthUnchecked(fn) ==
  /\ fn.ascent + fn.descent >= 0
  /\ \A k \in 1..NGlyphs :
       LET g == fn.glyphs[k] IN
       /\ g.ascent <= fn.ascent /\ g.descent <= fn.descent /\ g.ascent + g.descent >= 0
       /\ g.lbearing <= g.rbearing
       /\ USHORT(g.ascent + g.descent) = g.bm.height

checkfontmetrics(fn) ==
  /\ fn.ascent + fn.descent >= 0
  /\ \A k \in 1..NGlyphs :
       LET g == fn.glyphs[k] IN
       /\ g.ascent <= fn.ascent /\ g.descent <= fn.descent /\ g.ascent + g.descent >= 0
       /\ g.lbearing <= g.rbearing
       /\ USHORT(g.ascent + g.descent) = g.bm.height
       /\ USHORT(g.rbearing - g.lbearing) = g.bm.width

\* The files that are there are savefont()'s, which checks the font first (savefont.c:36).
ASSUME InstalledAssumption == \A fn \in Installed : checkfontmetrics(fn)

-----------------------------------------------------------------------------
(***************************************************************************)
(* makefont                                                                *)
(***************************************************************************)

\* The file is created, or made empty, before the font is checked.
Import ==
  /\ at = "import"
  /\ \E fn \in Imported :
       /\ font' = fn
       /\ disk' = [disk EXCEPT ![target] = <<>>]
       /\ origin' = [origin EXCEPT ![target] = fn]
       /\ IF checkfontmetrics(fn)
            THEN items' = FontItems(fn) /\ Goto("write")
            ELSE items' = <<>> /\ Goto("remove")
  /\ UNCHANGED <<out, short, target, loading>>

\* One item is written: all of it, or too little of it, which is noticed only of a strict one.
Write ==
  /\ at = "write" /\ items # <<>>
  /\ \E k \in 0..Len(Head(items).bytes) :
       LET all == Len(Head(items).bytes) IN
       /\ k < all => short < MaxShortWrites
       /\ out' = out \o SubSeq(Head(items).bytes, 1, k)
       /\ short' = IF k < all THEN short + 1 ELSE short
       /\ IF k = all \/ (Head(items).loose /\ k > 0)
            THEN items' = Tail(items) /\ UNCHANGED at
            ELSE Goto("remove") /\ UNCHANGED items
  /\ UNCHANGED <<font, target, files, loading>>

\* savefont() failed.
RemoveOutput ==
  /\ at = "remove"
  /\ disk' = [disk EXCEPT ![target] = Absent]
  /\ Goto("locate")
  /\ UNCHANGED <<making, origin, loading>>

\* The file is closed, whether or not what stdio still had was written; or makefont is
\* killed.  The file has the beginning of what was written to it.
CloseOutput ==
  /\ at \in {"write", "remove"}
  /\ \E k \in 0..Len(out) : disk' = [disk EXCEPT ![target] = SubSeq(out, 1, k)]
  /\ Goto("locate")
  /\ UNCHANGED <<making, origin, loading>>

-----------------------------------------------------------------------------
(***************************************************************************)
(* slap: locate_font(), try_load_font(), loadfont()                        *)
(***************************************************************************)

File == disk[place]
Left == Len(File) - pos
WordAt(i) == (File[i] % 256) + 256 * (File[i + 1] % 256)

\* A mutant: the sign is lost.
Unsigned(i) == WordAt(i)

ShortAt(i) == SHORT(WordAt(i))

NoGlyph == [ascent |-> 0, descent |-> 0, lbearing |-> 0, rbearing |-> 0, width |-> 0, bm |-> NULL]
NoFont == [name |-> <<>>, ascent |-> 0, descent |-> 0, glyphs |-> [k \in 1..NGlyphs |-> NoGlyph]]

GlyphBlocks(k) == {<<"bitmap", k>>, <<"bits", k>>}
FontBlock == <<"font", 0>>

\* Freeing blocks, which have to be there.
Free(blocks) ==
  /\ heap' = heap \ blocks
  /\ faults' = IF blocks \subseteq heap THEN faults ELSE faults \cup {"misuse"}

\* This file is given up, and the next one tried.
NextPlace == Goto("locate") /\ place' = place + 1

\* A mutant: dropfont() frees the bitmaps only.
DropBitmaps == Free(UNION {GlyphBlocks(k) : k \in {j \in 1..NGlyphs : f.glyphs[j].bm # NULL}})

dropfont == Free({FontBlock} \cup UNION {GlyphBlocks(k) : k \in {j \in 1..NGlyphs : f.glyphs[j].bm # NULL}})

TryFont ==
  /\ at = "locate" /\ place <= Places
  /\ pos' = 0
  /\ IF File = Absent THEN NextPlace ELSE Goto("header") /\ UNCHANGED place
  /\ UNCHANGED <<making, files, f, n, heap, faults>>

CannotLocate ==
  /\ at = "locate" /\ place > Places
  /\ Goto("lost")
  /\ UNCHANGED <<making, files, loading>>

ReadHeader ==
  /\ at = "header"
  /\ IF Left >= 2 /\ File[1] = FontMagic
       THEN /\ pos' = 2 /\ f' = NoFont /\ n' = 0 /\ heap' = heap \cup {FontBlock}
            /\ Goto("name") /\ UNCHANGED place
       ELSE NextPlace /\ UNCHANGED <<pos, f, n, heap>>
  /\ UNCHANGED <<making, files, faults>>

NameFails == NextPlace /\ Free({FontBlock}) /\ UNCHANGED <<pos, n, f>>

\* A mutant: the loop reads one byte less.
ReadNameShort ==
  /\ at = "name"
  /\ LET ends == {k \in 1..NameMax - 1 : k <= Left /\ File[pos + k] = LF}
         last == IF ends = {} THEN NameMax - 1 ELSE Min(ends)
     IN IF last <= Left /\ last > 1 /\ File[pos + last - 1] = CR
          THEN /\ f' = [f EXCEPT !.name = SubSeq(File, pos + 1, pos + last)]
               /\ pos' = pos + last /\ Goto("metrics") /\ UNCHANGED <<place, n, heap, faults>>
          ELSE NameFails
  /\ UNCHANGED <<making, files>>

\* The name's bytes are read up to and with an LF, or until there are NameMax; the last
\* but one has to be a CR, and without an LF the last one.
ReadName ==
  /\ at = "name"
  /\ LET ends == {k \in 1..NameMax : k <= Left /\ File[pos + k] = LF}
         read == IF ends = {} THEN NameMax ELSE Min(ends)
         last == IF ends = {} THEN NameMax ELSE Min(ends) - 1
     IN IF read <= Left /\ last > 0 /\ File[pos + last] = CR
          THEN /\ f' = [f EXCEPT !.name = SubSeq(File, pos + 1, pos + read)]
               /\ pos' = pos + read /\ Goto("metrics") /\ UNCHANGED <<place, n, heap, faults>>
          ELSE NameFails
  /\ UNCHANGED <<making, files>>

ReadMetrics ==
  /\ at = "metrics"
  /\ IF Left >= 4
       THEN /\ f' = [f EXCEPT !.ascent = ShortAt(pos + 1), !.descent = ShortAt(pos + 3)]
            /\ pos' = pos + 4 /\ n' = 1 /\ Goto("glyph") /\ UNCHANGED <<place, heap, faults>>
       ELSE NameFails
  /\ UNCHANGED <<making, files>>

GlyphFails == NextPlace /\ dropfont /\ UNCHANGED <<pos, n, f>>

ReadGlyph ==
  /\ at = "glyph" /\ n <= NGlyphs
  /\ IF Left >= 10
       THEN /\ f' = [f EXCEPT !.glyphs[n] =
                 [ascent |-> ShortAt(pos + 1), descent |-> ShortAt(pos + 3), lbearing |-> ShortAt(pos + 5),
                  rbearing |-> ShortAt(pos + 7), width |-> ShortAt(pos + 9), bm |-> NULL]]
            /\ pos' = pos + 10 /\ Goto("bitmap") /\ UNCHANGED <<place, n, heap, faults>>
       ELSE GlyphFails
  /\ UNCHANGED <<making, files>>

\* The bits that "need" bytes at the place i stand for.
Power == <<1, 2, 4, 8, 16, 32, 64, 128>>
BitsAt(i, need) ==
  {b \in 0..8 * need - 1 : (File[i + b \div 8] \div Power[(b % 8) + 1]) % 2 = 1}

\* What mbm_load() reads.  Its fread()s of the header, the height and the width are
\* content with one byte; then the rest of the width is what the variable held.
HeaderRead == Left >= 5 /\ File[pos + 1] = BitmapMagic
HeightRead == WordAt(pos + 3)
WidthsRead == IF Left = 5 THEN {(File[pos + 5] % 256) + 256 * junk : junk \in Junk} ELSE {WordAt(pos + 5)}
BitsLeft == IF Left = 5 THEN 0 ELSE Left - 6

LoadBitmap ==
  /\ at = "bitmap"
  /\ \/ /\ HeaderRead
        /\ \E w \in WidthsRead :
             LET need == mbm_need(HeightRead, w) IN
             IF need <= BitsLeft
               THEN /\ f' = [f EXCEPT !.glyphs[n].bm =
                              [mbm_buy(HeightRead, w) EXCEPT !.bits = BitsAt(pos + 7, need)]]
                    /\ pos' = IF Left = 5 THEN Len(File) ELSE pos + 6 + need
                    /\ heap' = heap \cup GlyphBlocks(n)
                    /\ n' = n + 1 /\ Goto("glyph") /\ UNCHANGED <<place, faults>>
               ELSE GlyphFails
     \/ ~HeaderRead /\ GlyphFails
  /\ UNCHANGED <<making, files>>

\* mbm_buy() finds no memory for the bitmap or for its bits.
NoMemory ==
  /\ at = "bitmap" /\ HeaderRead
  /\ NextPlace
  /\ LET drop == {FontBlock} \cup UNION {GlyphBlocks(k) : k \in 1..n - 1} IN
     /\ heap' = heap \ drop
     /\ faults' = faults \cup {"memory"} \cup (IF drop \subseteq heap THEN {} ELSE {"misuse"})
  /\ UNCHANGED <<making, files, pos, n, f>>

CheckMetrics ==
  /\ at = "glyph" /\ n > NGlyphs
  /\ IF checkfontmetrics(f) THEN Goto("found") /\ UNCHANGED <<place, pos, n, f, heap, faults>> ELSE GlyphFails
  /\ UNCHANGED <<making, files>>

\* The labels were rendered.
DropFont ==
  /\ at = "found"
  /\ dropfont
  /\ Goto("done")
  /\ UNCHANGED <<making, files, place, pos, n, f>>

Ended == at \in {"lost", "done"} /\ UNCHANGED vars

-----------------------------------------------------------------------------
Init ==
  /\ at = "import"
  /\ font = NoFont /\ items = <<>> /\ out = <<>> /\ short = 0
  /\ target \in 1..Places
  /\ origin \in [1..Places -> Installed \cup {NoFont}]
  /\ disk = [i \in 1..Places |-> IF origin[i] = NoFont THEN Absent ELSE Image(origin[i])]
  /\ place = 1 /\ pos = 0 /\ f = NoFont /\ n = 0
  /\ heap = {} /\ faults = {}

Makefont == Import \/ Write \/ RemoveOutput \/ CloseOutput

Loadfont ==
  \/ ReadHeader \/ ReadName \/ ReadMetrics \/ ReadGlyph \/ LoadBitmap \/ NoMemory \/ CheckMetrics

Next == Makefont \/ TryFont \/ CannotLocate \/ Loadfont \/ DropFont \/ Ended

Spec == Init /\ [][Next]_vars

-----------------------------------------------------------------------------
Labels == {"import", "write", "remove", "locate", "header", "name", "metrics", "glyph", "bitmap", "found", "done", "lost"}

TypeOK ==
  /\ at \in Labels
  /\ short \in 0..MaxShortWrites
  /\ target \in 1..Places /\ place \in 1..Places + 1
  /\ \A i \in 1..Places : \A k \in 1..Len(disk[i]) : disk[i][k] \in 0..BitmapMagic
  /\ at \in {"header", "name", "metrics", "glyph", "bitmap"} => place <= Places /\ pos \in 0..Len(File)
  /\ IsFont(f)
  /\ n \in 0..NGlyphs + 1
  /\ heap \subseteq {FontBlock} \cup UNION {GlyphBlocks(k) : k \in 1..NGlyphs}
  /\ faults \subseteq {"memory", "misuse"}

\* A font that loads is the font that was saved, whatever happened to its file: no metric
\* and no dot of it comes from a byte that was lost (loadfont.c:66-97, mbmload.c:53-72).
LoadedIsSaved ==
  at = "found" =>
    /\ f.ascent = origin[place].ascent /\ f.descent = origin[place].descent
    /\ f.glyphs = origin[place].glyphs

\* Each file that is given up gives back what was allocated for it, once: the bitmaps that
\* were loaded and no other ones (loadfont.c:55-56, dropfont.c:34-40).
NothingLeaks ==
  /\ at \in {"locate", "header", "lost", "done"} => heap = {}
  /\ "misuse" \notin faults

\* slap does without a font only when there is none: a whole file is found, in whichever
\* place, if its name leaves room for CR and LF in FN_MAX bytes and there is memory.
WholeIsFound ==
  at = "lost" /\ "memory" \notin faults =>
    \A i \in 1..Places :
      disk[i] # Absent /\ disk[i] = Image(origin[i]) => Len(origin[i].name) > NameMax - 2

=============================================================================
