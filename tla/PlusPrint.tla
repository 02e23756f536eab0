------------------------------ MODULE PlusPrint ------------------------------
(***************************************************************************)
(* printlabel() of the SLP-Plus driver (slplus.c): a bitmap becomes bands  *)
(* of BAND_HEIGHT dots, interleaved in pairs (one band has the even rows   *)
(* of the pair, the next one the odd rows), and each band becomes head     *)
(* movements and print data.  The printer is modelled beside the driver:   *)
(* where its head and its paper really are, and what it burned.            *)
(*                                                                         *)
(* Every byte is sent after a wait for the printer, and every feed is      *)
(* followed by one; a printer that does not answer in time makes the       *)
(* driver call Error(), here the step Fail.                                *)
(***************************************************************************)
EXTENDS Integers, FiniteSets, FiniteSetsExt

CONSTANTS H,       \* BAND_HEIGHT: dots per pass of the print head
          NBands,  \* st->nbands
          NSlices, \* st->nslices
          Images,  \* the bitmaps printed
          Labels   \* bound on the labels printed

Dots == (0..NBands * H - 1) \X (0..NSlices - 1)

ASSUME PlusAssumption ==
  /\ H \in Nat \ {0} /\ NSlices \in Nat \ {0}
  /\ NBands \in Nat \ {0} /\ NBands % 2 = 0
  /\ Images \subseteq SUBSET Dots
  /\ Labels \in Nat

VARIABLES at,       \* what the driver does next
          image,    \* the arena's bitmap: the set of its dots
          lastband, \* the local lastband
          band,     \* the local band
          pos,      \* the local pos: the slice the driver believes the head is at
          tof,      \* st->tof: is the printer at the top of a label?
          head,     \* printer: where the head is, in slices from its left stop
          line,     \* printer: the row of the label at the head's first dot
          ink,      \* printer: the dots burned on this label
          count     \* labels started

vars == <<at, image, lastband, band, pos, tof, head, line, ink, count>>
host == <<image, lastband, band, tof>>
printer == <<head, line, ink>>

\* The left margin: printing starts two slices in.
Margin == 2

-----------------------------------------------------------------------------
(***************************************************************************)
(* The device-format bitmap.                                               *)
(***************************************************************************)

\* The first row of band b: odd bands are one row below their even neighbour.
FirstRow(b) == (b - (b % 2)) * H + (b % 2)

\* slices[s] of band b: the pins that strike.
Pins(b, s) == {n \in 0..H - 1 : <<FirstRow(b) + 2 * n, s>> \in image}

Dirty(b) == {s \in 0..NSlices - 1 : Pins(b, s) # {}}

\* The edges of the dirty zone, and what they are for a blank band.
BandMin(b) == IF Dirty(b) = {} THEN NSlices ELSE Min(Dirty(b))
BandMax(b) == IF Dirty(b) = {} THEN 0 ELSE Max(Dirty(b))

\* The band of a dot.
BandOf(d) == 2 * (d[1] \div (2 * H)) + (d[1] % 2)

\* The order in which the mapping loop meets the dots: pair of bands by pair,
\* slice by slice, row by row.
Met(d, e) ==
  LET pair(x) == x[1] \div (2 * H)
  IN \/ pair(d) < pair(e)
     \/ pair(d) = pair(e) /\ d[2] < e[2]
     \/ pair(d) = pair(e) /\ d[2] = e[2] /\ d[1] <= e[1]

\* lastband after the mapping loop over bitmap img: the band of the dot met last.
MappedLast(img) ==
  IF img = {} THEN 0 ELSE BandOf(CHOOSE d \in img : \A e \in img : Met(e, d))

\* "adjust lastband to ensure complete interleave of the final pair"
Adjusted(last) == IF last < NBands /\ last % 2 = 1 THEN last + 1 ELSE last

-----------------------------------------------------------------------------
(***************************************************************************)
(* The printer's commands.                                                 *)
(***************************************************************************)

\* 0x7 and 0x8: move the head right, left, by n slices.
MoveRight(n) == head' = head + n
MoveLeft(n) == head' = head - n

\* 0x3: burn the slices of band b from slice first to slice last, at the
\* places the head passes.
Strike(b, first, last) ==
  /\ ink' = ink \cup UNION {{<<line + 2 * n, head - Margin + (s - first)>> : n \in Pins(b, s)} :
                             s \in first..last}
  /\ head' = head + (last - first + 1)

\* 0x9 and 0xB: feed to the odd band of the pair; to the next pair.
FeedAfter(b) == line' = line + (IF b % 2 = 1 THEN 2 * H - 1 ELSE 1)

-----------------------------------------------------------------------------
Goto(label) == at' = label

\* The blank feed that starts a label; the bitmap has been mapped.
Start ==
  /\ at = "idle" /\ count < Labels
  /\ image' \in Images
  /\ lastband' = MappedLast(image')
  /\ tof' = FALSE
  /\ line' = 0 /\ ink' = {}
  /\ count' = count + 1
  /\ Goto("home")
  /\ UNCHANGED <<band, pos, head>>

\* Carriage return, then the left margin.
Home ==
  /\ at = "home"
  /\ head' = Margin
  /\ lastband' = Adjusted(lastband)
  /\ pos' = 0 /\ band' = 0
  /\ Goto("band")
  /\ UNCHANGED <<image, tof, line, ink, count>>

\* The loop test, and the test for marks on the band.  map[nbands] does not
\* exist: what the driver finds there may look blank, or not.
NextBand ==
  /\ at = "band"
  /\ \/ band > lastband /\ Goto("eject")
     \/ band <= lastband /\ band < NBands /\ Goto(IF BandMax(band) # 0 THEN "move" ELSE "feed")
     \/ band <= lastband /\ band = NBands /\ at' \in {"feed", "overrun"}
  /\ UNCHANGED <<host, pos, printer, count>>

\* Move to the start of the dirty zone.
MoveForward ==
  /\ at = "move" /\ BandMin(band) > pos
  /\ MoveRight(BandMin(band) - pos)
  /\ pos' = BandMin(band)
  /\ Goto("strike")
  /\ UNCHANGED <<host, line, ink, count>>

MoveBack ==
  /\ at = "move" /\ BandMin(band) <= pos
  /\ MoveLeft(pos - BandMin(band))
  /\ pos' = BandMin(band)
  /\ Goto(IF BandMin(band) > 0 THEN "overshoot" ELSE "strike")
  /\ UNCHANGED <<host, line, ink, count>>

\* A mutant: the overshoot is forgotten in pos.
OvershootForgotten ==
  /\ at = "overshoot"
  /\ MoveLeft(IF pos > 1 THEN 2 ELSE 1)
  /\ Goto("strike")
  /\ UNCHANGED <<host, pos, line, ink, count>>

\* Overshoot, against backlash.
Overshoot ==
  /\ at = "overshoot"
  /\ MoveLeft(IF pos > 1 THEN 2 ELSE 1)
  /\ pos' = IF pos > 1 THEN pos - 2 ELSE 0
  /\ Goto("strike")
  /\ UNCHANGED <<host, line, ink, count>>

\* A mutant: the last slice of the dirty zone is not sent.
StrikeShort ==
  /\ at = "strike"
  /\ Strike(band, pos, BandMax(band) - 1)
  /\ pos' = BandMax(band)
  /\ Goto("feed")
  /\ UNCHANGED <<host, line, count>>

StrikeBand ==
  /\ at = "strike"
  /\ Strike(band, pos, BandMax(band))
  /\ pos' = BandMax(band) + 1
  /\ Goto("feed")
  /\ UNCHANGED <<host, line, count>>

\* A mutant: the label is recorded as ejected when its last band is fed.
FeedForgets ==
  /\ at = "feed"
  /\ FeedAfter(band)
  /\ band' = band + 1
  /\ tof' = (band = lastband)
  /\ Goto("band")
  /\ UNCHANGED <<image, lastband, pos, head, ink, count>>

FeedBand ==
  /\ at = "feed"
  /\ FeedAfter(band)
  /\ band' = band + 1
  /\ Goto("band")
  /\ UNCHANGED <<image, lastband, pos, tof, head, ink, count>>

\* Carriage return, formfeed(), and the return, which ends the locals.
Eject ==
  /\ at = "eject"
  /\ head' = 0
  /\ tof' = TRUE
  /\ lastband' = 0 /\ band' = 0 /\ pos' = 0
  /\ Goto("idle")
  /\ UNCHANGED <<image, line, ink, count>>

\* Error(), at any wait; the process never comes back to printlabel().
Fail ==
  /\ at \notin {"idle", "overrun", "error"}
  /\ Goto("error")
  /\ UNCHANGED <<host, pos, printer, count>>

\* The run is over: no labels are left, or printlabel() was left.
Over ==
  /\ at \in {"error", "overrun"} \/ (at = "idle" /\ count = Labels)
  /\ UNCHANGED vars

Init ==
  /\ at = "idle" /\ image = {} /\ lastband = 0 /\ band = 0 /\ pos = 0 /\ tof = TRUE
  /\ head = 0 /\ line = 0 /\ ink = {} /\ count = 0

PrintLabel ==
  \/ Home \/ NextBand \/ MoveForward \/ MoveBack \/ Overshoot \/ StrikeBand \/ FeedBand \/ Eject

Next == Start \/ PrintLabel \/ Fail \/ Over

Spec == Init /\ [][Next]_vars

-----------------------------------------------------------------------------
AtLabels == {"idle", "home", "band", "move", "overshoot", "strike", "feed", "eject", "overrun", "error"}

TypeOK ==
  /\ at \in AtLabels
  /\ image \subseteq Dots
  /\ lastband \in 0..NBands
  /\ band \in 0..NBands + 1
  /\ pos \in 0..NSlices
  /\ tof \in BOOLEAN
  /\ head \in 0..NSlices + Margin
  /\ line \in Nat
  /\ ink \subseteq Dots
  /\ count \in 0..Labels

\* printlabel() steers the head by dead reckoning: at every band the printer's
\* head is where the driver believes, and the paper is at the band's first row.
OnTrack ==
  at \in {"band", "move", "overshoot", "strike", "feed"} =>
    head = pos + Margin /\ line = FirstRow(band)

\* Where the loop is: a label is started until it is ejected, only bands that
\* exist and have marks are struck, and never from a slice behind the dirty zone.
LoopInv ==
  /\ at \in {"home", "band", "move", "overshoot", "strike", "feed", "eject"} => ~tof
  /\ at = "idle" => tof
  /\ at = "home" => line = 0
  /\ at \in {"move", "overshoot", "strike", "feed"} => band <= lastband
  /\ at \in {"move", "overshoot", "strike"} => band < NBands /\ Dirty(band) # {}
  /\ at = "overshoot" => pos = BandMin(band) /\ pos > 0
  /\ at = "strike" => pos <= BandMin(band)

\* The bound of the loop: the band met last, and then the adjusted one.
LastInv ==
  /\ at = "home" => lastband = MappedLast(image)
  /\ at \in {"band", "move", "overshoot", "strike", "feed", "overrun"} => lastband = Adjusted(MappedLast(image))

\* The inductive invariant behind OnTrack and RefinesLabel.
IInv == TypeOK /\ OnTrack /\ LoopInv

\* The bands the loop goes through.
Visited == 0..lastband

\* The label, once printed, lacks the dots of the bands after lastband, and of
\* bands that have marks in slice 0 alone (their max is 0); all others are
\* where the bitmap has them.
ExactInk ==
  at = "eject" => ink = {d \in image : BandOf(d) \in Visited /\ BandMax(BandOf(d)) # 0}

\* The loop runs past the end of map[] only for a bitmap whose last band met is the last one.
OverrunOnlyAtEnd == at = "overrun" => MappedLast(image) = NBands - 1

\* The label, as Label promises it.
Paper == INSTANCE Label WITH Reach <- {2 * n : n \in 0..H - 1}, started <- ~tof

RefinesLabel == Paper!Spec

=============================================================================
