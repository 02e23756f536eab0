------------------------------ MODULE Geometry ------------------------------
(***************************************************************************)
(* The sizes of labels in dots, as the drivers compute them from the media *)
(* (session.c) and the model: what the mapping loops, the lengths of the   *)
(* bands' commands and force()'s NOPs depend on.  Pitches are in hundredths *)
(* of a dot per millimetre; a DOUBLE that is assigned to a USHORT loses its *)
(* fraction.                                                               *)
(***************************************************************************)
EXTENDS Integers

Size(width, height) == [width |-> width, height |-> height]

\* media[], in millimetres: std, euro, disk, ship, small, strip, slide, cass, leitz, large.
Media ==
  {Size(28, 89), Size(36, 89), Size(54, 70), Size(54, 101), Size(28, 51), Size(14, 87),
   Size(38, 11), Size(9, 71), Size(36, 190), Size(51, 190)}

\* What a pitch makes of a length.
InDots(mm, pitch) == (mm * pitch) \div 100

-----------------------------------------------------------------------------
(***************************************************************************)
(* SLP-Plus.                                                               *)
(***************************************************************************)

BAND_HEIGHT == 8
INTERLEAVE == 2
PlusVPitch == 630
PlusHPitch == 386
PlusMaxNops == 3 * 28   \* the cast takes the fraction of 3.86
PlusEnd == 33           \* four millimetres and a band, above and below
PlusSide == 2

PlusTakes(m) == m.width = 28

\* Rounded up to an even number of bands, at the bottom margin's expense.
PlusGeometry(m) ==
  LET height == InDots(m.height, PlusVPitch) - 2 * PlusEnd
      k == BAND_HEIGHT * INTERLEAVE - (height % (BAND_HEIGHT * INTERLEAVE))
  IN [top |-> PlusEnd, bottom |-> PlusEnd - k, left |-> PlusSide, right |-> PlusSide,
      height |-> height + k, width |-> InDots(m.width, PlusHPitch) - 2 * PlusSide]

PlusBands(m) == PlusGeometry(m).height \div BAND_HEIGHT
PlusSlices(m) == PlusGeometry(m).width

-----------------------------------------------------------------------------
(***************************************************************************)
(* SLP-Pro and its successors.                                             *)
(***************************************************************************)

SLICEWIDTH == 8
ProMaxNops == 54

Model(maxwidth, left, right, vpitch) ==
  [maxwidth |-> maxwidth, top |-> 4, bottom |-> 4, left |-> left, right |-> right,
   vpitch |-> vpitch, hpitch |-> 800]

\* models[]: the SLP-Pro; the SLP-120 and the SLP-100s; the SLP-220 and its like.
Models == {Model(54, 1, 2, 780), Model(28, 2, 1, 800), Model(54, 1, 2, 800)}

ProTakes(model, m) == m.width <= model.maxwidth

\* Rounded down to whole slices, to the right margin's profit.
ProGeometry(model, m) ==
  LET top == InDots(model.top, model.vpitch)
      bottom == InDots(model.bottom, model.vpitch)
      right == InDots(model.right, model.hpitch)
      left == InDots(model.left, model.hpitch)
      width == InDots(m.width, model.hpitch) - left - right
      k == width % SLICEWIDTH
  IN [top |-> top, bottom |-> bottom, left |-> left, right |-> right + k,
      height |-> InDots(m.height, model.vpitch) - top - bottom, width |-> width - k]

ProSlices(model, m) == ProGeometry(model, m).width \div SLICEWIDTH

\* setmedia(): the indent that centres the label, in millimetres.
ProMargin(model, m) ==
  LET g == ProGeometry(model, m)
      spare == model.maxwidth * 100 - ((g.width + g.left + g.right) * 10000) \div model.hpitch
      indent == (spare \div 100) \div 2 - model.left
  IN IF indent < 0 THEN 0 ELSE indent

-----------------------------------------------------------------------------
(***************************************************************************)
(* The bitmap dump driver turns the geometry it borrows.                   *)
(***************************************************************************)

MbmGeometry(g, portrait) ==
  IF (portrait /\ g.height < g.width) \/ (~portrait /\ g.height > g.width)
    THEN [top |-> g.right, bottom |-> g.left, left |-> g.top, right |-> g.bottom,
          height |-> g.width, width |-> g.height]
    ELSE g

WholeHeight(g) == g.height + g.top + g.bottom
WholeWidth(g) == g.width + g.left + g.right

=============================================================================
