------------------------------ MODULE MCRender ------------------------------
(***************************************************************************)
(* Render with a font of a letter two dots wide, a letter that starts left *)
(* of its origin (as "j" does in most fonts), a letter that starts right   *)
(* of it, a comma wholly to the left of its origin, an underscore below    *)
(* the baseline, and a space without ink.  A line is four dots high: two   *)
(* of them fit on a portrait page (with three rows to spare), and one on a *)
(* landscape page.                                                         *)
(***************************************************************************)
EXTENDS Render

Metric(a, d, l, r, w, dots) ==
  [ascent |-> a, descent |-> d, lbearing |-> l, rbearing |-> r, width |-> w, dots |-> dots]

MCGlyphs ==
  [c \in Controls \cup {" ", "m", "M", "_", "j", "l", ",", "?"} |->
     CASE c = "m" -> Metric(2, 0, 0, 2, 2, {<<0, 0>>, <<1, 1>>})
       [] c = "j" -> Metric(1, 1, -1, 1, 1, {<<0, 1>>, <<1, 0>>})
       [] c = "l" -> Metric(2, 1, 1, 2, 2, {<<0, 0>>, <<2, 0>>})
       [] c = "_" -> Metric(-1, 2, 0, 2, 2, {<<0, 0>>, <<0, 1>>})
       [] c = "," -> Metric(1, 0, -2, -1, 1, {<<0, 0>>})
       [] c = " " -> Metric(0, 0, 0, 0, 1, {})
       [] OTHER -> Metric(0, 0, 0, 0, 0, {})]

\* Short files of everything, and longer ones of what fills pages.
MCFiles == BoundedSeq(DOMAIN MCGlyphs \ {"M"}, 3) \cup BoundedSeq({"m", "j", "LF", "FF", " "}, 5)

=============================================================================
