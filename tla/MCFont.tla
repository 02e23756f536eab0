------------------------------- MODULE MCFont -------------------------------
(***************************************************************************)
(* Font with two glyphs: blank, of one dot, below the baseline, and of two *)
(* bytes; names that fit, that end at the bound, and that exceed it.       *)
(***************************************************************************)
EXTENDS Font

Shape(ascent, descent, lbearing, rbearing, bits) ==
  [ascent |-> ascent, descent |-> descent, lbearing |-> lbearing, rbearing |-> rbearing,
   width |-> rbearing,
   bm |-> [mbm_buy(ascent + descent, rbearing - lbearing) EXCEPT !.bits = bits]]

Blank == Shape(0, 0, 0, 0, {})
Flat == Shape(0, 0, 0, 2, {})
Dot == Shape(1, 0, 0, 1, {0})
Low == Shape(-1, 2, -1, 2, {0, 2})
Tall == Shape(3, 0, 0, 3, {1, 8})
Wrong == Shape(4, 0, 0, 1, {2})

MCFonts(names, glyphs) ==
  {[name |-> nm, ascent |-> 3, descent |-> 2, glyphs |-> g] : nm \in names, g \in [1..2 -> glyphs]}

MCImported ==
  MCFonts({<<65>>}, {Blank, Flat, Low}) \cup MCFonts({<<65, 65>>}, {Flat, Low})
  \cup MCFonts({<<65, 65, 65>>}, {Dot}) \cup MCFonts({<<65>>}, {Tall, Wrong})
MCInstalled == {[name |-> <<66>>, ascent |-> 3, descent |-> 2, glyphs |-> <<Dot, Dot>>]}

=============================================================================
