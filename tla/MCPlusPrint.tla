----------------------------- MODULE MCPlusPrint -----------------------------
(***************************************************************************)
(* PlusPrint on small labels: two dots to a pass of the head, two pairs of *)
(* bands, and every bitmap of at most two dots, and the black one.         *)
(***************************************************************************)
EXTENDS PlusPrint

MCImages == {{}, Dots} \cup {{a, b} : a, b \in Dots}

-----------------------------------------------------------------------------
\* slplus.c:871-873: lastband is adjusted "to ensure complete interleave of
\* the final pair".  When the label is ejected, both bands of every pair that
\* has marks have been through the loop.
FinalPairComplete == at = "eject" => \A d \in image : BandOf(d) \in Visited

=============================================================================
