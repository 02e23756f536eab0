-------------------------------- MODULE Label --------------------------------
(***************************************************************************)
(* What printing a label promises, whatever the printer's commands: ink is *)
(* laid down in one downward sweep of the print line, only where the       *)
(* bitmap has a dot and only on the rows under the head, and a new label   *)
(* starts only after the last one was ejected.                             *)
(***************************************************************************)
EXTENDS Naturals

CONSTANTS Dots,   \* the places a dot can be: <<row, column>>
          Images, \* the bitmaps a label may have: sets of dots
          Reach   \* the rows under the head, counted from the print line

VARIABLES image,   \* the bitmap being printed
          line,    \* the row of the label at the print line
          ink,     \* the dots burned so far
          started  \* has a label been started that is not ejected yet?

lvars == <<image, line, ink, started>>

Init == image = {} /\ line = 0 /\ ink = {} /\ started = FALSE

\* A new label.
Start ==
  /\ ~started
  /\ image' \in Images
  /\ line' = 0 /\ ink' = {} /\ started' = TRUE

\* The head burns dots of the bitmap on the rows it reaches.
Burn ==
  /\ started
  /\ ink \subseteq ink'
  /\ ink' \ ink \subseteq image
  /\ \A d \in ink' \ ink : \E k \in Reach : d[1] = line + k
  /\ UNCHANGED <<image, line, started>>

\* The paper only moves forward.
Feed ==
  /\ started
  /\ line' \in Nat /\ line' > line
  /\ UNCHANGED <<image, ink, started>>

Eject ==
  /\ started
  /\ started' = FALSE
  /\ UNCHANGED <<image, line, ink>>

Next == Start \/ Burn \/ Feed \/ Eject

Spec == Init /\ [][Next]_lvars

=============================================================================
