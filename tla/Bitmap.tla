------------------------------- MODULE Bitmap -------------------------------
(***************************************************************************)
(* Monochrome bitmaps (mbm*.c of mjsulib).  A bitmap's dots are the bits   *)
(* of an array of bytes, row after row and without padding between rows:   *)
(* bit n of the array is bit n & 7 of byte n >> 3.  Here "bits" is the set *)
(* of the numbers of the bits that are 1.                                  *)
(***************************************************************************)
EXTENDS Integers

USHORTs == {v \in Nat : v < 65536}

\* How many bytes the bits take.
mbm_need(h, w) == (h * w + 7) \div 8

AllBits(b) == 0..8 * mbm_need(b.height, b.width) - 1

IsBitmap(b) ==
  /\ b = [height |-> b.height, width |-> b.width, bits |-> b.bits]
  /\ b.height \in USHORTs /\ b.width \in USHORTs
  /\ b.bits \subseteq AllBits(b)

\* A new bitmap is clear.
mbm_buy(h, w) == [height |-> h, width |-> w, bits |-> {}]

mbm_clr(b) == [b EXCEPT !.bits = {}]

mbm_set(b) == [b EXCEPT !.bits = AllBits(b)]

mbm_rev(b) == [b EXCEPT !.bits = AllBits(b) \ b.bits]

\* The linear bit-number of a dot.
BitNumber(b, row, col) == row * b.width + col

mbm_tstb(b, row, col) == BitNumber(b, row, col) \in b.bits

mbm_setb(b, row, col) == [b EXCEPT !.bits = @ \cup {BitNumber(b, row, col)}]

mbm_clrb(b, row, col) == [b EXCEPT !.bits = @ \ {BitNumber(b, row, col)}]

mbm_revb(b, row, col) == IF mbm_tstb(b, row, col) THEN mbm_clrb(b, row, col) ELSE mbm_setb(b, row, col)

\* The dots of a bitmap.
Inside(b, row, col) == row \in 0..b.height - 1 /\ col \in 0..b.width - 1

=============================================================================
