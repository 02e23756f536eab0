------------------------------- MODULE MCPort -------------------------------
(***************************************************************************)
(* Port with two processes: one tries both drivers and may be interrupted, *)
(* the other tries the SLP-Plus driver only.                               *)
(***************************************************************************)
EXTENDS Port

CONSTANTS p1, p2

MCDrivers == [p \in {p1, p2} |-> IF p = p1 THEN <<"plus", "pro">> ELSE <<"plus">>]
MCMaxSignals == [p \in {p1, p2} |-> IF p = p1 THEN 1 ELSE 0]

=============================================================================
