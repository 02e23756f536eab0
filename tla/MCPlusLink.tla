----------------------------- MODULE MCPlusLink -----------------------------
(***************************************************************************)
(* PlusLink with one or two labels of two bands, and a printer that has    *)
(* two misfortunes.                                                        *)
(***************************************************************************)
EXTENDS PlusLink

=============================================================================
