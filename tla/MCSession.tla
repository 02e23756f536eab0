------------------------------ MODULE MCSession ------------------------------
(***************************************************************************)
(* Small instances of Session: sigs[] cut to a signal that is only ever    *)
(* sent from outside, a second one, and SIGABRT.                           *)
(***************************************************************************)
EXTENDS Session

CONSTANTS INT, TERM

\* sigs[], without SIGHUP and SIGQUIT, which nothing tells from SIGINT and SIGTERM.
MCSigs == <<INT, TERM, ABRT>>

\* Everything may be sent from outside.
MCOutside == {INT, TERM, ABRT}

=============================================================================
