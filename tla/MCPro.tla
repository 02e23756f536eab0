-------------------------------- MODULE MCPro --------------------------------
(***************************************************************************)
(* Pro with one old and one new model of printer, and two speeds to try;   *)
(* and two statements of slpro.c that the code does not keep.              *)
(***************************************************************************)
EXTENDS Pro

MCModels ==
  [k \in {"SLP-Pro", "SLP-100"} |->
     IF k = "SLP-Pro" THEN [modern |-> FALSE, default |-> 9600]
                      ELSE [modern |-> TRUE, default |-> 57600]]

MCSpeeds == <<9600, 57600>>

\* sense() byte by byte (slpro.c:550-605), and what Pro says of all of them.
Hear(ps, b) ==
  CASE b = "garbled" -> ps \cup {b}
    [] b = "ping" -> (ps \ {"garbled"}) \cup {b}
    [] b = "model" -> ps \ {"garbled"}
    [] OTHER -> (ps \ {"garbled", "idle", "jam"}) \cup ({b} \cap {"idle", "jam"})

ASSUME HeardByteByByte ==
  \A ps \in SUBSET Bits, s \in BoundedSeq(Messages, 4) :
    Heard(ps, s) = FoldLeft(Hear, ps \ {"ping"}, s)

\* slpro.c:787-788 says of ping(): "If successful, sets local baud-rate to match the
\* printer and return YES.  Otherwise, returns NO (ie: printer not responding, or
\* wrong type of printer)", so that connect() can report that it found none.  The
\* disconnect() that follows uses the model that ping() never got to.
AbsentIsReported == run.outcome # "crashed"

\* slpro.c:100-103 says: "we utilise CTS flow-control if supported by the host system,
\* otherwise fall back to XON/XOFF. NOTE: when resorting to XON/XOFF, we also limit the
\* baud-rate to 38400 during the data-transfer phase".  use_cts() turns CTS on
\* (slpro.c:1292), and the set_baud() of the switch_baud() after it sets st->tm, which
\* does not have it (slpro.c:951).
FastUsesCts ==
  frame = "main" /\ caller = "main" /\ at \in Printing /\ tty.rate > 38400 => tty.cts

=============================================================================
