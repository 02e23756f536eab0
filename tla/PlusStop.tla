------------------------------ MODULE PlusStop ------------------------------
(***************************************************************************)
(* The bytes the SLP-Plus driver (slplus.c) sends, and what becomes of     *)
(* them when it is stopped: a signal may call closedev(), and so           *)
(* disconnect(), between any two bytes of printlabel(), and a new run may  *)
(* connect() to a printer that an earlier run left in the middle of a      *)
(* command.  In both cases force() has to bring the printer back to where  *)
(* it accepts commands, guided by status bytes that may still be on the    *)
(* wire.                                                                   *)
(*                                                                         *)
(* The printer's parser is taken from how the driver talks to it: which    *)
(* commands have an argument, that a null command is also null data, that  *)
(* the end of a band is acknowledged, that it is not idle during a band,   *)
(* and that it sends a status byte whenever its status changes.            *)
(* Values of data bytes, and faults of the printer, are left out.          *)
(***************************************************************************)
EXTENDS Integers, Sequences

CONSTANTS NSlices,  \* st->nslices, once setmedia() has set it
          MaxNops,  \* MAXNOPS: st->nslices before that
          MaxBands, \* bound on the bands of a label
          Late      \* bound on the status bytes that a read may be too early for

ASSUME StopAssumption ==
  /\ NSlices \in Nat \ {0} /\ MaxNops \in Nat
  /\ MaxBands \in Nat /\ Late \in Nat

VARIABLES at,      \* what the driver does next
          tof,     \* st->tof
          ps,      \* st->ps: the bits STAT_IDLE and STAT_ACK
          nslices, \* st->nslices
          count,   \* data bytes of the band still to send; the NOPs sent by force()
          bands,   \* bands fed on this label
          tx,      \* bytes written and not yet taken by the printer
          rx,      \* status bytes sent by the printer and not yet read
          mode,    \* printer: it expects a "cmd", an "arg", the "len" of a band, or "data"
          cmd,     \* printer: the last command
          left,    \* printer: data bytes still expected
          top,     \* printer: is the paper at the top of a label?  Counted from
                   \* where this run found it
          busy,    \* printer: is its mechanism moving?
          stopped, \* history: where printlabel() was when it was interrupted
          silent,  \* history: was the driver's picture of the printer complete when
                   \* disconnect()'s force() began?
          forced   \* history: was the printer expecting a command when
                   \* disconnect()'s force() ended?

vars == <<at, tof, ps, nslices, count, bands, tx, rx, mode, cmd, left, top, busy,
          stopped, silent, forced>>
parser == <<mode, cmd, left>>
paper == <<top, busy>>
history == <<stopped, silent, forced>>

\* The commands, as bytes: any of them may be taken for an argument or for data.
NOP == 0
STATUS == 1
STRIKE == 3
RIGHT == 7
LEFT == 8
FEED == 9
BLANK == 10
FF == 12
CR == 13

WithArgument == {RIGHT, LEFT, FF}
Feeds == {FEED, BLANK}

-----------------------------------------------------------------------------
(***************************************************************************)
(* The printer.                                                            *)
(***************************************************************************)

Idle == ~busy /\ mode \in {"cmd", "arg"}

\* A status byte is sent when it was asked for, when a band is complete, and
\* when the printer becomes idle or stops being so.
Report(asked, ack) ==
  rx' = IF asked \/ ack \/ Idle' # Idle THEN Append(rx, [idle |-> Idle', ack |-> ack]) ELSE rx

TakeCommand(b) ==
  /\ mode = "cmd"
  /\ mode' = IF b = STRIKE THEN "len" ELSE IF b \in WithArgument THEN "arg" ELSE "cmd"
  /\ cmd' = b
  /\ top' = (top /\ b \notin Feeds)
  /\ busy' = (busy \/ b \in Feeds)
  /\ UNCHANGED left
  /\ Report(b = STATUS, FALSE)

\* The argument of a formfeed is a number of labels.
TakeArgument(b) ==
  /\ mode = "arg"
  /\ mode' = "cmd"
  /\ top' = (top \/ (cmd = FF /\ b # 0))
  /\ busy' = (busy \/ (cmd = FF /\ b # 0))
  /\ UNCHANGED <<cmd, left>>
  /\ Report(FALSE, FALSE)

TakeLength(b) ==
  /\ mode = "len"
  /\ mode' = IF b = 0 THEN "cmd" ELSE "data"
  /\ left' = b
  /\ UNCHANGED <<cmd, paper>>
  /\ Report(FALSE, FALSE)

TakeData(b) ==
  /\ mode = "data"
  /\ left' = left - 1
  /\ mode' = IF left = 1 THEN "cmd" ELSE "data"
  /\ busy' = (busy \/ left = 1)
  /\ UNCHANGED <<cmd, top>>
  /\ Report(FALSE, left = 1)

Receive ==
  /\ tx # <<>>
  /\ tx' = Tail(tx)
  /\ \/ TakeCommand(Head(tx)) \/ TakeArgument(Head(tx)) \/ TakeLength(Head(tx)) \/ TakeData(Head(tx))
  /\ UNCHANGED <<at, tof, ps, nslices, count, bands, history>>

\* The mechanism comes to rest.
Rest ==
  /\ busy
  /\ busy' = FALSE
  /\ UNCHANGED <<at, tof, ps, nslices, count, bands, tx, parser, top, history>>
  /\ Report(FALSE, FALSE)

-----------------------------------------------------------------------------
(***************************************************************************)
(* The driver's exchange with the line.                                    *)
(***************************************************************************)

Goto(label) == at' = label

Drained == tx = <<>>

\* sense(): the status bytes that have arrived, in any number of reads.  A
\* STAT_ACK is kept only if it is in the last read.
Sense ==
  \E n \in 0..Len(rx) :
    /\ Len(rx) - n <= Late
    /\ rx' = SubSeq(rx, n + 1, Len(rx))
    /\ IF n = 0
         THEN ps' = ps \ {"ack"}
         ELSE \E j \in 1..n :
                ps' = {bit \in {"idle", "ack"} : \/ bit = "idle" /\ rx[n].idle
                                                 \/ bit = "ack" /\ \E i \in j..n : rx[i].ack}

\* send_byte(): drain the queue, look at the status, write one byte.
Send(b) == Drained /\ Sense /\ tx' = <<b>>

\* send_byte() with blind set only writes.
SendBlind(b) == tx' = Append(tx, b) /\ UNCHANGED <<ps, rx>>

\* A mutant: force() sends too few NOPs.
ForceShort(here, done) ==
  /\ at = here /\ Drained
  /\ IF count < nslices - 1
       THEN /\ Sense
            /\ IF ps' \cap {"idle", "ack"} # {}
                 THEN Goto(done) /\ UNCHANGED <<tx, count>>
                 ELSE tx' = <<NOP>> /\ count' = count + 1 /\ UNCHANGED at
       ELSE Goto(done) /\ UNCHANGED <<tx, rx, ps, count>>
  /\ UNCHANGED <<tof, nslices, bands, parser, paper, history>>

\* One round of force(): NOPs until the printer is idle or acknowledges a
\* band, or enough were sent to fill any band.
force(here, done) ==
  /\ at = here /\ Drained
  /\ IF count < nslices + 2
       THEN /\ Sense
            /\ IF ps' \cap {"idle", "ack"} # {}
                 THEN Goto(done) /\ UNCHANGED <<tx, count>>
                 ELSE tx' = <<NOP>> /\ count' = count + 1 /\ UNCHANGED at
       ELSE Goto(done) /\ UNCHANGED <<tx, rx, ps, count>>
  /\ UNCHANGED <<tof, nslices, bands, parser, paper, history>>

-----------------------------------------------------------------------------
(***************************************************************************)
(* connect() and setmedia(): the printer is found if the ping reaches it   *)
(* as a command.                                                           *)
(***************************************************************************)

ForceConnect == force("c_force", "c_forced")

Found ==
  /\ at = "c_forced" /\ Drained /\ mode = "cmd" /\ ~busy
  /\ ps' = {"idle"} /\ rx' = <<>>
  /\ nslices' = NSlices
  /\ Goto("idle")
  /\ UNCHANGED <<tof, count, bands, tx, parser, paper, history>>

NotFound ==
  /\ at = "c_forced" /\ Drained /\ mode # "cmd"
  /\ Goto("none")
  /\ UNCHANGED <<tof, ps, nslices, count, bands, tx, rx, parser, paper, history>>

-----------------------------------------------------------------------------
(***************************************************************************)
(* printlabel() and formfeed(), byte by byte.                              *)
(***************************************************************************)

StartLabel ==
  /\ at = "idle"
  /\ bands' = 0
  /\ Goto("blank")
  /\ UNCHANGED <<tof, ps, nslices, count, tx, rx, parser, paper, history>>

\* The bytes whose sending changes nothing else: what is sent, and what may follow.
Fixed == [blank     |-> <<BLANK, {"blanked"}>>,
          cr        |-> <<CR, {"margin"}>>,
          margin    |-> <<RIGHT, {"marginArg"}>>,
          marginArg |-> <<2, {"band"}>>,
          right     |-> <<RIGHT, {"rightArg"}>>,
          rightArg  |-> <<1, {"strike"}>>,
          back      |-> <<LEFT, {"backArg"}>>,
          backArg   |-> <<1, {"strike", "over"}>>,
          over      |-> <<LEFT, {"overArg"}>>,
          overArg   |-> <<2, {"strike"}>>,
          strike    |-> <<STRIKE, {"len"}>>,
          feed      |-> <<FEED, {"wait"}>>,
          return    |-> <<CR, {"ff"}>>,
          ff        |-> <<FF, {"ffArg"}>>,
          ffArg     |-> <<1, {"ffSent"}>>]

SendFixed ==
  \E here \in DOMAIN Fixed :
    /\ at = here
    /\ Send(Fixed[here][1])
    /\ at' \in Fixed[here][2]
    /\ UNCHANGED <<tof, nslices, count, bands, parser, paper, history>>

\* A mutant: the blank feed is not recorded.
LabelForgotten ==
  /\ at = "blanked"
  /\ Goto("cr")
  /\ UNCHANGED <<tof, ps, nslices, count, bands, tx, rx, parser, paper, history>>

\* st->tof is cleared after the blank feed was sent.
LabelStarted ==
  /\ at = "blanked"
  /\ tof' = FALSE
  /\ Goto("cr")
  /\ UNCHANGED <<ps, nslices, count, bands, tx, rx, parser, paper, history>>

\* The loop over the bands: a dirty band, with a move to the right or to the
\* left, a blank one, or the end.
NextBand ==
  /\ at = "band"
  /\ IF bands < MaxBands THEN at' \in {"right", "back", "clear", "return"} ELSE Goto("return")
  /\ UNCHANGED <<tof, ps, nslices, count, bands, tx, rx, parser, paper, history>>

\* A mutant: the length is one less than the slices that follow.
SendLengthShort ==
  /\ at = "len"
  /\ \E n \in 2..NSlices : Send(n - 1) /\ count' = n
  /\ Goto("data")
  /\ UNCHANGED <<tof, nslices, bands, parser, paper, history>>

SendLength ==
  /\ at = "len"
  /\ \E n \in 1..NSlices : Send(n) /\ count' = n
  /\ Goto("data")
  /\ UNCHANGED <<tof, nslices, bands, parser, paper, history>>

\* A mutant: the end of the dirty zone is not noticed.
SendDataOn ==
  /\ at = "data"
  /\ Send(NOP)
  /\ count' = count - 1
  /\ UNCHANGED <<at, tof, nslices, bands, parser, paper, history>>

SendData ==
  /\ at = "data"
  /\ Send(NOP)
  /\ count' = count - 1
  /\ Goto(IF count = 1 THEN "clear" ELSE "data")
  /\ UNCHANGED <<tof, nslices, bands, parser, paper, history>>

\* STAT_IDLE is forgotten before the feed, and waited for after it.
ClearIdle ==
  /\ at = "clear"
  /\ ps' = ps \ {"idle"}
  /\ Goto("feed")
  /\ UNCHANGED <<tof, nslices, count, bands, tx, rx, parser, paper, history>>

WaitIdle ==
  /\ at = "wait" /\ Drained
  /\ Sense
  /\ IF "idle" \in ps' THEN Goto("band") /\ bands' = bands + 1 ELSE UNCHANGED <<at, bands>>
  /\ UNCHANGED <<tof, nslices, count, tx, parser, paper, history>>

\* st->tof is set when the formfeed was sent.
FormSent ==
  /\ at = "ffSent" /\ Drained
  /\ tof' = TRUE
  /\ Goto("ffWait")
  /\ UNCHANGED <<ps, nslices, count, bands, tx, rx, parser, paper, history>>

FormIdle ==
  /\ at = "ffWait" /\ Drained
  /\ Sense
  /\ Goto(IF "idle" \in ps' THEN "idle" ELSE "ffWait")
  /\ UNCHANGED <<tof, nslices, count, bands, tx, parser, paper, history>>

-----------------------------------------------------------------------------
(***************************************************************************)
(* closedev(): main() calls it between labels, the handler of a signal or  *)
(* of Error() anywhere.                                                    *)
(***************************************************************************)

PrintLabels == DOMAIN Fixed \cup
  {"idle", "blanked", "band", "len", "data", "clear", "wait", "ffSent", "ffWait"}

Interrupt ==
  /\ at \in PrintLabels
  /\ stopped' = at
  /\ Goto("h_drain")
  /\ UNCHANGED <<tof, ps, nslices, count, bands, tx, rx, parser, paper, silent, forced>>

\* What was written reaches the printer before force() flushes the queue.
Drain ==
  /\ at = "h_drain" /\ Drained
  /\ count' = 0
  /\ silent' = (rx = <<>> /\ mode # "arg" /\ Idle = ("idle" \in ps))
  /\ Goto("h_force")
  /\ UNCHANGED <<tof, ps, nslices, bands, tx, rx, parser, paper, stopped, forced>>

ForceStop == force("h_force", "h_forced")

\* A mutant: the label is ejected only if the printer says it is idle.
EjectIfIdle ==
  /\ at = "h_forced" /\ Drained
  /\ forced' = (mode = "cmd")
  /\ Goto(IF ~tof /\ "idle" \in ps THEN "h_ff" ELSE "h_status")
  /\ UNCHANGED <<tof, ps, nslices, count, bands, tx, rx, parser, paper, stopped, silent>>

\* A label that was started is ejected.
EjectIfStarted ==
  /\ at = "h_forced" /\ Drained
  /\ forced' = (mode = "cmd")
  /\ Goto(IF tof THEN "h_status" ELSE "h_ff")
  /\ UNCHANGED <<tof, ps, nslices, count, bands, tx, rx, parser, paper, stopped, silent>>

EjectBlind ==
  /\ \/ at = "h_ff" /\ SendBlind(FF) /\ Goto("h_ffArg")
     \/ at = "h_ffArg" /\ SendBlind(1) /\ Goto("h_ffSent")
  /\ UNCHANGED <<tof, nslices, count, bands, parser, paper, history>>

EjectSent ==
  /\ at = "h_ffSent" /\ Drained
  /\ tof' = TRUE
  /\ Goto("h_status")
  /\ UNCHANGED <<ps, nslices, count, bands, tx, rx, parser, paper, history>>

AskStatus ==
  /\ at = "h_status"
  /\ SendBlind(STATUS)
  /\ Goto("h_wait")
  /\ UNCHANGED <<tof, nslices, count, bands, parser, paper, history>>

\* wait_for_idle() ends when the printer is idle, or by its timeout.
LastWait ==
  /\ at = "h_wait" /\ Drained
  /\ Sense
  /\ Goto("closed")
  /\ UNCHANGED <<tof, nslices, count, bands, tx, parser, paper, history>>

Closed ==
  /\ at \in {"closed", "none"} /\ Drained /\ ~busy
  /\ UNCHANGED vars

-----------------------------------------------------------------------------
\* An earlier run may have left the printer anywhere in a command.
Init ==
  /\ at = "c_force" /\ tof = TRUE /\ ps = {} /\ nslices = MaxNops /\ count = 0 /\ bands = 0
  /\ tx = <<>> /\ rx = <<>>
  /\ \/ mode = "cmd" /\ cmd = NOP /\ left = 0
     \/ mode = "arg" /\ cmd \in WithArgument /\ left = 0
     \/ mode = "len" /\ cmd = STRIKE /\ left = 0
     \/ mode = "data" /\ cmd = STRIKE /\ left \in 1..NSlices
  /\ top = TRUE /\ busy = FALSE
  /\ stopped = "idle" /\ silent = FALSE /\ forced = FALSE

Connect == ForceConnect \/ Found \/ NotFound

PrintLabel ==
  \/ StartLabel \/ SendFixed \/ LabelStarted \/ NextBand \/ SendLength \/ SendData
  \/ ClearIdle \/ WaitIdle \/ FormSent \/ FormIdle

Close == Drain \/ ForceStop \/ EjectIfStarted \/ EjectBlind \/ EjectSent \/ AskStatus \/ LastWait

Printer == Receive \/ Rest

Next == Connect \/ PrintLabel \/ Interrupt \/ Close \/ Printer \/ Closed

Spec == Init /\ [][Next]_vars

-----------------------------------------------------------------------------
Labels == PrintLabels \cup
  {"c_force", "c_forced", "none", "h_drain", "h_force", "h_forced", "h_ff", "h_ffArg",
   "h_ffSent", "h_status", "h_wait", "closed"}

TypeOK ==
  /\ at \in Labels
  /\ tof \in BOOLEAN
  /\ ps \subseteq {"idle", "ack"}
  /\ nslices \in {MaxNops, NSlices}
  /\ count \in Nat
  /\ bands \in 0..MaxBands
  /\ tx \in Seq(Nat)
  /\ rx \in Seq([idle : BOOLEAN, ack : BOOLEAN])
  /\ mode \in {"cmd", "arg", "len", "data"}
  /\ cmd \in Nat
  /\ left \in Nat
  /\ top \in BOOLEAN /\ busy \in BOOLEAN
  /\ stopped \in PrintLabels
  /\ silent \in BOOLEAN /\ forced \in BOOLEAN

\* While printlabel() runs, the printer reads the bytes as they were meant:
\* when they have all arrived, it is inside a command exactly where the driver is.
InStep ==
  Drained /\ at \in PrintLabels =>
    /\ mode = "arg" <=> at \in {"marginArg", "rightArg", "backArg", "overArg", "ffArg"}
    /\ mode = "len" <=> at = "len"
    /\ mode = "data" <=> at = "data"
    /\ at = "data" => left = count

\* force() brings the printer back to its commands, wherever printlabel() was
\* interrupted, provided the driver had read every status byte when it began and
\* the printer was not waiting for an argument (when it may be idle): neither
\* the acknowledgement nor the count that end it are premature.
ForceWorksWhenSilent == at = "h_forced" /\ Drained /\ silent => mode = "cmd"

\* st->tof says that the paper is at the top of a label only when it is, but
\* for the moment between the blank feed and its record in st->tof.
TofTruthful ==
  tof /\ Drained /\ mode = "cmd" /\ at \in PrintLabels \ {"blanked"} => top

\* An interrupted label is ejected whenever force() has done its work, but for
\* that same moment.
EjectsStoppedLabel == at = "closed" /\ forced /\ stopped # "blanked" => top /\ mode = "cmd"

=============================================================================
