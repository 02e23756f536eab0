------------------------------ MODULE PlusLink ------------------------------
(***************************************************************************)
(* How the SLP-Plus driver (slplus.c) waits for its printer: sense(),      *)
(* wait_for_ready(), wait_for_idle(), check_fault(), check_loaded(),       *)
(* reset_printer() and force() call one another around every byte that     *)
(* printlabel(), formfeed() and disconnect() send, while the printer fills *)
(* up, runs out of labels, breaks down, and is looked after by a human.    *)
(* A read, a write or a tcsetattr() of an open port may fail at any of     *)
(* these points, and then calls Error().  A signal, or Error() with -l,    *)
(* moves the process to the handler's disconnect() at any point.           *)
(*                                                                         *)
(* The printer reports every change of its status, so an unread status     *)
(* byte always shows its present status: the queue of status bytes is one  *)
(* flag.  The fault bits that need a reset are one bit here, and the data  *)
(* of a band is one byte.  Once check_fault() has found a fault it never   *)
(* returns, so the frames beneath it need no return address.               *)
(***************************************************************************)
EXTENDS Naturals, FiniteSets

CONSTANTS MaxLabels,   \* bound on the labels printed
          MaxBands,    \* bound on the bands of a label
          MaxNops,     \* the rounds of force()
          MaxTroubles, \* bound on the faults and the empty rolls that befall the printer
          Stubborn     \* does a fault come back, as often as the printer is reset?

ASSUME LinkAssumption ==
  /\ MaxLabels \in Nat /\ MaxBands \in Nat /\ MaxNops \in Nat /\ MaxTroubles \in Nat
  /\ Stubborn \in BOOLEAN

VARIABLES lp_messages, \* the -l flag
          frame,   \* "main" or "handler"
          at,      \* what that frame does next
          then,    \* where wait_for_ready(), wait_for_idle() or force() goes on
          caller,  \* who called check_fault() or check_loaded()
          ended,   \* "running", or how the process ended
          ps,      \* st->ps
          tof,     \* st->tof
          fd,      \* is st->fd an open file?
          tty,     \* "open", or "restored": closed with its original modes
          outq,    \* the byte written and not yet transmitted
          flow,    \* has tcflow() left the output running?
          rounds,  \* NOPs sent by force()
          bands,   \* bands fed on this label
          labels,  \* labels started
          real,    \* printer: its status
          unread,  \* printer: has a status byte been sent and not read?
          moving,  \* printer: is a feed under way?
          troubles, \* printer: the faults and empty rolls it has had
          hurried  \* history: feeds sent since the last status read was an error

vars == <<lp_messages, frame, at, then, caller, ended, ps, tof, fd, tty, outq, flow, rounds,
          bands, labels, real, unread, moving, troubles, hurried>>
frames == <<lp_messages, frame, ended>>
returns == <<then, caller>>
state == <<tof, fd, tty>>
output == <<outq, flow>>
counts == <<rounds, bands, labels>>
printer == <<real, moving, troubles>>

ResetBits == {"fault"}
ErrorBits == ResetBits \cup {"empty"}
StatusBits == ErrorBits \cup {"full", "idle"}

-----------------------------------------------------------------------------
(***************************************************************************)
(* The printer, and its human.                                             *)
(***************************************************************************)

\* A change of status, always reported.
Becomes(status) == real' = status /\ unread' = TRUE

\* The printer looks for labels only when it feeds.
Trouble(bit) ==
  /\ bit \notin real
  /\ troubles < MaxTroubles \/ (Stubborn /\ bit \in ResetBits)
  /\ bit = "empty" => moving
  /\ Becomes((real \ {"idle"}) \cup {bit})
  /\ troubles' = IF troubles < MaxTroubles THEN troubles + 1 ELSE troubles
  /\ UNCHANGED moving

Fill == Becomes(real \cup {"full"}) /\ "full" \notin real /\ UNCHANGED <<moving, troubles>>

Empties == Becomes(real \ {"full"}) /\ "full" \in real /\ UNCHANGED <<moving, troubles>>

\* An error prevents the printer from becoming idle.
Rests ==
  /\ "idle" \notin real /\ real \cap ErrorBits = {}
  /\ Becomes(real \cup {"idle"})
  /\ moving' = FALSE
  /\ UNCHANGED troubles

Loads == "empty" \in real /\ Becomes(real \ {"empty"}) /\ UNCHANGED <<moving, troubles>>

\* The byte at the head of the line reaches the printer.  A printer that has
\* reported that it is out of labels ignores status requests.
Takes(byte) ==
  CASE byte \in {"feed", "form"} ->
         /\ Becomes(real \ {"idle"})
         /\ moving' = TRUE
    [] byte = "reset" ->
         /\ Becomes(real \ (ResetBits \cup {"full"}))
         /\ moving' = FALSE
    [] byte = "status" ->
         /\ unread' = (unread \/ "empty" \notin real)
         /\ UNCHANGED <<real, moving>>
    [] OTHER -> UNCHANGED <<real, unread, moving>>

Transmit ==
  /\ outq # "none" /\ flow
  /\ outq' = "none"
  /\ Takes(outq)
  /\ UNCHANGED <<frames, at, returns, ps, state, flow, counts, troubles, hurried>>

Printer ==
  /\ ended = "running"
  /\ \/ Transmit
     \/ /\ Fill \/ Empties \/ Rests \/ Loads \/ \E bit \in ErrorBits : Trouble(bit)
        /\ UNCHANGED <<frames, at, returns, ps, state, output, counts, hurried>>

-----------------------------------------------------------------------------
(***************************************************************************)
(* The driver's tools.                                                     *)
(***************************************************************************)

Runs(label) == ended = "running" /\ at = label

Goto(label) == at' = label

\* sense(): the last status byte, if any came, and output stopped while the
\* printer's buffer is full.
Sense ==
  /\ tty = "open"
  /\ unread' = FALSE
  /\ IF unread THEN ps' = real /\ flow' = ("full" \notin real) ELSE UNCHANGED <<ps, flow>>
  /\ hurried' = IF ps' \cap ErrorBits = {} THEN 0 ELSE hurried
  /\ UNCHANGED <<outq, printer>>

\* tcdrain() returns when the output queue is empty.
Drained == outq = "none"

Write(byte) == outq' = byte /\ UNCHANGED <<flow, unread, printer>>

\* A step that neither reads nor writes.
Silent == UNCHANGED <<ps, output, unread, printer, hurried>>

Drain(here, next) ==
  /\ Runs(here) /\ Drained
  /\ Goto(next)
  /\ Silent /\ UNCHANGED <<frames, returns, state, counts>>

-----------------------------------------------------------------------------
(***************************************************************************)
(* wait_for_ready(), wait_for_idle(), check_fault(), check_loaded().       *)
(***************************************************************************)

\* Not full, so ready, whatever else is reported.
WaitReady ==
  /\ Runs("ready")
  /\ Sense
  /\ IF "full" \notin ps' THEN Goto(then) /\ UNCHANGED caller
     ELSE IF ps' \cap ErrorBits # {} THEN Goto("fault") /\ caller' = "ready"
     ELSE UNCHANGED <<at, caller>>
  /\ UNCHANGED <<frames, then, state, counts>>

WaitIdle ==
  /\ Runs("idle")
  /\ Sense
  /\ IF "idle" \in ps' THEN Goto(then) /\ UNCHANGED caller
     ELSE IF ps' \cap ErrorBits # {} THEN Goto("fault") /\ caller' = "idle"
     ELSE UNCHANGED <<at, caller>>
  /\ UNCHANGED <<frames, then, state, counts>>

\* A mutant: wait_for_idle() waits for ever.
TimeoutReady ==
  /\ Drained
  /\ Runs("ready") /\ "full" \in ps /\ ps \cap ErrorBits = {} /\ Goto("error")
  /\ Silent /\ UNCHANGED <<frames, returns, state, counts>>

\* Timeouts.  Only the waits of reset_printer() and disconnect() go on.
Timeout ==
  /\ Drained
  /\ \/ Runs("ready") /\ "full" \in ps /\ ps \cap ErrorBits = {} /\ Goto("error")
     \/ /\ Runs("idle") /\ "idle" \notin ps /\ ps \cap ErrorBits = {}
        /\ Goto(IF then \in {"resetDone", "close"} THEN then ELSE "error")
  /\ Silent /\ UNCHANGED <<frames, returns, state, counts>>

\* Where check_fault() and check_loaded() return to.
BackTo(who) ==
  CASE who = "feed" -> Goto("idleDrain") /\ then' = "nextBand"
    [] who = "blank" -> Goto("nextBand") /\ UNCHANGED then
    [] OTHER -> Goto(who) /\ UNCHANGED then

CheckFault ==
  /\ Runs("fault")
  /\ Sense
  /\ IF ps' \cap ResetBits # {} THEN Goto("force") /\ then' = "reset" ELSE Goto("loaded") /\ UNCHANGED then
  /\ rounds' = 0
  /\ UNCHANGED <<frames, caller, state, bands, labels>>

CheckLoaded ==
  /\ Runs("loaded")
  /\ Sense
  /\ IF "empty" \in ps' THEN UNCHANGED <<at, then>> ELSE BackTo(caller)
  /\ UNCHANGED <<frames, caller, state, counts>>

-----------------------------------------------------------------------------
(***************************************************************************)
(* force(), reset_printer(), and the rest of check_fault().                *)
(***************************************************************************)

\* A mutant: output that sense() stopped stays stopped.
ForceStopped ==
  /\ Runs("force")
  /\ tty = "open"
  /\ IF rounds < MaxNops
       THEN /\ unread' = FALSE
            /\ ps' = IF unread THEN real ELSE ps
            /\ hurried' = IF ps' \cap ErrorBits = {} THEN 0 ELSE hurried
            /\ IF "idle" \in ps'
                 THEN Goto(then) /\ outq' = "none" /\ UNCHANGED rounds
                 ELSE Goto("forceDrain") /\ outq' \in {"nop", "none"} /\ rounds' = rounds + 1
       ELSE Goto(then) /\ outq' = "none" /\ UNCHANGED <<unread, ps, rounds, hurried>>
  /\ flow' = (flow /\ (unread => "full" \notin real))
  /\ UNCHANGED <<frames, returns, state, bands, labels, printer>>

\* A mutant: one NOP too many.
ForceLonger ==
  /\ Runs("force")
  /\ tty = "open"
  /\ IF rounds <= MaxNops
       THEN /\ unread' = FALSE
            /\ ps' = IF unread THEN real ELSE ps
            /\ hurried' = IF ps' \cap ErrorBits = {} THEN 0 ELSE hurried
            /\ IF "idle" \in ps'
                 THEN Goto(then) /\ outq' = "none" /\ UNCHANGED rounds
                 ELSE Goto("forceDrain") /\ outq' \in {"nop", "none"} /\ rounds' = rounds + 1
       ELSE Goto(then) /\ outq' = "none" /\ UNCHANGED <<unread, ps, rounds, hurried>>
  /\ flow' = TRUE
  /\ UNCHANGED <<frames, returns, state, bands, labels, printer>>

\* The output queue is flushed when force() begins and when it ends early;
\* the output is running again when it ends.  A NOP whose write fails is lost.
force ==
  /\ Runs("force")
  /\ tty = "open"
  /\ IF rounds < MaxNops
       THEN /\ unread' = FALSE
            /\ ps' = IF unread THEN real ELSE ps
            /\ hurried' = IF ps' \cap ErrorBits = {} THEN 0 ELSE hurried
            /\ IF "idle" \in ps'
                 THEN Goto(then) /\ outq' = "none" /\ UNCHANGED rounds
                 ELSE Goto("forceDrain") /\ outq' \in {"nop", "none"} /\ rounds' = rounds + 1
       ELSE Goto(then) /\ outq' = "none" /\ UNCHANGED <<unread, ps, rounds, hurried>>
  /\ flow' = TRUE
  /\ UNCHANGED <<frames, returns, state, bands, labels, printer>>

Reset ==
  /\ Runs("reset")
  /\ ps' = {} /\ outq' = "reset" /\ unread' = FALSE
  /\ Goto("resetDrain")
  /\ UNCHANGED <<frames, returns, state, flow, counts, printer, hurried>>

\* Whatever the printer has answered already is flushed: "weird, but needed".
ResetSent ==
  /\ Runs("resetDrain") /\ Drained
  /\ unread' = FALSE
  /\ Goto("idleDrain") /\ then' = "resetDone"
  /\ UNCHANGED <<frames, caller, state, ps, output, counts, printer, hurried>>

\* closetty(), st->fd = -1 and Error().
GiveBack(here, next) ==
  /\ Runs(here)
  /\ tty' = "restored"
  /\ Goto(next)
  /\ Silent /\ UNCHANGED <<frames, returns, tof, fd, counts>>

ForgetFd(here, next) ==
  /\ Runs(here)
  /\ fd' = FALSE
  /\ Goto(next)
  /\ Silent /\ UNCHANGED <<frames, returns, tof, tty, counts>>

\* Mutants: check_fault() does not close the port, or it goes on after the reset.
GiveUpOpen == ForgetFd("resetDone", "error")

GiveUpNever ==
  /\ Runs("resetDone")
  /\ Goto("fault") /\ caller' = "idle"
  /\ Silent /\ UNCHANGED <<frames, then, state, counts>>

GiveUp == GiveBack("resetDone", "resetClosed") \/ ForgetFd("resetClosed", "error")

Recover ==
  \/ Drain("readyDrain", "ready") \/ Drain("idleDrain", "idle") \/ Drain("forceDrain", "force")
  \/ WaitReady \/ WaitIdle \/ CheckFault \/ CheckLoaded \/ force \/ Reset \/ ResetSent \/ GiveUp

-----------------------------------------------------------------------------
(***************************************************************************)
(* printlabel() and formfeed().                                            *)
(***************************************************************************)

\* send_byte(): wait_for_ready(), then go on at next, which writes.
Send(here, next) ==
  /\ Runs(here)
  /\ Goto("readyDrain") /\ then' = next
  /\ UNCHANGED <<frames, caller, state, counts, output, unread, printer, hurried>>

StartLabel ==
  /\ labels < MaxLabels
  /\ Runs("label")
  /\ labels' = labels + 1 /\ bands' = 0
  /\ Goto("readyDrain") /\ then' = "blank"
  /\ Silent /\ UNCHANGED <<frames, caller, state, rounds>>

Hurry == hurried' = IF ps \cap ErrorBits = {} THEN hurried ELSE hurried + 1

WriteBlank ==
  /\ Runs("blank")
  /\ Write("feed") /\ Hurry
  /\ Goto("blankSent")
  /\ UNCHANGED <<frames, returns, ps, state, counts>>

BlankSent ==
  /\ Runs("blankSent")
  /\ tof' = FALSE
  /\ Goto("blankDrain") /\ caller' = "blank"
  /\ Silent /\ UNCHANGED <<frames, then, fd, tty, counts>>

\* The next band has data, or is blank, or there is none.  The idle bit is
\* cleared before a feed is sent.
Band ==
  \/ bands < MaxBands /\ Send("nextBand", "data") /\ UNCHANGED ps
  \/ bands < MaxBands /\ Send("nextBand", "feed") /\ ps' = ps \ {"idle"}
  \/ Send("nextBand", "form") /\ UNCHANGED ps
  \/ Send("dataSent", "feed") /\ ps' = ps \ {"idle"}

WriteData ==
  /\ Runs("data")
  /\ Write("data")
  /\ Goto("dataSent")
  /\ UNCHANGED <<frames, returns, ps, state, counts, hurried>>

WriteFeed ==
  /\ Runs("feed")
  /\ Write("feed") /\ Hurry
  /\ Goto("feedDrain")
  /\ UNCHANGED <<frames, returns, ps, state, counts>>

\* A mutant: the next band is sent at once.
FeedSentBlind ==
  /\ Runs("feedDrain") /\ Drained
  /\ bands' = bands + 1
  /\ Goto("nextBand")
  /\ Silent /\ UNCHANGED <<frames, returns, state, rounds, labels>>

FeedSent ==
  /\ Runs("feedDrain") /\ Drained
  /\ bands' = bands + 1
  /\ Goto("fault") /\ caller' = "feed"
  /\ Silent /\ UNCHANGED <<frames, then, state, rounds, labels>>

WriteForm ==
  /\ Runs("form")
  /\ Write("form")
  /\ Goto("formDrain")
  /\ UNCHANGED <<frames, returns, ps, state, counts, hurried>>

FormSent ==
  /\ Runs("formDrain") /\ Drained
  /\ tof' = TRUE
  /\ Goto("idleDrain") /\ then' = "label"
  /\ Silent /\ UNCHANGED <<frames, caller, fd, tty, counts>>

PrintLabel ==
  \/ StartLabel \/ WriteBlank \/ BlankSent \/ Drain("blankDrain", "loaded") \/ Band
  \/ WriteData \/ WriteFeed \/ FeedSent \/ WriteForm \/ FormSent

-----------------------------------------------------------------------------
(***************************************************************************)
(* disconnect(), in either frame.                                          *)
(***************************************************************************)

\* main() closes the session between labels.
Finish ==
  /\ Runs("label")
  /\ Goto("disconnect")
  /\ Silent /\ UNCHANGED <<frames, returns, state, counts>>

Disconnect ==
  /\ Runs("disconnect")
  /\ Goto(IF fd THEN "stopDrain" ELSE "over")
  /\ flow' = (fd \/ flow)
  /\ UNCHANGED <<frames, returns, ps, state, outq, counts, unread, printer, hurried>>

\* A file that is closed already drains at once.
Terminate ==
  /\ Runs("stopDrain") /\ (Drained \/ tty # "open")
  /\ Goto("force") /\ then' = "eject" /\ rounds' = 0
  /\ Silent /\ UNCHANGED <<frames, caller, state, bands, labels>>

Eject ==
  /\ Runs("eject")
  /\ IF tof THEN Goto("ask") /\ UNCHANGED outq ELSE Goto("ejectDrain") /\ outq' = "form"
  /\ UNCHANGED <<frames, returns, ps, state, flow, counts, unread, printer, hurried>>

Ejected ==
  /\ Runs("ejectDrain") /\ Drained
  /\ tof' = TRUE
  /\ Goto("ask")
  /\ Silent /\ UNCHANGED <<frames, returns, fd, tty, counts>>

Ask ==
  /\ Runs("ask")
  /\ Write("status")
  /\ Goto("idleDrain") /\ then' = "close"
  /\ UNCHANGED <<frames, caller, ps, state, counts, hurried>>

Close ==
  \/ Disconnect \/ Terminate \/ Eject \/ Ejected \/ Ask
  \/ GiveBack("close", "closed") \/ ForgetFd("closed", "over")

-----------------------------------------------------------------------------
(***************************************************************************)
(* Signals, Error(), and the end of the process.                           *)
(***************************************************************************)

\* A signal: the handler disconnects, and main() is never resumed.
Signal ==
  /\ ended = "running" /\ frame = "main"
  /\ frame' = "handler"
  /\ Goto("disconnect")
  /\ Silent /\ UNCHANGED <<lp_messages, ended, returns, state, counts>>

\* Error() sends SIGABRT with -l, which the handler blocks while it runs.
\* An end after a failed call is told from the others.
Error ==
  /\ Runs("error") \/ Runs("broken")
  /\ IF lp_messages /\ frame = "main"
       THEN frame' = "handler" /\ Goto("disconnect") /\ UNCHANGED ended
       ELSE ended' = (IF at = "error" THEN "failed" ELSE "broken") /\ UNCHANGED <<frame, at>>
  /\ Silent /\ UNCHANGED <<lp_messages, returns, state, counts>>

\* recv_bytes() calls Error() when tcsetattr() or read() fails, in whichever
\* sense(), after any bytes it has read; and a closed file cannot be read.
ReadFails ==
  /\ \/ \E here \in {"ready", "idle", "fault", "loaded"} : Runs(here)
     \/ Runs("force") /\ rounds < MaxNops
     \/ Runs("force") /\ tty # "open"
  /\ Sense \/ Silent
  /\ Goto("broken")
  /\ UNCHANGED <<frames, returns, state, counts>>

\* send_byte() calls Error() when write() fails.  Bytes of a band may be on
\* the line by then; reset_printer() has flushed the line before it.
WriteFails ==
  /\ \/ \E here \in {"blank", "data", "feed", "form", "reset", "ask"} : Runs(here)
     \/ Runs("eject") /\ ~tof
  /\ UNCHANGED outq \/ (at = "data" /\ outq' = "data")
  /\ IF at = "reset" THEN ps' = {} /\ unread' = FALSE ELSE UNCHANGED <<ps, unread>>
  /\ Goto("broken")
  /\ UNCHANGED <<frames, returns, state, flow, counts, printer, hurried>>

Over ==
  /\ Runs("over")
  /\ ended' = IF frame = "main" THEN "done" ELSE "stopped"
  /\ Silent /\ UNCHANGED <<lp_messages, frame, at, returns, state, counts>>

Ended == ended # "running" /\ UNCHANGED vars

Init ==
  /\ lp_messages \in BOOLEAN /\ frame = "main" /\ at = "label" /\ then = "label" /\ caller = "feed"
  /\ ended = "running"
  /\ ps = {"idle"} /\ tof = TRUE /\ fd = TRUE /\ tty = "open"
  /\ outq = "none" /\ flow = TRUE
  /\ rounds = 0 /\ bands = 0 /\ labels = 0
  /\ real = {"idle"} /\ unread = FALSE /\ moving = FALSE /\ troubles = 0
  /\ hurried = 0

Driver == Recover \/ PrintLabel \/ Close \/ Error \/ ReadFails \/ WriteFails \/ Over

Next == Driver \/ Timeout \/ Finish \/ Signal \/ Printer \/ Ended

\* The process runs, its timeouts expire, bytes are transmitted, and an empty
\* printer is loaded.
Spec ==
  /\ Init /\ [][Next]_vars
  /\ WF_vars(Driver) /\ WF_vars(Timeout)
  /\ WF_vars(Printer /\ Transmit) /\ WF_vars(Printer /\ Loads)

-----------------------------------------------------------------------------
DrainLabels == {"readyDrain", "idleDrain", "forceDrain", "resetDrain", "blankDrain", "feedDrain",
                "formDrain", "stopDrain", "ejectDrain"}

Labels == DrainLabels \cup
  {"ready", "idle", "fault", "loaded", "force", "reset", "resetDone", "resetClosed", "error", "broken",
   "label", "blank", "blankSent", "nextBand", "data", "dataSent", "feed", "form",
   "disconnect", "eject", "ask", "close", "closed", "over"}

TypeOK ==
  /\ lp_messages \in BOOLEAN /\ frame \in {"main", "handler"}
  /\ at \in Labels /\ then \in Labels
  /\ caller \in {"feed", "blank", "ready", "idle"}
  /\ ended \in {"running", "done", "stopped", "failed", "broken"}
  /\ ps \subseteq StatusBits /\ real \subseteq StatusBits
  /\ tof \in BOOLEAN /\ fd \in BOOLEAN /\ tty \in {"open", "restored"}
  /\ outq \in {"none", "data", "feed", "form", "nop", "reset", "status"}
  /\ flow \in BOOLEAN /\ unread \in BOOLEAN /\ moving \in BOOLEAN
  /\ rounds \in 0..MaxNops /\ bands \in 0..MaxBands /\ labels \in 0..MaxLabels
  /\ troubles \in 0..MaxTroubles
  /\ hurried \in Nat

\* sense() stops the output while the printer is full, and tcdrain() waits for
\* the output: no drain waits for a byte that is stopped.
NeverDrainsStopped == at \in DrainLabels /\ ~Drained /\ ended = "running" => flow

\* slplus.c:813-946: once an error was read, at most two more feeds are sent
\* before it is dealt with: the blank feed, which only asks whether there are
\* labels, and the feed of the first band, which asks for faults as well.
AtMostTwoHurriedFeeds == hurried <= 2

\* The port is restored when the session was closed, and when a fault of the
\* printer ends the process, in main() or in the handler, with and without -l:
\* slplus.c:720-725 resets the printer and closes the port first, and the
\* handler must not close it again.  In the handler every end but that of a
\* failed call gives the port back.  The failed calls of slplus.c:309-339 are
\* the exception, even within reset_printer(): they end the process "broken".
GivenBack ==
  \/ ended \in {"done", "stopped"}
  \/ ended = "failed" /\ (frame = "handler" \/ then \in {"reset", "resetDone"})
    => tty = "restored" /\ ~fd

\* A signal ends the process, whatever the printer does, if it is loaded in the end.
SignalEnds == frame = "handler" ~> ended # "running"

\* slplus.c:727: a fault that was found is reported, unless a failed call is
\* reported in its place.
FaultReported == at = "reset" ~> ended # "running" \/ at \in {"error", "broken"}

=============================================================================
