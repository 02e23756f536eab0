--------------------------- MODULE PlusLinkProofs ---------------------------
(***************************************************************************)
(* The safety of PlusLink holds for any number of labels, bands, NOPs and  *)
(* troubles, and for a printer whose faults come back or do not.  The      *)
(* argument is one inductive invariant, LinkInv.  Its parts: where the     *)
(* waits and force() may return to (ThenInv); that output is stopped only  *)
(* while nothing waits in it (FlowInv); how many feeds may have been       *)
(* hurried at each point of a label (HurryInv); that a band is fed only    *)
(* within the label (BandInv); how far the port is given back (GiveInv);   *)
(* and what the handler may wait for (HandlerInv), which leaves a failed   *)
(* call as its only way to end with the port held.                         *)
(***************************************************************************)
EXTENDS PlusLink, TLAPS

WriteLabels == {"blank", "data", "feed", "form"}

\* Within wait_for_ready(), or a check_fault() it has called; and so for wait_for_idle().
ReadyWait == at \in {"readyDrain", "ready"} \/ (at \in {"fault", "loaded"} /\ caller = "ready")
IdleWait == at \in {"idleDrain", "idle"} \/ (at \in {"fault", "loaded"} /\ caller = "idle")

ThenInv ==
  /\ ReadyWait => then \in WriteLabels
  /\ IdleWait => then \in {"nextBand", "label", "resetDone", "close"}
  /\ at \in {"force", "forceDrain"} => then \in {"reset", "eject"}
  /\ at = "blankDrain" => caller = "blank"
  /\ at = "fault" => caller # "blank"

FlowInv ==
  /\ outq # "none" => flow
  /\ "full" \notin ps => flow
  /\ at \in WriteLabels \cup {"reset", "eject", "ejectDrain", "ask"} => flow
  /\ at \in {"ready", "idle", "fault", "loaded"} => outq = "none"
  /\ at = "force" /\ tty = "open" => outq = "none"

\* A printer that is idle reports no error.
Consistent(status) == "idle" \in status => status \cap ErrorBits = {}

HurryInv ==
  /\ Consistent(ps) /\ Consistent(real)
  /\ at \in {"label", "blank"} \/ (ReadyWait /\ then = "blank") => hurried = 0
  /\ \/ at \in {"blankSent", "blankDrain", "nextBand", "data", "dataSent", "feed", "form"}
     \/ at = "loaded" /\ caller = "blank"
     \/ ReadyWait
     => hurried <= 1
  /\ hurried <= 2

BandInv ==
  at \in {"data", "dataSent", "feed", "feedDrain"} \/ (ReadyWait /\ then \in {"data", "feed"})
    => bands < MaxBands

GiveInv ==
  /\ ~fd => tty = "restored"
  /\ at \in {"resetClosed", "closed"} => tty = "restored"
  /\ at = "over" => ~fd
  /\ tty = "restored" =>
       \/ at \in {"resetClosed", "closed", "error", "broken", "disconnect", "stopDrain", "over"}
       \/ at = "force" /\ then = "eject"
  /\ at = "error" /\ then \in {"reset", "resetDone"} => ~fd
  /\ ended = "failed" => at = "error"
  /\ ended = "broken" => at = "broken"
  /\ ended \in {"done", "stopped"} => at = "over"

\* The handler only disconnects, and deals with the faults it meets on the way.
HandlerInv == frame = "handler" =>
  /\ at \in {"disconnect", "stopDrain", "forceDrain", "force", "eject", "ejectDrain", "ask",
             "idleDrain", "idle", "fault", "loaded", "reset", "resetDrain", "resetDone",
             "resetClosed", "close", "closed", "error", "broken", "over"}
  /\ at \in {"fault", "loaded"} => caller = "idle"
  /\ at \in {"idleDrain", "idle", "fault", "loaded"} => then \in {"close", "resetDone"}
  /\ at \in {"resetDone", "resetClosed", "error"} => then = "resetDone"

LinkInv == TypeOK /\ ThenInv /\ FlowInv /\ HurryInv /\ BandInv /\ GiveInv /\ HandlerInv

-----------------------------------------------------------------------------
\* What sense() does to what the driver knows, and to its output.
Sensed ==
  /\ ps' \subseteq StatusBits /\ flow' \in BOOLEAN /\ unread' = FALSE
  /\ Consistent(ps')
  /\ (hurried' = 0 \/ hurried' = hurried) /\ (ps' \cap ErrorBits = {} => hurried' = 0)
  /\ outq' = outq /\ real' = real /\ moving' = moving /\ troubles' = troubles
  /\ outq = "none" => (outq' # "none" => flow')
  /\ "full" \notin ps' => flow'
  /\ tty = "open"

LEMMA SenseFacts == ASSUME TypeOK, FlowInv, HurryInv, Sense PROVE Sensed
BY DEF Sensed, Sense, TypeOK, FlowInv, HurryInv, Consistent, printer

\* What every step of the driver that is not an exchange leaves alone.
LEMMA SilentFacts ==
  ASSUME Silent
  PROVE  /\ ps' = ps /\ outq' = outq /\ flow' = flow /\ unread' = unread
         /\ real' = real /\ moving' = moving /\ troubles' = troubles /\ hurried' = hurried
BY DEF Silent, output, printer

LEMMA DrainStep ==
  ASSUME LinkInv, \/ Drain("readyDrain", "ready") \/ Drain("idleDrain", "idle")
                  \/ Drain("forceDrain", "force") \/ Drain("blankDrain", "loaded")
  PROVE  LinkInv'
<1> USE SilentFacts DEF Drain, Runs, Goto, Drained, frames, returns, state, counts
<1>1. TypeOK'
  BY DEF LinkInv, TypeOK, Labels, DrainLabels
<1>2. ThenInv'
  BY DEF LinkInv, ThenInv, ReadyWait, IdleWait
<1>3. FlowInv'
  BY DEF LinkInv, FlowInv, WriteLabels
<1>4. HurryInv'
  BY DEF LinkInv, ThenInv, HurryInv, ReadyWait, Consistent
<1>5. BandInv'
  BY DEF LinkInv, ThenInv, BandInv, ReadyWait
<1>6. GiveInv'
  BY DEF LinkInv, GiveInv, ThenInv
<1>7. HandlerInv'
  BY DEF LinkInv, ThenInv, HandlerInv, IdleWait, ReadyWait
<1> QED  BY <1>1, <1>2, <1>3, <1>4, <1>5, <1>6, <1>7 DEF LinkInv

\* wait_for_ready() and wait_for_idle(): on, round again, or to check_fault().
LEMMA WaitReadyStep == ASSUME LinkInv, WaitReady PROVE LinkInv'
<1>1. Sensed  BY SenseFacts DEF LinkInv, WaitReady
<1> USE <1>1 DEF WaitReady, Sensed, Runs, Goto, frames, state, counts
<1>2. then \in WriteLabels
  BY DEF LinkInv, ThenInv, ReadyWait
<1>3. TypeOK'
  <2>1. at' \in Labels /\ caller' \in {"feed", "blank", "ready", "idle"}
    BY <1>2 DEF LinkInv, TypeOK, Labels, DrainLabels, WriteLabels
  <2>2. hurried' \in Nat
    BY DEF LinkInv, TypeOK
  <2>3. flow' \in BOOLEAN /\ unread' \in BOOLEAN /\ ps' \subseteq StatusBits
    OBVIOUS
  <2> QED  BY <2>1, <2>2, <2>3 DEF LinkInv, TypeOK
<1>4. ThenInv'
  BY <1>2 DEF LinkInv, ThenInv, ReadyWait, IdleWait, WriteLabels
<1>5. FlowInv'
  BY <1>2 DEF LinkInv, FlowInv, WriteLabels
<1>6. HurryInv'
  BY <1>2 DEF LinkInv, HurryInv, ReadyWait, Consistent, WriteLabels, TypeOK
<1>7. BandInv'
  BY <1>2 DEF LinkInv, BandInv, ReadyWait, WriteLabels
<1>8. GiveInv'
  BY <1>2 DEF LinkInv, GiveInv, WriteLabels, TypeOK
<1>9. HandlerInv'
  BY DEF LinkInv, ThenInv, HandlerInv, IdleWait, ReadyWait
<1> QED  BY <1>3, <1>4, <1>5, <1>6, <1>7, <1>8, <1>9 DEF LinkInv

LEMMA WaitIdleStep == ASSUME LinkInv, WaitIdle PROVE LinkInv'
<1>1. Sensed  BY SenseFacts DEF LinkInv, WaitIdle
<1> USE <1>1 DEF WaitIdle, Sensed, Runs, Goto, frames, state, counts
<1>2. then \in {"nextBand", "label", "resetDone", "close"}
  BY DEF LinkInv, ThenInv, IdleWait
<1>3. TypeOK'
  <2>1. at' \in Labels /\ caller' \in {"feed", "blank", "ready", "idle"}
    BY <1>2 DEF LinkInv, TypeOK, Labels, DrainLabels, WriteLabels
  <2>2. hurried' \in Nat
    BY DEF LinkInv, TypeOK
  <2>3. flow' \in BOOLEAN /\ unread' \in BOOLEAN /\ ps' \subseteq StatusBits
    OBVIOUS
  <2> QED  BY <2>1, <2>2, <2>3 DEF LinkInv, TypeOK
<1>4. ThenInv'
  BY <1>2 DEF LinkInv, ThenInv, ReadyWait, IdleWait
<1>5. FlowInv'
  BY <1>2 DEF LinkInv, FlowInv, WriteLabels
<1>6. HurryInv'
  BY <1>2 DEF LinkInv, HurryInv, ReadyWait, Consistent, TypeOK
<1>7. BandInv'
  BY <1>2 DEF LinkInv, BandInv, ReadyWait
<1>8. GiveInv'
  BY <1>2 DEF LinkInv, GiveInv, TypeOK
<1>9. HandlerInv'
  BY DEF LinkInv, ThenInv, HandlerInv, IdleWait, ReadyWait
<1> QED  BY <1>3, <1>4, <1>5, <1>6, <1>7, <1>8, <1>9 DEF LinkInv

\* check_fault(): the printer is reset, or looked at for labels.
LEMMA CheckFaultStep ==
  ASSUME LinkInv, CheckFault
  PROVE  LinkInv'
<1>0. Sensed  BY SenseFacts DEF LinkInv, CheckFault
<1> USE <1>0 DEF CheckFault, Sensed, Runs, Goto, frames, returns, state, counts
<1>1. TypeOK'
  <2>1. at' \in Labels /\ then' \in Labels /\ rounds' \in 0..MaxNops
    BY LinkAssumption DEF LinkInv, TypeOK, Labels, DrainLabels
  <2>2. hurried' \in Nat
    BY DEF LinkInv, TypeOK
  <2>3. flow' \in BOOLEAN /\ unread' \in BOOLEAN /\ ps' \subseteq StatusBits
    OBVIOUS
  <2> QED  BY <2>1, <2>2, <2>3 DEF LinkInv, TypeOK
<1>2. ThenInv'
  BY DEF LinkInv, ThenInv, ReadyWait, IdleWait, WriteLabels
<1>3. FlowInv'
  BY DEF LinkInv, FlowInv, ThenInv, WriteLabels
<1>4. HurryInv'
  BY DEF LinkInv, HurryInv, ThenInv, ReadyWait, Consistent, TypeOK
<1>5. BandInv'
  BY DEF LinkInv, BandInv, ThenInv, ReadyWait
<1>6. GiveInv'
  BY DEF LinkInv, GiveInv, ThenInv, ReadyWait, IdleWait, WriteLabels, TypeOK
<1>7. HandlerInv'
  BY DEF LinkInv, ThenInv, HandlerInv, IdleWait, ReadyWait
<1> QED  BY <1>1, <1>2, <1>3, <1>4, <1>5, <1>6, <1>7 DEF LinkInv

\* check_loaded(): the human is waited for, and the caller goes on.
LEMMA CheckLoadedStep ==
  ASSUME LinkInv, CheckLoaded
  PROVE  LinkInv'
<1>0. Sensed  BY SenseFacts DEF LinkInv, CheckLoaded
<1>b. /\ at = "loaded"
      /\ UNCHANGED <<lp_messages, frame, ended, caller, tof, fd, tty, rounds, bands, labels>>
      /\ \/ at' = "loaded" /\ then' = then
         \/ caller = "feed" /\ at' = "idleDrain" /\ then' = "nextBand"
         \/ caller = "blank" /\ at' = "nextBand" /\ then' = then
         \/ caller = "ready" /\ at' = "ready" /\ then' = then
         \/ caller = "idle" /\ at' = "idle" /\ then' = then
  BY DEF LinkInv, TypeOK, CheckLoaded, BackTo, Runs, Goto, frames, state, counts
<1> USE <1>0, <1>b DEF Sensed
<1>1. TypeOK'
  <2>1. at' \in Labels /\ then' \in Labels
    BY DEF LinkInv, TypeOK, Labels, DrainLabels
  <2>2. hurried' \in Nat
    BY DEF LinkInv, TypeOK
  <2>3. flow' \in BOOLEAN /\ unread' \in BOOLEAN /\ ps' \subseteq StatusBits
    OBVIOUS
  <2> QED  BY <2>1, <2>2, <2>3 DEF LinkInv, TypeOK
<1>2. ThenInv'
  BY DEF LinkInv, ThenInv, ReadyWait, IdleWait, WriteLabels
<1>3. FlowInv'
  BY DEF LinkInv, FlowInv, ThenInv, WriteLabels
<1>4. HurryInv'
  BY DEF LinkInv, HurryInv, ThenInv, ReadyWait, Consistent, TypeOK
<1>5. BandInv'
  BY DEF LinkInv, BandInv, ThenInv, ReadyWait
<1>6. GiveInv'
  BY DEF LinkInv, GiveInv, ThenInv, ReadyWait, IdleWait, WriteLabels, TypeOK
<1>7. HandlerInv'
  BY DEF LinkInv, ThenInv, HandlerInv, IdleWait, ReadyWait
<1> QED  BY <1>1, <1>2, <1>3, <1>4, <1>5, <1>6, <1>7 DEF LinkInv

\* force(): a round, or its end.
LEMMA ForceStep ==
  ASSUME LinkInv, force
  PROVE  LinkInv'
<1> USE DEF force, printer, Runs, Goto, frames, returns, state, counts
<1>1. TypeOK'
  <2>1. at' \in Labels /\ then' \in Labels
    BY DEF LinkInv, ThenInv, TypeOK, Labels, DrainLabels
  <2>2. hurried' \in Nat /\ rounds' \in 0..MaxNops
    BY LinkAssumption DEF LinkInv, TypeOK
  <2>3. flow' \in BOOLEAN /\ ps' \subseteq StatusBits
    BY DEF LinkInv, TypeOK
  <2>4. unread' \in BOOLEAN
    BY DEF LinkInv, TypeOK
  <2>5. outq' \in {"none", "data", "feed", "form", "nop", "reset", "status"}
    BY DEF LinkInv, TypeOK
  <2> QED  BY <2>1, <2>2, <2>3, <2>4, <2>5 DEF LinkInv, TypeOK
<1>2. ThenInv'
  BY DEF LinkInv, ThenInv, ReadyWait, IdleWait, WriteLabels
<1>3. FlowInv'
  BY DEF LinkInv, FlowInv, ThenInv, WriteLabels
<1>4. HurryInv'
  BY DEF LinkInv, HurryInv, ThenInv, ReadyWait, Consistent, TypeOK
<1>5. BandInv'
  BY DEF LinkInv, BandInv, ThenInv, ReadyWait
<1>6. GiveInv'
  BY DEF LinkInv, GiveInv, ThenInv, ReadyWait, IdleWait, WriteLabels, TypeOK
<1>7. HandlerInv'
  BY DEF LinkInv, ThenInv, HandlerInv, IdleWait, ReadyWait
<1> QED  BY <1>1, <1>2, <1>3, <1>4, <1>5, <1>6, <1>7 DEF LinkInv

\* reset_printer()
LEMMA ResetStep ==
  ASSUME LinkInv, Reset \/ ResetSent
  PROVE  LinkInv'
<1> USE DEF Reset, ResetSent, Drained, printer, output, Runs, Goto, frames, returns, state, counts
<1>1. TypeOK'
  BY DEF LinkInv, TypeOK, Labels, DrainLabels
<1>2. ThenInv'
  BY DEF LinkInv, ThenInv, ReadyWait, IdleWait, WriteLabels
<1>3. FlowInv'
  BY DEF LinkInv, FlowInv, ThenInv, WriteLabels
<1>4. HurryInv'
  BY DEF LinkInv, HurryInv, ThenInv, ReadyWait, Consistent, TypeOK
<1>5. BandInv'
  BY DEF LinkInv, BandInv, ThenInv, ReadyWait
<1>6. GiveInv'
  BY DEF LinkInv, GiveInv, ThenInv, ReadyWait, IdleWait, WriteLabels, TypeOK
<1>7. HandlerInv'
  BY DEF LinkInv, ThenInv, HandlerInv, IdleWait, ReadyWait
<1> QED  BY <1>1, <1>2, <1>3, <1>4, <1>5, <1>6, <1>7 DEF LinkInv

\* The port is closed, and forgotten, by check_fault() or by disconnect().
LEMMA GiveUpStep ==
  ASSUME LinkInv, GiveUp \/ GiveBack("close", "closed") \/ ForgetFd("closed", "over")
  PROVE  LinkInv'
<1> USE SilentFacts DEF GiveUp, GiveBack, ForgetFd, Runs, Goto, frames, returns, state, counts
<1>1. TypeOK'
  BY DEF LinkInv, TypeOK, Labels, DrainLabels
<1>2. ThenInv'
  BY DEF LinkInv, ThenInv, ReadyWait, IdleWait, WriteLabels
<1>3. FlowInv'
  BY DEF LinkInv, FlowInv, ThenInv, WriteLabels
<1>4. HurryInv'
  BY DEF LinkInv, HurryInv, ThenInv, ReadyWait, Consistent, TypeOK
<1>5. BandInv'
  BY DEF LinkInv, BandInv, ThenInv, ReadyWait
<1>6. GiveInv'
  BY DEF LinkInv, GiveInv, ThenInv, ReadyWait, IdleWait, WriteLabels, TypeOK
<1>7. HandlerInv'
  BY DEF LinkInv, ThenInv, HandlerInv, IdleWait, ReadyWait
<1> QED  BY <1>1, <1>2, <1>3, <1>4, <1>5, <1>6, <1>7 DEF LinkInv

\* A label begins with a feed that asks whether there are labels.
LEMMA StartStep ==
  ASSUME LinkInv, StartLabel \/ WriteBlank \/ BlankSent
  PROVE  LinkInv'
<1> USE SilentFacts DEF StartLabel, WriteBlank, BlankSent, Write, Hurry, printer, Runs, Goto,
            frames, returns, state, counts
<1>1. TypeOK'
  <2>1. at' \in Labels /\ then' \in Labels
    BY LinkAssumption DEF LinkInv, TypeOK, Labels, DrainLabels, ThenInv, BandInv
  <2>2. hurried' \in Nat
    BY LinkAssumption DEF LinkInv, TypeOK, Labels, DrainLabels, ThenInv, BandInv
  <2>3. labels' \in 0..MaxLabels /\ bands' \in 0..MaxBands
    BY LinkAssumption DEF LinkInv, TypeOK, Labels, DrainLabels, ThenInv, BandInv
  <2>4. caller' \in {"feed", "blank", "ready", "idle"}
    BY LinkAssumption DEF LinkInv, TypeOK, Labels, DrainLabels, ThenInv, BandInv
  <2>5. tof' \in BOOLEAN
    BY LinkAssumption DEF LinkInv, TypeOK, Labels, DrainLabels, ThenInv, BandInv
  <2>6. ps' \subseteq StatusBits /\ flow' \in BOOLEAN
    BY LinkAssumption DEF LinkInv, TypeOK, Labels, DrainLabels, ThenInv, BandInv
  <2>7. outq' \in {"none", "data", "feed", "form", "nop", "reset", "status"}
    BY LinkAssumption DEF LinkInv, TypeOK, Labels, DrainLabels, ThenInv, BandInv
  <2> QED  BY <2>1, <2>2, <2>3, <2>4, <2>5, <2>6, <2>7 DEF LinkInv, TypeOK
<1>2. ThenInv'
  BY DEF LinkInv, ThenInv, ReadyWait, IdleWait, WriteLabels
<1>3. FlowInv'
  BY DEF LinkInv, FlowInv, ThenInv, WriteLabels
<1>4. HurryInv'
  BY DEF LinkInv, HurryInv, ThenInv, ReadyWait, Consistent, TypeOK
<1>5. BandInv'
  BY DEF LinkInv, BandInv, ThenInv, ReadyWait
<1>6. GiveInv'
  BY DEF LinkInv, GiveInv, ThenInv, ReadyWait, IdleWait, WriteLabels, TypeOK
<1>7. HandlerInv'
  BY DEF LinkInv, ThenInv, HandlerInv, IdleWait, ReadyWait
<1> QED  BY <1>1, <1>2, <1>3, <1>4, <1>5, <1>6, <1>7 DEF LinkInv

\* A band is sent, or fed, or the label is complete.
LEMMA BandStep ==
  ASSUME LinkInv, Band
  PROVE  LinkInv'
<1> USE DEF Band, Send, printer, output, Runs, Goto, frames, returns, state, counts
<1>1. TypeOK'
  <2>1. at' \in Labels /\ then' \in Labels
    BY LinkAssumption DEF LinkInv, TypeOK, Labels, DrainLabels, ThenInv, BandInv
  <2>2. ps' \subseteq StatusBits
    BY LinkAssumption DEF LinkInv, TypeOK, Labels, DrainLabels, ThenInv, BandInv
  <2> QED  BY <2>1, <2>2 DEF LinkInv, TypeOK
<1>2. ThenInv'
  BY DEF LinkInv, ThenInv, ReadyWait, IdleWait, WriteLabels
<1>3. FlowInv'
  BY DEF LinkInv, FlowInv, ThenInv, WriteLabels
<1>4. HurryInv'
  BY DEF LinkInv, HurryInv, ThenInv, ReadyWait, Consistent, TypeOK
<1>5. BandInv'
  BY DEF LinkInv, BandInv, ThenInv, ReadyWait
<1>6. GiveInv'
  BY DEF LinkInv, GiveInv, ThenInv, ReadyWait, IdleWait, WriteLabels, TypeOK
<1>7. HandlerInv'
  BY DEF LinkInv, ThenInv, HandlerInv, IdleWait, ReadyWait
<1> QED  BY <1>1, <1>2, <1>3, <1>4, <1>5, <1>6, <1>7 DEF LinkInv

\* The bytes that wait_for_ready() let through are written.
LEMMA WriteStep ==
  ASSUME LinkInv, WriteData \/ WriteFeed \/ WriteForm
  PROVE  LinkInv'
<1> USE DEF WriteData, WriteFeed, WriteForm, Write, Hurry, printer, Runs, Goto, frames, returns, state, counts
<1>1. TypeOK'
  BY LinkAssumption DEF LinkInv, TypeOK, Labels, DrainLabels, ThenInv, BandInv
<1>2. ThenInv'
  BY DEF LinkInv, ThenInv, ReadyWait, IdleWait, WriteLabels
<1>3. FlowInv'
  BY DEF LinkInv, FlowInv, ThenInv, WriteLabels
<1>4. HurryInv'
  BY DEF LinkInv, HurryInv, ThenInv, ReadyWait, Consistent, TypeOK
<1>5. BandInv'
  BY DEF LinkInv, BandInv, ThenInv, ReadyWait
<1>6. GiveInv'
  BY DEF LinkInv, GiveInv, ThenInv, ReadyWait, IdleWait, WriteLabels, TypeOK
<1>7. HandlerInv'
  BY DEF LinkInv, ThenInv, HandlerInv, IdleWait, ReadyWait
<1> QED  BY <1>1, <1>2, <1>3, <1>4, <1>5, <1>6, <1>7 DEF LinkInv

\* A feed, or the formfeed, has been transmitted.
LEMMA SentStep ==
  ASSUME LinkInv, FeedSent \/ FormSent
  PROVE  LinkInv'
<1> USE SilentFacts DEF FeedSent, FormSent, Drained, Runs, Goto, frames, returns, state, counts
<1>1. TypeOK'
  <2>1. at' \in Labels /\ then' \in Labels
    BY LinkAssumption DEF LinkInv, TypeOK, Labels, DrainLabels, ThenInv, BandInv
  <2>2. bands' \in 0..MaxBands
    BY LinkAssumption DEF LinkInv, TypeOK, Labels, DrainLabels, ThenInv, BandInv
  <2>3. caller' \in {"feed", "blank", "ready", "idle"}
    BY LinkAssumption DEF LinkInv, TypeOK, Labels, DrainLabels, ThenInv, BandInv
  <2>4. tof' \in BOOLEAN
    BY LinkAssumption DEF LinkInv, TypeOK, Labels, DrainLabels, ThenInv, BandInv
  <2> QED  BY <2>1, <2>2, <2>3, <2>4 DEF LinkInv, TypeOK
<1>2. ThenInv'
  BY DEF LinkInv, ThenInv, ReadyWait, IdleWait, WriteLabels
<1>3. FlowInv'
  BY DEF LinkInv, FlowInv, ThenInv, WriteLabels
<1>4. HurryInv'
  BY DEF LinkInv, HurryInv, ThenInv, ReadyWait, Consistent, TypeOK
<1>5. BandInv'
  BY DEF LinkInv, BandInv, ThenInv, ReadyWait
<1>6. GiveInv'
  BY DEF LinkInv, GiveInv, ThenInv, ReadyWait, IdleWait, WriteLabels, TypeOK
<1>7. HandlerInv'
  BY DEF LinkInv, ThenInv, HandlerInv, IdleWait, ReadyWait
<1> QED  BY <1>1, <1>2, <1>3, <1>4, <1>5, <1>6, <1>7 DEF LinkInv

\* disconnect(), as far as its closetty().
LEMMA CloseStep ==
  ASSUME LinkInv, Disconnect \/ Terminate \/ Eject \/ Ejected \/ Ask
  PROVE  LinkInv'
<1> USE SilentFacts DEF Disconnect, Terminate, Eject, Ejected, Ask, Write, Drained, printer,
            Runs, Goto, frames, returns, state, counts
<1>1. TypeOK'
  <2>1. at' \in Labels /\ then' \in Labels
    BY LinkAssumption DEF LinkInv, TypeOK, Labels, DrainLabels, ThenInv, BandInv
  <2>2. rounds' \in 0..MaxNops
    BY LinkAssumption DEF LinkInv, TypeOK, Labels, DrainLabels, ThenInv, BandInv
  <2>3. flow' \in BOOLEAN
    BY LinkAssumption DEF LinkInv, TypeOK, Labels, DrainLabels, ThenInv, BandInv
  <2>4. tof' \in BOOLEAN
    BY LinkAssumption DEF LinkInv, TypeOK, Labels, DrainLabels, ThenInv, BandInv
  <2>5. outq' \in {"none", "data", "feed", "form", "nop", "reset", "status"}
    BY LinkAssumption DEF LinkInv, TypeOK, Labels, DrainLabels, ThenInv, BandInv
  <2> QED  BY <2>1, <2>2, <2>3, <2>4, <2>5 DEF LinkInv, TypeOK
<1>2. ThenInv'
  BY DEF LinkInv, ThenInv, ReadyWait, IdleWait, WriteLabels
<1>3. FlowInv'
  BY DEF LinkInv, FlowInv, ThenInv, WriteLabels
<1>4. HurryInv'
  BY DEF LinkInv, HurryInv, ThenInv, ReadyWait, Consistent, TypeOK
<1>5. BandInv'
  BY DEF LinkInv, BandInv, ThenInv, ReadyWait
<1>6. GiveInv'
  BY DEF LinkInv, GiveInv, ThenInv, ReadyWait, IdleWait, WriteLabels, TypeOK
<1>7. HandlerInv'
  BY DEF LinkInv, ThenInv, HandlerInv, IdleWait, ReadyWait
<1> QED  BY <1>1, <1>2, <1>3, <1>4, <1>5, <1>6, <1>7 DEF LinkInv

\* A wait is over, or fails.
LEMMA TimeoutStep ==
  ASSUME LinkInv, Timeout
  PROVE  LinkInv'
<1> USE SilentFacts DEF Timeout, Drained, Runs, Goto, frames, returns, state, counts
<1>1. TypeOK'
  BY LinkAssumption DEF LinkInv, TypeOK, Labels, DrainLabels, ThenInv, BandInv
<1>2. ThenInv'
  BY DEF LinkInv, ThenInv, ReadyWait, IdleWait, WriteLabels
<1>3. FlowInv'
  BY DEF LinkInv, FlowInv, ThenInv, WriteLabels
<1>4. HurryInv'
  BY DEF LinkInv, HurryInv, ThenInv, ReadyWait, Consistent, TypeOK
<1>5. BandInv'
  BY DEF LinkInv, BandInv, ThenInv, ReadyWait
<1>6. GiveInv'
  BY DEF LinkInv, GiveInv, ThenInv, ReadyWait, IdleWait, WriteLabels, TypeOK
<1>7. HandlerInv'
  BY DEF LinkInv, ThenInv, HandlerInv, IdleWait, ReadyWait
<1> QED  BY <1>1, <1>2, <1>3, <1>4, <1>5, <1>6, <1>7 DEF LinkInv

\* The session ends, a signal comes, or Error() is called.
LEMMA ControlStep ==
  ASSUME LinkInv, Finish \/ Signal \/ Error \/ Over
  PROVE  LinkInv'
<1> USE SilentFacts DEF Finish, Signal, Error, Over, Runs, Goto, frames, returns, state, counts
<1>1. TypeOK'
  BY LinkAssumption DEF LinkInv, TypeOK, Labels, DrainLabels, ThenInv, BandInv
<1>2. ThenInv'
  BY DEF LinkInv, ThenInv, ReadyWait, IdleWait, WriteLabels
<1>3. FlowInv'
  BY DEF LinkInv, FlowInv, ThenInv, WriteLabels
<1>4. HurryInv'
  BY DEF LinkInv, HurryInv, ThenInv, ReadyWait, Consistent, TypeOK
<1>5. BandInv'
  BY DEF LinkInv, BandInv, ThenInv, ReadyWait
<1>6. GiveInv'
  BY DEF LinkInv, GiveInv, ThenInv, ReadyWait, IdleWait, WriteLabels, TypeOK
<1>7. HandlerInv'
  BY DEF LinkInv, ThenInv, HandlerInv, IdleWait, ReadyWait
<1> QED  BY <1>1, <1>2, <1>3, <1>4, <1>5, <1>6, <1>7 DEF LinkInv

\* A read fails, after a status byte or before one.
LEMMA ReadFailsStep ==
  ASSUME LinkInv, ReadFails
  PROVE  LinkInv'
<1>0. \/ Sensed
      \/ UNCHANGED <<ps, flow, unread, hurried, outq, real, moving, troubles>>
  BY SenseFacts, SilentFacts DEF LinkInv, ReadFails
<1>b. /\ at \in {"ready", "idle", "fault", "loaded", "force"} /\ at' = "broken"
      /\ UNCHANGED <<lp_messages, frame, ended, then, caller, tof, fd, tty, rounds, bands, labels>>
  BY DEF ReadFails, Runs, Goto, frames, returns, state, counts
<1> USE <1>0, <1>b DEF Sensed
<1>1. TypeOK'
  <2>1. at' \in Labels
    BY DEF Labels
  <2>2. ps' \subseteq StatusBits /\ flow' \in BOOLEAN /\ unread' \in BOOLEAN
    BY DEF LinkInv, TypeOK
  <2>3. outq' \in {"none", "data", "feed", "form", "nop", "reset", "status"} /\ hurried' \in Nat
    BY DEF LinkInv, TypeOK
  <2> QED  BY <2>1, <2>2, <2>3 DEF LinkInv, TypeOK
<1>2. ThenInv'
  BY DEF ThenInv, ReadyWait, IdleWait
<1>3. FlowInv'
  BY DEF LinkInv, FlowInv, WriteLabels
<1>4. HurryInv'
  BY DEF LinkInv, HurryInv, ReadyWait, Consistent, TypeOK
<1>5. BandInv'
  BY DEF BandInv, ReadyWait
<1>6. GiveInv'
  BY DEF LinkInv, GiveInv, ReadFails, Runs
<1>7. HandlerInv'
  BY DEF HandlerInv
<1> QED  BY <1>1, <1>2, <1>3, <1>4, <1>5, <1>6, <1>7 DEF LinkInv

\* A write fails.
LEMMA WriteFailsStep ==
  ASSUME LinkInv, WriteFails
  PROVE  LinkInv'
<1>b. /\ at \in {"blank", "data", "feed", "form", "reset", "ask", "eject"} /\ at' = "broken"
      /\ outq' = outq \/ (at = "data" /\ outq' = "data")
      /\ ps' = {} \/ ps' = ps
      /\ unread' = FALSE \/ unread' = unread
      /\ ps' # ps => at = "reset"
      /\ UNCHANGED <<lp_messages, frame, ended, then, caller, tof, fd, tty, flow, rounds, bands, labels,
                     real, moving, troubles, hurried>>
  BY DEF WriteFails, printer, Runs, Goto, frames, returns, state, counts
<1> USE <1>b
<1>1. TypeOK'
  <2>1. at' \in Labels
    BY DEF Labels
  <2>2. ps' \subseteq StatusBits /\ flow' \in BOOLEAN /\ unread' \in BOOLEAN
    BY DEF LinkInv, TypeOK
  <2>3. outq' \in {"none", "data", "feed", "form", "nop", "reset", "status"} /\ hurried' \in Nat
    BY DEF LinkInv, TypeOK
  <2> QED  BY <2>1, <2>2, <2>3 DEF LinkInv, TypeOK
<1>2. ThenInv'
  BY DEF ThenInv, ReadyWait, IdleWait
<1>3. FlowInv'
  BY DEF LinkInv, FlowInv, WriteLabels
<1>4. HurryInv'
  BY DEF LinkInv, HurryInv, ReadyWait, Consistent
<1>5. BandInv'
  BY DEF BandInv, ReadyWait
<1>6. GiveInv'
  BY DEF LinkInv, GiveInv, WriteFails, Runs
<1>7. HandlerInv'
  BY DEF HandlerInv
<1> QED  BY <1>1, <1>2, <1>3, <1>4, <1>5, <1>6, <1>7 DEF LinkInv

\* The printer changes, or takes a byte.
LEMMA PrinterStep ==
  ASSUME LinkInv, Printer
  PROVE  LinkInv'
<1> USE DEF Printer, Transmit, Takes, Becomes, Fill, Empties, Rests, Loads, Trouble, output,
            frames, returns, state, counts
<1>0. Consistent(real')
  <2>1. CASE UNCHANGED real
    BY <2>1 DEF LinkInv, HurryInv, Consistent
  <2>2. CASE real' = real \ {"idle"} \/ real' = real \ (ResetBits \cup {"full"})
    BY <2>2 DEF LinkInv, HurryInv, Consistent, ErrorBits, ResetBits
  <2>3. ASSUME NEW bit \in ErrorBits, real' = (real \ {"idle"}) \cup {bit} PROVE Consistent(real')
    BY <2>3 DEF Consistent, ErrorBits, ResetBits
  <2>4. CASE real' = real \cup {"full"} \/ real' = real \ {"full"}
    BY <2>4 DEF LinkInv, HurryInv, Consistent, ErrorBits, ResetBits
  <2>5. CASE real \cap ErrorBits = {} /\ real' = real \cup {"idle"}
    BY <2>5 DEF Consistent, ErrorBits, ResetBits
  <2>6. CASE "empty" \in real /\ real' = real \ {"empty"}
    BY <2>6 DEF LinkInv, HurryInv, Consistent, ErrorBits, ResetBits
  <2> QED  BY <2>1, <2>2, <2>3, <2>4, <2>5, <2>6
<1>1. TypeOK'
  <2>1. real' \subseteq StatusBits
    BY LinkAssumption DEF LinkInv, TypeOK, StatusBits, ErrorBits, ResetBits
  <2>2. unread' \in BOOLEAN
    BY LinkAssumption DEF LinkInv, TypeOK, StatusBits, ErrorBits, ResetBits
  <2>3. moving' \in BOOLEAN
    BY LinkAssumption DEF LinkInv, TypeOK, StatusBits, ErrorBits, ResetBits
  <2>4. troubles' \in 0..MaxTroubles
    BY LinkAssumption DEF LinkInv, TypeOK, StatusBits, ErrorBits, ResetBits
  <2>5. outq' \in {"none", "data", "feed", "form", "nop", "reset", "status"}
    BY LinkAssumption DEF LinkInv, TypeOK, StatusBits, ErrorBits, ResetBits
  <2> QED  BY <2>1, <2>2, <2>3, <2>4, <2>5 DEF LinkInv, TypeOK
<1>2. ThenInv'
  BY DEF LinkInv, ThenInv, ReadyWait, IdleWait, WriteLabels
<1>3. FlowInv'
  BY DEF LinkInv, FlowInv, ThenInv, WriteLabels
<1>4. HurryInv'
  BY <1>0 DEF LinkInv, HurryInv, ReadyWait
<1>5. BandInv'
  BY DEF LinkInv, BandInv, ThenInv, ReadyWait
<1>6. GiveInv'
  BY DEF LinkInv, GiveInv, ThenInv, ReadyWait, IdleWait, WriteLabels, TypeOK
<1>7. HandlerInv'
  BY DEF LinkInv, ThenInv, HandlerInv, IdleWait, ReadyWait
<1> QED  BY <1>1, <1>2, <1>3, <1>4, <1>5, <1>6, <1>7 DEF LinkInv

-----------------------------------------------------------------------------
LEMMA InitLink == Init => LinkInv
<1> SUFFICES ASSUME Init PROVE LinkInv
  OBVIOUS
<1> USE DEF Init
<1>1. TypeOK
  <2>1. 0 \in 0..MaxNops /\ 0 \in 0..MaxBands /\ 0 \in 0..MaxLabels /\ 0 \in 0..MaxTroubles
    BY LinkAssumption
  <2>2. {"idle"} \subseteq StatusBits /\ "label" \in Labels
    BY DEF StatusBits, Labels
  <2> QED  BY <2>1, <2>2 DEF TypeOK
<1>2. ThenInv /\ FlowInv /\ BandInv /\ GiveInv /\ HandlerInv
  BY DEF ThenInv, FlowInv, BandInv, GiveInv, HandlerInv, ReadyWait, IdleWait, WriteLabels
<1>3. HurryInv
  BY DEF HurryInv, Consistent, ReadyWait, ErrorBits, ResetBits
<1> QED  BY <1>1, <1>2, <1>3 DEF LinkInv

LEMMA StutterLink == LinkInv /\ UNCHANGED vars => LinkInv'
BY DEF vars, LinkInv, TypeOK, ThenInv, FlowInv, HurryInv, BandInv, GiveInv, HandlerInv, ReadyWait,
       IdleWait, Consistent

LEMMA NextLink == LinkInv /\ [Next]_vars => LinkInv'
<1> SUFFICES ASSUME LinkInv, [Next]_vars PROVE LinkInv'
  OBVIOUS
<1>1. CASE Recover
  BY <1>1, DrainStep, WaitReadyStep, WaitIdleStep, CheckFaultStep, CheckLoadedStep, ForceStep,
     ResetStep, GiveUpStep DEF Recover
<1>2. CASE PrintLabel
  BY <1>2, DrainStep, StartStep, BandStep, WriteStep, SentStep DEF PrintLabel
<1>3. CASE Close
  BY <1>3, CloseStep, GiveUpStep DEF Close
<1>4. CASE Error \/ ReadFails \/ WriteFails \/ Over \/ Finish \/ Signal
  BY <1>4, ControlStep, ReadFailsStep, WriteFailsStep
<1>5. CASE Timeout \/ Printer
  BY <1>5, TimeoutStep, PrinterStep
<1>6. CASE Ended \/ UNCHANGED vars
  BY <1>6, StutterLink DEF Ended
<1> QED  BY <1>1, <1>2, <1>3, <1>4, <1>5, <1>6 DEF Next, Driver

\* The invariant of the driver's waits.
THEOREM LinkInvariant == Spec => []LinkInv
<1>1. Init => LinkInv
  BY InitLink
<1>2. LinkInv /\ [Next]_vars => LinkInv'
  BY NextLink
<1> QED  BY <1>1, <1>2, PTL DEF Spec

\* The link's variables keep their types, for every bound.
THEOREM LinkTypeOK == Spec => []TypeOK
<1>1. LinkInv => TypeOK
  BY DEF LinkInv
<1> QED  BY <1>1, LinkInvariant, PTL

\* sense() and the waits of slplus.c:424-760: no tcdrain() waits for output that tcflow() stopped.
THEOREM LinkNeverDrainsStopped == Spec => []NeverDrainsStopped
<1>1. LinkInv => NeverDrainsStopped
  BY DEF LinkInv, FlowInv, NeverDrainsStopped, Drained
<1> QED  BY <1>1, LinkInvariant, PTL

\* printlabel() (slplus.c:813-946) sends two feeds at most against an error it has read.
THEOREM LinkHurriesTwice == Spec => []AtMostTwoHurriedFeeds
<1>1. LinkInv => AtMostTwoHurriedFeeds
  BY DEF LinkInv, HurryInv, AtMostTwoHurriedFeeds
<1> QED  BY <1>1, LinkInvariant, PTL

\* disconnect() and check_fault() (slplus.c:710-730, 1008-1045) have restored the port when
\* the process ends after them.
THEOREM LinkGivenBack == Spec => []GivenBack
<1>1. LinkInv => GivenBack
  BY DEF LinkInv, GiveInv, HandlerInv, TypeOK, GivenBack
<1> QED  BY <1>1, LinkInvariant, PTL

=============================================================================
