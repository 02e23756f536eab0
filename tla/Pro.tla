--------------------------------- MODULE Pro ---------------------------------
(***************************************************************************)
(* The connection of the SLP-Pro driver (slpro.c) to its printer: hunting  *)
(* for the printer's baud rate, asking for its model, switching both ends  *)
(* of the line to another rate, sending settings and labels, recovering    *)
(* from a fault, and disconnecting.  A signal kills the process while it   *)
(* connects, and moves it to the handler's disconnect() afterwards; a      *)
(* later run meets the printer in the state it was left in.                *)
(*                                                                         *)
(* The driver drains its output before every decision, so a byte reaches   *)
(* the printer when it is written, at the rate of that moment; what the    *)
(* printer sends comes later.  A byte sent at another rate than the        *)
(* printer's does it no harm, and one that arrives at another rate is      *)
(* recognised as garbled (slpro.c:661-663, 584-592).  Flow control, empty  *)
(* rolls and open lids are left out (PlusLink has the same loops for its   *)
(* driver); of the faults that need a reset there is one, the jam.         *)
(***************************************************************************)
EXTENDS Naturals, Sequences, SequencesExt

CONSTANTS
  Speeds,      \* the speeds that ping() tries, in order
  HostRates,   \* the rates val2baud() knows
  HostCts,     \* does the host have CTS flow control?
  Models,      \* models[]: from names to what the control depends on
  MaxBauds,    \* the values of -b; 0 is none
  NSlices,     \* st->nslices, once setmedia() has set it
  MAXNOPS,     \* st->nslices before that
  MaxLabels,   \* bound on the labels printed
  MaxBands,    \* bound on the bands of a label
  MaxTroubles  \* bound on late answers and the printer's faults

Rates == {9600, 19200, 38400, 57600}

ASSUME ProAssumption ==
  /\ Speeds \in Seq(Rates) /\ \A i, j \in DOMAIN Speeds : Speeds[i] = Speeds[j] => i = j
  /\ HostRates \subseteq Nat /\ Rates \ {57600} \subseteq HostRates
  /\ HostCts \in BOOLEAN
  /\ Models \in [DOMAIN Models -> [modern : BOOLEAN, default : Rates]]
  /\ "SLP-Pro" \in DOMAIN Models /\ {"NULL", "nothing"} \cap DOMAIN Models = {}
  /\ \A k \in DOMAIN Models : Models[k].modern <=> k # "SLP-Pro"
  /\ MaxBauds \subseteq Nat
  /\ NSlices \in Nat \ {0} /\ MAXNOPS \in Nat
  /\ MaxLabels \in Nat /\ MaxBands \in Nat /\ MaxTroubles \in Nat

VARIABLES
  at,     \* what the driver does next
  then,   \* where force(), wait_for_idle(), a setting or switch_baud() goes on
  caller, \* who called ping() and formfeed(): "main", or "fault" for reset_printer()
  frame,  \* "main" or "handler"
  st,     \* the driver's STATE: ps, m, tof, nslices, maxbaud; and the locals of
          \* its functions: tried (ping()'s i), speed (switch_baud()'s), and todo,
          \* what a loop has done or has to do
  tty,    \* the port: its rate, whether CTS flow control is on, and what it has
          \* received (rx)
  pr,     \* the printer: its kind ("nothing" when there is none), its rate, what it
          \* expects next (mode: a "cmd", a "rate", an "arg", a "len" or "data"; cmd,
          \* the last command; left, data still expected), whether it is busy,
          \* whether it has a jam, and what it is about to send (owed)
  run,    \* labels started, bands sent of this one, whether the session has stored the OPD, and how the
          \* process ended (outcome)
  luck    \* answers that were late and faults, so far; and whether the printer was
          \* calm when the run began

vars == <<at, then, caller, frame, st, tty, pr, run, luck>>
calls == <<then, caller, frame>>

\* Bytes.  MODE stands for every command that makes one setting.
NOP == 0
STATUS == 1
BAUD == 3
PRINT == 4
MODE == 6
FEED == 10
FF == 12
RESET == 15
MODEL == 18
PING == 165

-----------------------------------------------------------------------------
(***************************************************************************)
(* The printer.                                                            *)
(***************************************************************************)

StatusOf(p) ==
  IF p.jam THEN "jam" ELSE IF p.busy \/ p.mode \in {"len", "data"} THEN "busy" ELSE "idle"

\* A change of status is reported.
Report(old, new) ==
  IF StatusOf(new) = StatusOf(old) THEN new
  ELSE [new EXCEPT !.owed = Append(@, StatusOf(new))]

Expects(b) ==
  CASE b = BAUD -> "rate" [] b \in {MODE, FF} -> "arg" [] b = PRINT -> "len" [] OTHER -> "cmd"

\* What a command is answered with.  An SLP-Pro ignores CMD_MODEL.
Answer(p, b) ==
  CASE b = PING -> <<"ping">>
    [] b = STATUS -> <<StatusOf(p)>>
    [] b = MODEL /\ Models[p.kind].modern -> <<"model">>
    [] OTHER -> <<>>

RateOf(p, b) ==
  CASE b = 0 -> 9600 [] b = 1 -> 19200 [] b = 2 -> 38400 [] b = 3 -> 57600 [] OTHER -> p.rate

\* The printer after it has understood byte b.
Obeyed(p, b) ==
  CASE p.mode = "cmd" /\ b = RESET ->
         [p EXCEPT !.rate = Models[p.kind].default, !.busy = FALSE, !.jam = FALSE, !.owed = <<"idle">>]
    [] p.mode = "cmd" /\ b # RESET ->
         [p EXCEPT !.mode = Expects(b), !.cmd = b, !.busy = @ \/ b = FEED, !.owed = @ \o Answer(p, b)]
    [] p.mode = "rate" -> [p EXCEPT !.mode = "cmd", !.rate = RateOf(p, b)]
    [] p.mode = "arg" -> [p EXCEPT !.mode = "cmd", !.busy = @ \/ (p.cmd = FF /\ b # 0)]
    [] p.mode = "len" -> [p EXCEPT !.mode = IF b = 0 THEN "cmd" ELSE "data", !.left = b]
    [] p.mode = "data" ->
         [p EXCEPT !.left = @ - 1, !.mode = IF p.left = 1 THEN "cmd" ELSE "data", !.busy = @ \/ p.left = 1]

\* A byte at the wrong rate is lost, or taken for some datum or argument.
Mangled(p) ==
  {p} \cup
  (IF p.mode = "data" THEN {Obeyed(p, NOP)}
   ELSE IF p.mode \in {"rate", "arg", "len"} THEN {[p EXCEPT !.mode = "cmd"]} ELSE {})

\* Byte b arrives.
Receives(b) ==
  IF pr.kind = "nothing" THEN pr' = pr
  ELSE IF tty.rate = pr.rate THEN pr' = Report(pr, Obeyed(pr, b))
  ELSE \E p \in Mangled(pr) : pr' = Report(pr, p)

\* The printer sends a byte.
Transmit ==
  /\ pr.owed # <<>>
  /\ pr' = [pr EXCEPT !.owed = Tail(@)]
  /\ tty' = IF at = "over" THEN tty
            ELSE [tty EXCEPT !.rx = Append(@, IF tty.rate = pr.rate THEN Head(pr.owed) ELSE "garbled")]
  /\ UNCHANGED <<at, calls, st, run, luck>>

\* Its mechanism comes to rest.
Rest ==
  /\ pr.busy /\ ~pr.jam
  /\ pr' = Report(pr, [pr EXCEPT !.busy = FALSE])
  /\ UNCHANGED <<at, calls, st, tty, run, luck>>

\* There may be more misfortunes.
Fortunate == luck.late + luck.troubles < MaxTroubles

\* It jams while it moves, and a human clears the jam.
Jams ==
  /\ pr.busy /\ ~pr.jam /\ Fortunate
  /\ pr' = Report(pr, [pr EXCEPT !.jam = TRUE])
  /\ luck' = [luck EXCEPT !.troubles = @ + 1]
  /\ UNCHANGED <<at, calls, st, tty, run>>

Cleared ==
  /\ pr.jam
  /\ pr' = Report(pr, [pr EXCEPT !.jam = FALSE])
  /\ UNCHANGED <<at, calls, st, tty, run, luck>>

Printer == Transmit \/ Rest \/ Jams \/ Cleared

-----------------------------------------------------------------------------
(***************************************************************************)
(* The driver's exchange with the line.                                    *)
(***************************************************************************)

Bits == {"garbled", "ping", "idle", "jam"}
Statuses == {"idle", "busy", "jam"}

Came(b, s) == \E i \in DOMAIN s : s[i] = b

\* What bytes that were received make of st->ps: a ping's answer is new, garbled is what
\* came last, and the final status replaces the one before.
Heard(ps, s) ==
  {b \in Bits :
     \/ b = "ping" /\ Came(b, s)
     \/ b = "garbled" /\ IF s = <<>> THEN b \in ps ELSE Last(s) = b
     \/ /\ b \in Statuses
        /\ \/ \E i \in DOMAIN s : s[i] = b /\ \A j \in DOMAIN s : s[j] \in Statuses => j <= i
           \/ b \in ps /\ \A i \in DOMAIN s : s[i] \notin Statuses}

\* sense(): everything that has arrived is read.
Sensed ==
  [st EXCEPT !.ps = Heard(@, tty.rx), !.m = IF Came("model", tty.rx) THEN pr.kind ELSE @]

Read == [tty EXCEPT !.rx = <<>>]

Sense == st' = Sensed /\ tty' = Read

\* No byte will come before a timeout, even before one that gives the printer's
\* mechanism the time to rest.
Silence(patient) == pr.owed = <<>> /\ (patient => ~pr.busy)

\* A byte that is not garbled ends a wait.
Answered == \E i \in DOMAIN tty.rx : tty.rx[i] # "garbled"

\* A timed wait is over: by an answer, by its timeout, or by a timeout that was
\* too short.
TimedOut(patient) ==
  /\ ~Answered
  /\ \/ Silence(patient) /\ UNCHANGED luck
     \/ ~Silence(patient) /\ Fortunate /\ luck' = [luck EXCEPT !.late = @ + 1]

Waited(patient) == (Answered /\ UNCHANGED luck) \/ TimedOut(patient)

\* set_baud(): the rate changes, and the input is discarded.  st->tm, the modes
\* it sets, has no CTS flow control.
Retuned(rate) ==
  [tty EXCEPT !.rate = IF rate \in HostRates THEN rate ELSE 0, !.cts = FALSE, !.rx = <<>>]

Goto(label) == at' = label

\* One byte is sent, and nothing else changes.
Send(b) == Receives(b) /\ UNCHANGED <<calls, st, tty, run, luck>>

\* A byte is sent after a look at the status: send_byte() without blind.
SendReady(b) == Receives(b) /\ Sense /\ UNCHANGED <<calls, run, luck>>

\* force(): NOPs, until the printer is idle or garbled, or enough were sent.
ForceIdle ==
  /\ at = "force"
  /\ IF st.todo < st.nslices + 2 /\ Sensed.ps \cap {"idle", "garbled"} = {}
       THEN /\ Receives(NOP)
            /\ st' = [Sensed EXCEPT !.todo = @ + 1] /\ tty' = Read
            /\ UNCHANGED at
       ELSE /\ IF st.todo < st.nslices + 2 THEN Sense ELSE UNCHANGED <<st, tty>>
            /\ Goto(then)
            /\ UNCHANGED pr
  /\ UNCHANGED <<calls, run, luck>>

\* Where wait_for_idle() goes on without success.
OnTimeout ==
  CASE then = "model" -> "hunted" [] then = "tune" -> "margin" [] then = "fed" -> "error"
    [] OTHER -> then

\* A mutant: it waits without a timeout.
WaitIdleForever ==
  /\ at = "idle"
  /\ Waited(TRUE) /\ Sense
  /\ \/ "idle" \in Sensed.ps /\ Goto(then)
     \/ "idle" \notin Sensed.ps /\ "jam" \in Sensed.ps /\ Goto("check")
     \/ Sensed.ps \cap {"idle", "jam"} = {} /\ UNCHANGED at
  /\ UNCHANGED <<calls, pr, run>>

\* wait_for_idle().  A fault is looked at again, and handled; garbled input, like a
\* fault, restarts the timeout.
WaitIdle ==
  /\ at = "idle"
  /\ Waited(TRUE) /\ Sense
  /\ IF "idle" \in Sensed.ps THEN Goto(then)
     ELSE IF "jam" \in Sensed.ps THEN Goto("check")
     ELSE IF "garbled" \in Sensed.ps \/ Answered THEN UNCHANGED at
     ELSE Goto(OnTimeout)
  /\ UNCHANGED <<calls, pr, run>>

\* Its check_fault().
CheckIdle ==
  /\ at = "check"
  /\ Waited(TRUE) /\ Sense
  /\ Goto(IF "jam" \in Sensed.ps THEN "fault" ELSE "idle")
  /\ UNCHANGED <<calls, pr, run>>

-----------------------------------------------------------------------------
(***************************************************************************)
(* connect(), up to the printer's model.                                   *)
(***************************************************************************)

\* A mutant: a ping without the NOPs.
TrySpeedUnforced ==
  /\ at = "hunt" /\ st.tried <= Len(Speeds)
  /\ IF Speeds[st.tried] \in HostRates
       THEN tty' = Retuned(Speeds[st.tried]) /\ Goto("ping") /\ UNCHANGED st
       ELSE st' = [st EXCEPT !.tried = @ + 1] /\ UNCHANGED <<at, tty>>
  /\ UNCHANGED <<calls, pr, run, luck>>

\* ping(): the next speed is tried, with force() and a ping.
TrySpeed ==
  /\ at = "hunt" /\ st.tried <= Len(Speeds)
  /\ IF Speeds[st.tried] \in HostRates
       THEN /\ tty' = Retuned(Speeds[st.tried])
            /\ st' = [st EXCEPT !.todo = 0]
            /\ Goto("force") /\ then' = "ping"
       ELSE st' = [st EXCEPT !.tried = @ + 1] /\ UNCHANGED <<at, then, tty>>
  /\ UNCHANGED <<caller, frame, pr, run, luck>>

SendPing == at = "ping" /\ Send(PING) /\ Goto("pinged")

Pinged ==
  /\ at = "pinged"
  /\ Waited(FALSE)
  /\ tty' = Read
  /\ IF "ping" \in Sensed.ps
       THEN Goto("verify") /\ st' = Sensed
       ELSE Goto("hunt") /\ st' = [Sensed EXCEPT !.tried = @ + 1]
  /\ UNCHANGED <<calls, pr, run>>

\* The connection is verified with a status request.
Verify ==
  /\ at = "verify"
  /\ Receives(STATUS)
  /\ st' = [st EXCEPT !.ps = {}] /\ tty' = Read
  /\ Goto("idle") /\ then' = "model"
  /\ UNCHANGED <<caller, frame, run, luck>>

\* ping() returns NO.
NotFound ==
  /\ at = "hunted" \/ (at = "hunt" /\ st.tried > Len(Speeds))
  /\ Goto(IF caller = "main" THEN "stop" ELSE "error")
  /\ UNCHANGED <<calls, st, tty, pr, run, luck>>

\* getmodel()
AskModel ==
  /\ at = "model"
  /\ Receives(MODEL)
  /\ st' = [st EXCEPT !.m = "NULL"]
  /\ Goto("modelled")
  /\ UNCHANGED <<calls, tty, run, luck>>

\* A mutant: only what has arrived already is read.
ModelledAtOnce ==
  /\ at = "modelled"
  /\ st' = [Sensed EXCEPT !.m = IF @ = "NULL" THEN "SLP-Pro" ELSE @]
  /\ tty' = Read
  /\ Goto(IF caller = "main" THEN "speed" ELSE "reset")
  /\ UNCHANGED <<calls, pr, run, luck>>

\* Without an answer it is an SLP-Pro.
Modelled ==
  /\ at = "modelled"
  /\ Waited(FALSE)
  /\ st' = [Sensed EXCEPT !.m = IF @ = "NULL" THEN "SLP-Pro" ELSE @]
  /\ tty' = Read
  /\ Goto(IF caller = "main" THEN "speed" ELSE "reset")
  /\ UNCHANGED <<calls, pr, run>>

-----------------------------------------------------------------------------
(***************************************************************************)
(* connect(), once the model is known: switch_baud() and the settings.     *)
(***************************************************************************)

ChooseSpeed ==
  /\ at = "speed"
  /\ LET fast == 57600 \in HostRates /\ Models[st.m].modern /\ HostCts
     IN /\ st' = [st EXCEPT !.speed = IF fast THEN 57600 ELSE 38400]
        /\ tty' = [tty EXCEPT !.cts = @ \/ fast]
  /\ Goto("switch") /\ then' = "modes"
  /\ UNCHANGED <<caller, frame, pr, run, luck>>

\* switch_baud(): the command, the printer's code for the speed, the local rate.
Limited(speed) == IF st.maxbaud > 0 /\ st.maxbaud < speed THEN st.maxbaud ELSE speed

Code(speed) == CASE speed = 19200 -> 1 [] speed = 38400 -> 2 [] speed = 57600 -> 3 [] OTHER -> 0

\* A mutant: the limit is obeyed after the printer was told the speed.
SwitchPrinterLate ==
  \/ at = "switch" /\ Send(BAUD) /\ Goto("switchCode")
  \/ /\ at = "switchCode"
     /\ Receives(Code(st.speed))
     /\ st' = [st EXCEPT !.speed = Limited(@)]
     /\ Goto("switchLocal")
     /\ UNCHANGED <<calls, tty, run, luck>>

SwitchPrinter ==
  \/ /\ at = "switch"
     /\ Receives(BAUD)
     /\ st' = [st EXCEPT !.speed = Limited(@)]
     /\ Goto("switchCode")
     /\ UNCHANGED <<calls, tty, run, luck>>
  \/ at = "switchCode" /\ Send(Code(st.speed)) /\ Goto("switchLocal")

SwitchLocal ==
  /\ at = "switchLocal"
  /\ tty' = Retuned(st.speed)
  /\ Goto("idle")
  /\ UNCHANGED <<calls, st, pr, run, luck>>

\* How many settings are sent at a place, and what follows them.
Settings ==
  [modes  |-> IF Models[st.m].modern THEN <<3, "tuning">> ELSE <<1, "margin">>,
   tune   |-> <<2, "margin">>,
   margin |-> <<1, "settled">>,
   media  |-> <<1, "sized">>]

\* set_printer_modes() and set_margin()
StartSettings ==
  \E here \in {"modes", "tune", "margin", "media"} :
    /\ at = here
    /\ st' = [st EXCEPT !.todo = Settings[here][1]]
    /\ then' = Settings[here][2]
    /\ Goto("set")
    /\ UNCHANGED <<caller, frame, tty, pr, run, luck>>

\* A mutant: one setting too many.
SetOnceMore ==
  \/ at = "set" /\ Send(MODE) /\ Goto("setArg")
  \/ /\ at = "setArg"
     /\ Receives(NOP)
     /\ st' = [st EXCEPT !.todo = @ - 1]
     /\ Goto(IF st.todo = 0 THEN then ELSE "set")
     /\ UNCHANGED <<calls, tty, run, luck>>

Set ==
  \/ at = "set" /\ Send(MODE) /\ Goto("setArg")
  \/ /\ at = "setArg"
     /\ Receives(NOP)
     /\ st' = [st EXCEPT !.todo = @ - 1]
     /\ Goto(IF st.todo = 1 THEN then ELSE "set")
     /\ UNCHANGED <<calls, tty, run, luck>>

\* The waits between them, and the one at the end of connect().
Settle ==
  /\ at \in {"tuning", "settled"}
  /\ then' = IF at = "tuning" THEN "tune" ELSE "connected"
  /\ Goto("idle")
  /\ UNCHANGED <<caller, frame, st, tty, pr, run, luck>>

\* The session stores the OPD, and setmedia() is called.
Connected ==
  /\ at = "connected"
  /\ run' = [run EXCEPT !.opened = TRUE]
  /\ Goto("media")
  /\ UNCHANGED <<calls, st, tty, pr, luck>>

Sized ==
  /\ at = "sized"
  /\ st' = [st EXCEPT !.nslices = NSlices]
  /\ Goto("label")
  /\ UNCHANGED <<calls, tty, pr, run, luck>>

-----------------------------------------------------------------------------
(***************************************************************************)
(* printlabel() and formfeed().                                            *)
(***************************************************************************)

\* Another label is printed, or main() closes the session.
NextLabel ==
  /\ at = "label"
  /\ \/ /\ run.labels < MaxLabels
        /\ run' = [run EXCEPT !.labels = @ + 1, !.bands = 0]
        /\ st' = [st EXCEPT !.todo = 3]
        /\ Goto("feed")
     \/ Goto("stop") /\ UNCHANGED <<st, run>>
  /\ UNCHANGED <<calls, tty, pr, luck>>

\* Three blank feeds, with a look for faults after each.
Feed ==
  \/ at = "feed" /\ SendReady(FEED) /\ Goto("fed1")
  \/ /\ at = "fed1"
     /\ st' = [st EXCEPT !.tof = FALSE]
     /\ Goto("fedCheck")
     /\ UNCHANGED <<calls, tty, pr, run, luck>>
  \/ /\ at = "fedCheck"
     /\ Waited(FALSE)
     /\ st' = [Sensed EXCEPT !.todo = @ - 1] /\ tty' = Read
     /\ Goto(IF "jam" \in Sensed.ps THEN "fault" ELSE IF st.todo = 1 THEN "band" ELSE "feed")
     /\ UNCHANGED <<calls, pr, run>>

\* One band: the command, the number of slices, and the slices.
Band ==
  \/ /\ at = "band"
     /\ run.bands < MaxBands /\ run' = [run EXCEPT !.bands = @ + 1]
     /\ st' = [st EXCEPT !.ps = @ \ {"idle"}]
     /\ Goto("print")
     /\ UNCHANGED <<calls, tty, pr, luck>>
  \/ at = "print" /\ SendReady(PRINT) /\ Goto("len")
  \/ /\ at = "len"
     /\ Receives(st.nslices)
     /\ st' = [Sensed EXCEPT !.todo = st.nslices] /\ tty' = Read
     /\ Goto("data")
     /\ UNCHANGED <<calls, run, luck>>
  \/ /\ at = "data"
     /\ Receives(NOP)
     /\ st' = [Sensed EXCEPT !.todo = @ - 1] /\ tty' = Read
     /\ Goto(IF st.todo = 1 THEN "bandCheck" ELSE "data")
     /\ UNCHANGED <<calls, run, luck>>

\* check_fault(); then the next band, or the last one was printed.
BandCheck ==
  /\ at = "bandCheck"
  /\ Sense
  /\ \/ "jam" \in Sensed.ps /\ Goto("fault") /\ UNCHANGED then
     \/ "jam" \notin Sensed.ps /\ run.bands < MaxBands /\ Goto("band") /\ UNCHANGED then
     \/ "jam" \notin Sensed.ps /\ Goto("idle") /\ then' = "form"
  /\ UNCHANGED <<caller, frame, pr, run, luck>>

\* formfeed(), not blind.
Form ==
  \/ at = "form" /\ SendReady(FF) /\ Goto("formArg")
  \/ at = "formArg" /\ SendReady(1) /\ Goto("formSent")
  \/ /\ at = "formSent"
     /\ st' = [st EXCEPT !.tof = TRUE]
     /\ Goto("idle") /\ then' = "fed"
     /\ UNCHANGED <<caller, frame, tty, pr, run, luck>>
  \/ /\ at = "fed"
     /\ Goto(IF caller = "main" THEN "label" ELSE "giveUp")
     /\ UNCHANGED <<calls, st, tty, pr, run, luck>>

-----------------------------------------------------------------------------
(***************************************************************************)
(* check_fault() with a fault, reset_printer(), and Error().               *)
(***************************************************************************)

Fault ==
  /\ at = "fault"
  /\ st' = [st EXCEPT !.todo = 0, !.tried = 1]
  /\ Goto("force") /\ then' = "hunt" /\ caller' = "fault"
  /\ UNCHANGED <<frame, tty, pr, run, luck>>

\* A mutant: the local rate stays the one of the ping.
ResetUntuned ==
  \/ /\ at = "reset"
     /\ Receives(RESET)
     /\ st' = [st EXCEPT !.ps = {}] /\ tty' = Read
     /\ Goto("resetSent")
     /\ UNCHANGED <<calls, run, luck>>
  \/ /\ at = "resetSent"
     /\ Goto("idle") /\ then' = "resetDone"
     /\ UNCHANGED <<caller, frame, st, tty, pr, run, luck>>
  \/ /\ at = "resetDone"
     /\ Goto(IF st.tof THEN "giveUp" ELSE "form")
     /\ UNCHANGED <<calls, st, tty, pr, run, luck>>

Reset ==
  \/ /\ at = "reset"
     /\ Receives(RESET)
     /\ st' = [st EXCEPT !.ps = {}] /\ tty' = Read
     /\ Goto("resetSent")
     /\ UNCHANGED <<calls, run, luck>>
  \/ /\ at = "resetSent"
     /\ IF Models[st.m].default \in HostRates
          THEN tty' = Retuned(Models[st.m].default) /\ Goto("idle") /\ then' = "resetDone"
          ELSE Goto("error") /\ UNCHANGED <<then, tty>>
     /\ UNCHANGED <<caller, frame, st, pr, run, luck>>
  \/ /\ at = "resetDone"
     /\ Goto(IF st.tof THEN "giveUp" ELSE "form")
     /\ UNCHANGED <<calls, st, tty, pr, run, luck>>

Ends(outcome) ==
  /\ Goto("over")
  /\ run' = [run EXCEPT !.outcome = outcome]
  /\ UNCHANGED <<calls, st, tty, pr, luck>>

\* The port is closed, and the fault reported; disconnect() finds nothing to do.
GiveUp == at = "giveUp" /\ Ends("fault")

\* Error() enters the handler with -l, once.
Error ==
  /\ at = "error"
  /\ \/ Ends("error")
     \/ /\ run.opened /\ frame = "main"
        /\ frame' = "handler" /\ Goto("stop")
        /\ UNCHANGED <<then, caller, st, tty, pr, run, luck>>

\* A signal.  While load_driver() runs, the handler finds no OPD.
Signal ==
  /\ at # "over" /\ frame = "main"
  /\ IF run.opened
       THEN frame' = "handler" /\ Goto("stop") /\ UNCHANGED <<then, caller, st, tty, pr, run, luck>>
       ELSE Ends("killed")

-----------------------------------------------------------------------------
(***************************************************************************)
(* disconnect()                                                            *)
(***************************************************************************)

Stop ==
  /\ at = "stop"
  /\ tty' = [tty EXCEPT !.cts = FALSE]
  /\ st' = [st EXCEPT !.todo = 0]
  /\ Goto("force") /\ then' = "stopped"
  /\ UNCHANGED <<caller, frame, pr, run, luck>>

Stopped ==
  /\ at = "stopped"
  /\ Goto(IF st.ps \cap {"garbled", "jam"} # {} THEN "close" ELSE IF st.tof THEN "ask" ELSE "eject")
  /\ UNCHANGED <<calls, st, tty, pr, run, luck>>

Eject ==
  \/ at = "eject" /\ Send(FF) /\ Goto("ejectArg")
  \/ at = "ejectArg" /\ Send(1) /\ Goto("ejected")
  \/ /\ at = "ejected"
     /\ st' = [st EXCEPT !.tof = TRUE]
     /\ Goto("ask")
     /\ UNCHANGED <<calls, tty, pr, run, luck>>

Ask ==
  /\ at = "ask"
  /\ Receives(STATUS)
  /\ st' = [st EXCEPT !.ps = @ \ {"idle"}]
  /\ Goto("idle") /\ then' = "restore"
  /\ UNCHANGED <<caller, frame, tty, run, luck>>

\* A mutant: the printer is switched to the speed of the session once more.
RestoreSession ==
  /\ at = "restore"
  /\ Goto("switch") /\ then' = "close"
  /\ UNCHANGED <<caller, frame, st, tty, pr, run, luck>>

\* The printer goes back to its model's rate; without a model, the process is
\* killed by the use of a null pointer.
Restore ==
  /\ at = "restore"
  /\ IF st.m = "NULL"
       THEN Ends("crashed")
       ELSE /\ st' = [st EXCEPT !.speed = Models[st.m].default]
            /\ Goto("switch") /\ then' = "close"
            /\ UNCHANGED <<caller, frame, tty, pr, run, luck>>

Close ==
  /\ at = "close"
  /\ Ends(IF frame = "handler" THEN "stopped" ELSE IF run.opened THEN "done" ELSE "absent")

-----------------------------------------------------------------------------
\* The printer answers as soon as it is asked, at a rate the host has, and its status will
\* not change.
Calm(p) ==
  /\ p.kind # "nothing" /\ StatusOf(p) = "idle" /\ p.rate \in HostRates
  /\ p.mode = "rate" => p.rate = 9600

\* opendev(), and connect() up to the tty's modes.  An earlier run, or a human,
\* may have left the printer at any rate, and inside any command.
Init ==
  /\ at = "hunt" /\ then = "ping" /\ caller = "main" /\ frame = "main"
  /\ \E b \in MaxBauds :
       st = [ps |-> {}, m |-> "NULL", tof |-> TRUE, nslices |-> MAXNOPS, maxbaud |-> b,
             tried |-> 1, speed |-> 0, todo |-> 0]
  /\ tty = [rate |-> 9600, cts |-> FALSE, rx |-> <<>>]
  /\ \E k \in DOMAIN Models \cup {"nothing"}, r \in Range(Speeds), moving \in BOOLEAN,
        where \in {"cmd", "rate", "arg", "len", "data"} :
       pr = [kind |-> k, rate |-> r, mode |-> where, cmd |-> IF where = "arg" THEN FF ELSE NOP,
             left |-> IF where = "data" THEN NSlices ELSE 0,
             busy |-> moving /\ k # "nothing", jam |-> FALSE, owed |-> <<>>]
  /\ run = [labels |-> 0, bands |-> 0, opened |-> FALSE, outcome |-> "none"]
  /\ luck = [late |-> 0, troubles |-> 0, calm |-> Calm(pr)]

Connect ==
  \/ TrySpeed \/ SendPing \/ Pinged \/ Verify \/ NotFound \/ AskModel \/ Modelled
  \/ ChooseSpeed \/ SwitchPrinter \/ SwitchLocal \/ StartSettings \/ Set \/ Settle \/ Connected \/ Sized

PrintLabel == NextLabel \/ Feed \/ Band \/ BandCheck \/ Form

Recover == Fault \/ Reset \/ GiveUp \/ Error

Disconnect == Stop \/ Stopped \/ Eject \/ Ask \/ Restore \/ Close

Driver == ForceIdle \/ WaitIdle \/ CheckIdle \/ Connect \/ PrintLabel \/ Recover \/ Disconnect

Over == at = "over" /\ UNCHANGED vars

Next == Driver \/ Signal \/ Printer \/ Over

\* The driver runs, what the printer sends arrives, its mechanism comes to rest,
\* and someone looks after a jam.
Spec ==
  /\ Init /\ [][Next]_vars
  /\ WF_vars(Driver) /\ WF_vars(Transmit) /\ WF_vars(Rest) /\ WF_vars(Cleared)

-----------------------------------------------------------------------------
Labels ==
  {"over", "hunt", "hunted", "force", "check", "ping", "pinged", "verify", "idle", "model", "modelled",
   "speed", "switch", "switchCode", "switchLocal", "modes", "tuning", "tune", "margin", "settled",
   "set", "setArg", "connected", "media", "sized", "label", "feed", "fed1", "fedCheck", "band",
   "print", "len", "data", "bandCheck", "form", "formArg", "formSent", "fed", "fault", "reset",
   "resetSent", "resetDone", "giveUp", "error", "stop", "stopped", "eject", "ejectArg", "ejected",
   "ask", "restore", "close"}

Messages == {"ping", "model", "idle", "busy", "jam", "garbled"}

TypeOK ==
  /\ at \in Labels /\ then \in Labels /\ caller \in {"main", "fault"} /\ frame \in {"main", "handler"}
  /\ st \in [ps : SUBSET Bits, m : DOMAIN Models \cup {"NULL"}, tof : BOOLEAN, nslices : {MAXNOPS, NSlices},
             maxbaud : MaxBauds \cup {0}, tried : 1..Len(Speeds) + 1, speed : Nat, todo : Nat]
  /\ tty \in [rate : HostRates \cup {0, 9600}, cts : BOOLEAN, rx : Seq(Messages)]
  /\ pr \in [kind : DOMAIN Models \cup {"nothing"}, rate : Rates,
             mode : {"cmd", "rate", "arg", "len", "data"}, cmd : Nat, left : Nat,
             busy : BOOLEAN, jam : BOOLEAN, owed : Seq(Messages)]
  /\ run \in [labels : 0..MaxLabels, bands : 0..MaxBands, opened : BOOLEAN,
              outcome : {"none", "done", "stopped", "absent", "killed", "error", "fault", "crashed"}]
  /\ luck \in [late : 0..MaxTroubles, troubles : 0..MaxTroubles, calm : BOOLEAN]

\* ping() finds a printer that is there and has nothing to do, whatever its rate,
\* and when it still waits for an argument, provided no answer is late.
FindsPrinter ==
  at \in {"hunt", "stop"} /\ caller = "main" /\ st.tried > Len(Speeds) =>
    ~luck.calm \/ luck.late > 0

\* A -b the printer has a code for, or none.
KnownLimit == st.maxbaud \in Rates \cup {0}

Setting == {"modes", "tuning", "tune", "margin", "settled", "set", "setArg", "connected", "media", "sized"}
Printing ==
  {"label", "feed", "fed1", "fedCheck", "band", "print", "len", "data", "bandCheck", "form",
   "formArg", "formSent", "fed"}

\* From switch_baud() on, main() and the printer are at the same rate and agree on
\* which bytes are commands, arguments and data.
Understood ==
  frame = "main" /\ caller = "main" /\ KnownLimit /\ at \in {"switch", "switchCode"} \cup Setting \cup Printing =>
    /\ tty.rate = pr.rate
    /\ pr.mode = "rate" <=> at = "switchCode"
    /\ pr.mode = "arg" <=> at \in {"setArg", "formArg"}
    /\ pr.mode = "len" <=> at = "len"
    /\ pr.mode = "data" <=> at = "data"
    /\ at = "data" => pr.left = st.todo

\* The model found is the printer's, unless an answer was late or another status
\* came in its place.
RightModel ==
  run.opened /\ caller = "main" /\ luck.late = 0 /\ luck.calm => st.m = pr.kind

\* A session that is closed by main(), and had a calm printer, no late answer and no
\* fault, leaves it expecting a command, at its model's own rate, or at the one of -b if
\* that is lower: disconnect()'s switch_baud() obeys -b as well.  The comment at
\* slpro.c:1326-1327 says "back to 9600 baud", which slpro.c:1333 does not do.
LeavesDefault ==
  run.outcome = "done" /\ KnownLimit /\ luck.late = 0 /\ luck.troubles = 0 /\ luck.calm =>
    pr.rate = Limited(Models[pr.kind].default) /\ pr.mode = "cmd"

\* After a reset, both ends are at the model's own rate, if the model is the right
\* one: its answer is understood, and the label that was started can be ejected.
ResetAgrees ==
  caller = "fault" /\ st.m = pr.kind
  /\ (at \in {"resetDone", "form", "formArg"} \/ (at \in {"idle", "check"} /\ then = "resetDone")) =>
    tty.rate = pr.rate

\* A signal ends the process, unless garbled input is the last that was heard.
SignalEnds == frame = "handler" ~> at = "over" \/ "garbled" \in st.ps

=============================================================================
