-------------------------------- MODULE Port --------------------------------
(***************************************************************************)
(* The serial port (port.c) and the processes that share it.  Each process *)
(* is a run of slap: load_driver() tries one driver after another, and     *)
(* each driver's connect() opens the port, locks it, sets its modes and    *)
(* looks for a printer; a process that found one prints, and closes the    *)
(* port.  The port's modes outlive the processes: each one saves them when *)
(* it opens the port, and puts back what it saved when it closes it.       *)
(*                                                                         *)
(* Of the modes there are the three that the code treats in different      *)
(* places: BRKINT, which turns noise on the line into SIGINT; CTS flow     *)
(* control; and raw, for all those that init_channel() sets at once.       *)
(***************************************************************************)
EXTENDS Naturals, Sequences

CONSTANTS
  Procs,      \* the processes
  Nobody,     \* who holds the lock when nobody does
  Drivers,    \* the drivers each process tries, in order: "plus" or "pro" (its -m flag)
  Attempts,   \* how often fxlock() asks again for the lock before its time is over
  HostCts,    \* does the host have CTS flow control (CRTSCTS)?
  MaxSignals  \* bound on the SIGINTs sent to each process

ASSUME PortAssumption ==
  /\ Nobody \notin Procs
  /\ Drivers \in [Procs -> Seq({"plus", "pro"}) \ {<<>>}]
  /\ Attempts \in Nat /\ HostCts \in BOOLEAN
  /\ MaxSignals \in [Procs -> Nat]

VARIABLES
  at,     \* where each process is
  named,  \* has each process a port by name?  The target "-" is standard-output
  modes,  \* the port's modes
  otm,    \* the modes each process saved (st->otm)
  tm,     \* the modes each process works with (opentty()'s tm, then st->tm)
  fds,    \* how many descriptors of the port each process has open
  owner,  \* the process that has the lock
  sig,    \* of each process: is SIGINT blocked, is it pending, how many were
          \* sent, and does the handler run
  proc,   \* of each process: its driver's index, its attempts at the lock, and
          \* whether the session has stored the OPD
  found,  \* history: the port's modes at the beginning
  events  \* history: what has happened to the port: "overlap", two processes had it open;
          \* "died", one ended without closing it; "stuck", modes were not restored

vars == <<at, named, modes, otm, tm, fds, owner, sig, proc, found, events>>
copies == <<otm, tm>>
holds == <<fds, owner>>
past == <<found, events>>

Modes == [brkint : BOOLEAN, cts : BOOLEAN, raw : BOOLEAN]

Goto(p, label) == at' = [at EXCEPT ![p] = label]

\* SIGINT, when it is not blocked, comes before anything else.
Runs(p, label) == at[p] = label /\ (sig[p].pending => sig[p].blocked)

Note(what) == events' = events \cup what /\ UNCHANGED found

Block(p) == sig' = [sig EXCEPT ![p].blocked = TRUE]

\* SIG_SETMASK with oldmask: in the handler SIGINT stays blocked.
Unblock(p) == sig' = [sig EXCEPT ![p].blocked = sig[p].handler]

\* close(): any one of a process's descriptors takes its lock with it.
CloseOne(p) ==
  /\ fds' = [fds EXCEPT ![p] = @ - 1]
  /\ owner' = IF owner = p THEN Nobody ELSE owner

\* The process ends, and the kernel closes what it has open.
End(p) ==
  /\ Goto(p, "ended")
  /\ fds' = [fds EXCEPT ![p] = 0]
  /\ owner' = IF owner = p THEN Nobody ELSE owner
  /\ Note(IF fds[p] > 0 THEN {"died"} ELSE {})

SetModes(m) == modes' = m

-----------------------------------------------------------------------------
(***************************************************************************)
(* opentty()                                                               *)
(***************************************************************************)

\* An early return restores the mask, closes the file and reports -1.
Fail(p) == Goto(p, "failed") /\ CloseOne(p) /\ Unblock(p)

\* SIGINT is blocked; then open(), or dup() of standard-output and a look at what it
\* is open for.
Open(p) ==
  /\ Runs(p, "start")
  /\ \/ /\ Block(p)
        /\ Goto(p, "save")
        /\ fds' = [fds EXCEPT ![p] = @ + 1]
        /\ Note(IF \E q \in Procs \ {p} : fds[q] > 0 THEN {"overlap"} ELSE {})
     \/ Goto(p, "failed") /\ UNCHANGED <<fds, sig, past>>
  /\ UNCHANGED <<named, modes, copies, owner, proc>>

\* A mutant: BRKINT is forgotten.
SaveNoisy(p) ==
  /\ Runs(p, "save")
  /\ \/ /\ otm' = [otm EXCEPT ![p] = modes]
        /\ tm' = [tm EXCEPT ![p] = modes]
        /\ Goto(p, "suppress") /\ UNCHANGED <<holds, sig>>
     \/ Fail(p) /\ UNCHANGED copies
  /\ UNCHANGED <<named, modes, proc, past>>

\* The flags are set.  The modes are saved for closetty(), and read to be changed; a
\* file that is not a terminal is found out here.
SaveModes(p) ==
  /\ Runs(p, "save")
  /\ \/ /\ otm' = [otm EXCEPT ![p] = modes]
        /\ tm' = [tm EXCEPT ![p] = [modes EXCEPT !.brkint = FALSE]]
        /\ Goto(p, "suppress") /\ UNCHANGED <<holds, sig>>
     \/ Fail(p) /\ UNCHANGED copies
  /\ UNCHANGED <<named, modes, proc, past>>

\* BRKINT is turned off, both queues are discarded, and SIGINT is let through.
Suppress(p) ==
  /\ Runs(p, "suppress")
  /\ \/ SetModes(tm[p]) /\ Unblock(p) /\ Goto(p, "lock") /\ UNCHANGED holds
     \/ Fail(p) /\ UNCHANGED modes
  /\ UNCHANGED <<named, copies, proc, past>>

-----------------------------------------------------------------------------
(***************************************************************************)
(* connect(): the lock, the modes, the printer.                            *)
(***************************************************************************)

\* Error() exits, or its SIGABRT finds a session without an OPD.
Error(p) ==
  /\ Runs(p, "failed") \/ Runs(p, "error")
  /\ End(p)
  /\ UNCHANGED <<named, modes, copies, sig, proc>>

\* A mutant: when its time is over fxlock() says YES.
LockAnyway(p) ==
  /\ Runs(p, "lock")
  /\ \/ (~named[p] \/ proc[p].tries = Attempts) /\ Goto(p, "init") /\ UNCHANGED <<owner, proc>>
     \/ named[p] /\ owner \in {p, Nobody} /\ owner' = p /\ Goto(p, "init") /\ UNCHANGED proc
     \/ /\ named[p] /\ owner \notin {p, Nobody} /\ proc[p].tries < Attempts
        /\ proc' = [proc EXCEPT ![p].tries = @ + 1] /\ UNCHANGED <<at, owner>>
  /\ UNCHANGED <<named, modes, copies, fds, sig, past>>

\* A mutant: fxlock() has no timeout.
LockForever(p) ==
  /\ Runs(p, "lock")
  /\ \/ ~named[p] /\ UNCHANGED owner
     \/ named[p] /\ owner \in {p, Nobody} /\ owner' = p
  /\ Goto(p, "init")
  /\ UNCHANGED <<named, modes, copies, fds, sig, proc, past>>

\* fxlock(): the lock is granted; or another process has it, and is waited for;
\* or the file cannot be locked, or the time is over.  Standard-output is not locked.
Lock(p) ==
  /\ Runs(p, "lock")
  /\ \/ ~named[p] /\ Goto(p, "init") /\ UNCHANGED <<owner, proc>>
     \/ named[p] /\ owner \in {p, Nobody} /\ owner' = p /\ Goto(p, "init") /\ UNCHANGED proc
     \/ /\ named[p] /\ owner \notin {p, Nobody} /\ proc[p].tries < Attempts
        /\ proc' = [proc EXCEPT ![p].tries = @ + 1] /\ UNCHANGED <<at, owner>>
     \/ /\ named[p] /\ (owner \notin {p, Nobody} => proc[p].tries = Attempts)
        /\ Goto(p, "error") /\ UNCHANGED <<owner, proc>>
  /\ UNCHANGED <<named, modes, copies, fds, sig, past>>

\* init_channel(): raw modes and no BRKINT; CTS flow control stays as it is.
InitChannel(p) ==
  /\ Runs(p, "init")
  /\ \/ /\ tm' = [tm EXCEPT ![p] = [modes EXCEPT !.raw = TRUE, !.brkint = FALSE]]
        /\ SetModes(tm'[p])
        /\ Goto(p, "probe")
     \/ Goto(p, "error") /\ UNCHANGED <<tm, modes>>
  /\ UNCHANGED <<named, otm, holds, sig, proc, past>>

\* ping() and what follows it: the printer is there, or not, or the line fails.
Probe(p) ==
  /\ Runs(p, "probe")
  /\ \E next \in {"ready", "close", "error"} : Goto(p, next)
  /\ UNCHANGED <<named, modes, copies, holds, sig, proc, past>>

\* With the printer found, BRKINT is turned on.
Ready(p) ==
  /\ Runs(p, "ready")
  /\ tm' = [tm EXCEPT ![p].brkint = TRUE]
  /\ SetModes(tm'[p])
  /\ Goto(p, IF Drivers[p][proc[p].driver] = "pro" THEN "cts" ELSE "store")
  /\ UNCHANGED <<named, otm, holds, sig, proc, past>>

\* use_cts(), for a model that has CTS flow control.
UseCts(p) ==
  /\ Runs(p, "cts")
  /\ \/ HostCts /\ SetModes([modes EXCEPT !.cts = TRUE])
     \/ UNCHANGED modes
  /\ Goto(p, "tune")
  /\ UNCHANGED <<named, copies, holds, sig, proc, past>>

\* switch_baud() sets st->tm, which use_cts() has not touched; or the line fails.
Tune(p) ==
  /\ Runs(p, "tune")
  /\ \/ SetModes(tm[p]) /\ Goto(p, "store")
     \/ Goto(p, "error") /\ UNCHANGED modes
  /\ UNCHANGED <<named, copies, holds, sig, proc, past>>

\* load_driver() returns, and the session stores the OPD.
Store(p) ==
  /\ Runs(p, "store")
  /\ proc' = [proc EXCEPT ![p].stored = TRUE]
  /\ Goto(p, "use")
  /\ UNCHANGED <<named, modes, copies, holds, sig, past>>

\* recv_bytes() sets st->tm whenever its timeout is another one than the last.
SetTimeout(p) ==
  /\ \E here \in {"probe", "tune", "store", "use"} : Runs(p, here)
  /\ SetModes(tm[p])
  /\ UNCHANGED <<at, named, copies, holds, sig, proc, past>>

\* The input is exhausted, and the session closed.
Finish(p) ==
  /\ Runs(p, "use")
  /\ Goto(p, "close")
  /\ UNCHANGED <<named, modes, copies, holds, sig, proc, past>>

-----------------------------------------------------------------------------
(***************************************************************************)
(* disconnect(), and its closetty().                                       *)
(***************************************************************************)

\* avoid_cts() is the SLP-Pro driver's; the printer is waited for, which may set st->tm
\* once more; closetty() blocks SIGINT.  An Error() on the way ends a process that is in
\* the handler, or has no OPD for it; any other one begins anew.
Disconnect(p) ==
  /\ Runs(p, "close")
  /\ \/ SetModes([modes EXCEPT !.cts = @ /\ Drivers[p][proc[p].driver] # "pro"])
     \/ SetModes(tm[p])
  /\ \/ Block(p) /\ Goto(p, "restore")
     \/ (sig[p].handler \/ ~proc[p].stored) /\ Goto(p, "error") /\ UNCHANGED sig
  /\ UNCHANGED <<named, copies, holds, proc, past>>

\* A mutant: the modes the driver worked with are put back.
RestoreOwn(p) ==
  /\ Runs(p, "restore")
  /\ SetModes(tm[p]) /\ Goto(p, "closefd")
  /\ UNCHANGED <<named, copies, holds, sig, proc, past>>

\* The saved modes are put back; when that fails, the file stays open.
Restore(p) ==
  /\ Runs(p, "restore")
  /\ \/ SetModes(otm[p]) /\ Goto(p, "closefd") /\ UNCHANGED <<sig, past>>
     \/ Goto(p, "closed") /\ Unblock(p) /\ Note({"stuck"}) /\ UNCHANGED modes
  /\ UNCHANGED <<named, copies, holds, proc>>

CloseFile(p) ==
  /\ Runs(p, "closefd")
  /\ CloseOne(p)
  /\ Unblock(p)
  /\ Goto(p, "closed")
  /\ UNCHANGED <<named, modes, copies, proc, past>>

\* load_driver() tries the next driver, or the process has nothing left to do.
Closed(p) ==
  /\ Runs(p, "closed")
  /\ IF ~proc[p].stored /\ proc[p].driver < Len(Drivers[p])
       THEN /\ proc' = [proc EXCEPT ![p].driver = @ + 1, ![p].tries = 0]
            /\ Goto(p, "start")
            /\ UNCHANGED <<holds, past>>
       ELSE End(p) /\ UNCHANGED proc
  /\ UNCHANGED <<named, modes, copies, sig>>

-----------------------------------------------------------------------------
(***************************************************************************)
(* SIGINT comes from a human, from another process, or from noise on a     *)
(* port that has BRKINT and is the process's controlling terminal.         *)
(***************************************************************************)

Interrupt(p) ==
  /\ at[p] # "ended" /\ sig[p].sent < MaxSignals[p]
  /\ sig' = [sig EXCEPT ![p].pending = TRUE, ![p].sent = @ + 1]
  /\ UNCHANGED <<at, named, modes, copies, holds, proc, past>>

\* handle_signal() closes the session, if the OPD was stored.  A process that had
\* closed the port itself ends in one way or another.
Deliver(p) ==
  /\ at[p] # "ended" /\ sig[p].pending /\ ~sig[p].blocked
  /\ IF proc[p].stored /\ at[p] \in {"use", "close"}
       THEN /\ sig' = [sig EXCEPT ![p].pending = FALSE, ![p].blocked = TRUE, ![p].handler = TRUE]
            /\ Goto(p, "close")
            /\ UNCHANGED <<holds, past>>
       ELSE End(p) /\ UNCHANGED sig
  /\ UNCHANGED <<named, modes, copies, proc>>

-----------------------------------------------------------------------------
Init ==
  /\ at = [p \in Procs |-> "start"]
  /\ named \in [Procs -> BOOLEAN]
  /\ modes \in {m \in Modes : ~m.raw}
  /\ otm = [p \in Procs |-> modes] /\ tm = [p \in Procs |-> modes]
  /\ fds = [p \in Procs |-> 0] /\ owner = Nobody
  /\ sig = [p \in Procs |-> [blocked |-> FALSE, pending |-> FALSE, handler |-> FALSE, sent |-> 0]]
  /\ proc = [p \in Procs |-> [driver |-> 1, tries |-> 0, stored |-> FALSE]]
  /\ found = modes /\ events = {}

OpenTty(p) == Open(p) \/ SaveModes(p) \/ Suppress(p)

Connect(p) ==
  Lock(p) \/ InitChannel(p) \/ Probe(p) \/ Ready(p) \/ UseCts(p) \/ Tune(p) \/ Store(p) \/ Error(p)

CloseTty(p) == Disconnect(p) \/ Restore(p) \/ CloseFile(p) \/ Closed(p)

\* What a process does by itself.
Step(p) == OpenTty(p) \/ Connect(p) \/ CloseTty(p) \/ Deliver(p)

Ended == (\A p \in Procs : at[p] = "ended") /\ UNCHANGED vars

Next ==
  \/ \E p \in Procs : Step(p) \/ SetTimeout(p) \/ Finish(p) \/ Interrupt(p)
  \/ Ended

\* The processes run; how long one prints is up to its input, its printer and its human.
Spec == Init /\ [][Next]_vars /\ \A p \in Procs : WF_vars(Step(p))

-----------------------------------------------------------------------------
OpenLabels == {"save", "suppress"}
WorkLabels == {"init", "probe", "ready", "cts", "tune", "store", "use", "close", "restore", "closefd"}
Labels == {"start", "failed", "lock", "error", "closed", "ended"} \cup OpenLabels \cup WorkLabels

SigState == [blocked : BOOLEAN, pending : BOOLEAN, handler : BOOLEAN, sent : Nat]

ProcState == [driver : Nat \ {0}, tries : 0..Attempts, stored : BOOLEAN]

TypeOK ==
  /\ at \in [Procs -> Labels]
  /\ named \in [Procs -> BOOLEAN]
  /\ modes \in Modes /\ otm \in [Procs -> Modes] /\ tm \in [Procs -> Modes]
  /\ fds \in [Procs -> Nat]
  /\ owner \in Procs \cup {Nobody}
  /\ sig \in [Procs -> SigState]
  /\ proc \in [Procs -> ProcState]
  /\ found \in Modes /\ events \subseteq {"overlap", "died", "stuck"}

\* fxlock() (port.c:69-104): of the processes that opened the port by its name, one at
\* most has got past the lock and not yet closed the port.
Exclusive ==
  \A p, q \in Procs :
    named[p] /\ named[q] /\ at[p] \in WorkLabels /\ at[q] \in WorkLabels => p = q

\* Whoever opens the port and finds another process there disturbs it, before
\* fxlock() can say that the port is in use.
Disturbed == events # {}

\* opentty() and closetty() leave the port as they found it ("the caller can restore
\* the extant port settings", port.c:131-135), after any number of drivers, failures and signals;
\* unless two processes had it open at the same time, whatever the lock told the second, or
\* one ended between the two, or the port refused its modes.
LeftAsFound == (\A p \in Procs : fds[p] = 0) /\ ~Disturbed => modes = found

\* An opentty() that fails, at whichever of its calls, leaves nothing behind: SIGINT is
\* as it was, and no descriptor is open but one that an earlier closetty() could not close.
FailsClean ==
  \A p \in Procs : at[p] = "failed" =>
    /\ sig[p].blocked = sig[p].handler
    /\ fds[p] > 0 => "stuck" \in events

\* While a process looks for a printer, noise on the line is not a SIGINT
\* (port.c:125-126, slplus.c:983-986), unless another process has set the modes.
NoiseIsHarmless ==
  \A p \in Procs : at[p] \in {"lock", "init", "probe", "ready"} /\ "overlap" \notin events => ~modes.brkint

\* A process that finds the port locked ends its wait, whatever the other one does.
WaitIsBounded == \A p \in Procs : at[p] = "lock" ~> at[p] # "lock"

=============================================================================
