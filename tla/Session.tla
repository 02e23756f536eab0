------------------------------- MODULE Session -------------------------------
(***************************************************************************)
(* One run of the slap process: main() (slap.c) opens a session on a       *)
(* printer (session.c, glue.c), renders the input, and closes it.  Five    *)
(* signals are caught (sig.c) and their handler also closes the session,   *)
(* from whatever point main() had reached; Error() reaches the same        *)
(* handler by sending SIGABRT to its own process.                          *)
(*                                                                         *)
(* There are two frames of control: main() and the handler that interrupts *)
(* it.  A caught signal never returns, so main() never resumes.  The       *)
(* device driver is abstracted to the calls of slap.h: what it does to the *)
(* port, the descriptor it makes and destroys, and where it may call       *)
(* Error().                                                                *)
(***************************************************************************)
EXTENDS Naturals, Sequences

CONSTANTS Sigs,        \* the array sigs[]: the signals a session catches
          ABRT,        \* SIGABRT, which Error() sends
          Outside,     \* the signals another process may send
          MaxMatches   \* bound on the drivers[] entries that a model name selects

Signals == {Sigs[i] : i \in 1..Len(Sigs)}

ASSUME SessionAssumption ==
  /\ Sigs \in Seq(Signals)
  /\ ABRT \in Signals
  /\ Outside \subseteq Signals
  /\ MaxMatches \in Nat

VARIABLES at,          \* where each frame is: [main, handler]
          lp_messages, \* the -l flag
          sd,          \* the SESSION structure: "none", "live", "freed"
          sdopd,       \* is sd->opd non-NULL?
          opd,         \* the OPD: "none", "valid", "closing", "destroyed"
          port,        \* the device: "quiet", or "held" by a driver that changed its modes
          arena,       \* sd->arena.bm: "none", "held", "freed" (the pointer stays)
          matches,     \* drivers[] entries still to be tried by load_driver
          ncaught,     \* how many of sigs[] open_session has caught
          disp,        \* disposition of each signal
          blocked,     \* the process's signal mask
          pending,     \* generated and not yet delivered
          hsig,        \* the signal being handled, once the handler has started
          ended,       \* "running", or how the process ended
          killer,      \* the signal that killed it, when ended = "killed"
          closers,     \* history: the frames that have called the driver's close()
          misused      \* history: was a closing or destroyed OPD passed to a driver, memory
                       \* that was already freed used again, or junk taken for a pointer?

vars == <<at, lp_messages, sd, sdopd, opd, port, arena, matches, ncaught, disp,
          blocked, pending, hsig, ended, killer, closers, misused>>
device == <<sdopd, opd, port, arena, matches>>
sigstate == <<ncaught, disp, blocked, hsig>>
fate == <<ended, killer>>
history == <<closers, misused>>

Frames == {"main", "handler"}
OpenLabels == {"baud", "media", "catch", "linking", "probe", "opening", "connecting", "opened"}
UseLabels == {"setmedia", "mapping", "font", "print", "printing"}
RejectLabels == {"rej_call", "rej_disconnect", "rej_destroy"}
FinalLabels == {"fin_call", "fin_disconnect", "fin_destroy", "fin_arena", "fin_free", "fin_exit"}
HandlerLabels == {"idle", "h_call", "h_disconnect", "h_destroy", "h_arena", "h_free",
                  "h_after", "h_unblock", "h_exit"}
ErrorLabels == {"error", "aborted"}
MainLabels == OpenLabels \cup UseLabels \cup RejectLabels \cup FinalLabels \cup ErrorLabels

-----------------------------------------------------------------------------
(***************************************************************************)
(* Signals.                                                                *)
(***************************************************************************)

Handling == at["handler"] # "idle"

Deliverable == pending \ blocked

\* Frame f executes its next instruction: signals are delivered first, and
\* main() is suspended while the handler runs.
Runs(f, label) ==
  /\ ended = "running"
  /\ Deliverable = {}
  /\ Handling <=> f = "handler"
  /\ at[f] = label

Goto(f, label) == at' = [at EXCEPT ![f] = label]

\* An ignored signal is discarded when it is generated.
Generate(s) == pending' = IF disp[s] = "IGN" THEN pending ELSE pending \cup {s}

\* sigcatch(): the disposition of s becomes how, unless s is being ignored
\* and the caller does not insist.
SigCatch(s, how, force) ==
  disp' = IF ~force /\ disp[s] = "IGN" THEN disp ELSE [disp EXCEPT ![s] = how]

\* The mask open_session gives sigcatch: every signal of sigs[].
HandlerMask == Signals

\* Another process sends a signal.
Raise(s) ==
  /\ ended = "running"
  /\ s \notin pending
  /\ disp[s] # "IGN"
  /\ Generate(s)
  /\ UNCHANGED <<at, lp_messages, sd, device, sigstate, fate, history>>

\* Delivery of a caught signal: chain_handler finds the session's handler,
\* which runs with its mask and the signal itself blocked.
Enter(s) ==
  /\ ended = "running"
  /\ s \in Deliverable
  /\ disp[s] = "CATCH"
  /\ pending' = pending \ {s}
  /\ blocked' = blocked \cup HandlerMask \cup {s}
  /\ hsig' = s
  /\ Goto("handler", "h_call")
  /\ UNCHANGED <<lp_messages, sd, device, ncaught, disp, fate, history>>

\* chain_handler meets an ACTION that sigcatch has linked and not filled in: if what its
\* memory holds is the signal's number, it calls what it takes for a handler.
EnterJunk(s) ==
  /\ ended = "running"
  /\ s \in Deliverable
  /\ disp[s] = "CATCH" /\ at["main"] = "linking"
  /\ pending' = pending \ {s}
  /\ ended' = "crashed"
  /\ misused' = TRUE
  /\ UNCHANGED <<at, lp_messages, sd, device, sigstate, killer, closers>>

\* Delivery of a signal with its default action.
Die(s) ==
  /\ ended = "running"
  /\ s \in Deliverable
  /\ disp[s] = "DFL"
  /\ pending' = pending \ {s}
  /\ ended' = "killed"
  /\ killer' = s
  /\ UNCHANGED <<at, lp_messages, sd, device, sigstate, history>>

-----------------------------------------------------------------------------
(***************************************************************************)
(* Error(): with -l the message is printed here and the process aborts     *)
(* itself; without it verror() prints the message and exits.               *)
(***************************************************************************)

ErrorExit(f) ==
  /\ Runs(f, "error")
  /\ ~lp_messages
  /\ ended' = "failure"
  /\ UNCHANGED <<at, lp_messages, sd, device, sigstate, pending, killer, history>>

ErrorAbort(f) ==
  /\ Runs(f, "error")
  /\ lp_messages
  /\ Generate(ABRT)
  /\ Goto(f, "aborted")
  /\ UNCHANGED <<lp_messages, sd, device, sigstate, fate, history>>

\* A mutant: an Error() that waits for its signal for ever.
AbortedWaits(f) == FALSE

\* The signal did not end the process: exit.
AbortedExit(f) ==
  /\ Runs(f, "aborted")
  /\ ended' = "failure"
  /\ UNCHANGED <<at, lp_messages, sd, device, sigstate, pending, killer, history>>

-----------------------------------------------------------------------------
(***************************************************************************)
(* The driver's close(), and close_session().  They run in either frame,   *)
(* so their labels are parameters.                                         *)
(***************************************************************************)

\* drv.close(sd->opd) is called.  With a destroyed OPD, or a session that
\* was freed, the call reads freed memory: it may work, or crash.
CallClose(f, here, next, skip) ==
  /\ Runs(f, here)
  /\ IF sdopd
       THEN /\ closers' = closers \cup {f}
            /\ misused' = (misused \/ opd # "valid" \/ sd # "live")
            /\ opd' = IF opd = "valid" THEN "closing" ELSE opd
            /\ \/ Goto(f, next) /\ ended' = ended
               \/ opd = "destroyed" /\ ended' = "crashed" /\ at' = at
       ELSE Goto(f, skip) /\ UNCHANGED <<history, opd, ended>>
  /\ UNCHANGED <<lp_messages, sd, sdopd, port, arena, matches, sigstate, pending, killer>>

\* A mutant: disconnect() without its closetty().
DisconnectOnly(f, here, next) ==
  /\ Runs(f, here)
  /\ Goto(f, next)
  /\ UNCHANGED <<lp_messages, sd, device, sigstate, pending, fate, history>>

\* disconnect(): the printer is made idle and the port given back.
Disconnect(f, here, next) ==
  /\ Runs(f, here)
  /\ port' = "quiet"
  /\ Goto(f, next)
  /\ UNCHANGED <<lp_messages, sd, sdopd, opd, arena, matches, sigstate, pending, fate, history>>

\* A read, write or printer fault during disconnect() calls Error(), before
\* or after the port was given back.
DisconnectError(f, here) ==
  /\ Runs(f, here)
  /\ port' \in {port, "quiet"}
  /\ Goto(f, "error")
  /\ UNCHANGED <<lp_messages, sd, sdopd, opd, arena, matches, sigstate, pending, fate, history>>

\* The rest of closedev() frees the map and the OPD.
Destroy(f, here, next) ==
  /\ Runs(f, here)
  /\ opd' = "destroyed"
  /\ Goto(f, next)
  /\ UNCHANGED <<lp_messages, sd, sdopd, port, arena, matches, sigstate, pending, fate, history>>

\* The handler interrupted setmedia() where it fills the map: closedev() frees what the
\* memory of the bands that are not filled yet happens to hold.
DestroyJunk(f, here) ==
  /\ Runs(f, here)
  /\ at["main"] = "mapping"
  /\ misused' = TRUE
  /\ ended' = "crashed"
  /\ UNCHANGED <<at, lp_messages, sd, device, sigstate, pending, killer, closers>>

\* close_session() frees the bitmap: the pointer to it is not cleared.
FreeArena(f, here, next) ==
  /\ Runs(f, here)
  /\ arena' = IF arena = "none" THEN "none" ELSE "freed"
  /\ misused' = (misused \/ arena = "freed")
  /\ Goto(f, next)
  /\ UNCHANGED <<lp_messages, sd, sdopd, opd, port, matches, sigstate, pending, fate, closers>>

FreeSession(f, here, next) ==
  /\ Runs(f, here)
  /\ sd' = "freed"
  /\ misused' = (misused \/ sd = "freed")
  /\ Goto(f, next)
  /\ UNCHANGED <<lp_messages, device, sigstate, pending, fate, closers>>

-----------------------------------------------------------------------------
(***************************************************************************)
(* main(), up to the moment the session is open.                           *)
(***************************************************************************)

\* A step of main() that can only go on, or call Error().
MainChecks(here, next) ==
  /\ Runs("main", here)
  /\ at' \in {[at EXCEPT !["main"] = next], [at EXCEPT !["main"] = "error"]}
  /\ UNCHANGED <<lp_messages, sd, device, sigstate, pending, fate, history>>

SetBaudMapping == MainChecks("baud", "media")

\* open_session() buys the session and looks up the media: Error() if it is unknown.
LookupMedia ==
  /\ Runs("main", "media")
  /\ sd' = "live"
  /\ at' \in {[at EXCEPT !["main"] = "catch"], [at EXCEPT !["main"] = "error"]}
  /\ UNCHANGED <<lp_messages, device, sigstate, pending, fate, history>>

\* sigcatch() blocks the signal, and links a new ACTION for it into the list ...
LinkAction ==
  /\ Runs("main", "catch")
  /\ ncaught < Len(Sigs)
  /\ blocked' = {Sigs[ncaught + 1]}
  /\ Goto("main", "linking")
  /\ UNCHANGED <<lp_messages, sd, device, ncaught, disp, hsig, pending, fate, history>>

\* ... fills it in, installs the handler, and restores the mask.
CatchSignal ==
  /\ Runs("main", "linking")
  /\ SigCatch(Sigs[ncaught + 1], "CATCH", TRUE)
  /\ ncaught' = ncaught + 1
  /\ blocked' = {}
  /\ Goto("main", "catch")
  /\ UNCHANGED <<lp_messages, sd, device, hsig, pending, fate, history>>

CaughtAll ==
  /\ Runs("main", "catch")
  /\ ncaught = Len(Sigs)
  /\ Goto("main", "probe")
  /\ UNCHANGED <<lp_messages, sd, device, sigstate, pending, fate, history>>

\* load_driver(): try the next entry of drivers[] that matches the name.
Probe ==
  /\ Runs("main", "probe")
  /\ Goto("main", IF matches = 0 THEN "error" ELSE "opening")
  /\ matches' = IF matches = 0 THEN 0 ELSE matches - 1
  /\ UNCHANGED <<lp_messages, sd, sdopd, opd, port, arena, sigstate, pending, fate, history>>

\* The driver's open() opens the port and changes its modes, or calls Error().
OpenPort ==
  /\ Runs("main", "opening")
  /\ \/ port' = "held" /\ Goto("main", "connecting")
     \/ port' = port /\ Goto("main", "error")
  /\ UNCHANGED <<lp_messages, sd, sdopd, opd, arena, matches, sigstate, pending, fate, history>>

\* It then looks for a printer of its family: it returns an OPD, or gives the
\* port back and returns NULL, or calls Error().
Connect ==
  /\ Runs("main", "connecting")
  /\ \/ opd' = "valid" /\ port' = port /\ Goto("main", "opened")
     \/ opd' = opd /\ port' = "quiet" /\ Goto("main", "probe")
     \/ opd' = opd /\ port' = port /\ Goto("main", "error")
  /\ UNCHANGED <<lp_messages, sd, sdopd, arena, matches, sigstate, pending, fate, history>>

\* load_driver() returns and open_session() stores the OPD.
StoreOpd ==
  /\ Runs("main", "opened")
  /\ sdopd' = TRUE
  /\ Goto("main", "setmedia")
  /\ UNCHANGED <<lp_messages, sd, opd, port, arena, matches, sigstate, pending, fate, history>>

\* A mutant: a driver that destroys its OPD itself when it refuses the media.
SetMediaDestroys ==
  /\ Runs("main", "setmedia")
  /\ \/ arena' = "held" /\ opd' = opd /\ port' = port /\ Goto("main", "mapping")
     \/ arena' = arena /\ opd' = "destroyed" /\ port' = "quiet" /\ Goto("main", "error")
  /\ UNCHANGED <<lp_messages, sd, sdopd, matches, sigstate, pending, fate, history>>

\* drv.setmedia() gives the session its bitmap, or refuses the media, or
\* calls Error() (the SLP-Pro driver, when it sends the margin).
SetMedia ==
  /\ Runs("main", "setmedia")
  /\ \/ arena' = "held" /\ at' \in {[at EXCEPT !["main"] = "mapping"], [at EXCEPT !["main"] = "error"]}
     \/ arena' = arena /\ Goto("main", "rej_call")
  /\ UNCHANGED <<lp_messages, sd, sdopd, opd, port, matches, sigstate, pending, fate, history>>

\* It has allocated the driver's map, and goes through its bands.
MapBands ==
  /\ Runs("main", "mapping")
  /\ Goto("main", "font")
  /\ UNCHANGED <<lp_messages, sd, device, sigstate, pending, fate, history>>

\* Refused: open_session() closes the driver itself, then calls Error().
RejectMedia ==
  \/ CallClose("main", "rej_call", "rej_disconnect", "error")
  \/ Disconnect("main", "rej_disconnect", "rej_destroy")
  \/ DisconnectError("main", "rej_disconnect")
  \/ Destroy("main", "rej_destroy", "error")

-----------------------------------------------------------------------------
(***************************************************************************)
(* main(), with the session open.                                          *)
(***************************************************************************)

LocateFont == MainChecks("font", "print")

\* render() sends a label that has marks on it to the driver.
StartLabel ==
  /\ Runs("main", "print")
  /\ Goto("main", "printing")
  /\ UNCHANGED <<lp_messages, sd, device, sigstate, pending, fate, history>>

PrintLabel == MainChecks("printing", "print")

\* The input is exhausted.
InputDone ==
  /\ Runs("main", "print")
  /\ Goto("main", "fin_call")
  /\ UNCHANGED <<lp_messages, sd, device, sigstate, pending, fate, history>>

\* main()'s own call of close_session(), and its return.
FinalClose ==
  \/ CallClose("main", "fin_call", "fin_disconnect", "fin_arena")
  \/ Disconnect("main", "fin_disconnect", "fin_destroy")
  \/ DisconnectError("main", "fin_disconnect")
  \/ Destroy("main", "fin_destroy", "fin_arena")
  \/ FreeArena("main", "fin_arena", "fin_free")
  \/ FreeSession("main", "fin_free", "fin_exit")

ExitSuccess ==
  /\ Runs("main", "fin_exit")
  /\ ended' = "success"
  /\ UNCHANGED <<at, lp_messages, sd, device, sigstate, pending, killer, history>>

-----------------------------------------------------------------------------
(***************************************************************************)
(* handle_signal().                                                        *)
(***************************************************************************)

\* A mutant: a handler that frees the session without closing the driver.
HandlerFrees ==
  \/ /\ Runs("handler", "h_call")
     /\ Goto("handler", "h_arena")
     /\ UNCHANGED <<lp_messages, sd, device, sigstate, pending, fate, history>>
  \/ FreeArena("handler", "h_arena", "h_free")
  \/ FreeSession("handler", "h_free", "h_after")

\* Its call of close_session(), on the session main() opened.
HandlerClose ==
  \/ CallClose("handler", "h_call", "h_disconnect", "h_arena")
  \/ Disconnect("handler", "h_disconnect", "h_destroy")
  \/ DisconnectError("handler", "h_disconnect")
  \/ Destroy("handler", "h_destroy", "h_arena")
  \/ DestroyJunk("handler", "h_destroy")
  \/ FreeArena("handler", "h_arena", "h_free")
  \/ FreeSession("handler", "h_free", "h_after")

\* SIGABRT came from Error(): exit.  Any other signal gets its default
\* disposition back and is sent again ...
Resend ==
  /\ Runs("handler", "h_after")
  /\ IF hsig = ABRT
       THEN Goto("handler", "h_exit") /\ UNCHANGED <<disp, pending>>
       ELSE /\ SigCatch(hsig, "DFL", FALSE)
            /\ pending' = pending \cup {hsig}
            /\ Goto("handler", "h_unblock")
  /\ UNCHANGED <<lp_messages, sd, device, ncaught, blocked, hsig, fate, history>>

\* A mutant: the signal sent again stays blocked.
StayBlocked ==
  /\ Runs("handler", "h_unblock")
  /\ Goto("handler", "h_exit")
  /\ UNCHANGED <<lp_messages, sd, device, sigstate, pending, fate, history>>

\* ... and is unblocked, which delivers it.
Unblock ==
  /\ Runs("handler", "h_unblock")
  /\ blocked' = blocked \ {hsig}
  /\ Goto("handler", "h_exit")
  /\ UNCHANGED <<lp_messages, sd, device, ncaught, disp, hsig, pending, fate, history>>

HandlerExit ==
  /\ Runs("handler", "h_exit")
  /\ ended' = "failure"
  /\ UNCHANGED <<at, lp_messages, sd, device, sigstate, pending, killer, history>>

-----------------------------------------------------------------------------
\* A signal may already be ignored (nohup) when the process starts.
Init ==
  /\ at = [f \in Frames |-> IF f = "main" THEN "baud" ELSE "idle"]
  /\ lp_messages \in BOOLEAN
  /\ sd = "none" /\ sdopd = FALSE /\ opd = "none" /\ port = "quiet" /\ arena = "none"
  /\ matches \in 0..MaxMatches
  /\ ncaught = 0
  /\ disp \in [Signals -> {"DFL", "IGN"}]
  /\ blocked = {} /\ pending = {} /\ hsig = ABRT
  /\ ended = "running" /\ killer = ABRT
  /\ closers = {} /\ misused = FALSE

Opening ==
  \/ SetBaudMapping \/ LookupMedia \/ LinkAction \/ CatchSignal \/ CaughtAll \/ Probe
  \/ OpenPort \/ Connect \/ StoreOpd \/ SetMedia \/ MapBands \/ RejectMedia

Printing == LocateFont \/ StartLabel \/ PrintLabel \/ InputDone \/ FinalClose \/ ExitSuccess

Handler == HandlerClose \/ Resend \/ Unblock \/ HandlerExit

Failing == \E f \in Frames : ErrorExit(f) \/ ErrorAbort(f) \/ AbortedExit(f)

Delivery == \E s \in Signals : Enter(s) \/ EnterJunk(s) \/ Die(s)

Process == Opening \/ Printing \/ Handler \/ Failing

\* The process is over.
Finished == ended # "running" /\ UNCHANGED vars

Next == Process \/ Delivery \/ (\E s \in Outside : Raise(s)) \/ Finished

\* The process keeps running and the kernel delivers signals.  Fairness of
\* the driver's steps assumes a printer that is not left out of paper.
Spec == Init /\ [][Next]_vars /\ WF_vars(Process) /\ WF_vars(Delivery)

-----------------------------------------------------------------------------
TypeOK ==
  /\ at \in [Frames -> MainLabels \cup HandlerLabels]
  /\ at["main"] \in MainLabels
  /\ at["handler"] \in HandlerLabels \cup ErrorLabels
  /\ lp_messages \in BOOLEAN
  /\ sd \in {"none", "live", "freed"}
  /\ sdopd \in BOOLEAN
  /\ opd \in {"none", "valid", "closing", "destroyed"}
  /\ port \in {"quiet", "held"}
  /\ arena \in {"none", "held", "freed"}
  /\ matches \in 0..MaxMatches
  /\ ncaught \in 0..Len(Sigs)
  /\ disp \in [Signals -> {"DFL", "IGN", "CATCH"}]
  /\ blocked \subseteq Signals
  /\ pending \subseteq Signals
  /\ hsig \in Signals /\ killer \in Signals
  /\ ended \in {"running", "success", "failure", "killed", "crashed"}
  /\ closers \subseteq Frames
  /\ misused \in BOOLEAN

-----------------------------------------------------------------------------
(***************************************************************************)
(* What a session promises.                                                *)
(***************************************************************************)

\* slap.c:53-54 promises a shutdown that is clean "and non-recursively!": once
\* the handler has started it is never entered again, by any of the caught
\* signals, and goes on handling the signal that started it.  handle_signal
\* relies on the mask open_session gives every signal.
HandlerOnce ==
  [][Handling => /\ hsig' = hsig
                 /\ at'["handler"] = "h_call" => at["handler"] = "h_call"]_vars

\* handle_signal: "our invoker" is told the truth.  A process killed while
\* it handles a signal is killed by that very signal, and never by the
\* SIGABRT of Error(); one that leaves its handler by exit() was handling
\* SIGABRT.
ReportsTheSignal ==
  Handling =>
    /\ ended = "killed" => killer = hsig /\ hsig # ABRT
    /\ ended = "failure" /\ at["handler"] = "h_exit" => hsig = ABRT

\* When the handler's close_session() has returned, from wherever main() was
\* interrupted, a session that had stored its OPD has given the printer back.
QuietWhenHandled ==
  at["handler"] \in {"h_after", "h_unblock", "h_exit"} /\ sdopd => port = "quiet"

\* The contract of slap.h on close(), and the freeing of memory, are kept by
\* every interruption of a session that main() is not itself closing: only when main()
\* has called close() can anything be closed or freed twice, and only in two places,
\* between the link and the filling of an ACTION (sig.c:107-114) and between the
\* allocation and the filling of the map (slplus.c:1167-1175), is junk used.
MisuseNeedsMainClose == misused => "main" \in closers \/ at["main"] \in {"linking", "mapping"}

\* A process that ends with the port in the printer's modes either had not
\* stored its OPD yet, or met Error() without -l, or met Error() inside the handler.
HeldAtEnd ==
  ended # "running" /\ port = "held" =>
    \/ ~sdopd
    \/ ~lp_messages /\ at["main"] = "error"
    \/ at["handler"] \in ErrorLabels

\* Once open_session has caught the signals, Error() never kills the process
\* with SIGABRT: it leaves through the handler's exit(EXIT_FAILURE).
AbortStaysInside == ended = "killed" /\ killer = ABRT => ncaught < Len(Sigs)

\* A signal that was generated, and an Error(), always end the process.
EventuallyEnds == (pending # {} \/ at["main"] = "error") ~> ended # "running"

-----------------------------------------------------------------------------
(***************************************************************************)
(* The inductive invariant behind these promises.                          *)
(***************************************************************************)

\* The handler has sent itself its signal again and let it through.
LetThrough == at["handler"] = "h_exit" /\ hsig # ABRT

\* Outside the handler nothing is blocked; inside it everything is, until the
\* handler lets its own signal through, to its default action.
MaskInv ==
  /\ ~Handling => blocked = IF at["main"] = "linking" THEN {Sigs[ncaught + 1]} ELSE {}
  /\ at["main"] = "linking" => ncaught < Len(Sigs)
  /\ Handling /\ ~LetThrough => Signals \subseteq blocked
  /\ LetThrough => /\ Signals \ {hsig} \subseteq blocked
                   /\ disp[hsig] = "DFL" /\ hsig \notin blocked
                   /\ ended = "running" => hsig \in pending
                   /\ ended \in {"running", "killed"}
  /\ at["handler"] = "h_unblock" => hsig # ABRT /\ hsig \in pending /\ disp[hsig] = "DFL"
  /\ Handling /\ at["handler"] \notin {"h_unblock", "h_exit"} => disp[hsig] = "CATCH"
  /\ Handling /\ ended = "killed" => LetThrough /\ killer = hsig

Opened == {"probe", "opening", "connecting", "opened"} \cup UseLabels \cup RejectLabels \cup FinalLabels

\* The signals open_session has been through stay caught, but for the one
\* the handler gives up; the session is opened with all of them caught.
CatchInv ==
  /\ \A i \in 1..ncaught :
       \/ disp[Sigs[i]] = "CATCH"
       \/ at["handler"] \in {"h_unblock", "h_exit"} /\ Sigs[i] = hsig /\ hsig # ABRT
  /\ at["main"] \in Opened \/ sdopd => ncaught = Len(Sigs)
  /\ at["main"] = "aborted" /\ ~Handling /\ ended = "running" /\ ncaught = Len(Sigs) => ABRT \in pending
  /\ ended = "killed" /\ ~Handling => ncaught < Len(Sigs)

\* Until main() closes the driver the session is whole, and the handler
\* takes it apart once, in order.
CloseInv ==
  /\ at["main"] \in UseLabels \cup RejectLabels \cup FinalLabels => sdopd
  /\ at["main"] \in OpenLabels => ~sdopd /\ opd = IF at["main"] = "opened" THEN "valid" ELSE "none"
  /\ at["handler"] \in {"h_disconnect", "h_destroy"} => sdopd /\ "handler" \in closers
  /\ at["main"] \in {"catch", "linking"} \cup Opened \/ sdopd => sd # "none"
  /\ "main" \notin closers =>
       /\ misused => ended = "crashed" /\ at["main"] \in {"linking", "mapping"}
       /\ at["main"] \notin (RejectLabels \cup FinalLabels) \ {"rej_call", "fin_call"}
       /\ sdopd /\ closers = {} => opd = "valid"
       /\ at["handler"] \in {"idle", "h_call"} => closers = {}
       /\ at["handler"] \in {"idle", "h_call", "h_disconnect", "h_destroy", "h_arena"} =>
            sd # "freed" /\ arena # "freed"
       /\ at["handler"] = "h_free" => sd # "freed"

PortInv ==
  /\ sdopd /\ at["handler"] \in {"h_destroy", "h_arena", "h_free", "h_after", "h_unblock", "h_exit"} =>
       port = "quiet"
  /\ at["main"] \in {"rej_destroy", "fin_destroy", "fin_arena", "fin_free", "fin_exit"} => port = "quiet"
  /\ opd = "destroyed" => port = "quiet"
  /\ port = "held" /\ ~sdopd => at["main"] \in {"connecting", "opened", "error", "aborted"}

IInv == TypeOK /\ MaskInv /\ CatchInv /\ CloseInv /\ PortInv /\ HeldAtEnd

=============================================================================
