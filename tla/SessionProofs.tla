---------------------------- MODULE SessionProofs ----------------------------
(***************************************************************************)
(* The promises of Session hold for every array sigs[], every set of       *)
(* signals sent from outside and every number of matching drivers.  The    *)
(* argument is one inductive invariant, IInv: what is blocked and caught   *)
(* (MaskInv, CatchInv), who has taken the session apart and how far        *)
(* (CloseInv), and who holds the port (PortInv).                           *)
(***************************************************************************)
EXTENDS Session, TLAPS

\* The entries of sigs[] are the signals.
LEMMA SigsFact == Len(Sigs) \in Nat /\ (\A i \in 1..Len(Sigs) : Sigs[i] \in Signals)
BY SessionAssumption DEF Signals

\* The initial states satisfy the invariant: nothing is open, caught or blocked.
LEMMA InitIInv == Init => IInv
<1> SUFFICES ASSUME Init PROVE IInv
  OBVIOUS
<1> USE SessionAssumption, SigsFact DEF Init
<1>1. TypeOK
  <2>1. /\ at \in [Frames -> MainLabels \cup HandlerLabels]
        /\ at["main"] \in MainLabels
        /\ at["handler"] \in HandlerLabels \cup ErrorLabels
    BY DEF Frames, MainLabels, OpenLabels, HandlerLabels
  <2>2. ncaught \in 0..Len(Sigs) /\ matches \in 0..MaxMatches
    OBVIOUS
  <2>3. disp \in [Signals -> {"DFL", "IGN", "CATCH"}] /\ hsig \in Signals /\ killer \in Signals
    OBVIOUS
  <2> QED
    BY <2>1, <2>2, <2>3 DEF TypeOK
<1>2. MaskInv /\ PortInv /\ HeldAtEnd
  BY DEF MaskInv, PortInv, HeldAtEnd, Handling, LetThrough, Frames
<1>3. CatchInv /\ CloseInv
  BY DEF CatchInv, CloseInv, Opened, UseLabels, RejectLabels, FinalLabels, Handling, Frames
<1> QED
  BY <1>1, <1>2, <1>3 DEF IInv

\* Opening a session keeps it: main() runs only outside the handler, with nothing blocked.
LEMMA OpeningStep == IInv /\ Opening => IInv'
<1> SUFFICES ASSUME IInv, Opening PROVE IInv'
  OBVIOUS
<1> USE SessionAssumption
    DEF IInv, TypeOK, MaskInv, CatchInv, CloseInv, PortInv, HeldAtEnd, Runs, Goto, Handling,
        LetThrough, Opened, Frames, MainLabels, HandlerLabels, ErrorLabels, OpenLabels,
        UseLabels, RejectLabels, FinalLabels, Deliverable, device, sigstate, fate, history
<1>1. CASE SetBaudMapping
  BY <1>1 DEF SetBaudMapping, MainChecks
<1>2. CASE LookupMedia
  BY <1>2 DEF LookupMedia
<1>3. CASE CatchSignal
  <2>1. TypeOK'
    BY <1>3, SigsFact DEF CatchSignal, SigCatch
  <2>3. MaskInv'
    BY <1>3, SigsFact DEF CatchSignal, SigCatch
  <2>4. CatchInv'
    BY <1>3, SigsFact DEF CatchSignal, SigCatch
  <2>2. CloseInv' /\ PortInv' /\ HeldAtEnd'
    BY <1>3, SigsFact DEF CatchSignal, SigCatch
  <2> QED
    BY <2>1, <2>2, <2>3, <2>4
<1>4. CASE CaughtAll
  BY <1>4 DEF CaughtAll
<1>5. CASE Probe
  BY <1>5 DEF Probe
<1>6. CASE OpenPort
  <2>1. TypeOK' /\ MaskInv' /\ CatchInv'
    BY <1>6 DEF OpenPort
  <2>2. CloseInv' /\ PortInv' /\ HeldAtEnd'
    BY <1>6 DEF OpenPort
  <2> QED
    BY <2>1, <2>2
<1>7. CASE Connect
  <2>1. TypeOK' /\ MaskInv' /\ CatchInv'
    BY <1>7 DEF Connect
  <2>2. CloseInv' /\ PortInv' /\ HeldAtEnd'
    BY <1>7 DEF Connect
  <2> QED
    BY <2>1, <2>2
<1>8. CASE StoreOpd
  <2>1. TypeOK' /\ MaskInv' /\ CatchInv'
    BY <1>8 DEF StoreOpd
  <2>2. CloseInv' /\ PortInv' /\ HeldAtEnd'
    BY <1>8 DEF StoreOpd
  <2> QED
    BY <2>1, <2>2
<1>9. CASE SetMedia
  <2>1. TypeOK' /\ MaskInv' /\ CatchInv'
    BY <1>9 DEF SetMedia
  <2>2. CloseInv' /\ PortInv' /\ HeldAtEnd'
    BY <1>9 DEF SetMedia
  <2> QED
    BY <2>1, <2>2
<1>10. CASE RejectMedia
  <2>1. CASE CallClose("main", "rej_call", "rej_disconnect", "error")
    <3>1. TypeOK'
      <4>1. at' \in [Frames -> MainLabels \cup HandlerLabels] /\ at'["main"] \in MainLabels
        BY <2>1 DEF CallClose
      <4>2. at'["handler"] \in HandlerLabels \cup ErrorLabels
        BY <2>1 DEF CallClose
      <4>3. misused' \in BOOLEAN /\ closers' \subseteq Frames
        BY <2>1 DEF CallClose
      <4> QED
        BY <2>1, <4>1, <4>2, <4>3 DEF CallClose
    <3>2. MaskInv'
      BY <2>1 DEF CallClose
    <3>3. CatchInv'
      BY <2>1 DEF CallClose
    <3>4. CloseInv'
      BY <2>1 DEF CallClose
    <3>5. PortInv'
      BY <2>1 DEF CallClose
    <3>6. HeldAtEnd'
      BY <2>1 DEF CallClose
    <3> QED
      BY <3>1, <3>2, <3>3, <3>4, <3>5, <3>6
  <2>2. CASE Disconnect("main", "rej_disconnect", "rej_destroy")
    <3>1. TypeOK' /\ MaskInv' /\ CatchInv'
      BY <2>2 DEF Disconnect
    <3>2. CloseInv' /\ PortInv' /\ HeldAtEnd'
      BY <2>2 DEF Disconnect
    <3> QED
      BY <3>1, <3>2
  <2>3. CASE DisconnectError("main", "rej_disconnect")
    <3>1. TypeOK' /\ MaskInv' /\ CatchInv'
      BY <2>3 DEF DisconnectError
    <3>2. CloseInv' /\ PortInv' /\ HeldAtEnd'
      BY <2>3 DEF DisconnectError
    <3> QED
      BY <3>1, <3>2
  <2>4. CASE Destroy("main", "rej_destroy", "error")
    <3>1. TypeOK' /\ MaskInv' /\ CatchInv'
      BY <2>4 DEF Destroy
    <3>2. CloseInv' /\ PortInv' /\ HeldAtEnd'
      BY <2>4 DEF Destroy
    <3> QED
      BY <3>1, <3>2
  <2> QED
    BY <1>10, <2>1, <2>2, <2>3, <2>4 DEF RejectMedia
<1>11. CASE LinkAction
  <2>1. TypeOK' /\ MaskInv' /\ CatchInv'
    BY <1>11, SigsFact DEF LinkAction
  <2>2. CloseInv' /\ PortInv' /\ HeldAtEnd'
    BY <1>11, SigsFact DEF LinkAction
  <2> QED
    BY <2>1, <2>2
<1>12. CASE MapBands
  <2>1. TypeOK' /\ MaskInv' /\ CatchInv'
    BY <1>12 DEF MapBands
  <2>2. CloseInv' /\ PortInv' /\ HeldAtEnd'
    BY <1>12 DEF MapBands
  <2> QED
    BY <2>1, <2>2
<1> QED
  BY <1>1, <1>2, <1>3, <1>4, <1>5, <1>6, <1>7, <1>8, <1>9, <1>10, <1>11, <1>12 DEF Opening

\* So do printing and main()'s own close_session().
LEMMA PrintingStep == IInv /\ Printing => IInv'
<1> SUFFICES ASSUME IInv, Printing PROVE IInv'
  OBVIOUS
<1> USE SessionAssumption
    DEF IInv, TypeOK, MaskInv, CatchInv, CloseInv, PortInv, HeldAtEnd, Runs, Goto, Handling,
        LetThrough, Opened, Frames, MainLabels, HandlerLabels, ErrorLabels, OpenLabels,
        UseLabels, RejectLabels, FinalLabels, Deliverable, device, sigstate, fate, history
<1>1. CASE LocateFont
  BY <1>1 DEF LocateFont, MainChecks
<1>2. CASE StartLabel
  BY <1>2 DEF StartLabel
<1>3. CASE PrintLabel
  BY <1>3 DEF PrintLabel, MainChecks
<1>4. CASE InputDone
  BY <1>4 DEF InputDone
<1>5. CASE FinalClose
  <2>1. CASE CallClose("main", "fin_call", "fin_disconnect", "fin_arena")
    <3>1. TypeOK'
      <4>1. at' \in [Frames -> MainLabels \cup HandlerLabels] /\ at'["main"] \in MainLabels
        BY <2>1 DEF CallClose
      <4>2. at'["handler"] \in HandlerLabels \cup ErrorLabels
        BY <2>1 DEF CallClose
      <4>3. misused' \in BOOLEAN /\ closers' \subseteq Frames
        BY <2>1 DEF CallClose
      <4> QED
        BY <2>1, <4>1, <4>2, <4>3 DEF CallClose
    <3>2. MaskInv'
      BY <2>1 DEF CallClose
    <3>3. CatchInv'
      BY <2>1 DEF CallClose
    <3>4. CloseInv'
      BY <2>1 DEF CallClose
    <3>5. PortInv'
      BY <2>1 DEF CallClose
    <3>6. HeldAtEnd'
      BY <2>1 DEF CallClose
    <3> QED
      BY <3>1, <3>2, <3>3, <3>4, <3>5, <3>6
  <2>2. CASE Disconnect("main", "fin_disconnect", "fin_destroy")
    <3>1. TypeOK' /\ MaskInv' /\ CatchInv'
      BY <2>2 DEF Disconnect
    <3>2. CloseInv' /\ PortInv' /\ HeldAtEnd'
      BY <2>2 DEF Disconnect
    <3> QED
      BY <3>1, <3>2
  <2>3. CASE DisconnectError("main", "fin_disconnect")
    <3>1. TypeOK' /\ MaskInv' /\ CatchInv'
      BY <2>3 DEF DisconnectError
    <3>2. CloseInv' /\ PortInv' /\ HeldAtEnd'
      BY <2>3 DEF DisconnectError
    <3> QED
      BY <3>1, <3>2
  <2>4. CASE Destroy("main", "fin_destroy", "fin_arena")
    <3>1. TypeOK' /\ MaskInv' /\ CatchInv'
      BY <2>4 DEF Destroy
    <3>2. CloseInv' /\ PortInv' /\ HeldAtEnd'
      BY <2>4 DEF Destroy
    <3> QED
      BY <3>1, <3>2
  <2>5. CASE FreeArena("main", "fin_arena", "fin_free")
    <3>1. TypeOK' /\ MaskInv' /\ CatchInv'
      BY <2>5 DEF FreeArena
    <3>2. CloseInv' /\ PortInv' /\ HeldAtEnd'
      BY <2>5 DEF FreeArena
    <3> QED
      BY <3>1, <3>2
  <2>6. CASE FreeSession("main", "fin_free", "fin_exit")
    <3>1. TypeOK' /\ MaskInv' /\ CatchInv'
      BY <2>6 DEF FreeSession
    <3>2. CloseInv' /\ PortInv' /\ HeldAtEnd'
      BY <2>6 DEF FreeSession
    <3> QED
      BY <3>1, <3>2
  <2> QED
    BY <1>5, <2>1, <2>2, <2>3, <2>4, <2>5, <2>6 DEF FinalClose
<1>6. CASE ExitSuccess
  BY <1>6 DEF ExitSuccess
<1> QED
  BY <1>1, <1>2, <1>3, <1>4, <1>5, <1>6 DEF Printing

\* The handler closes the session and gives its own signal, and no other, back its default action.
LEMMA HandlerStep == IInv /\ Handler => IInv'
<1> SUFFICES ASSUME IInv, Handler PROVE IInv'
  OBVIOUS
<1> USE SessionAssumption
    DEF IInv, TypeOK, MaskInv, CatchInv, CloseInv, PortInv, HeldAtEnd, Runs, Goto, Handling,
        LetThrough, Opened, Frames, MainLabels, HandlerLabels, ErrorLabels, OpenLabels,
        UseLabels, RejectLabels, FinalLabels, Deliverable, device, sigstate, fate, history
<1>1. CASE HandlerClose
  <2>1. CASE CallClose("handler", "h_call", "h_disconnect", "h_arena")
    <3>1. TypeOK'
      <4>1. at' \in [Frames -> MainLabels \cup HandlerLabels] /\ at'["main"] \in MainLabels
        BY <2>1 DEF CallClose
      <4>2. at'["handler"] \in HandlerLabels \cup ErrorLabels
        BY <2>1 DEF CallClose
      <4>3. misused' \in BOOLEAN /\ closers' \subseteq Frames
        BY <2>1 DEF CallClose
      <4> QED
        BY <2>1, <4>1, <4>2, <4>3 DEF CallClose
    <3>2. MaskInv'
      BY <2>1 DEF CallClose
    <3>3. CatchInv'
      BY <2>1 DEF CallClose
    <3>4. CloseInv'
      BY <2>1 DEF CallClose
    <3>5. PortInv'
      BY <2>1 DEF CallClose
    <3>6. HeldAtEnd'
      BY <2>1 DEF CallClose
    <3> QED
      BY <3>1, <3>2, <3>3, <3>4, <3>5, <3>6
  <2>2. CASE Disconnect("handler", "h_disconnect", "h_destroy")
    <3>1. TypeOK' /\ MaskInv' /\ CatchInv'
      BY <2>2 DEF Disconnect
    <3>2. CloseInv' /\ PortInv' /\ HeldAtEnd'
      BY <2>2 DEF Disconnect
    <3> QED
      BY <3>1, <3>2
  <2>3. CASE DisconnectError("handler", "h_disconnect")
    <3>1. TypeOK' /\ MaskInv' /\ CatchInv'
      BY <2>3 DEF DisconnectError
    <3>2. CloseInv' /\ PortInv' /\ HeldAtEnd'
      BY <2>3 DEF DisconnectError
    <3> QED
      BY <3>1, <3>2
  <2>4. CASE Destroy("handler", "h_destroy", "h_arena")
    <3>1. TypeOK' /\ MaskInv' /\ CatchInv'
      BY <2>4 DEF Destroy
    <3>2. CloseInv' /\ PortInv' /\ HeldAtEnd'
      BY <2>4 DEF Destroy
    <3> QED
      BY <3>1, <3>2
  <2>5. CASE FreeArena("handler", "h_arena", "h_free")
    <3>1. TypeOK' /\ MaskInv' /\ CatchInv'
      BY <2>5 DEF FreeArena
    <3>2. CloseInv' /\ PortInv' /\ HeldAtEnd'
      BY <2>5 DEF FreeArena
    <3> QED
      BY <3>1, <3>2
  <2>6. CASE FreeSession("handler", "h_free", "h_after")
    <3>1. TypeOK' /\ MaskInv' /\ CatchInv'
      BY <2>6 DEF FreeSession
    <3>2. CloseInv' /\ PortInv' /\ HeldAtEnd'
      BY <2>6 DEF FreeSession
    <3> QED
      BY <3>1, <3>2
  <2>7. CASE DestroyJunk("handler", "h_destroy")
    <3>1. TypeOK' /\ MaskInv' /\ CatchInv'
      BY <2>7 DEF DestroyJunk
    <3>2. CloseInv' /\ PortInv' /\ HeldAtEnd'
      BY <2>7 DEF DestroyJunk
    <3> QED
      BY <3>1, <3>2
  <2> QED
    BY <1>1, <2>1, <2>2, <2>3, <2>4, <2>5, <2>6, <2>7 DEF HandlerClose
<1>2. CASE Resend
  <2>1. TypeOK' /\ MaskInv' /\ CatchInv'
    BY <1>2, SigsFact DEF Resend, SigCatch
  <2>2. CloseInv' /\ PortInv' /\ HeldAtEnd'
    BY <1>2, SigsFact DEF Resend, SigCatch
  <2> QED
    BY <2>1, <2>2
<1>3. CASE Unblock
  <2>1. TypeOK' /\ MaskInv' /\ CatchInv'
    BY <1>3 DEF Unblock
  <2>2. CloseInv' /\ PortInv' /\ HeldAtEnd'
    BY <1>3 DEF Unblock
  <2> QED
    BY <2>1, <2>2
<1>4. CASE HandlerExit
  BY <1>4 DEF HandlerExit
<1> QED
  BY <1>1, <1>2, <1>3, <1>4 DEF Handler

\* Error() in either frame: only an Error() of main() can start the handler.
LEMMA FailingStep == IInv /\ Failing => IInv'
<1> SUFFICES ASSUME IInv, NEW f \in Frames, ErrorExit(f) \/ ErrorAbort(f) \/ AbortedExit(f)
             PROVE  IInv'
  BY DEF Failing
<1> USE SessionAssumption, SigsFact
    DEF IInv, TypeOK, MaskInv, CatchInv, CloseInv, PortInv, HeldAtEnd, Runs, Goto, Handling,
        LetThrough, Opened, Frames, MainLabels, HandlerLabels, ErrorLabels, OpenLabels,
        UseLabels, RejectLabels, FinalLabels, Deliverable, device, sigstate, fate, history
<1>0. ncaught = Len(Sigs) /\ ~Handling => \A s \in Signals : disp[s] = "CATCH"
  BY DEF Signals
<1>1. CASE ErrorExit(f)
  <2>1. TypeOK' /\ MaskInv' /\ CatchInv'
    BY <1>1 DEF ErrorExit
  <2>2. CloseInv' /\ PortInv' /\ HeldAtEnd'
    BY <1>1 DEF ErrorExit
  <2> QED
    BY <2>1, <2>2
<1>2. CASE ErrorAbort(f)
  <2>1. TypeOK' /\ MaskInv' /\ CatchInv'
    BY <1>0, <1>2 DEF ErrorAbort, Generate
  <2>2. CloseInv' /\ PortInv' /\ HeldAtEnd'
    BY <1>0, <1>2 DEF ErrorAbort, Generate
  <2> QED
    BY <2>1, <2>2
<1>3. CASE AbortedExit(f)
  <2>1. TypeOK' /\ MaskInv' /\ CatchInv'
    BY <1>0, <1>3 DEF AbortedExit
  <2>2. CloseInv' /\ PortInv' /\ HeldAtEnd'
    BY <1>0, <1>3 DEF AbortedExit
  <2> QED
    BY <2>1, <2>2
<1> QED
  BY <1>1, <1>2, <1>3

\* A signal reaches the process: outside the handler any signal, inside it
\* only the one the handler let through.
LEMMA DeliveryStep == IInv /\ Delivery => IInv'
<1> SUFFICES ASSUME IInv, NEW s \in Signals, Enter(s) \/ EnterJunk(s) \/ Die(s)
             PROVE  IInv'
  BY DEF Delivery
<1> USE SessionAssumption, SigsFact
    DEF IInv, TypeOK, MaskInv, CatchInv, CloseInv, PortInv, HeldAtEnd, Runs, Goto, Handling,
        LetThrough, Opened, Frames, MainLabels, HandlerLabels, ErrorLabels, OpenLabels,
        UseLabels, RejectLabels, FinalLabels, Deliverable, device, sigstate, fate, history
<1>0. ncaught = Len(Sigs) /\ ~Handling => \A q \in Signals : disp[q] = "CATCH"
  BY DEF Signals
<1>1. CASE Enter(s)
  <2>1. TypeOK' /\ MaskInv' /\ CatchInv'
    BY <1>1 DEF Enter, HandlerMask
  <2>2. CloseInv' /\ PortInv' /\ HeldAtEnd'
    BY <1>1 DEF Enter, HandlerMask
  <2> QED
    BY <2>1, <2>2
<1>2. CASE Die(s)
  <2>1. TypeOK' /\ MaskInv' /\ CatchInv'
    BY <1>0, <1>2 DEF Die
  <2>2. CloseInv' /\ PortInv' /\ HeldAtEnd'
    BY <1>0, <1>2 DEF Die
  <2> QED
    BY <2>1, <2>2
<1>3. CASE EnterJunk(s)
  <2>1. TypeOK' /\ MaskInv' /\ CatchInv'
    BY <1>3 DEF EnterJunk
  <2>2. CloseInv' /\ PortInv' /\ HeldAtEnd'
    BY <1>3 DEF EnterJunk
  <2> QED
    BY <2>1, <2>2
<1> QED
  BY <1>1, <1>2, <1>3

\* A signal sent from outside only becomes pending.
LEMMA RaiseStep == ASSUME IInv, NEW s \in Outside, Raise(s) PROVE IInv'
<1> USE SessionAssumption
    DEF IInv, TypeOK, MaskInv, CatchInv, CloseInv, PortInv, HeldAtEnd, Runs, Goto, Handling,
        LetThrough, Opened, Frames, MainLabels, HandlerLabels, ErrorLabels, OpenLabels,
        UseLabels, RejectLabels, FinalLabels, Deliverable, device, sigstate, fate, history
<1> QED
  BY DEF Raise, Generate

\* The invariant is inductive.
LEMMA Inductive == IInv /\ [Next]_vars => IInv'
<1> SUFFICES ASSUME IInv, [Next]_vars PROVE IInv'
  OBVIOUS
<1>1. CASE Process
  BY <1>1, OpeningStep, PrintingStep, HandlerStep, FailingStep DEF Process
<1>2. CASE Delivery
  BY <1>2, DeliveryStep
<1>3. CASE \E s \in Outside : Raise(s)
  BY <1>3, RaiseStep
<1>4. CASE UNCHANGED vars
  BY <1>4 DEF vars, IInv, TypeOK, MaskInv, CatchInv, CloseInv, PortInv, HeldAtEnd, Handling, LetThrough
<1> QED
  BY <1>1, <1>2, <1>3, <1>4 DEF Next, Finished

THEOREM Invariance == Spec => []IInv
  BY InitIInv, Inductive, PTL DEF Spec

\* Every variable has its type.
THEOREM TypeCorrect == Spec => []TypeOK
<1>1. IInv => TypeOK
  BY DEF IInv
<1> QED
  BY <1>1, Invariance, PTL

-----------------------------------------------------------------------------
\* The five signals never re-enter the handler: while it runs, every signal
\* but its own is blocked, and its own is no longer caught when it is let through.
THEOREM HandlerRunsOnce == Spec => HandlerOnce
<1>1. IInv /\ [Next]_vars =>
        [Handling => /\ hsig' = hsig
                     /\ at'["handler"] = "h_call" => at["handler"] = "h_call"]_vars
  <2> SUFFICES ASSUME IInv, Next, Handling
               PROVE  /\ hsig' = hsig
                      /\ at'["handler"] = "h_call" => at["handler"] = "h_call"
    BY DEF vars
<2> USE DEF Handling, IInv, TypeOK, Frames, Runs, Goto, sigstate
  <2>1. CASE Opening
    BY <2>1 DEF Opening, SetBaudMapping, MainChecks, LookupMedia, LinkAction, CatchSignal, CaughtAll,
       Probe, OpenPort, Connect, StoreOpd, SetMedia, MapBands, RejectMedia, CallClose, Disconnect, DisconnectError, Destroy
  <2>2. CASE Printing
    BY <2>2 DEF Printing, LocateFont, MainChecks, StartLabel, PrintLabel, InputDone, FinalClose,
       ExitSuccess, CallClose, Disconnect, DisconnectError, Destroy, FreeArena, FreeSession
  <2>3. CASE Handler
    BY <2>3 DEF Handler, HandlerClose, Resend, Unblock, HandlerExit, CallClose, Disconnect,
       DisconnectError, Destroy, DestroyJunk, FreeArena, FreeSession
  <2>4. CASE Failing
    BY <2>4 DEF Failing, ErrorExit, ErrorAbort, AbortedExit
  <2>5. CASE Delivery
    BY <2>5 DEF Delivery, Enter, EnterJunk, Die, MaskInv, LetThrough, Deliverable
  <2>6. CASE (\E s \in Outside : Raise(s)) \/ Finished
    BY <2>6 DEF Raise, Finished, vars
  <2> QED
    BY <2>1, <2>2, <2>3, <2>4, <2>5, <2>6 DEF Next, Process
<1> QED
  BY <1>1, Invariance, PTL DEF Spec, HandlerOnce

\* The invoker sees the signal that ended the process.
THEOREM TruthfulStatus == Spec => []ReportsTheSignal
<1>1. IInv => ReportsTheSignal
  BY DEF IInv, MaskInv, LetThrough, ReportsTheSignal
<1> QED
  BY <1>1, Invariance, PTL

\* A signal that finds the session open leaves the printer quiet.
THEOREM HandledIsQuiet == Spec => []QuietWhenHandled
<1>1. IInv => QuietWhenHandled
  BY DEF IInv, PortInv, QuietWhenHandled
<1> QED
  BY <1>1, Invariance, PTL

\* Only main()'s own closing can lead to a second close or free, and only two places to junk.
THEOREM InterruptionIsSafe == Spec => []MisuseNeedsMainClose
<1>1. IInv => MisuseNeedsMainClose
  BY DEF IInv, TypeOK, CloseInv, MisuseNeedsMainClose
<1> QED
  BY <1>1, Invariance, PTL

\* These are all the ways in which a process can end and leave the port as it was printing.
THEOREM LeavesPortQuiet == Spec => []HeldAtEnd
<1>1. IInv => HeldAtEnd
  BY DEF IInv
<1> QED
  BY <1>1, Invariance, PTL

\* Error() does not kill a process whose signals are caught.
THEOREM AbortIsInternal == Spec => []AbortStaysInside
<1>1. IInv => AbortStaysInside
  BY DEF IInv, TypeOK, MaskInv, CatchInv, LetThrough, AbortStaysInside
<1> QED
  BY <1>1, Invariance, PTL

=============================================================================
