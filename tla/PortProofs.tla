----------------------------- MODULE PortProofs -----------------------------
(***************************************************************************)
(* What Port promises holds for any number of processes, lists of drivers, *)
(* attempts at the lock and signals.  The argument is one inductive        *)
(* invariant, PortInv.  Its parts: how many descriptors each process has   *)
(* open (HeldInv) and who has the lock (OwnerInv); what is blocked         *)
(* (MaskInv); that a port which no two processes had open at the same time *)
(* belongs to one (AloneInv), which keeps BRKINT out of the port's modes   *)
(* and its own until it has found a printer (CopyInv); and that a port     *)
(* nobody disturbed has its first modes, or its process still has them to  *)
(* put back (FoundInv).                                                    *)
(***************************************************************************)
EXTENDS Port, TLAPS

HoldLabels == OpenLabels \cup {"lock", "error"} \cup WorkLabels

HeldInv ==
  \A p \in Procs :
    /\ at[p] \in HoldLabels => fds[p] > 0
    /\ "stuck" \notin events => fds[p] = IF at[p] \in HoldLabels THEN 1 ELSE 0

OwnerInv == \A p \in Procs : named[p] /\ at[p] \in WorkLabels => owner = p

MaskInv ==
  \A p \in Procs :
    IF at[p] \in OpenLabels \cup {"restore", "closefd"}
      THEN sig[p].blocked
      ELSE sig[p].blocked = sig[p].handler

AloneInv == "overlap" \notin events => \A p, q \in Procs : fds[p] > 0 /\ fds[q] > 0 => p = q

CopyInv ==
  "overlap" \notin events => \A p \in Procs :
    /\ at[p] \in {"suppress", "lock", "init", "probe", "ready"} => ~tm[p].brkint
    /\ at[p] \in {"lock", "init", "probe", "ready"} => ~modes.brkint

FoundInv ==
  ~Disturbed =>
    /\ (\A p \in Procs : fds[p] = 0) => modes = found
    /\ \A p \in Procs : at[p] \in OpenLabels \cup {"closefd"} => modes = found
    /\ \A p \in Procs : at[p] \in HoldLabels \ {"save"} => otm[p] = found

PortInv ==
  TypeOK /\ HeldInv /\ OwnerInv /\ MaskInv /\ AloneInv /\ CopyInv /\ FoundInv

-----------------------------------------------------------------------------
\* What blocking SIGINT, or restoring its mask, does to a process's state: b is whether
\* it is blocked then.
MaskEffect(p, b) ==
  /\ sig' \in [Procs -> SigState]
  /\ sig'[p].blocked = b /\ sig'[p].handler = sig[p].handler
  /\ \A q \in Procs \ {p} : sig'[q] = sig[q]

LEMMA MaskFacts ==
  ASSUME NEW p \in Procs, TypeOK
  PROVE  (Block(p) => MaskEffect(p, TRUE)) /\ (Unblock(p) => MaskEffect(p, sig[p].handler))
<1>1. ASSUME Block(p) PROVE MaskEffect(p, TRUE)
  BY <1>1 DEF TypeOK, Block, SigState, MaskEffect
<1>2. ASSUME Unblock(p) PROVE MaskEffect(p, sig[p].handler)
  BY <1>2 DEF TypeOK, Unblock, SigState, MaskEffect
<1> QED
  BY <1>1, <1>2

\* What the end of a process does.
EndEffect(p) ==
  /\ at' \in [Procs -> Labels] /\ at'[p] = "ended" /\ \A q \in Procs \ {p} : at'[q] = at[q]
  /\ fds' \in [Procs -> Nat] /\ fds'[p] = 0 /\ \A q \in Procs \ {p} : fds'[q] = fds[q]
  /\ owner' \in Procs \cup {Nobody} /\ (owner # p => owner' = owner)
  /\ found' = found /\ events' \subseteq {"overlap", "died", "stuck"}
  /\ "overlap" \in events' <=> "overlap" \in events
  /\ "stuck" \in events' <=> "stuck" \in events
  /\ events' = {} => events = {} /\ fds[p] = 0

LEMMA EndFacts == ASSUME NEW p \in Procs, TypeOK, End(p) PROVE EndEffect(p)
<1>1. at' \in [Procs -> Labels] /\ at'[p] = "ended" /\ \A q \in Procs \ {p} : at'[q] = at[q]
  BY DEF TypeOK, End, Goto, Labels
<1>2. fds' \in [Procs -> Nat] /\ fds'[p] = 0 /\ \A q \in Procs \ {p} : fds'[q] = fds[q]
  BY DEF TypeOK, End
<1>3. owner' \in Procs \cup {Nobody} /\ (owner # p => owner' = owner)
  BY DEF TypeOK, End
<1>4. CASE fds[p] > 0
  <2>1. events' = events \cup {"died"} /\ found' = found
    BY <1>4 DEF End, Note
  <2> QED
    BY <1>1, <1>2, <1>3, <2>1 DEF EndEffect, TypeOK
<1>5. CASE ~(fds[p] > 0)
  <2>1. events' = events /\ found' = found /\ fds[p] = 0
    BY <1>5 DEF End, Note, TypeOK
  <2> QED
    BY <1>1, <1>2, <1>3, <2>1 DEF EndEffect, TypeOK
<1> QED
  BY <1>4, <1>5

\* Changing the modes.
LEMMA ModeFacts ==
  ASSUME NEW m \in Modes, NEW b \in BOOLEAN
  PROVE  /\ [m EXCEPT !.brkint = b] \in Modes /\ [m EXCEPT !.brkint = b].brkint = b
         /\ [m EXCEPT !.brkint = b].cts = m.cts
         /\ [m EXCEPT !.cts = b] \in Modes
         /\ [m EXCEPT !.raw = TRUE, !.brkint = FALSE] \in Modes
         /\ ~[m EXCEPT !.raw = TRUE, !.brkint = FALSE].brkint
         /\ [m EXCEPT !.raw = TRUE, !.brkint = FALSE].cts = m.cts
BY DEF Modes

\* Changing what is known of a process.
LEMMA StateFacts ==
  ASSUME NEW p \in Procs, TypeOK
  PROVE  /\ [sig EXCEPT ![p].pending = TRUE, ![p].sent = @ + 1] \in [Procs -> SigState]
         /\ [sig EXCEPT ![p].pending = FALSE, ![p].blocked = TRUE, ![p].handler = TRUE] \in [Procs -> SigState]
         /\ proc[p].tries < Attempts => [proc EXCEPT ![p].tries = @ + 1] \in [Procs -> ProcState]
         /\ [proc EXCEPT ![p].stored = TRUE] \in [Procs -> ProcState]
         /\ [proc EXCEPT ![p].driver = @ + 1, ![p].tries = 0] \in [Procs -> ProcState]
<1>1. sig[p] \in SigState /\ proc[p] \in ProcState /\ Attempts \in Nat
  BY PortAssumption DEF TypeOK
<1>2. [sig EXCEPT ![p].pending = TRUE, ![p].sent = @ + 1] \in [Procs -> SigState]
  <2>1. sig[p].sent + 1 \in Nat
    BY <1>1 DEF SigState
  <2>2. [sig[p] EXCEPT !.pending = TRUE, !.sent = @ + 1] \in SigState
    BY <1>1, <2>1 DEF SigState
  <2> QED
    BY <2>2 DEF TypeOK
<1>3. [sig EXCEPT ![p].pending = FALSE, ![p].blocked = TRUE, ![p].handler = TRUE] \in [Procs -> SigState]
  BY <1>1 DEF TypeOK, SigState
<1>4. proc[p].tries < Attempts => [proc EXCEPT ![p].tries = @ + 1] \in [Procs -> ProcState]
  BY <1>1 DEF TypeOK, ProcState
<1>5. [proc EXCEPT ![p].stored = TRUE] \in [Procs -> ProcState]
  BY <1>1 DEF TypeOK, ProcState
<1>6. [proc EXCEPT ![p].driver = @ + 1, ![p].tries = 0] \in [Procs -> ProcState]
  <2>1. proc[p].driver + 1 \in Nat \ {0} /\ 0 \in 0..Attempts
    BY <1>1 DEF ProcState
  <2>2. [proc[p] EXCEPT !.driver = @ + 1, !.tries = 0] \in ProcState
    BY <1>1, <2>1 DEF ProcState
  <2> QED
    BY <2>2 DEF TypeOK
<1> QED
  BY <1>2, <1>3, <1>4, <1>5, <1>6

-----------------------------------------------------------------------------
\* opentty() keeps the invariant.
LEMMA OpenTtyStep ==
  ASSUME NEW p \in Procs, PortInv, Open(p) \/ SaveModes(p) \/ Suppress(p)
  PROVE  PortInv'
<1>1. CASE Open(p)
  <2> USE <1>1 DEF PortInv, Open, Note, past, copies
  <2>0. (Block(p) => MaskEffect(p, TRUE)) /\ (Unblock(p) => MaskEffect(p, sig[p].handler))
    BY MaskFacts
  <2>1. TypeOK'
    <3>1. at' \in [Procs -> Labels] /\ named' \in [Procs -> BOOLEAN]
      BY DEF TypeOK, Goto, Labels, OpenLabels, WorkLabels
    <3>2. modes' \in Modes /\ otm' \in [Procs -> Modes] /\ tm' \in [Procs -> Modes]
      BY DEF TypeOK
    <3>3. sig' \in [Procs -> SigState] /\ proc' \in [Procs -> ProcState]
      BY PortAssumption, <2>0 DEF TypeOK, SigState, ProcState, MaskEffect
    <3>4. /\ fds' \in [Procs -> Nat] /\ owner' \in Procs \cup {Nobody}
         /\ found' \in Modes /\ events' \subseteq {"overlap", "died", "stuck"}
      <4>1. events' \subseteq events \cup {"overlap"} /\ found' = found
        OBVIOUS
      <4> QED
        BY <4>1 DEF TypeOK, holds
    <3> QED
      BY <3>1, <3>2, <3>3, <3>4 DEF TypeOK, past
  <2>2. HeldInv'
    BY DEF TypeOK, HeldInv, Runs, Goto, Labels, HoldLabels, OpenLabels, WorkLabels
  <2>3. OwnerInv'
    BY PortAssumption DEF TypeOK, OwnerInv, Runs, Goto, Labels, HoldLabels, OpenLabels, WorkLabels
  <2>4. MaskInv'
    BY <2>0 DEF TypeOK, MaskInv, SigState, Runs, Goto, Labels, HoldLabels, OpenLabels, WorkLabels, MaskEffect
  <2>5. AloneInv'
    BY DEF TypeOK, HeldInv, AloneInv, Runs, Goto, Labels, HoldLabels, OpenLabels, WorkLabels
  <2>6. CopyInv'
    BY DEF TypeOK, Modes, HeldInv, AloneInv, CopyInv, Runs, Goto, Labels, HoldLabels, OpenLabels, WorkLabels
  <2>7. FoundInv'
    <3>1. CASE UNCHANGED fds /\ UNCHANGED past /\ Goto(p, "failed")
      BY <3>1 DEF TypeOK, HeldInv, FoundInv, Disturbed, Runs, Goto, Labels, HoldLabels, OpenLabels, WorkLabels
    <3>2. CASE Goto(p, "save") /\ ~Disturbed'
      <4>1. events = {} /\ \A q \in Procs \ {p} : ~(fds[q] > 0)
        <5>1. CASE \E q \in Procs \ {p} : fds[q] > 0
          <6>1. "overlap" \in events'
            BY <5>1, <3>2 DEF Goto, TypeOK, Labels
          <6> QED
            BY <6>1, <3>2 DEF Disturbed
        <5>2. CASE \A q \in Procs \ {p} : ~(fds[q] > 0)
          <6>1. events \subseteq events'
            BY <3>2
          <6> QED
            BY <5>2, <6>1, <3>2 DEF Disturbed
        <5> QED
          BY <5>1, <5>2
      <4>2. \A q \in Procs : fds[q] = 0
        BY <4>1 DEF TypeOK, HeldInv, Runs, HoldLabels, OpenLabels, WorkLabels
      <4>3. modes' = found' /\ otm' = otm
        BY <4>1, <4>2, <3>2 DEF FoundInv, Disturbed
      <4> QED
        BY <4>1, <4>2, <4>3, <3>2 DEF TypeOK, HeldInv, FoundInv, Disturbed, Goto, HoldLabels,
             OpenLabels, WorkLabels
    <3> QED
      BY <3>1, <3>2 DEF FoundInv
  <2> QED
    BY <2>1, <2>2, <2>3, <2>4, <2>5, <2>6, <2>7
<1>2. CASE SaveModes(p)
  <2> USE <1>2 DEF PortInv, SaveModes, Fail, CloseOne, past, holds
  <2>0. (Block(p) => MaskEffect(p, TRUE)) /\ (Unblock(p) => MaskEffect(p, sig[p].handler))
    BY MaskFacts
  <2>1. TypeOK'
    <3>1. at' \in [Procs -> Labels] /\ named' \in [Procs -> BOOLEAN]
      BY DEF TypeOK, Goto, Labels, OpenLabels, WorkLabels
    <3>2. modes' \in Modes /\ otm' \in [Procs -> Modes] /\ tm' \in [Procs -> Modes]
      <4>1. [modes EXCEPT !.brkint = FALSE] \in Modes
        BY ModeFacts DEF TypeOK
      <4> QED
        BY <4>1 DEF TypeOK, copies
    <3>3. sig' \in [Procs -> SigState] /\ proc' \in [Procs -> ProcState]
      BY PortAssumption, <2>0 DEF TypeOK, SigState, ProcState, MaskEffect
    <3>4. /\ fds' \in [Procs -> Nat] /\ owner' \in Procs \cup {Nobody}
         /\ found' \in Modes /\ events' \subseteq {"overlap", "died", "stuck"}
      <4>1. fds[p] > 0
        BY DEF HeldInv, Runs, HoldLabels, OpenLabels
      <4>2. fds' \in [Procs -> Nat]
        BY <4>1 DEF TypeOK, holds
      <4>3. owner' \in Procs \cup {Nobody}
        BY DEF TypeOK, holds
      <4> QED
        BY <4>2, <4>3 DEF TypeOK
    <3> QED
      BY <3>1, <3>2, <3>3, <3>4 DEF TypeOK, past
  <2>2. HeldInv'
    BY DEF TypeOK, HeldInv, Runs, Goto, Labels, HoldLabels, OpenLabels, WorkLabels
  <2>3. OwnerInv'
    BY PortAssumption DEF TypeOK, OwnerInv, Runs, Goto, Labels, HoldLabels, OpenLabels, WorkLabels
  <2>4. MaskInv'
    BY <2>0 DEF TypeOK, MaskInv, SigState, Runs, Goto, Labels, HoldLabels, OpenLabels, WorkLabels, MaskEffect
  <2>5. AloneInv'
    BY DEF TypeOK, HeldInv, AloneInv, Runs, Goto, Labels, HoldLabels, OpenLabels, WorkLabels
  <2>6. CopyInv'
    BY DEF TypeOK, Modes, HeldInv, AloneInv, CopyInv, Runs, Goto, Labels, HoldLabels, OpenLabels, WorkLabels
  <2>7. FoundInv'
    BY DEF TypeOK, HeldInv, AloneInv, FoundInv, Disturbed, Runs, Goto, Labels, HoldLabels, OpenLabels, WorkLabels
  <2> QED
    BY <2>1, <2>2, <2>3, <2>4, <2>5, <2>6, <2>7
<1>3. CASE Suppress(p)
  <2> USE <1>3 DEF PortInv, Suppress, Fail, CloseOne, SetModes, past, copies, holds
  <2>0. (Block(p) => MaskEffect(p, TRUE)) /\ (Unblock(p) => MaskEffect(p, sig[p].handler))
    BY MaskFacts
  <2>1. TypeOK'
    <3>1. at' \in [Procs -> Labels] /\ named' \in [Procs -> BOOLEAN]
      BY DEF TypeOK, Goto, Labels, OpenLabels, WorkLabels
    <3>2. modes' \in Modes /\ otm' \in [Procs -> Modes] /\ tm' \in [Procs -> Modes]
      BY DEF TypeOK
    <3>3. sig' \in [Procs -> SigState] /\ proc' \in [Procs -> ProcState]
      BY PortAssumption, <2>0 DEF TypeOK, SigState, ProcState, MaskEffect
    <3>4. /\ fds' \in [Procs -> Nat] /\ owner' \in Procs \cup {Nobody}
         /\ found' \in Modes /\ events' \subseteq {"overlap", "died", "stuck"}
      <4>1. fds[p] > 0
        BY DEF HeldInv, Runs, HoldLabels, OpenLabels
      <4>2. fds' \in [Procs -> Nat]
        BY <4>1 DEF TypeOK, holds
      <4>3. owner' \in Procs \cup {Nobody}
        BY DEF TypeOK, holds
      <4> QED
        BY <4>2, <4>3 DEF TypeOK
    <3> QED
      BY <3>1, <3>2, <3>3, <3>4 DEF TypeOK, past
  <2>2. HeldInv'
    BY DEF TypeOK, HeldInv, Runs, Goto, Labels, HoldLabels, OpenLabels, WorkLabels
  <2>3. OwnerInv'
    BY PortAssumption DEF TypeOK, OwnerInv, Runs, Goto, Labels, HoldLabels, OpenLabels, WorkLabels
  <2>4. MaskInv'
    BY <2>0 DEF TypeOK, MaskInv, SigState, Runs, Goto, Labels, HoldLabels, OpenLabels, WorkLabels, MaskEffect
  <2>5. AloneInv'
    BY DEF TypeOK, HeldInv, AloneInv, Runs, Goto, Labels, HoldLabels, OpenLabels, WorkLabels
  <2>6. CopyInv'
    BY DEF TypeOK, Modes, HeldInv, AloneInv, CopyInv, Runs, Goto, Labels, HoldLabels, OpenLabels, WorkLabels
  <2>7. FoundInv'
    BY DEF TypeOK, HeldInv, AloneInv, FoundInv, Disturbed, Runs, Goto, Labels, HoldLabels, OpenLabels, WorkLabels
  <2> QED
    BY <2>1, <2>2, <2>3, <2>4, <2>5, <2>6, <2>7
<1> QED
  BY <1>1, <1>2, <1>3

\* The rest of connect() keeps it.
LEMMA ConnectStep ==
  ASSUME NEW p \in Procs, PortInv, 
           Lock(p) \/ InitChannel(p) \/ Probe(p) \/ Ready(p) \/ UseCts(p) \/ Tune(p) \/ Store(p) \/ Error(p)
   
  PROVE  PortInv'
<1>1. CASE Lock(p)
  <2> USE <1>1 DEF PortInv, Lock, past, copies
  <2>1. TypeOK'
    <3>1. at' \in [Procs -> Labels] /\ named' \in [Procs -> BOOLEAN]
      BY DEF TypeOK, Goto, Labels, OpenLabels, WorkLabels
    <3>2. modes' \in Modes /\ otm' \in [Procs -> Modes] /\ tm' \in [Procs -> Modes]
      BY DEF TypeOK
    <3>3. sig' \in [Procs -> SigState] /\ proc' \in [Procs -> ProcState]
      <4>1. proc[p].tries < Attempts => [proc EXCEPT ![p].tries = @ + 1] \in [Procs -> ProcState]
        BY StateFacts
      <4> QED
        BY <4>1 DEF TypeOK
    <3>4. /\ fds' \in [Procs -> Nat] /\ owner' \in Procs \cup {Nobody}
         /\ found' \in Modes /\ events' \subseteq {"overlap", "died", "stuck"}
      BY PortAssumption DEF TypeOK, HeldInv, Runs, Goto, Labels, HoldLabels, OpenLabels, WorkLabels
    <3> QED
      BY <3>1, <3>2, <3>3, <3>4 DEF TypeOK, past
  <2>2. HeldInv'
    BY DEF TypeOK, HeldInv, Runs, Goto, Labels, HoldLabels, OpenLabels, WorkLabels
  <2>3. OwnerInv'
    BY PortAssumption DEF TypeOK, OwnerInv, Runs, Goto, Labels, HoldLabels, OpenLabels, WorkLabels
  <2>4. MaskInv'
    BY DEF TypeOK, MaskInv, SigState, Runs, Goto, Labels, HoldLabels, OpenLabels, WorkLabels
  <2>5. AloneInv'
    BY DEF TypeOK, HeldInv, AloneInv, Runs, Goto, Labels, HoldLabels, OpenLabels, WorkLabels
  <2>6. CopyInv'
    BY DEF TypeOK, Modes, HeldInv, AloneInv, CopyInv, Runs, Goto, Labels, HoldLabels, OpenLabels, WorkLabels
  <2>7. FoundInv'
    BY DEF TypeOK, HeldInv, AloneInv, FoundInv, Disturbed, Runs, Goto, Labels, HoldLabels, OpenLabels, WorkLabels
  <2> QED
    BY <2>1, <2>2, <2>3, <2>4, <2>5, <2>6, <2>7
<1>2. CASE InitChannel(p)
  <2> USE <1>2 DEF PortInv, InitChannel, SetModes, past, holds
  <2>1. TypeOK'
    <3>1. at' \in [Procs -> Labels] /\ named' \in [Procs -> BOOLEAN]
      BY DEF TypeOK, Goto, Labels, OpenLabels, WorkLabels
    <3>2. modes' \in Modes /\ otm' \in [Procs -> Modes] /\ tm' \in [Procs -> Modes]
      <4>1. [modes EXCEPT !.raw = TRUE, !.brkint = FALSE] \in Modes
        BY ModeFacts DEF TypeOK
      <4> QED
        BY <4>1 DEF TypeOK
    <3>3. sig' \in [Procs -> SigState] /\ proc' \in [Procs -> ProcState]
      BY PortAssumption DEF TypeOK, SigState, ProcState
    <3>4. /\ fds' \in [Procs -> Nat] /\ owner' \in Procs \cup {Nobody}
         /\ found' \in Modes /\ events' \subseteq {"overlap", "died", "stuck"}
      BY PortAssumption DEF TypeOK, HeldInv, Runs, Goto, Labels, HoldLabels, OpenLabels, WorkLabels
    <3> QED
      BY <3>1, <3>2, <3>3, <3>4 DEF TypeOK, past
  <2>2. HeldInv'
    BY DEF TypeOK, HeldInv, Runs, Goto, Labels, HoldLabels, OpenLabels, WorkLabels
  <2>3. OwnerInv'
    BY PortAssumption DEF TypeOK, OwnerInv, Runs, Goto, Labels, HoldLabels, OpenLabels, WorkLabels
  <2>4. MaskInv'
    BY DEF TypeOK, MaskInv, SigState, Runs, Goto, Labels, HoldLabels, OpenLabels, WorkLabels
  <2>5. AloneInv'
    BY DEF TypeOK, HeldInv, AloneInv, Runs, Goto, Labels, HoldLabels, OpenLabels, WorkLabels
  <2>6. CopyInv'
    <3>1. CASE Goto(p, "probe")
      <4>1. /\ tm'[p] = modes' /\ ~modes'.brkint
            /\ \A q \in Procs \ {p} : tm'[q] = tm[q]
        <5>1. /\ modes' = [modes EXCEPT !.raw = TRUE, !.brkint = FALSE]
              /\ tm' = [tm EXCEPT ![p] = modes']
          BY <3>1 DEF TypeOK, Goto, Labels
        <5>2. ~modes'.brkint
          BY <5>1 DEF TypeOK, Modes
        <5> QED
          BY <5>1, <5>2 DEF TypeOK
      <4> QED
        BY <3>1, <4>1 DEF TypeOK, HeldInv, AloneInv, CopyInv, Runs, Goto, Labels, HoldLabels, OpenLabels,
             WorkLabels
    <3>2. CASE Goto(p, "error") /\ UNCHANGED <<tm, modes>>
      BY <3>2 DEF TypeOK, HeldInv, AloneInv, CopyInv, Runs, Goto, Labels, HoldLabels, OpenLabels, WorkLabels
    <3> QED
      BY <3>1, <3>2
  <2>7. FoundInv'
    BY DEF TypeOK, HeldInv, AloneInv, FoundInv, Disturbed, Runs, Goto, Labels, HoldLabels, OpenLabels, WorkLabels
  <2> QED
    BY <2>1, <2>2, <2>3, <2>4, <2>5, <2>6, <2>7
<1>3. CASE Probe(p)
  <2> USE <1>3 DEF PortInv, Probe, past, copies, holds
  <2>1. TypeOK'
    BY PortAssumption DEF TypeOK, SigState, ProcState, Modes, Runs, Goto, Labels, OpenLabels, WorkLabels
  <2>2. HeldInv'
    BY DEF TypeOK, HeldInv, Runs, Goto, Labels, HoldLabels, OpenLabels, WorkLabels
  <2>3. OwnerInv'
    BY PortAssumption DEF TypeOK, OwnerInv, Runs, Goto, Labels, HoldLabels, OpenLabels, WorkLabels
  <2>4. MaskInv'
    BY DEF TypeOK, MaskInv, SigState, Runs, Goto, Labels, HoldLabels, OpenLabels, WorkLabels
  <2>5. AloneInv'
    BY DEF TypeOK, HeldInv, AloneInv, Runs, Goto, Labels, HoldLabels, OpenLabels, WorkLabels
  <2>6. CopyInv'
    BY DEF TypeOK, Modes, HeldInv, AloneInv, CopyInv, Runs, Goto, Labels, HoldLabels, OpenLabels, WorkLabels
  <2>7. FoundInv'
    BY DEF TypeOK, HeldInv, AloneInv, FoundInv, Disturbed, Runs, Goto, Labels, HoldLabels, OpenLabels, WorkLabels
  <2> QED
    BY <2>1, <2>2, <2>3, <2>4, <2>5, <2>6, <2>7
<1>4. CASE Ready(p)
  <2> USE <1>4 DEF PortInv, Ready, SetModes, past, holds
  <2>1. TypeOK'
    BY PortAssumption DEF TypeOK, SigState, ProcState, Modes, Runs, Goto, Labels, OpenLabels, WorkLabels
  <2>2. HeldInv'
    BY DEF TypeOK, HeldInv, Runs, Goto, Labels, HoldLabels, OpenLabels, WorkLabels
  <2>3. OwnerInv'
    BY PortAssumption DEF TypeOK, OwnerInv, Runs, Goto, Labels, HoldLabels, OpenLabels, WorkLabels
  <2>4. MaskInv'
    BY DEF TypeOK, MaskInv, SigState, Runs, Goto, Labels, HoldLabels, OpenLabels, WorkLabels
  <2>5. AloneInv'
    BY DEF TypeOK, HeldInv, AloneInv, Runs, Goto, Labels, HoldLabels, OpenLabels, WorkLabels
  <2>6. CopyInv'
    BY DEF TypeOK, Modes, HeldInv, AloneInv, CopyInv, Runs, Goto, Labels, HoldLabels, OpenLabels, WorkLabels
  <2>7. FoundInv'
    BY DEF TypeOK, HeldInv, AloneInv, FoundInv, Disturbed, Runs, Goto, Labels, HoldLabels, OpenLabels, WorkLabels
  <2> QED
    BY <2>1, <2>2, <2>3, <2>4, <2>5, <2>6, <2>7
<1>5. CASE UseCts(p)
  <2> USE <1>5 DEF PortInv, UseCts, SetModes, past, copies, holds
  <2>1. TypeOK'
    BY PortAssumption DEF TypeOK, SigState, ProcState, Modes, Runs, Goto, Labels, OpenLabels, WorkLabels
  <2>2. HeldInv'
    BY DEF TypeOK, HeldInv, Runs, Goto, Labels, HoldLabels, OpenLabels, WorkLabels
  <2>3. OwnerInv'
    BY PortAssumption DEF TypeOK, OwnerInv, Runs, Goto, Labels, HoldLabels, OpenLabels, WorkLabels
  <2>4. MaskInv'
    BY DEF TypeOK, MaskInv, SigState, Runs, Goto, Labels, HoldLabels, OpenLabels, WorkLabels
  <2>5. AloneInv'
    BY DEF TypeOK, HeldInv, AloneInv, Runs, Goto, Labels, HoldLabels, OpenLabels, WorkLabels
  <2>6. CopyInv'
    BY DEF TypeOK, Modes, HeldInv, AloneInv, CopyInv, Runs, Goto, Labels, HoldLabels, OpenLabels, WorkLabels
  <2>7. FoundInv'
    BY DEF TypeOK, HeldInv, AloneInv, FoundInv, Disturbed, Runs, Goto, Labels, HoldLabels, OpenLabels, WorkLabels
  <2> QED
    BY <2>1, <2>2, <2>3, <2>4, <2>5, <2>6, <2>7
<1>6. CASE Tune(p)
  <2> USE <1>6 DEF PortInv, Tune, SetModes, past, copies, holds
  <2>1. TypeOK'
    <3>1. at' \in [Procs -> Labels] /\ named' \in [Procs -> BOOLEAN]
      BY DEF TypeOK, Goto, Labels, OpenLabels, WorkLabels
    <3>2. modes' \in Modes /\ otm' \in [Procs -> Modes] /\ tm' \in [Procs -> Modes]
      BY DEF TypeOK
    <3>3. sig' \in [Procs -> SigState] /\ proc' \in [Procs -> ProcState]
      BY PortAssumption DEF TypeOK, SigState, ProcState
    <3>4. /\ fds' \in [Procs -> Nat] /\ owner' \in Procs \cup {Nobody}
         /\ found' \in Modes /\ events' \subseteq {"overlap", "died", "stuck"}
      BY PortAssumption DEF TypeOK, HeldInv, Runs, Goto, Labels, HoldLabels, OpenLabels, WorkLabels
    <3> QED
      BY <3>1, <3>2, <3>3, <3>4 DEF TypeOK, past
  <2>2. HeldInv'
    BY DEF TypeOK, HeldInv, Runs, Goto, Labels, HoldLabels, OpenLabels, WorkLabels
  <2>3. OwnerInv'
    BY PortAssumption DEF TypeOK, OwnerInv, Runs, Goto, Labels, HoldLabels, OpenLabels, WorkLabels
  <2>4. MaskInv'
    BY DEF TypeOK, MaskInv, SigState, Runs, Goto, Labels, HoldLabels, OpenLabels, WorkLabels
  <2>5. AloneInv'
    BY DEF TypeOK, HeldInv, AloneInv, Runs, Goto, Labels, HoldLabels, OpenLabels, WorkLabels
  <2>6. CopyInv'
    BY DEF TypeOK, Modes, HeldInv, AloneInv, CopyInv, Runs, Goto, Labels, HoldLabels, OpenLabels, WorkLabels
  <2>7. FoundInv'
    BY DEF TypeOK, HeldInv, AloneInv, FoundInv, Disturbed, Runs, Goto, Labels, HoldLabels, OpenLabels, WorkLabels
  <2> QED
    BY <2>1, <2>2, <2>3, <2>4, <2>5, <2>6, <2>7
<1>7. CASE Store(p)
  <2> USE <1>7 DEF PortInv, Store, past, copies, holds
  <2>1. TypeOK'
    <3>1. proc' \in [Procs -> ProcState]
      BY StateFacts
    <3>2. at' \in [Procs -> Labels]
      BY DEF TypeOK, Goto, Labels, WorkLabels
    <3> QED
      BY <3>1, <3>2 DEF TypeOK
  <2>2. HeldInv'
    BY DEF TypeOK, HeldInv, Runs, Goto, Labels, HoldLabels, OpenLabels, WorkLabels
  <2>3. OwnerInv'
    BY PortAssumption DEF TypeOK, OwnerInv, Runs, Goto, Labels, HoldLabels, OpenLabels, WorkLabels
  <2>4. MaskInv'
    BY DEF TypeOK, MaskInv, SigState, Runs, Goto, Labels, HoldLabels, OpenLabels, WorkLabels
  <2>5. AloneInv'
    BY DEF TypeOK, HeldInv, AloneInv, Runs, Goto, Labels, HoldLabels, OpenLabels, WorkLabels
  <2>6. CopyInv'
    BY DEF TypeOK, Modes, HeldInv, AloneInv, CopyInv, Runs, Goto, Labels, HoldLabels, OpenLabels, WorkLabels
  <2>7. FoundInv'
    BY DEF TypeOK, HeldInv, AloneInv, FoundInv, Disturbed, Runs, Goto, Labels, HoldLabels, OpenLabels, WorkLabels
  <2> QED
    BY <2>1, <2>2, <2>3, <2>4, <2>5, <2>6, <2>7
<1>8. CASE Error(p)
  <2> USE <1>8 DEF PortInv, Error, past, copies
  <2>0. EndEffect(p)
    BY EndFacts
  <2>1. TypeOK'
    <3>1. at' \in [Procs -> Labels] /\ named' \in [Procs -> BOOLEAN]
      BY <2>0 DEF TypeOK, Goto, Labels, OpenLabels, WorkLabels, EndEffect
    <3>2. modes' \in Modes /\ otm' \in [Procs -> Modes] /\ tm' \in [Procs -> Modes]
      BY DEF TypeOK
    <3>3. sig' \in [Procs -> SigState] /\ proc' \in [Procs -> ProcState]
      BY PortAssumption, <2>0 DEF TypeOK, SigState, ProcState, EndEffect
    <3>4. /\ fds' \in [Procs -> Nat] /\ owner' \in Procs \cup {Nobody}
         /\ found' \in Modes /\ events' \subseteq {"overlap", "died", "stuck"}
      BY PortAssumption, <2>0 DEF TypeOK, HeldInv, Runs, Goto, Labels, HoldLabels, OpenLabels, WorkLabels, EndEffect
    <3> QED
      BY <3>1, <3>2, <3>3, <3>4 DEF TypeOK, past
  <2>2. HeldInv'
    BY <2>0 DEF TypeOK, HeldInv, Runs, Goto, Labels, HoldLabels, OpenLabels, WorkLabels, EndEffect
  <2>3. OwnerInv'
    BY PortAssumption, <2>0 DEF TypeOK, OwnerInv, Runs, Goto, Labels, HoldLabels, OpenLabels, WorkLabels, EndEffect
  <2>4. MaskInv'
    BY <2>0 DEF TypeOK, MaskInv, SigState, Runs, Goto, Labels, HoldLabels, OpenLabels, WorkLabels, EndEffect
  <2>5. AloneInv'
    BY <2>0 DEF TypeOK, HeldInv, AloneInv, Runs, Goto, Labels, HoldLabels, OpenLabels, WorkLabels, EndEffect
  <2>6. CopyInv'
    BY <2>0 DEF TypeOK, Modes, HeldInv, AloneInv, CopyInv, Runs, Goto, Labels, HoldLabels, OpenLabels, WorkLabels, EndEffect
  <2>7. FoundInv'
    BY <2>0 DEF TypeOK, HeldInv, AloneInv, FoundInv, Disturbed, Runs, Goto, Labels, HoldLabels, OpenLabels, WorkLabels, EndEffect
  <2> QED
    BY <2>1, <2>2, <2>3, <2>4, <2>5, <2>6, <2>7
<1> QED
  BY <1>1, <1>2, <1>3, <1>4, <1>5, <1>6, <1>7, <1>8

\* What goes on while the port is in use keeps it.
LEMMA SessionStep ==
  ASSUME NEW p \in Procs, PortInv, SetTimeout(p) \/ Finish(p) \/ Interrupt(p) \/ Deliver(p)
  PROVE  PortInv'
<1>1. CASE SetTimeout(p)
  <2> USE <1>1 DEF PortInv, SetTimeout, SetModes, past, copies, holds
  <2>1. TypeOK'
    BY PortAssumption DEF TypeOK, SigState, ProcState, Modes, Runs, Goto, Labels, OpenLabels, WorkLabels
  <2>2. HeldInv'
    BY DEF TypeOK, HeldInv, Runs, Goto, Labels, HoldLabels, OpenLabels, WorkLabels
  <2>3. OwnerInv'
    BY PortAssumption DEF TypeOK, OwnerInv, Runs, Goto, Labels, HoldLabels, OpenLabels, WorkLabels
  <2>4. MaskInv'
    BY DEF TypeOK, MaskInv, SigState, Runs, Goto, Labels, HoldLabels, OpenLabels, WorkLabels
  <2>5. AloneInv'
    BY DEF TypeOK, HeldInv, AloneInv, Runs, Goto, Labels, HoldLabels, OpenLabels, WorkLabels
  <2>6. CopyInv'
    BY DEF TypeOK, Modes, HeldInv, AloneInv, CopyInv, Runs, Goto, Labels, HoldLabels, OpenLabels, WorkLabels
  <2>7. FoundInv'
    BY DEF TypeOK, HeldInv, AloneInv, FoundInv, Disturbed, Runs, Goto, Labels, HoldLabels, OpenLabels, WorkLabels
  <2> QED
    BY <2>1, <2>2, <2>3, <2>4, <2>5, <2>6, <2>7
<1>2. CASE Finish(p)
  <2> USE <1>2 DEF PortInv, Finish, past, copies, holds
  <2>1. TypeOK'
    BY PortAssumption DEF TypeOK, SigState, ProcState, Modes, Runs, Goto, Labels, OpenLabels, WorkLabels
  <2>2. HeldInv'
    BY DEF TypeOK, HeldInv, Runs, Goto, Labels, HoldLabels, OpenLabels, WorkLabels
  <2>3. OwnerInv'
    BY PortAssumption DEF TypeOK, OwnerInv, Runs, Goto, Labels, HoldLabels, OpenLabels, WorkLabels
  <2>4. MaskInv'
    BY DEF TypeOK, MaskInv, SigState, Runs, Goto, Labels, HoldLabels, OpenLabels, WorkLabels
  <2>5. AloneInv'
    BY DEF TypeOK, HeldInv, AloneInv, Runs, Goto, Labels, HoldLabels, OpenLabels, WorkLabels
  <2>6. CopyInv'
    BY DEF TypeOK, Modes, HeldInv, AloneInv, CopyInv, Runs, Goto, Labels, HoldLabels, OpenLabels, WorkLabels
  <2>7. FoundInv'
    BY DEF TypeOK, HeldInv, AloneInv, FoundInv, Disturbed, Runs, Goto, Labels, HoldLabels, OpenLabels, WorkLabels
  <2> QED
    BY <2>1, <2>2, <2>3, <2>4, <2>5, <2>6, <2>7
<1>3. CASE Interrupt(p)
  <2> USE <1>3 DEF PortInv, Interrupt, past, copies, holds
  <2>1. TypeOK'
    <3>1. at' \in [Procs -> Labels] /\ named' \in [Procs -> BOOLEAN]
      BY DEF TypeOK, Goto, Labels, OpenLabels, WorkLabels
    <3>2. modes' \in Modes /\ otm' \in [Procs -> Modes] /\ tm' \in [Procs -> Modes]
      BY DEF TypeOK
    <3>3. sig' \in [Procs -> SigState] /\ proc' \in [Procs -> ProcState]
      BY StateFacts DEF TypeOK
    <3>4. /\ fds' \in [Procs -> Nat] /\ owner' \in Procs \cup {Nobody}
         /\ found' \in Modes /\ events' \subseteq {"overlap", "died", "stuck"}
      BY PortAssumption DEF TypeOK, HeldInv, Runs, Goto, Labels, HoldLabels, OpenLabels, WorkLabels
    <3> QED
      BY <3>1, <3>2, <3>3, <3>4 DEF TypeOK, past
  <2>2. HeldInv'
    BY DEF TypeOK, HeldInv, Runs, Goto, Labels, HoldLabels, OpenLabels, WorkLabels
  <2>3. OwnerInv'
    BY PortAssumption DEF TypeOK, OwnerInv, Runs, Goto, Labels, HoldLabels, OpenLabels, WorkLabels
  <2>4. MaskInv'
    BY DEF TypeOK, MaskInv, SigState, Runs, Goto, Labels, HoldLabels, OpenLabels, WorkLabels
  <2>5. AloneInv'
    BY DEF TypeOK, HeldInv, AloneInv, Runs, Goto, Labels, HoldLabels, OpenLabels, WorkLabels
  <2>6. CopyInv'
    BY DEF TypeOK, Modes, HeldInv, AloneInv, CopyInv, Runs, Goto, Labels, HoldLabels, OpenLabels, WorkLabels
  <2>7. FoundInv'
    BY DEF TypeOK, HeldInv, AloneInv, FoundInv, Disturbed, Runs, Goto, Labels, HoldLabels, OpenLabels, WorkLabels
  <2> QED
    BY <2>1, <2>2, <2>3, <2>4, <2>5, <2>6, <2>7
<1>4. CASE Deliver(p)
  <2> USE <1>4 DEF PortInv, Deliver, past, copies, holds
  <2>0. End(p) => EndEffect(p)
    BY EndFacts
  <2>1. TypeOK'
    <3>1. at' \in [Procs -> Labels] /\ named' \in [Procs -> BOOLEAN]
      BY <2>0 DEF TypeOK, Goto, Labels, OpenLabels, WorkLabels, EndEffect
    <3>2. modes' \in Modes /\ otm' \in [Procs -> Modes] /\ tm' \in [Procs -> Modes]
      BY DEF TypeOK
    <3>3. sig' \in [Procs -> SigState] /\ proc' \in [Procs -> ProcState]
      <4>1. [sig EXCEPT ![p].pending = FALSE, ![p].blocked = TRUE, ![p].handler = TRUE] \in [Procs -> SigState]
        BY StateFacts
      <4> QED
        BY <4>1 DEF TypeOK
    <3>4. /\ fds' \in [Procs -> Nat] /\ owner' \in Procs \cup {Nobody}
         /\ found' \in Modes /\ events' \subseteq {"overlap", "died", "stuck"}
      BY PortAssumption, <2>0 DEF TypeOK, HeldInv, Runs, Goto, Labels, HoldLabels, OpenLabels, WorkLabels, EndEffect
    <3> QED
      BY <3>1, <3>2, <3>3, <3>4 DEF TypeOK, past
  <2>2. HeldInv'
    BY <2>0 DEF TypeOK, HeldInv, Runs, Goto, Labels, HoldLabels, OpenLabels, WorkLabels, EndEffect
  <2>3. OwnerInv'
    BY PortAssumption, <2>0 DEF TypeOK, OwnerInv, Runs, Goto, Labels, HoldLabels, OpenLabels, WorkLabels, EndEffect
  <2>4. MaskInv'
    BY <2>0 DEF TypeOK, MaskInv, SigState, Runs, Goto, Labels, HoldLabels, OpenLabels, WorkLabels, EndEffect
  <2>5. AloneInv'
    <3>1. CASE UNCHANGED past /\ UNCHANGED fds
      BY <3>1 DEF AloneInv
    <3>2. CASE End(p)
      BY <2>0, <3>2 DEF TypeOK, AloneInv, EndEffect
    <3> QED
      BY <3>1, <3>2
  <2>6. CopyInv'
    BY <2>0 DEF TypeOK, Modes, HeldInv, AloneInv, CopyInv, Runs, Goto, Labels, HoldLabels, OpenLabels, WorkLabels, EndEffect
  <2>7. FoundInv'
    BY <2>0 DEF TypeOK, HeldInv, AloneInv, FoundInv, Disturbed, Runs, Goto, Labels, HoldLabels, OpenLabels, WorkLabels, EndEffect
  <2> QED
    BY <2>1, <2>2, <2>3, <2>4, <2>5, <2>6, <2>7
<1> QED
  BY <1>1, <1>2, <1>3, <1>4

\* disconnect() and closetty() keep it.
LEMMA CloseTtyStep ==
  ASSUME NEW p \in Procs, PortInv, Disconnect(p) \/ Restore(p) \/ CloseFile(p) \/ Closed(p)
  PROVE  PortInv'
<1>1. CASE Disconnect(p)
  <2> USE <1>1 DEF PortInv, Disconnect, SetModes, past, copies, holds
  <2>0. (Block(p) => MaskEffect(p, TRUE)) /\ (Unblock(p) => MaskEffect(p, sig[p].handler))
    BY MaskFacts
  <2>1. TypeOK'
    <3>1. at' \in [Procs -> Labels] /\ named' \in [Procs -> BOOLEAN]
      BY DEF TypeOK, Goto, Labels, OpenLabels, WorkLabels
    <3>2. modes' \in Modes /\ otm' \in [Procs -> Modes] /\ tm' \in [Procs -> Modes]
      <4>1. \A b \in BOOLEAN : [modes EXCEPT !.cts = b] \in Modes
        BY ModeFacts DEF TypeOK
      <4>2. [modes EXCEPT !.cts = @ /\ Drivers[p][proc[p].driver] # "pro"] \in Modes
        BY DEF TypeOK, Modes
      <4> QED
        BY <4>2 DEF TypeOK
    <3>3. sig' \in [Procs -> SigState] /\ proc' \in [Procs -> ProcState]
      BY PortAssumption, <2>0 DEF TypeOK, SigState, ProcState, MaskEffect
    <3>4. /\ fds' \in [Procs -> Nat] /\ owner' \in Procs \cup {Nobody}
         /\ found' \in Modes /\ events' \subseteq {"overlap", "died", "stuck"}
      BY PortAssumption DEF TypeOK, HeldInv, Runs, Goto, Labels, HoldLabels, OpenLabels, WorkLabels
    <3> QED
      BY <3>1, <3>2, <3>3, <3>4 DEF TypeOK, past
  <2>2. HeldInv'
    BY DEF TypeOK, HeldInv, Runs, Goto, Labels, HoldLabels, OpenLabels, WorkLabels
  <2>3. OwnerInv'
    BY PortAssumption DEF TypeOK, OwnerInv, Runs, Goto, Labels, HoldLabels, OpenLabels, WorkLabels
  <2>4. MaskInv'
    BY <2>0 DEF TypeOK, MaskInv, SigState, Runs, Goto, Labels, HoldLabels, OpenLabels, WorkLabels, MaskEffect
  <2>5. AloneInv'
    BY DEF TypeOK, HeldInv, AloneInv, Runs, Goto, Labels, HoldLabels, OpenLabels, WorkLabels
  <2>6. CopyInv'
    BY DEF TypeOK, Modes, HeldInv, AloneInv, CopyInv, Runs, Goto, Labels, HoldLabels, OpenLabels, WorkLabels
  <2>7. FoundInv'
    BY DEF TypeOK, HeldInv, AloneInv, FoundInv, Disturbed, Runs, Goto, Labels, HoldLabels, OpenLabels, WorkLabels
  <2> QED
    BY <2>1, <2>2, <2>3, <2>4, <2>5, <2>6, <2>7
<1>2. CASE Restore(p)
  <2> USE <1>2 DEF PortInv, Restore, SetModes, Note, past, copies, holds
  <2>0. (Block(p) => MaskEffect(p, TRUE)) /\ (Unblock(p) => MaskEffect(p, sig[p].handler))
    BY MaskFacts
  <2>1. TypeOK'
    <3>1. at' \in [Procs -> Labels] /\ named' \in [Procs -> BOOLEAN]
      BY DEF TypeOK, Goto, Labels, OpenLabels, WorkLabels
    <3>2. modes' \in Modes /\ otm' \in [Procs -> Modes] /\ tm' \in [Procs -> Modes]
      BY DEF TypeOK
    <3>3. sig' \in [Procs -> SigState] /\ proc' \in [Procs -> ProcState]
      BY PortAssumption, <2>0 DEF TypeOK, SigState, ProcState, MaskEffect
    <3>4. /\ fds' \in [Procs -> Nat] /\ owner' \in Procs \cup {Nobody}
         /\ found' \in Modes /\ events' \subseteq {"overlap", "died", "stuck"}
      BY PortAssumption DEF TypeOK, HeldInv, Runs, Goto, Labels, HoldLabels, OpenLabels, WorkLabels
    <3> QED
      BY <3>1, <3>2, <3>3, <3>4 DEF TypeOK, past
  <2>2. HeldInv'
    BY DEF TypeOK, HeldInv, Runs, Goto, Labels, HoldLabels, OpenLabels, WorkLabels
  <2>3. OwnerInv'
    BY PortAssumption DEF TypeOK, OwnerInv, Runs, Goto, Labels, HoldLabels, OpenLabels, WorkLabels
  <2>4. MaskInv'
    BY <2>0 DEF TypeOK, MaskInv, SigState, Runs, Goto, Labels, HoldLabels, OpenLabels, WorkLabels, MaskEffect
  <2>5. AloneInv'
    BY DEF TypeOK, HeldInv, AloneInv, Runs, Goto, Labels, HoldLabels, OpenLabels, WorkLabels
  <2>6. CopyInv'
    BY DEF TypeOK, Modes, HeldInv, AloneInv, CopyInv, Runs, Goto, Labels, HoldLabels, OpenLabels, WorkLabels
  <2>7. FoundInv'
    BY DEF TypeOK, HeldInv, AloneInv, FoundInv, Disturbed, Runs, Goto, Labels, HoldLabels, OpenLabels, WorkLabels
  <2> QED
    BY <2>1, <2>2, <2>3, <2>4, <2>5, <2>6, <2>7
<1>3. CASE CloseFile(p)
  <2> USE <1>3 DEF PortInv, CloseFile, CloseOne, past, copies
  <2>0. (Block(p) => MaskEffect(p, TRUE)) /\ (Unblock(p) => MaskEffect(p, sig[p].handler))
    BY MaskFacts
  <2>1. TypeOK'
    <3>1. at' \in [Procs -> Labels] /\ named' \in [Procs -> BOOLEAN]
      BY DEF TypeOK, Goto, Labels, OpenLabels, WorkLabels
    <3>2. modes' \in Modes /\ otm' \in [Procs -> Modes] /\ tm' \in [Procs -> Modes]
      BY DEF TypeOK
    <3>3. sig' \in [Procs -> SigState] /\ proc' \in [Procs -> ProcState]
      BY PortAssumption, <2>0 DEF TypeOK, SigState, ProcState, MaskEffect
    <3>4. /\ fds' \in [Procs -> Nat] /\ owner' \in Procs \cup {Nobody}
         /\ found' \in Modes /\ events' \subseteq {"overlap", "died", "stuck"}
      BY PortAssumption DEF TypeOK, HeldInv, Runs, Goto, Labels, HoldLabels, OpenLabels, WorkLabels
    <3> QED
      BY <3>1, <3>2, <3>3, <3>4 DEF TypeOK, past
  <2>2. HeldInv'
    BY DEF TypeOK, HeldInv, Runs, Goto, Labels, HoldLabels, OpenLabels, WorkLabels
  <2>3. OwnerInv'
    BY PortAssumption DEF TypeOK, OwnerInv, Runs, Goto, Labels, HoldLabels, OpenLabels, WorkLabels
  <2>4. MaskInv'
    BY <2>0 DEF TypeOK, MaskInv, SigState, Runs, Goto, Labels, HoldLabels, OpenLabels, WorkLabels, MaskEffect
  <2>5. AloneInv'
    BY DEF TypeOK, HeldInv, AloneInv, Runs, Goto, Labels, HoldLabels, OpenLabels, WorkLabels
  <2>6. CopyInv'
    BY DEF TypeOK, Modes, HeldInv, AloneInv, CopyInv, Runs, Goto, Labels, HoldLabels, OpenLabels, WorkLabels
  <2>7. FoundInv'
    BY DEF TypeOK, HeldInv, AloneInv, FoundInv, Disturbed, Runs, Goto, Labels, HoldLabels, OpenLabels, WorkLabels
  <2> QED
    BY <2>1, <2>2, <2>3, <2>4, <2>5, <2>6, <2>7
<1>4. CASE Closed(p)
  <2> USE <1>4 DEF PortInv, Closed, past, copies, holds
  <2>0. End(p) => EndEffect(p)
    BY EndFacts
  <2>1. TypeOK'
    <3>1. at' \in [Procs -> Labels] /\ named' \in [Procs -> BOOLEAN]
      BY <2>0 DEF TypeOK, Goto, Labels, OpenLabels, WorkLabels, EndEffect
    <3>2. modes' \in Modes /\ otm' \in [Procs -> Modes] /\ tm' \in [Procs -> Modes]
      BY DEF TypeOK
    <3>3. sig' \in [Procs -> SigState] /\ proc' \in [Procs -> ProcState]
      BY PortAssumption, StateFacts DEF TypeOK
    <3>4. /\ fds' \in [Procs -> Nat] /\ owner' \in Procs \cup {Nobody}
         /\ found' \in Modes /\ events' \subseteq {"overlap", "died", "stuck"}
      BY PortAssumption, <2>0 DEF TypeOK, HeldInv, Runs, Goto, Labels, HoldLabels, OpenLabels, WorkLabels, EndEffect
    <3> QED
      BY <3>1, <3>2, <3>3, <3>4 DEF TypeOK, past
  <2>2. HeldInv'
    BY <2>0 DEF TypeOK, HeldInv, Runs, Goto, Labels, HoldLabels, OpenLabels, WorkLabels, EndEffect
  <2>3. OwnerInv'
    BY PortAssumption, <2>0 DEF TypeOK, OwnerInv, Runs, Goto, Labels, HoldLabels, OpenLabels, WorkLabels, EndEffect
  <2>4. MaskInv'
    BY <2>0 DEF TypeOK, MaskInv, SigState, Runs, Goto, Labels, HoldLabels, OpenLabels, WorkLabels, EndEffect
  <2>5. AloneInv'
    <3>1. CASE UNCHANGED past /\ UNCHANGED fds
      BY <3>1 DEF AloneInv
    <3>2. CASE End(p)
      BY <2>0, <3>2 DEF TypeOK, AloneInv, EndEffect
    <3> QED
      BY <3>1, <3>2
  <2>6. CopyInv'
    BY <2>0 DEF TypeOK, Modes, HeldInv, AloneInv, CopyInv, Runs, Goto, Labels, HoldLabels, OpenLabels, WorkLabels, EndEffect
  <2>7. FoundInv'
    <3>1. CASE UNCHANGED past /\ UNCHANGED fds /\ Goto(p, "start")
      BY <3>1 DEF TypeOK, FoundInv, Disturbed, Goto, Labels, HoldLabels, OpenLabels, WorkLabels
    <3>2. CASE End(p)
      BY <2>0, <3>2 DEF TypeOK, FoundInv, Disturbed, EndEffect, Labels, HoldLabels, OpenLabels, WorkLabels
    <3> QED
      BY <3>1, <3>2
  <2> QED
    BY <2>1, <2>2, <2>3, <2>4, <2>5, <2>6, <2>7
<1> QED
  BY <1>1, <1>2, <1>3, <1>4
-----------------------------------------------------------------------------
\* Nothing is open, blocked or locked at the beginning.
LEMMA InitPort == Init => PortInv
<1> SUFFICES ASSUME Init PROVE PortInv
  OBVIOUS
<1>1. TypeOK
  BY PortAssumption DEF Init, TypeOK, Modes, Labels, SigState, ProcState
<1>2. HeldInv /\ OwnerInv /\ MaskInv
  BY DEF Init, HeldInv, OwnerInv, MaskInv, HoldLabels, OpenLabels, WorkLabels
<1>3. AloneInv /\ CopyInv /\ FoundInv
  BY DEF Init, AloneInv, CopyInv, FoundInv, Disturbed, HoldLabels, OpenLabels, WorkLabels
<1> QED
  BY <1>1, <1>2, <1>3 DEF PortInv

\* Every step keeps the invariant.
LEMMA NextPort == PortInv /\ [Next]_vars => PortInv'
<1> SUFFICES ASSUME PortInv, [Next]_vars PROVE PortInv'
  OBVIOUS
<1>1. ASSUME NEW p \in Procs, Step(p) PROVE PortInv'
  <2>1. CASE OpenTty(p)
    BY <2>1, OpenTtyStep DEF OpenTty
  <2>2. CASE Connect(p)
    BY <2>2, ConnectStep DEF Connect
  <2>3. CASE CloseTty(p)
    BY <2>3, CloseTtyStep DEF CloseTty
  <2>4. CASE Deliver(p)
    BY <2>4, SessionStep
  <2> QED
    BY <1>1, <2>1, <2>2, <2>3, <2>4 DEF Step
<1>2. ASSUME NEW p \in Procs, SetTimeout(p) \/ Finish(p) \/ Interrupt(p) PROVE PortInv'
  BY <1>2, SessionStep
<1>3. CASE UNCHANGED vars
  BY <1>3 DEF vars, copies, holds, past, PortInv, TypeOK, HeldInv, OwnerInv, MaskInv, AloneInv, CopyInv,
       FoundInv, Disturbed
<1> QED
  BY <1>1, <1>2, <1>3 DEF Next, Ended

\* The invariant holds in every reachable state.
THEOREM PortInvariant == Spec => []PortInv
<1>1. Init => PortInv
  BY InitPort
<1>2. PortInv /\ [Next]_vars => PortInv'
  BY NextPort
<1> QED
  BY <1>1, <1>2, PTL DEF Spec

\* Type correctness.
THEOREM PortTypeOK == Spec => []TypeOK
<1>1. PortInv => TypeOK
  BY DEF PortInv
<1> QED
  BY <1>1, PortInvariant, PTL

\* fxlock() admits one process at a time to the port, however many there are.
THEOREM PortExclusive == Spec => []Exclusive
<1>1. PortInv => Exclusive
  BY DEF PortInv, OwnerInv, Exclusive
<1> QED
  BY <1>1, PortInvariant, PTL

\* A port nobody disturbed is left as it was found, whatever failed or was interrupted.
THEOREM PortLeftAsFound == Spec => []LeftAsFound
<1>1. PortInv => LeftAsFound
  BY DEF PortInv, FoundInv, LeftAsFound
<1> QED
  BY <1>1, PortInvariant, PTL

\* An opentty() that fails leaves neither a mask nor a descriptor behind.
THEOREM PortFailsClean == Spec => []FailsClean
<1>1. PortInv => FailsClean
  BY DEF PortInv, TypeOK, HeldInv, MaskInv, FailsClean, HoldLabels, OpenLabels, WorkLabels
<1> QED
  BY <1>1, PortInvariant, PTL

\* No noise interrupts the search for a printer.
THEOREM PortNoiseIsHarmless == Spec => []NoiseIsHarmless
<1>1. PortInv => NoiseIsHarmless
  BY DEF PortInv, CopyInv, NoiseIsHarmless
<1> QED
  BY <1>1, PortInvariant, PTL

=============================================================================
