--------------------------- MODULE PlusStopProofs ---------------------------
(***************************************************************************)
(* What PlusStop promises holds for bands of any length, labels of any     *)
(* number of bands, and status bytes that are late by any number.  A byte  *)
(* that was written is not yet taken, so the argument is about the state   *)
(* the printer WILL be in when it has taken what is on its way: it is the  *)
(* one that printlabel() counts on (StepInv).  In the handler, at most one *)
(* NOP is on its way, and whatever the driver has heard or may still hear  *)
(* of an idle printer is true (ForceInv); the formfeed and its argument    *)
(* then arrive as such (EjectInv).                                         *)
(***************************************************************************)
EXTENDS PlusStop, SequenceTheorems, TLAPS

\* The parser, and the paper, after one more byte.
AfterMode(b) ==
  IF mode = "cmd" THEN IF b = STRIKE THEN "len" ELSE IF b \in WithArgument THEN "arg" ELSE "cmd"
  ELSE IF mode = "arg" THEN "cmd"
  ELSE IF mode = "len" THEN IF b = 0 THEN "cmd" ELSE "data"
  ELSE IF left = 1 THEN "cmd" ELSE "data"
AfterCmd(b) == IF mode = "cmd" THEN b ELSE cmd
AfterLeft(b) == IF mode = "len" THEN b ELSE IF mode = "data" THEN left - 1 ELSE left
AfterTop(b) ==
  IF mode = "cmd" THEN top /\ b \notin Feeds
  ELSE IF mode = "arg" THEN top \/ (cmd = FF /\ b # 0)
  ELSE top

\* ... and when what is on its way has been taken.
ModeThen == IF tx = <<>> THEN mode ELSE AfterMode(tx[1])
CmdThen == IF tx = <<>> THEN cmd ELSE AfterCmd(tx[1])
LeftThen == IF tx = <<>> THEN left ELSE AfterLeft(tx[1])
TopThen == IF tx = <<>> THEN top ELSE AfterTop(tx[1])

ArgLabels == {"marginArg", "rightArg", "backArg", "overArg", "ffArg"}
TopLabels == {"idle", "blank", "ffSent", "ffWait"}
BandLabels == {"right", "rightArg", "back", "backArg", "over", "overArg", "strike", "len", "data",
               "clear", "feed", "wait"}

LeftInv == mode = "data" => left > 0

\* connect(): nothing but NOPs was sent.
ConnectInv ==
  at \in {"c_force", "c_forced", "none"} => tof /\ top /\ (tx = <<>> \/ tx = <<NOP>>)

StepInv ==
  at \in PrintLabels =>
    /\ Len(tx) <= 1
    /\ nslices = NSlices
    /\ ModeThen = IF at \in ArgLabels THEN "arg" ELSE IF at \in {"len", "data"} THEN at ELSE "cmd"
    /\ at = "data" => LeftThen = count /\ count \in 1..NSlices
    /\ at \in ArgLabels => (CmdThen = FF <=> at = "ffArg")
    /\ at \in TopLabels => TopThen
    /\ tof => at \in {"idle", "blank", "blanked", "ffWait"}
    /\ at \in BandLabels => bands < MaxBands

DrainInv ==
  at = "h_drain" =>
    /\ Len(tx) <= 1
    /\ nslices = NSlices
    /\ ModeThen = "data" => LeftThen <= NSlices
    /\ tof /\ stopped # "blanked" => TopThen

\* An idle printer, or a band's end, of which the driver will hear, is one that expects
\* a command.
Tame == \A i \in 1..Len(rx) : rx[i].idle \/ rx[i].ack => mode = "cmd"

ForceInv ==
  at = "h_force" =>
    /\ tx = <<>> \/ tx = <<NOP>>
    /\ nslices = NSlices
    /\ tof /\ stopped # "blanked" => top
    /\ silent =>
         /\ mode # "arg" /\ Tame /\ ("idle" \in ps => mode = "cmd")
         /\ mode = "data" => left + count <= NSlices + Len(tx)
         /\ mode = "len" => count = Len(tx)

EjectInv ==
  /\ at = "h_forced" =>
       /\ tx = <<>>
       /\ silent => mode = "cmd"
       /\ tof /\ stopped # "blanked" => top
  /\ at = "h_ff" => tx = <<>> /\ (forced => mode = "cmd")
  /\ at = "h_ffArg" /\ forced =>
       \/ tx = <<FF>> /\ mode = "cmd"
       \/ tx = <<>> /\ mode = "arg" /\ cmd = FF
  /\ at = "h_ffSent" /\ forced =>
       \/ tx = <<FF, 1>> /\ mode = "cmd"
       \/ tx = <<1>> /\ mode = "arg" /\ cmd = FF
       \/ tx = <<>> /\ mode = "cmd" /\ top
  /\ at \in {"h_status", "h_wait", "closed"} /\ forced /\ stopped # "blanked" =>
       /\ mode = "cmd" /\ top
       /\ tx = <<>> \/ (at = "h_wait" /\ tx = <<STATUS>>)

StopInv ==
  TypeOK /\ LeftInv /\ ConnectInv /\ StepInv /\ DrainInv /\ ForceInv /\ EjectInv

-----------------------------------------------------------------------------
Message == [idle : BOOLEAN, ack : BOOLEAN]

\* Booleans are written one way for the messages, another for their consequences.
LEMMA MessageFacts ==
  ASSUME NEW i \in BOOLEAN, NEW a \in BOOLEAN
  PROVE  /\ [idle |-> i, ack |-> a] \in Message
         /\ [idle |-> i, ack |-> a].idle = i /\ [idle |-> i, ack |-> a].ack = a
BY DEF Message

\* A status byte says that the printer is idle only of one that is inside no band.
Reported(ack) ==
  \/ rx' = rx
  \/ \E m \in Message :
       /\ rx' = Append(rx, m)
       /\ m.idle => mode' \in {"cmd", "arg"}
       /\ m.ack => ack

LEMMA ReportFacts ==
  ASSUME TypeOK, NEW asked \in BOOLEAN, NEW ack \in BOOLEAN, Report(asked, ack)
  PROVE  rx' \in Seq(Message) /\ Reported(ack)
<1>1. CASE rx' = rx
  BY <1>1 DEF TypeOK, Message, Reported
<1>2. CASE rx' = Append(rx, [idle |-> Idle', ack |-> ack])
  <2>1. Idle' \in BOOLEAN /\ (Idle' => mode' \in {"cmd", "arg"})
    BY DEF Idle
  <2> DEFINE m == [idle |-> Idle', ack |-> ack]
  <2>2. m \in Message /\ m.idle = Idle' /\ m.ack = ack
    BY <2>1, MessageFacts
  <2> HIDE DEF m
  <2>3. rx' = Append(rx, m)
    BY <1>2 DEF m
  <2>4. Reported(ack)
    BY <2>1, <2>2, <2>3 DEF Reported
  <2>5. rx' \in Seq(Message)
    BY <2>2, <2>3 DEF TypeOK, Message
  <2> QED  BY <2>4, <2>5
<1> QED  BY <1>1, <1>2 DEF Report

\* What a byte does, whichever it is.
Received ==
  /\ tx # <<>> /\ tx' = Tail(tx)
  /\ mode' = AfterMode(tx[1]) /\ cmd' = AfterCmd(tx[1])
  /\ left' = AfterLeft(tx[1]) /\ top' = AfterTop(tx[1])
  /\ busy' \in BOOLEAN /\ rx' \in Seq(Message)
  /\ Reported(mode = "data" /\ left = 1)
  /\ UNCHANGED <<at, tof, ps, nslices, count, bands, stopped, silent, forced>>

LEMMA ReceiveFacts == ASSUME TypeOK, LeftInv, Receive PROVE Received
<1> DEFINE b == tx[1]
<1>1. tx # <<>> /\ tx' = Tail(tx) /\ Head(tx) = b /\ b \in Nat
  BY DEF Receive, TypeOK
<1>2. UNCHANGED <<at, tof, ps, nslices, count, bands, stopped, silent, forced>>
  BY DEF Receive, history
<1> HIDE DEF b
<1>3. CASE TakeCommand(b)
  <2>1. (b = STATUS) \in BOOLEAN /\ FALSE \in BOOLEAN /\ Report(b = STATUS, FALSE)
    BY <1>3 DEF TakeCommand
  <2>2. rx' \in Seq(Message) /\ Reported(FALSE)
    BY <2>1, ReportFacts
  <2>3. mode' = AfterMode(b) /\ cmd' = AfterCmd(b) /\ left' = AfterLeft(b)
    BY <1>3 DEF TakeCommand, AfterMode, AfterCmd, AfterLeft
  <2>4. top' = AfterTop(b) /\ busy' \in BOOLEAN
    BY <1>3 DEF TakeCommand, AfterTop, TypeOK
  <2> QED  BY <1>1, <1>2, <2>2, <2>3, <2>4 DEF Received, Reported, b
<1>4. CASE TakeArgument(b)
  <2>1. FALSE \in BOOLEAN /\ Report(FALSE, FALSE)
    BY <1>4 DEF TakeArgument
  <2>2. rx' \in Seq(Message) /\ Reported(FALSE)
    BY <2>1, ReportFacts
  <2>3. mode' = AfterMode(b) /\ cmd' = AfterCmd(b) /\ left' = AfterLeft(b)
    BY <1>4 DEF TakeArgument, AfterMode, AfterCmd, AfterLeft
  <2>4. top' = AfterTop(b) /\ busy' \in BOOLEAN
    BY <1>4 DEF TakeArgument, AfterTop, TypeOK
  <2> QED  BY <1>1, <1>2, <2>2, <2>3, <2>4 DEF Received, Reported, b
<1>5. CASE TakeLength(b)
  <2>1. FALSE \in BOOLEAN /\ Report(FALSE, FALSE)
    BY <1>5 DEF TakeLength
  <2>2. rx' \in Seq(Message) /\ Reported(FALSE)
    BY <2>1, ReportFacts
  <2>3. mode' = AfterMode(b) /\ cmd' = AfterCmd(b) /\ left' = AfterLeft(b)
    BY <1>5 DEF TakeLength, AfterMode, AfterCmd, AfterLeft
  <2>4. top' = AfterTop(b) /\ busy' \in BOOLEAN
    BY <1>5 DEF TakeLength, AfterTop, TypeOK, paper
  <2> QED  BY <1>1, <1>2, <2>2, <2>3, <2>4 DEF Received, Reported, b
<1>6. CASE TakeData(b)
  <2>1. FALSE \in BOOLEAN /\ (left = 1) \in BOOLEAN /\ Report(FALSE, left = 1)
    BY <1>6 DEF TakeData
  <2>2. rx' \in Seq(Message) /\ Reported(left = 1)
    BY <2>1, ReportFacts
  <2>3. mode' = AfterMode(b) /\ cmd' = AfterCmd(b) /\ left' = AfterLeft(b)
    BY <1>6 DEF TakeData, AfterMode, AfterCmd, AfterLeft
  <2>4. top' = AfterTop(b) /\ busy' \in BOOLEAN
    BY <1>6 DEF TakeData, AfterTop, TypeOK
  <2>5. mode = "data"
    BY <1>6 DEF TakeData
  <2> QED  BY <1>1, <1>2, <2>2, <2>3, <2>4, <2>5 DEF Received, Reported, b
<1> QED  BY <1>1, <1>3, <1>4, <1>5, <1>6 DEF Receive

LEMMA QueueFacts ==
  ASSUME NEW a \in Nat, NEW b \in Nat
  PROVE  /\ <<b>> # <<>> /\ <<b>>[1] = b /\ Tail(<<b>>) = <<>> /\ Len(<<b>>) = 1
         /\ <<a, b>> # <<>> /\ <<a, b>>[1] = a /\ Tail(<<a, b>>) = <<b>>
         /\ Append(<<>>, b) = <<b>> /\ Append(<<a>>, b) = <<a, b>>
<1>1. <<b>> # <<>> /\ <<b>>[1] = b /\ Tail(<<b>>) = <<>> /\ Len(<<b>>) = 1
  OBVIOUS
<1>2. <<a, b>> # <<>> /\ <<a, b>>[1] = a
  OBVIOUS
<1>3. Tail(<<a, b>>) = <<b>>
  OBVIOUS
<1>4. Append(<<>>, b) = <<b>>
  OBVIOUS
<1>5. Append(<<a>>, b) = <<a, b>>
  <2>1. Append(<<a>>, b) \in Seq(Nat) /\ Len(Append(<<a>>, b)) = 2
    OBVIOUS
  <2>2. Append(<<a>>, b)[1] = a /\ Append(<<a>>, b)[2] = b
    OBVIOUS
  <2>3. <<a, b>> \in Seq(Nat) /\ Len(<<a, b>>) = 2 /\ <<a, b>>[1] = a /\ <<a, b>>[2] = b
    OBVIOUS
  <2>4. \A i \in 1..2 : i = 1 \/ i = 2
    OBVIOUS
  <2> QED  BY <2>1, <2>2, <2>3, <2>4, SeqEqual
<1> QED  BY <1>1, <1>2, <1>3, <1>4, <1>5

\* The paper under the bytes of the handler.
LEMMA PaperFacts ==
  ASSUME top \in BOOLEAN, NEW b \in Nat, top' = AfterTop(b)
  PROVE  /\ b \in {NOP, STATUS} /\ top => top'
         /\ mode = "arg" /\ cmd = FF /\ b = 1 => top'
<1>1. ASSUME b \in {NOP, STATUS}, top PROVE AfterTop(b)
  BY <1>1 DEF AfterTop, Feeds, NOP, STATUS, FEED, BLANK
<1>2. ASSUME mode = "arg", cmd = FF, b = 1 PROVE AfterTop(b)
  BY <1>2 DEF AfterTop
<1> QED  BY <1>1, <1>2

\* What is still to come, and what has come, of messages that tell the truth, does so too.
Truthful == Tame /\ ("idle" \in ps => mode = "cmd")

LEMMA SenseFacts ==
  ASSUME TypeOK, Sense, mode' = mode
  PROVE  /\ rx' \in Seq(Message) /\ ps' \subseteq {"idle", "ack"}
         /\ Truthful => Tame' /\ (ps' # {} => mode = "cmd")
<1>1. PICK n \in 0..Len(rx) :
        /\ rx' = SubSeq(rx, n + 1, Len(rx))
        /\ IF n = 0
             THEN ps' = ps \ {"ack"}
             ELSE \E j \in 1..n :
                    ps' = {bit \in {"idle", "ack"} : \/ bit = "idle" /\ rx[n].idle
                                                     \/ bit = "ack" /\ \E i \in j..n : rx[i].ack}
  BY DEF Sense
<1>2. rx \in Seq(Message)
  BY DEF TypeOK, Message
<1>3. /\ rx' \in Seq(Message) /\ Len(rx') = Len(rx) - n
      /\ \A i \in 1..Len(rx') : rx'[i] = rx[i + n]
  BY <1>1, <1>2
<1>4. ps' \subseteq {"idle", "ack"}
  BY <1>1 DEF TypeOK
<1>5. ASSUME Truthful PROVE Tame'
  <2>1. \A i \in 1..Len(rx') : rx'[i] = rx[i + n] /\ i + n \in 1..Len(rx)
    BY <1>2, <1>3
  <2> QED  BY <2>1, <1>5 DEF Tame, Truthful
<1>6. ASSUME Truthful, ps' # {} PROVE mode = "cmd"
  <2>1. CASE n = 0
    BY <1>1, <1>6, <2>1 DEF TypeOK, Truthful
  <2>2. CASE n # 0
    <3>1. PICK j \in 1..n :
            ps' = {bit \in {"idle", "ack"} : \/ bit = "idle" /\ rx[n].idle
                                             \/ bit = "ack" /\ \E i \in j..n : rx[i].ack}
      BY <1>1, <2>2
    <3>2. \E i \in 1..n : rx[i].idle \/ rx[i].ack
      BY <3>1, <1>6, <2>2
    <3>3. 1..n \subseteq 1..Len(rx)
      BY <1>2
    <3> QED  BY <3>2, <3>3, <1>6 DEF Truthful, Tame
  <2> QED  BY <2>1, <2>2
<1> QED  BY <1>3, <1>4, <1>5, <1>6

\* A new status byte of a printer inside no command is as true as those before it.
LEMMA TameFacts ==
  ASSUME TypeOK, NEW ack, Reported(ack),
         \A i \in 1..Len(rx) : rx[i].idle \/ rx[i].ack => mode' = "cmd",
         mode' \in {"cmd", "arg"} => mode' = "cmd",
         ack => mode' = "cmd"
  PROVE  Tame'
<1>1. CASE rx' = rx
  BY <1>1 DEF Tame
<1>2. CASE rx' # rx
  <2>1. PICK m \in Message :
          /\ rx' = Append(rx, m)
          /\ m.idle => mode' \in {"cmd", "arg"}
          /\ m.ack => ack
    BY <1>2 DEF Reported
  <2>2. rx \in Seq(Message)
    BY DEF TypeOK, Message
  <2>3. /\ Len(rx') = Len(rx) + 1 /\ rx'[Len(rx) + 1] = m
        /\ \A i \in 1..Len(rx) : rx'[i] = rx[i]
    BY <2>1, <2>2
  <2>4. m.idle \/ m.ack => mode' = "cmd"
    BY <2>1
  <2>5. \A i \in 1..Len(rx') : i \in 1..Len(rx) \/ i = Len(rx) + 1
    BY <2>2, <2>3
  <2>6. ASSUME NEW i \in 1..Len(rx'), rx'[i].idle \/ rx'[i].ack PROVE mode' = "cmd"
    <3>1. CASE i \in 1..Len(rx)
      BY <3>1, <2>3, <2>6
    <3>2. CASE i = Len(rx) + 1
      BY <3>2, <2>3, <2>4, <2>6
    <3> QED  BY <3>1, <3>2, <2>5
  <2> QED  BY <2>6 DEF Tame
<1> QED  BY <1>1, <1>2

-----------------------------------------------------------------------------
(***************************************************************************)
(* The printer's steps.                                                    *)
(***************************************************************************)

LEMMA ReceiveStep == ASSUME StopInv, Receive PROVE StopInv'
<1>0. Received
  BY ReceiveFacts DEF StopInv
<1> USE <1>0 DEF Received
<1>1. TypeOK'
  <2>1. tx[1] \in Nat /\ tx' \in Seq(Nat)
    BY DEF StopInv, TypeOK
  <2> DEFINE b == tx[1]
  <2> HIDE DEF b
  <2>2. mode' \in {"cmd", "arg", "len", "data"} /\ cmd' \in Nat
    BY <2>1 DEF StopInv, TypeOK, AfterMode, AfterCmd, b
  <2>3. left' \in Nat
    BY <2>1 DEF StopInv, LeftInv, TypeOK, AfterLeft, b
  <2>4. top' \in BOOLEAN
    <3>1. top' = AfterTop(b) /\ top \in BOOLEAN
      BY DEF StopInv, TypeOK, b
    <3> QED  BY <3>1 DEF AfterTop
  <2> QED  BY <2>1, <2>2, <2>3, <2>4 DEF StopInv, TypeOK, Message
<1>2. LeftInv'
  BY DEF StopInv, TypeOK, LeftInv, AfterMode, AfterLeft
<1>3. Len(tx) <= 1 => tx' = <<>>
  BY DEF StopInv, TypeOK
<1>4. Len(tx) <= 1 => ModeThen' = ModeThen /\ CmdThen' = CmdThen /\ LeftThen' = LeftThen /\ TopThen' = TopThen
  BY <1>3 DEF ModeThen, CmdThen, LeftThen, TopThen
<1>b. tx[1] \in Nat /\ top \in BOOLEAN
  BY DEF StopInv, TypeOK
<1>5. ConnectInv'
  <2>1. tx = <<NOP>> => tx' = <<>> /\ tx[1] = NOP
    BY DEF NOP
  <2>2. at \in {"c_force", "c_forced", "none"} => top'
    BY <1>b, <2>1, PaperFacts DEF StopInv, ConnectInv
  <2> QED  BY <2>1, <2>2 DEF StopInv, ConnectInv
<1>6. StepInv'
  BY <1>3, <1>4 DEF StopInv, StepInv, TypeOK
<1>7. DrainInv'
  BY <1>3, <1>4 DEF StopInv, DrainInv, TypeOK
<1>8. ForceInv'
  <2> SUFFICES ASSUME at = "h_force" PROVE ForceInv'
    BY DEF ForceInv
  <2>0. tx = <<NOP>> /\ NOP = 0
    BY DEF StopInv, ForceInv, NOP
  <2>1. tx = <<NOP>> /\ tx[1] = 0 /\ tx' = <<>> /\ Len(tx) = 1 /\ Len(tx') = 0
    BY <2>0, QueueFacts
  <2>3. tof /\ stopped # "blanked" => top'
    BY <1>b, <2>1, PaperFacts DEF StopInv, ForceInv, NOP
  <2>4. ASSUME silent
        PROVE  /\ mode' # "arg" /\ ("idle" \in ps => mode' = "cmd")
               /\ mode' = "data" => left' + count <= NSlices
               /\ mode' # "len"
               /\ mode = "cmd" => mode' = "cmd"
               /\ mode = "data" /\ left = 1 => mode' = "cmd"
    <3>1. /\ mode \in {"cmd", "len", "data"} /\ ("idle" \in ps => mode = "cmd")
          /\ mode = "data" => left + count <= NSlices + 1
      BY <2>1, <2>4 DEF StopInv, ForceInv, TypeOK
    <3>2. mode' = IF mode = "cmd" \/ mode = "len" \/ left = 1 THEN "cmd" ELSE "data"
      BY <2>1, <3>1 DEF AfterMode, WithArgument, STRIKE, RIGHT, LEFT, FF
    <3>3. mode = "data" => left' = left - 1
      BY DEF AfterLeft
    <3> QED  BY <3>1, <3>2, <3>3, StopAssumption DEF StopInv, TypeOK
  <2>5. ASSUME silent PROVE Tame'
    <3>1. \A i \in 1..Len(rx) : rx[i].idle \/ rx[i].ack => mode' = "cmd"
      BY <2>4, <2>5 DEF StopInv, ForceInv, Tame
    <3>2. mode' \in {"cmd", "arg"} => mode' = "cmd"
      BY <2>4, <2>5
    <3>3. mode = "data" /\ left = 1 => mode' = "cmd"
      BY <2>4, <2>5
    <3> QED  BY <3>1, <3>2, <3>3, TameFacts DEF StopInv
  <2>6. NSlices + Len(tx') = NSlices
    BY <2>1, StopAssumption
  <2>7. nslices' = NSlices
    BY DEF StopInv, ForceInv
  <2> QED  BY <2>1, <2>3, <2>4, <2>5, <2>6, <2>7 DEF ForceInv
<1>9. EjectInv'
  <2>1. CASE at = "h_ffArg"
    BY <2>1, QueueFacts DEF StopInv, EjectInv, AfterMode, AfterCmd, WithArgument, STRIKE, FF
  <2>2. CASE at = "h_ffSent" /\ forced
    <3>1. CASE tx = <<FF, 1>> /\ mode = "cmd"
      <4>1. tx[1] = FF /\ tx' = <<1>>
        BY <3>1, QueueFacts DEF FF
      <4> QED  BY <4>1, <3>1, <2>2 DEF EjectInv, AfterMode, AfterCmd, WithArgument, STRIKE, FF
    <3>2. CASE tx = <<1>> /\ mode = "arg" /\ cmd = FF
      <4>1. tx[1] = 1 /\ tx' = <<>>
        BY <3>2, QueueFacts
      <4>2. top' /\ mode' = "cmd"
        BY <4>1, <3>2, <1>b, PaperFacts DEF AfterMode
      <4> QED  BY <4>1, <4>2, <2>2 DEF EjectInv
    <3> QED  BY <2>2, <3>1, <3>2 DEF StopInv, EjectInv
  <2>3. CASE at = "h_wait" /\ forced /\ stopped # "blanked"
    <3>1. tx = <<STATUS>> /\ mode = "cmd" /\ top
      BY <2>3 DEF StopInv, EjectInv
    <3>2. tx[1] = STATUS /\ tx' = <<>>
      BY <3>1, QueueFacts DEF STATUS
    <3>3. top'
      BY <3>1, <3>2, <1>b, PaperFacts DEF STATUS
    <3>4. mode' = "cmd"
      BY <3>1, <3>2 DEF AfterMode, WithArgument, STATUS, STRIKE, RIGHT, LEFT, FF
    <3> QED  BY <2>3, <3>2, <3>3, <3>4 DEF EjectInv
  <2>4. CASE at = "h_ffSent" /\ ~forced
    BY <2>4 DEF EjectInv
  <2>5. CASE at = "h_wait" /\ ~(forced /\ stopped # "blanked")
    BY <2>5 DEF EjectInv
  <2>6. CASE at \notin {"h_ffArg", "h_ffSent", "h_wait"}
    BY <2>6 DEF StopInv, EjectInv
  <2> QED  BY <2>1, <2>2, <2>3, <2>4, <2>5, <2>6
<1> QED  BY <1>1, <1>2, <1>5, <1>6, <1>7, <1>8, <1>9 DEF StopInv

LEMMA RestStep == ASSUME StopInv, Rest PROVE StopInv'
<1>1. /\ busy' = FALSE
      /\ UNCHANGED <<at, tof, ps, nslices, count, bands, tx, mode, cmd, left, top, stopped, silent, forced>>
      /\ Report(FALSE, FALSE)
  BY DEF Rest, parser, history
<1>2. rx' \in Seq(Message) /\ Reported(FALSE)
  <2>1. FALSE \in BOOLEAN
    OBVIOUS
  <2> QED  BY <1>1, <2>1, ReportFacts DEF StopInv
<1>3. TypeOK'
  BY <1>1, <1>2 DEF StopInv, TypeOK, Message
<1>4. LeftInv' /\ ConnectInv' /\ EjectInv'
  BY <1>1 DEF StopInv, LeftInv, ConnectInv, EjectInv
<1>5. StepInv' /\ DrainInv'
  BY <1>1 DEF StopInv, StepInv, DrainInv, ModeThen, CmdThen, LeftThen, TopThen, AfterMode, AfterCmd,
              AfterLeft, AfterTop
<1>6. ForceInv'
  <2>1. ASSUME at = "h_force", silent PROVE Tame'
    BY <1>1, <1>2, <2>1, TameFacts DEF StopInv, ForceInv, Tame
  <2> QED  BY <1>1, <2>1 DEF StopInv, ForceInv
<1> QED  BY <1>3, <1>4, <1>5, <1>6 DEF StopInv

-----------------------------------------------------------------------------
(***************************************************************************)
(* The driver's steps.                                                     *)
(***************************************************************************)

\* A step that neither writes nor lets the printer move changes nothing of what it will be.
LEMMA StayFacts ==
  ASSUME UNCHANGED <<tx, mode, cmd, left, top>>
  PROVE  UNCHANGED <<ModeThen, CmdThen, LeftThen, TopThen>>
BY DEF ModeThen, CmdThen, LeftThen, TopThen, AfterMode, AfterCmd, AfterLeft, AfterTop

\* One byte on an empty line.
LEMMA SendFacts ==
  ASSUME NEW b \in Nat, Drained, tx' = <<b>>, UNCHANGED <<mode, cmd, left, top>>
  PROVE  /\ ModeThen = mode /\ CmdThen = cmd /\ LeftThen = left /\ TopThen = top
         /\ ModeThen' = AfterMode(b) /\ CmdThen' = AfterCmd(b)
         /\ LeftThen' = AfterLeft(b) /\ TopThen' = AfterTop(b)
         /\ Len(tx') = 1 /\ tx' \in Seq(Nat)
<1>1. tx = <<>> /\ tx' # <<>> /\ tx'[1] = b /\ Len(tx') = 1 /\ tx' \in Seq(Nat)
  BY QueueFacts DEF Drained
<1>2. AfterMode(b)' = AfterMode(b) /\ AfterCmd(b)' = AfterCmd(b) /\ AfterLeft(b)' = AfterLeft(b)
      /\ AfterTop(b)' = AfterTop(b)
  BY DEF AfterMode, AfterCmd, AfterLeft, AfterTop
<1>3. ModeThen' = AfterMode(b)' /\ CmdThen' = AfterCmd(b)' /\ LeftThen' = AfterLeft(b)'
      /\ TopThen' = AfterTop(b)'
  BY <1>1 DEF ModeThen, CmdThen, LeftThen, TopThen, AfterMode, AfterCmd, AfterLeft, AfterTop
<1> QED  BY <1>1, <1>2, <1>3 DEF ModeThen, CmdThen, LeftThen, TopThen

LEMMA ConnectStep == ASSUME StopInv, Connect PROVE StopInv'
<1>1. CASE ForceConnect
  <2> USE <1>1 DEF ForceConnect, force, parser, paper, history, Goto, Drained
  <2>1. rx' \in Seq(Message) /\ ps' \subseteq {"idle", "ack"}
    <3>1. CASE Sense
      BY <3>1, SenseFacts DEF StopInv
    <3>2. CASE UNCHANGED <<rx, ps>>
      BY <3>2 DEF StopInv, TypeOK, Message
    <3> QED  BY <3>1, <3>2
  <2>2. tx' \in Seq(Nat) /\ count' \in Nat /\ at' \in {"c_force", "c_forced"} /\ at' \in Labels
    <3>1. at' \in {"c_force", "c_forced"} /\ at' \in Labels
      BY DEF Labels
    <3>2. tx' = tx \/ tx' = <<0>>
      BY DEF NOP
    <3>3. <<0>> \in Seq(Nat) /\ tx \in Seq(Nat)
      BY DEF StopInv, TypeOK
    <3>4. count' \in Nat
      BY DEF StopInv, TypeOK
    <3> QED  BY <3>1, <3>2, <3>3, <3>4
  <2>3. TypeOK'
    BY <2>1, <2>2 DEF StopInv, TypeOK, Message
  <2>4. LeftInv' /\ ConnectInv'
    BY DEF StopInv, LeftInv, ConnectInv
  <2>5. StepInv' /\ DrainInv' /\ ForceInv' /\ EjectInv'
    BY <2>2 DEF StepInv, DrainInv, ForceInv, EjectInv, PrintLabels, Fixed
  <2> QED  BY <2>3, <2>4, <2>5 DEF StopInv
<1>2. CASE Found
  <2> USE <1>2 DEF Found, parser, paper, history, Goto, Drained
  <2>1. "idle" \in PrintLabels
    BY DEF PrintLabels
  <2>2. TypeOK'
    BY <2>1 DEF StopInv, TypeOK, Labels
  <2>3. StepInv'
    BY <2>1 DEF StopInv, StepInv, ConnectInv, ModeThen, TopThen, ArgLabels, TopLabels, BandLabels
  <2> QED  BY <2>2, <2>3 DEF StopInv, LeftInv, ConnectInv, DrainInv, ForceInv, EjectInv
<1>3. CASE NotFound
  <2> USE <1>3 DEF NotFound, parser, paper, history, Goto, Drained
  <2>1. TypeOK'
    BY DEF StopInv, TypeOK, Labels
  <2> QED
    BY <2>1 DEF StopInv, LeftInv, ConnectInv, StepInv, DrainInv, ForceInv, EjectInv, PrintLabels, Fixed
<1> QED  BY <1>1, <1>2, <1>3 DEF Connect

\* The labels of printlabel() are none of the others.
LEMMA LabelFacts ==
  /\ PrintLabels = {"blank", "cr", "margin", "marginArg", "right", "rightArg", "back", "backArg", "over",
                    "overArg", "strike", "feed", "return", "ff", "ffArg", "idle", "blanked", "band",
                    "len", "data", "clear", "wait", "ffSent", "ffWait"}
  /\ PrintLabels \subseteq Labels
BY DEF PrintLabels, Fixed, Labels

\* A step of printlabel() keeps what is said of the other labels.
LEMMA PrintFacts ==
  ASSUME StopInv, at' \in PrintLabels, UNCHANGED <<mode, left>>
  PROVE  LeftInv' /\ ConnectInv' /\ DrainInv' /\ ForceInv' /\ EjectInv'
BY LabelFacts DEF StopInv, LeftInv, ConnectInv, DrainInv, ForceInv, EjectInv

\* Steps that write nothing.
LEMMA QuietStep ==
  ASSUME StopInv, StartLabel \/ LabelStarted \/ NextBand \/ ClearIdle \/ WaitIdle \/ FormSent \/ FormIdle
  PROVE  StopInv'
<1> USE DEF Goto
<1>1. /\ UNCHANGED <<nslices, count, tx, mode, cmd, left, top, busy, stopped, silent, forced>>
      /\ at \in PrintLabels /\ at' \in PrintLabels
      /\ at \notin ArgLabels \cup {"len", "data"} /\ at' \notin ArgLabels \cup {"len", "data"}
  BY LabelFacts
     DEF StartLabel, LabelStarted, NextBand, ClearIdle, WaitIdle, FormSent, FormIdle, parser, paper,
         history, ArgLabels
<1>2. rx' \in Seq(Message) /\ ps' \subseteq {"idle", "ack"}
  <2>1. CASE WaitIdle \/ FormIdle
    BY <2>1, <1>1, SenseFacts DEF StopInv, WaitIdle, FormIdle
  <2>2. CASE StartLabel \/ LabelStarted \/ NextBand \/ ClearIdle \/ FormSent
    BY <2>2 DEF StartLabel, LabelStarted, NextBand, ClearIdle, FormSent, StopInv, TypeOK, Message
  <2> QED  BY <2>1, <2>2
<1>3. bands' \in 0..MaxBands /\ (at' \in BandLabels => bands' < MaxBands)
  <2>1. CASE StartLabel
    BY <2>1, StopAssumption DEF StartLabel, BandLabels
  <2>2. CASE NextBand
    BY <2>2 DEF NextBand, StopInv, TypeOK, BandLabels
  <2>3. CASE WaitIdle
    <3>1. bands \in 0..MaxBands /\ bands < MaxBands
      BY <1>1, <2>3 DEF WaitIdle, StopInv, StepInv, TypeOK, BandLabels
    <3>2. (at' = "band" /\ bands' = bands + 1) \/ bands' = bands
      BY <2>3 DEF WaitIdle
    <3> QED  BY <3>1, <3>2, StopAssumption DEF BandLabels
  <2>4. CASE LabelStarted \/ ClearIdle \/ FormSent \/ FormIdle
    BY <2>4, <1>1 DEF LabelStarted, ClearIdle, FormSent, FormIdle, StopInv, StepInv, TypeOK, BandLabels
  <2> QED  BY <2>1, <2>2, <2>3, <2>4
<1>4. TypeOK'
  <2>1. tof' \in BOOLEAN
    BY DEF StopInv, TypeOK, StartLabel, LabelStarted, NextBand, ClearIdle, WaitIdle, FormSent, FormIdle
  <2> QED  BY <1>1, <1>2, <1>3, <2>1, LabelFacts DEF StopInv, TypeOK, Message
<1>5. UNCHANGED <<ModeThen, CmdThen, LeftThen, TopThen>>
  BY <1>1, StayFacts
<1>6. StepInv'
  <2>1. at' \in TopLabels => at \in TopLabels
    BY DEF TopLabels, StartLabel, LabelStarted, NextBand, ClearIdle, WaitIdle, FormSent, FormIdle
  <2>2. tof' => at' \in {"idle", "blank", "blanked", "ffWait"}
    BY <1>1 DEF StopInv, StepInv, StartLabel, LabelStarted, NextBand, ClearIdle, WaitIdle, FormSent, FormIdle
  <2> QED  BY <1>1, <1>3, <1>5, <2>1, <2>2 DEF StopInv, StepInv
<1> QED  BY <1>1, <1>4, <1>6, PrintFacts DEF StopInv

\* What each fixed byte is, and what may follow it.
Follows(b, next) ==
  \/ at = "blank" /\ b = BLANK /\ next = "blanked"
  \/ at \in {"cr", "return"} /\ b = CR /\ next = IF at = "cr" THEN "margin" ELSE "ff"
  \/ at \in {"margin", "right"} /\ b = RIGHT /\ next = IF at = "margin" THEN "marginArg" ELSE "rightArg"
  \/ at \in {"back", "over"} /\ b = LEFT /\ next = IF at = "back" THEN "backArg" ELSE "overArg"
  \/ at = "ff" /\ b = FF /\ next = "ffArg"
  \/ at = "marginArg" /\ b = 2 /\ next = "band"
  \/ at \in {"rightArg", "backArg"} /\ b = 1 /\ (next = "strike" \/ (at = "backArg" /\ next = "over"))
  \/ at = "overArg" /\ b = 2 /\ next = "strike"
  \/ at = "ffArg" /\ b = 1 /\ next = "ffSent"
  \/ at = "strike" /\ b = STRIKE /\ next = "len"
  \/ at = "feed" /\ b = FEED /\ next = "wait"

LEMMA FixedFacts ==
  ASSUME SendFixed
  PROVE  \E b \in Nat :
           /\ Send(b) /\ Follows(b, at')
           /\ UNCHANGED <<tof, nslices, count, bands, parser, paper, history>>
<1>1. PICK here \in DOMAIN Fixed :
        /\ at = here /\ Send(Fixed[here][1]) /\ at' \in Fixed[here][2]
        /\ UNCHANGED <<tof, nslices, count, bands, parser, paper, history>>
  BY DEF SendFixed
<1>2. Fixed[here][1] \in Nat /\ Follows(Fixed[here][1], at')
  <2>1. CASE here \in {"blank", "cr", "margin", "marginArg"}
    BY <1>1, <2>1 DEF Fixed, Follows, BLANK, CR, RIGHT
  <2>2. CASE here \in {"right", "rightArg", "back", "backArg"}
    BY <1>1, <2>2 DEF Fixed, Follows, RIGHT, LEFT
  <2>3. CASE here \in {"over", "overArg", "strike", "feed"}
    BY <1>1, <2>3 DEF Fixed, Follows, LEFT, STRIKE, FEED
  <2>4. CASE here \in {"return", "ff", "ffArg"}
    BY <1>1, <2>4 DEF Fixed, Follows, CR, FF
  <2>5. here \in {"blank", "cr", "margin", "marginArg", "right", "rightArg", "back", "backArg", "over",
                  "overArg", "strike", "feed", "return", "ff", "ffArg"}
    BY DEF Fixed
  <2> QED  BY <2>1, <2>2, <2>3, <2>4, <2>5
<1> QED  BY <1>1, <1>2

\* A byte that send_byte() writes leaves what printlabel() does not touch.
LEMMA SendTypes ==
  ASSUME StopInv, NEW b \in Nat, Send(b), UNCHANGED <<tof, nslices, bands, parser, paper, history>>,
         at' \in PrintLabels, count' \in Nat
  PROVE  TypeOK' /\ LeftInv' /\ ConnectInv' /\ DrainInv' /\ ForceInv' /\ EjectInv'
<1>1. rx' \in Seq(Message) /\ ps' \subseteq {"idle", "ack"}
  BY SenseFacts DEF StopInv, Send, parser
<1>2. tx' \in Seq(Nat)
  BY DEF Send
<1>3. TypeOK'
  BY <1>1, <1>2, LabelFacts DEF StopInv, TypeOK, Message, parser, paper, history
<1> QED  BY <1>3, PrintFacts DEF parser

LEMMA SendFixedStep == ASSUME StopInv, SendFixed PROVE StopInv'
<1>1. PICK b \in Nat :
        /\ Send(b) /\ Follows(b, at')
        /\ UNCHANGED <<tof, nslices, count, bands, parser, paper, history>>
  BY FixedFacts
<1>2. at \in PrintLabels /\ at' \in PrintLabels
  BY <1>1, LabelFacts DEF Follows
<1>3. TypeOK' /\ LeftInv' /\ ConnectInv' /\ DrainInv' /\ ForceInv' /\ EjectInv'
  BY <1>1, <1>2, SendTypes DEF StopInv, TypeOK
<1>4. /\ ModeThen = mode /\ CmdThen = cmd
      /\ ModeThen' = AfterMode(b) /\ CmdThen' = AfterCmd(b) /\ TopThen' = AfterTop(b)
      /\ Len(tx') = 1
  BY <1>1, SendFacts DEF Send, parser, paper
<1>5. StepInv'
  <2>1. mode = IF at \in ArgLabels THEN "arg" ELSE IF at \in {"len", "data"} THEN at ELSE "cmd"
    BY <1>2, <1>4 DEF StopInv, StepInv
  <2>2. ModeThen' = IF at' \in ArgLabels THEN "arg" ELSE IF at' \in {"len", "data"} THEN at' ELSE "cmd"
    BY <1>1, <1>4, <2>1
       DEF Follows, ArgLabels, AfterMode, WithArgument, STRIKE, RIGHT, LEFT, FEED, BLANK, FF, CR
  <2>3. at' \in ArgLabels => (CmdThen' = FF <=> at' = "ffArg")
    BY <1>1, <1>4, <2>1 DEF Follows, ArgLabels, AfterCmd, RIGHT, LEFT, FF
  <2>4. at' # "data"
    BY <1>1 DEF Follows
  <2>5. at' \in TopLabels => TopThen'
    <3>1. at' \in TopLabels => at = "ffArg" /\ b = 1
      BY <1>1 DEF Follows, TopLabels
    <3>2. at = "ffArg" => mode = "arg" /\ cmd = FF
      BY <1>2, <1>4, <2>1 DEF StopInv, StepInv, ArgLabels
    <3>3. ASSUME at = "ffArg", b = 1 PROVE AfterTop(b)
      BY <3>2, <3>3 DEF AfterTop
    <3> QED  BY <1>4, <3>1, <3>3
  <2>6. tof' => at' \in {"idle", "blank", "blanked", "ffWait"}
    BY <1>1, <1>2 DEF Follows, StopInv, StepInv
  <2>7. at' \in BandLabels => bands' < MaxBands
    BY <1>1, <1>2 DEF Follows, StopInv, StepInv, BandLabels
  <2> QED  BY <1>1, <1>2, <1>4, <2>2, <2>3, <2>4, <2>5, <2>6, <2>7 DEF StopInv, StepInv
<1> QED  BY <1>3, <1>5 DEF StopInv

LEMMA SendLengthStep == ASSUME StopInv, SendLength PROVE StopInv'
<1>1. PICK n \in 1..NSlices : Send(n) /\ count' = n
  BY DEF SendLength
<1>2. /\ at = "len" /\ at' = "data" /\ n \in Nat \ {0}
      /\ UNCHANGED <<tof, nslices, bands, parser, paper, history>>
  BY StopAssumption DEF SendLength, Goto
<1>3. TypeOK' /\ LeftInv' /\ ConnectInv' /\ DrainInv' /\ ForceInv' /\ EjectInv'
  BY <1>1, <1>2, SendTypes, LabelFacts
<1>4. /\ ModeThen = mode /\ Len(tx') = 1
      /\ ModeThen' = AfterMode(n) /\ LeftThen' = AfterLeft(n)
  BY <1>1, <1>2, SendFacts DEF Send, parser, paper
<1>5. mode = "len"
  BY <1>2, <1>4, LabelFacts DEF StopInv, StepInv, ArgLabels
<1>6. ModeThen' = "data" /\ LeftThen' = n
  BY <1>2, <1>4, <1>5 DEF AfterMode, AfterLeft
<1>7. StepInv'
  BY <1>1, <1>2, <1>4, <1>6, LabelFacts DEF StopInv, StepInv, ArgLabels, TopLabels, BandLabels
<1> QED  BY <1>3, <1>7 DEF StopInv

LEMMA SendDataStep == ASSUME StopInv, SendData PROVE StopInv'
<1>1. /\ at = "data" /\ Send(0) /\ count' = count - 1
      /\ at' = IF count = 1 THEN "clear" ELSE "data"
      /\ UNCHANGED <<tof, nslices, bands, parser, paper, history>>
  BY DEF SendData, Goto, NOP
<1>2. /\ ModeThen = mode /\ LeftThen = left /\ Len(tx') = 1
      /\ ModeThen' = AfterMode(0) /\ LeftThen' = AfterLeft(0)
  BY <1>1, SendFacts DEF Send, parser, paper
<1>3. mode = "data" /\ left = count /\ count \in 1..NSlices
  BY <1>1, <1>2, LabelFacts DEF StopInv, StepInv, ArgLabels
<1>4. count' \in Nat /\ (count # 1 => count' \in 1..NSlices)
  BY <1>1, <1>3, StopAssumption
<1>5. TypeOK' /\ LeftInv' /\ ConnectInv' /\ DrainInv' /\ ForceInv' /\ EjectInv'
  BY <1>1, <1>4, SendTypes, LabelFacts
<1>6. ModeThen' = (IF count = 1 THEN "cmd" ELSE "data") /\ LeftThen' = count'
  BY <1>1, <1>2, <1>3 DEF AfterMode, AfterLeft
<1>7. StepInv'
  BY <1>1, <1>2, <1>4, <1>6, LabelFacts DEF StopInv, StepInv, ArgLabels, TopLabels, BandLabels
<1> QED  BY <1>5, <1>7 DEF StopInv

\* closedev() may be called at any label of printlabel().
LEMMA InterruptStep == ASSUME StopInv, Interrupt PROVE StopInv'
<1>1. /\ at \in PrintLabels /\ stopped' = at /\ at' = "h_drain"
      /\ UNCHANGED <<tof, ps, nslices, count, bands, tx, rx, mode, cmd, left, top, busy, silent, forced>>
  BY DEF Interrupt, Goto, parser, paper
<1>2. TypeOK'
  BY <1>1 DEF StopInv, TypeOK, Labels
<1>3. UNCHANGED <<ModeThen, CmdThen, LeftThen, TopThen>>
  BY <1>1, StayFacts
<1>4. ModeThen = "data" => at = "data" /\ LeftThen <= NSlices
  BY <1>1 DEF StopInv, StepInv
<1>5. tof /\ at # "blanked" => TopThen
  BY <1>1 DEF StopInv, StepInv, TopLabels
<1>6. DrainInv'
  BY <1>1, <1>3, <1>4, <1>5 DEF StopInv, StepInv, DrainInv
<1> QED  BY <1>1, <1>2, <1>6, LabelFacts DEF StopInv, LeftInv, ConnectInv, StepInv, ForceInv, EjectInv

\* The handler waits for what was written, and looks at what it knows.
LEMMA DrainStep == ASSUME StopInv, Drain PROVE StopInv'
<1>1. /\ at = "h_drain" /\ tx = <<>> /\ count' = 0 /\ at' = "h_force"
      /\ silent' = (rx = <<>> /\ mode # "arg" /\ Idle = ("idle" \in ps))
      /\ UNCHANGED <<tof, ps, nslices, bands, tx, rx, mode, cmd, left, top, busy, stopped, forced>>
  BY DEF Drain, Drained, Goto, parser, paper
<1>2. silent' => mode # "arg" /\ ("idle" \in ps => mode = "cmd") /\ rx = <<>>
  BY <1>1 DEF Idle
<1>3. TypeOK'
  BY <1>1 DEF StopInv, TypeOK, Labels
<1>4. ForceInv'
  <2>1. nslices = NSlices /\ (mode = "data" => left <= NSlices) /\ (tof /\ stopped # "blanked" => top)
    BY <1>1 DEF StopInv, DrainInv, ModeThen, LeftThen, TopThen
  <2>2. silent' => Tame'
    BY <1>1, <1>2 DEF Tame
  <2>3. Len(tx') = 0 /\ NSlices \in Nat /\ left \in Nat
    BY <1>1, StopAssumption DEF StopInv, TypeOK
  <2> QED  BY <1>1, <1>2, <2>1, <2>2, <2>3 DEF ForceInv
<1> QED  BY <1>1, <1>3, <1>4, LabelFacts DEF StopInv, LeftInv, ConnectInv, StepInv, DrainInv, EjectInv

\* force() in the handler: a NOP more, or its end.
LEMMA ForceStopStep == ASSUME StopInv, ForceStop PROVE StopInv'
<1>1. /\ at = "h_force" /\ tx = <<>>
      /\ UNCHANGED <<tof, nslices, bands, mode, cmd, left, top, busy, stopped, silent, forced>>
  BY DEF ForceStop, force, Drained, parser, paper, history
<1>2. /\ nslices = NSlices /\ NSlices \in Nat /\ left \in Nat /\ count \in Nat
      /\ tof /\ stopped # "blanked" => top
      /\ silent => mode # "arg" /\ Truthful
      /\ silent /\ mode = "data" => left + count <= NSlices /\ left > 0
      /\ silent /\ mode = "len" => count = 0
  BY <1>1, StopAssumption DEF StopInv, ForceInv, TypeOK, LeftInv, Truthful
<1>3. CASE Sense /\ at' = "h_force" /\ tx' = <<NOP>> /\ count' = count + 1
  <2>1. rx' \in Seq(Message) /\ ps' \subseteq {"idle", "ack"}
    BY <1>1, <1>3, SenseFacts DEF StopInv
  <2>2. silent => Tame' /\ ("idle" \in ps' => mode = "cmd")
    BY <1>1, <1>2, <1>3, SenseFacts DEF StopInv
  <2>3. tx' \in Seq(Nat) /\ Len(tx') = 1
    <3>1. tx' = <<0>>
      BY <1>3 DEF NOP
    <3> QED  BY <3>1
  <2>4. TypeOK'
    BY <1>1, <1>2, <1>3, <2>1, <2>3 DEF StopInv, TypeOK, Labels, Message
  <2>5. ForceInv'
    BY <1>1, <1>2, <1>3, <2>2, <2>3 DEF ForceInv
  <2> QED
    BY <1>1, <1>3, <2>4, <2>5, LabelFacts DEF StopInv, LeftInv, ConnectInv, StepInv, DrainInv, EjectInv
<1>4. CASE Sense /\ ps' \cap {"idle", "ack"} # {} /\ at' = "h_forced" /\ UNCHANGED <<tx, count>>
  <2>1. rx' \in Seq(Message) /\ ps' \subseteq {"idle", "ack"}
    BY <1>1, <1>4, SenseFacts DEF StopInv
  <2>2. silent => (ps' # {} => mode = "cmd")
    BY <1>1, <1>2, <1>4, SenseFacts DEF StopInv
  <2>3. silent => mode = "cmd"
    BY <1>4, <2>2
  <2>4. TypeOK'
    BY <1>1, <1>2, <1>4, <2>1 DEF StopInv, TypeOK, Labels, Message
  <2> QED
    BY <1>1, <1>2, <1>4, <2>3, <2>4, LabelFacts
    DEF StopInv, LeftInv, ConnectInv, StepInv, DrainInv, ForceInv, EjectInv
<1>5. CASE count >= nslices + 2 /\ at' = "h_forced" /\ UNCHANGED <<tx, rx, ps, count>>
  <2>1. silent => mode = "cmd"
    BY <1>2, <1>5 DEF StopInv, TypeOK
  <2>2. TypeOK'
    BY <1>1, <1>2, <1>5 DEF StopInv, TypeOK, Labels
  <2> QED
    BY <1>1, <1>2, <1>5, <2>1, <2>2, LabelFacts
    DEF StopInv, LeftInv, ConnectInv, StepInv, DrainInv, ForceInv, EjectInv
<1> QED
  <2>1. CASE count < nslices + 2
    BY <2>1, <1>1, <1>3, <1>4 DEF ForceStop, force, Goto
  <2>2. CASE ~(count < nslices + 2)
    <3>1. count >= nslices + 2
      BY <2>2, <1>2
    <3> QED  BY <2>2, <3>1, <1>5 DEF ForceStop, force, Goto
  <2> QED  BY <2>1, <2>2

\* The formfeed, and the request for a status: send_byte() with blind set.
LEMMA EjectStep ==
  ASSUME StopInv, EjectIfStarted \/ EjectBlind \/ EjectSent \/ AskStatus \/ LastWait
  PROVE  StopInv'
<1> USE DEF Goto
<1>1. /\ UNCHANGED <<nslices, count, bands, mode, cmd, left, top, busy, stopped, silent>>
      /\ at' \in {"h_ff", "h_ffArg", "h_ffSent", "h_status", "h_wait", "closed"}
      /\ at' \in Labels
  BY DEF EjectIfStarted, EjectBlind, EjectSent, AskStatus, LastWait, SendBlind, parser, paper, history, Labels
<1>2. rx' \in Seq(Message) /\ ps' \subseteq {"idle", "ack"}
  <2>1. CASE LastWait
    BY <2>1, <1>1, SenseFacts DEF LastWait, StopInv
  <2>2. CASE EjectIfStarted \/ EjectBlind \/ EjectSent \/ AskStatus
    BY <2>2 DEF EjectIfStarted, EjectBlind, EjectSent, AskStatus, SendBlind, StopInv, TypeOK, Message
  <2> QED  BY <2>1, <2>2
<1>3. tx' \in Seq(Nat)
  <2>1. tx \in Seq(Nat) /\ FF \in Nat /\ 1 \in Nat /\ STATUS \in Nat
    BY DEF StopInv, TypeOK, FF, STATUS
  <2>2. CASE EjectBlind
    <3>1. tx' = Append(tx, FF) \/ tx' = Append(tx, 1)
      BY <2>2 DEF EjectBlind, SendBlind
    <3> QED  BY <2>1, <3>1
  <2>3. CASE AskStatus
    BY <2>1, <2>3 DEF AskStatus, SendBlind
  <2>4. CASE EjectIfStarted \/ EjectSent \/ LastWait
    BY <2>1, <2>4 DEF EjectIfStarted, EjectSent, LastWait
  <2> QED  BY <2>2, <2>3, <2>4
<1>4. tof' \in BOOLEAN /\ forced' \in BOOLEAN
  <2>1. CASE EjectIfStarted
    BY <2>1 DEF EjectIfStarted, StopInv, TypeOK
  <2>2. CASE EjectBlind \/ EjectSent \/ AskStatus \/ LastWait
    BY <2>2 DEF EjectBlind, EjectSent, AskStatus, LastWait, history, StopInv, TypeOK
  <2> QED  BY <2>1, <2>2
<1>5. TypeOK'
  BY <1>1, <1>2, <1>3, <1>4 DEF StopInv, TypeOK, Message
<1>6. LeftInv' /\ ConnectInv' /\ StepInv' /\ DrainInv' /\ ForceInv'
  BY <1>1, LabelFacts DEF StopInv, LeftInv, ConnectInv, StepInv, DrainInv, ForceInv
<1>7. EjectInv'
  <2>1. CASE EjectIfStarted
    BY <2>1, <1>1 DEF EjectIfStarted, StopInv, EjectInv
  <2>2. CASE EjectBlind
    <3>1. CASE at = "h_ff"
      <4>1. at' = "h_ffArg" /\ tx' = <<FF>> /\ forced' = forced /\ (forced => mode = "cmd")
        BY <2>2, <3>1, QueueFacts DEF EjectBlind, SendBlind, StopInv, EjectInv, history, FF
      <4> QED  BY <4>1, <1>1 DEF EjectInv
    <3>2. CASE at = "h_ffArg"
      <4>1. at' = "h_ffSent" /\ tx' = Append(tx, 1) /\ forced' = forced
        BY <2>2, <3>2 DEF EjectBlind, SendBlind, history
      <4>2. Append(<<FF>>, 1) = <<FF, 1>> /\ Append(<<>>, 1) = <<1>>
        BY QueueFacts DEF FF
      <4> QED  BY <3>2, <4>1, <4>2, <1>1 DEF StopInv, EjectInv
    <3> QED  BY <2>2, <3>1, <3>2 DEF EjectBlind
  <2>3. CASE EjectSent
    BY <2>3, <1>1 DEF EjectSent, Drained, StopInv, EjectInv, history
  <2>4. CASE AskStatus
    <3>1. Append(<<>>, STATUS) = <<STATUS>>
      BY QueueFacts DEF STATUS
    <3> QED  BY <2>4, <3>1, <1>1 DEF AskStatus, SendBlind, StopInv, EjectInv, history
  <2>5. CASE LastWait
    BY <2>5, <1>1 DEF LastWait, Drained, StopInv, EjectInv, history
  <2> QED  BY <2>1, <2>2, <2>3, <2>4, <2>5
<1> QED  BY <1>5, <1>6, <1>7 DEF StopInv

-----------------------------------------------------------------------------
LEMMA InitStop == Init => StopInv
<1> SUFFICES ASSUME Init PROVE StopInv
  OBVIOUS
<1>1. left \in Nat /\ (mode = "data" => left > 0) /\ cmd \in Nat
  BY StopAssumption DEF Init, NOP, WithArgument, STRIKE, RIGHT, LEFT, FF
<1>2. TypeOK
  <2>1. tx \in Seq(Nat) /\ rx \in Seq(Message)
    <3>1. tx = <<>> /\ rx = <<>>
      BY DEF Init
    <3> QED  BY <3>1
  <2>2. at \in Labels /\ stopped \in PrintLabels
    <3>1. at = "c_force" /\ stopped = "idle"
      BY DEF Init
    <3> QED  BY <3>1, LabelFacts DEF Labels
  <2>3. nslices \in {MaxNops, NSlices} /\ count \in Nat /\ bands \in 0..MaxBands
    BY StopAssumption DEF Init
  <2>4. tof \in BOOLEAN /\ top \in BOOLEAN /\ busy \in BOOLEAN /\ silent \in BOOLEAN /\ forced \in BOOLEAN
    BY DEF Init
  <2>5. mode \in {"cmd", "arg", "len", "data"} /\ ps \subseteq {"idle", "ack"}
    BY DEF Init
  <2> QED  BY <1>1, <2>1, <2>2, <2>3, <2>4, <2>5 DEF TypeOK, Message
<1>3. LeftInv /\ ConnectInv
  BY <1>1 DEF Init, LeftInv, ConnectInv
<1>4. StepInv /\ DrainInv /\ ForceInv /\ EjectInv
  BY LabelFacts DEF Init, StepInv, DrainInv, ForceInv, EjectInv
<1> QED  BY <1>2, <1>3, <1>4 DEF StopInv

LEMMA StutterStop == StopInv /\ UNCHANGED vars => StopInv'
BY DEF vars, parser, paper, history, StopInv, TypeOK, LeftInv, ConnectInv, StepInv, DrainInv, ForceInv,
       EjectInv, Tame, ModeThen, CmdThen, LeftThen, TopThen, AfterMode, AfterCmd, AfterLeft, AfterTop

LEMMA NextStop == StopInv /\ [Next]_vars => StopInv'
<1> SUFFICES ASSUME StopInv, [Next]_vars PROVE StopInv'
  OBVIOUS
<1>1. CASE Printer
  BY <1>1, ReceiveStep, RestStep DEF Printer
<1>2. CASE Connect
  BY <1>2, ConnectStep
<1>3. CASE PrintLabel
  BY <1>3, QuietStep, SendFixedStep, SendLengthStep, SendDataStep DEF PrintLabel
<1>4. CASE Interrupt
  BY <1>4, InterruptStep
<1>5. CASE Close
  BY <1>5, DrainStep, ForceStopStep, EjectStep DEF Close
<1>6. CASE Closed \/ UNCHANGED vars
  BY <1>6, StutterStop DEF Closed
<1> QED  BY <1>1, <1>2, <1>3, <1>4, <1>5, <1>6 DEF Next

\* The invariant of the bytes.
THEOREM StopInvariant == Spec => []StopInv
<1>1. Init => StopInv
  BY InitStop
<1>2. StopInv /\ [Next]_vars => StopInv'
  BY NextStop
<1> QED  BY <1>1, <1>2, PTL DEF Spec

\* PlusStop's variables keep their types, for every bound.
THEOREM StopTypeOK == Spec => []TypeOK
<1>1. StopInv => TypeOK
  BY DEF StopInv
<1> QED  BY <1>1, StopInvariant, PTL

\* printlabel() (slplus.c:813-946) and the printer agree on what each byte is, however long
\* the bands are.
THEOREM StopInStep == Spec => []InStep
<1>1. ASSUME StopInv PROVE InStep
  <2>1. ASSUME Drained, at \in PrintLabels
        PROVE  /\ mode = IF at \in ArgLabels THEN "arg" ELSE IF at \in {"len", "data"} THEN at ELSE "cmd"
               /\ at = "data" => left = count
    BY <1>1, <2>1 DEF StopInv, StepInv, Drained, ModeThen, LeftThen
  <2> QED  BY <2>1 DEF InStep, ArgLabels
<1> QED  BY <1>1, StopInvariant, PTL

\* force() (slplus.c:386-422), in the handler: its NOPs are enough, and what ends it early is true.
THEOREM StopForceWorks == Spec => []ForceWorksWhenSilent
<1>1. StopInv => ForceWorksWhenSilent
  BY DEF StopInv, EjectInv, ForceWorksWhenSilent
<1> QED  BY <1>1, StopInvariant, PTL

\* st->tof (slplus.c:862, 806): what the driver believes of the paper.
THEOREM StopTofTruthful == Spec => []TofTruthful
<1>1. StopInv => TofTruthful
  BY DEF StopInv, StepInv, TofTruthful, Drained, TopThen, TopLabels
<1> QED  BY <1>1, StopInvariant, PTL

\* disconnect() (slplus.c:1008-1045) ejects the label it was called upon.
THEOREM StopEjects == Spec => []EjectsStoppedLabel
<1>1. StopInv => EjectsStoppedLabel
  BY DEF StopInv, EjectInv, EjectsStoppedLabel
<1> QED  BY <1>1, StopInvariant, PTL

=============================================================================
