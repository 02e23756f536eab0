------------------------------ MODULE ProProofs ------------------------------
(***************************************************************************)
(* What Pro promises of rates, bytes and models holds for every list of    *)
(* speeds, every table of models, any number of labels, bands and          *)
(* troubles, and any -b.  The argument is one inductive invariant, ProInv, *)
(* whose parts are commented below.                                        *)
(***************************************************************************)
EXTENDS Pro, TLAPS

-----------------------------------------------------------------------------
(***************************************************************************)
(* Where the driver is.                                                    *)
(***************************************************************************)

Waiting(l) == at \in {"idle", "check"} /\ then = l
Forcing(l) == at = "force" /\ then = l
Switching(l) == at \in {"switch", "switchCode", "switchLocal"} /\ then = l

\* ping(), up to the answer; from set_baud() on, it is tuned to a speed.
Tuned == at \in {"ping", "pinged"} \/ Forcing("ping")
Hunting == Tuned \/ at = "hunt" \/ Forcing("hunt")

\* The rest of ping(), and getmodel().
Found == at \in {"verify", "model", "modelled"} \/ Waiting("model")

\* connect() after that, and setmedia(); printlabel(), and its formfeed().
Connecting ==
  \/ at = "speed" \/ at \in Setting \/ Switching("modes")
  \/ Waiting("modes") \/ Waiting("tune") \/ Waiting("connected")
Labelling ==
  \/ at \in {"label", "feed", "fed1", "fedCheck", "band", "print", "len", "data", "bandCheck"}
  \/ Waiting("form")
Forming == at \in {"form", "formArg", "formSent", "fed"} \/ Waiting("fed")

\* reset_printer() once the reset was sent.
Resetting == at \in {"resetSent", "resetDone", "giveUp"} \/ Waiting("resetDone")

\* disconnect(), up to the rate that the printer goes back to, and from there.
Leaving ==
  \/ at \in {"stop", "stopped", "eject", "ejectArg", "ejected", "ask", "restore", "close"}
  \/ Forcing("stopped") \/ Waiting("restore")
Restoring == Switching("close") \/ Waiting("close")

Main == frame = "main" /\ caller = "main"

-----------------------------------------------------------------------------
(***************************************************************************)
(* The inductive invariant.                                                *)
(***************************************************************************)

\* Where a wait, force(), the settings and switch_baud() return to.
ThenInv ==
  /\ at = "force" => then \in {"ping", "hunt", "stopped"}
  /\ at \in {"idle", "check"} =>
       then \in {"model", "modes", "tune", "connected", "form", "fed", "resetDone", "restore", "close"}
  /\ at \in {"switch", "switchCode", "switchLocal"} => then \in {"modes", "close"}
  /\ at \in {"set", "setArg"} => then \in {"tuning", "margin", "settled", "sized"}

\* Who is where: the handler only disconnects, and recovers from a fault; a recovery in main
\* never disconnects.
FrameInv ==
  /\ Hunting \/ Found \/ Forming \/ at = "hunted" => caller = "fault" \/ frame = "main"
  /\ Forcing("hunt") \/ Resetting \/ at = "reset" => caller = "fault"
  /\ Connecting \/ Labelling => Main
  /\ Leaving \/ Restoring => caller = "main" \/ frame = "handler"
  /\ caller = "main" /\ run.opened => st.m # "NULL"
  /\ frame = "handler" => run.opened

\* What is known of the model tells how far connect() came.
KnownInv ==
  Main =>
    IF st.m = "NULL" THEN Hunting \/ Found \/ Leaving \/ at \in {"hunted", "fault", "over"}
    ELSE Connecting \/ Labelling \/ Forming \/ Leaving \/ Restoring \/ at \in {"fault", "error", "over"}

\* What loops have still to do.
CountInv ==
  /\ at \in {"feed", "fed1", "fedCheck", "set", "setArg", "data"} => st.todo > 0
  /\ pr.mode = "data" => pr.left > 0
  /\ caller = "main" /\ (Labelling \/ Forming) => st.nslices = NSlices
  /\ Tuned => st.tried <= Len(Speeds) /\ tty.rate = Speeds[st.tried]
  /\ run.outcome = "done" => at = "over" /\ Main /\ run.opened

\* Nothing answers where nothing is, and nothing is found.
NothingInv ==
  pr.kind = "nothing" =>
    /\ pr.owed = <<>> /\ tty.rx = <<>> /\ ~pr.busy /\ ~pr.jam
    /\ st.m = "NULL" /\ ~Found

\* A message is on its way, or was not read yet.
Flying(b) == Came(b, pr.owed) \/ Came(b, tty.rx)

SameRate == tty.rate = pr.rate

\* What a printer that followed disconnect() expects.
LeavingMode ==
  IF ~SameRate THEN "cmd"
  ELSE IF at = "ejectArg" THEN "arg" ELSE IF at = "switchCode" THEN "rate" ELSE "cmd"

\* An answer to a ping comes from a printer that is in step; one that is heard, from one that is at the
\* rate of the port; and it is not there any more when another command is on its way.
PingInv ==
  /\ Flying("ping") /\ at # "over" => pr.mode = LeavingMode
  /\ Tuned /\ Came("ping", tty.rx) => SameRate
  /\ Main /\ (st.m # "NULL" \/ Found) => ~Flying("ping")
  /\ caller = "fault" /\ (Resetting \/ Forming) => ~Flying("ping") /\ ~Flying("model")

Once(b, s) == \A i, j \in DOMAIN s : s[i] = b /\ s[j] = b => i = j

\* connect() pings once at the printer's rate.
OncePinged ==
  Main /\ Hunting =>
    /\ Once("ping", pr.owed)
    /\ ~(Came("ping", pr.owed) /\ Came("ping", tty.rx))
    /\ Flying("ping") =>
         \/ \E j \in 1..st.tried - 1 : pr.rate = Speeds[j]
         \/ at = "pinged" /\ SameRate

\* getmodel() is where it is only after an answer to a ping; it is asked once.
FoundInv ==
  /\ Found \/ at = "reset" => SameRate /\ pr.mode = "cmd"
  /\ Main /\ st.m = "NULL" /\ at \notin {"modelled", "over"} => ~Flying("model")

\* What the printer of a session expects; nothing but commands, if it does not understand.
SessionMode ==
  IF ~SameRate THEN "cmd"
  ELSE IF at = "switchCode" THEN "rate"
  ELSE IF at \in {"setArg", "formArg", "ejectArg"} THEN "arg"
  ELSE IF at \in {"len", "data"} THEN at ELSE "cmd"

StepInv ==
  Main /\ st.m # "NULL" /\ at # "over" =>
    /\ pr.mode = SessionMode
    /\ at = "data" /\ SameRate => pr.left = st.todo

\* The two ends of the line, while they change their rates and at other times.
RateInv ==
  Main /\ st.m # "NULL" /\ KnownLimit =>
    /\ at \in {"switch", "switchCode", "switchLocal"} => st.speed \in Rates
    /\ Switching("modes") => st.speed \in HostRates
    /\ at = "switchLocal" => pr.rate = st.speed
    /\ ~Waiting("close") /\ at \notin {"switchLocal", "close", "fault", "error", "over"} => SameRate

\* A jam is heard only after one.
JamInv == luck.troubles = 0 => ~pr.jam /\ ~Flying("jam") /\ "jam" \notin st.ps

Clear == "garbled" \notin st.ps /\ (Came("garbled", tty.rx) => at = "switchLocal")

\* Nothing is garbled between two ends that agree.
ClearInv ==
  /\ ~Came("garbled", pr.owed)
  /\ Found /\ at # "verify" => Clear
  /\ Main /\ st.m # "NULL" /\ KnownLimit => Clear \/ Waiting("close") \/ at \in {"close", "fault", "error", "over"}

None == tty.rx = <<>> /\ pr.owed = <<>>
Only(b) == (tty.rx = <<b>> /\ pr.owed = <<>>) \/ (tty.rx = <<>> /\ pr.owed = <<b>>)

\* A printer at rest, that waits for a command, or for an argument that NOP is good for.
AtRest(p) ==
  /\ p.kind # "nothing" /\ ~p.busy /\ ~p.jam /\ p.mode \in {"cmd", "rate", "arg"}
  /\ p.mode = "rate" => p.rate = 9600
  /\ p.mode = "arg" => p.cmd = FF

\* A calm printer answers each question, and says nothing else, until the model is known.
CalmHunt ==
  /\ st.ps = {}
  /\ pr.rate \in HostRates /\ \E i \in st.tried..Len(Speeds) : Speeds[i] = pr.rate
  /\ Tuned /\ SameRate /\ (at = "force" => st.todo > 0) => pr.mode = "cmd"
  /\ IF at = "pinged" /\ SameRate THEN Only("ping") ELSE None

CalmFound ==
  /\ at \in {"verify", "model"} => None
  /\ at = "modelled" => IF Models[pr.kind].modern THEN Only("model") ELSE None
  /\ at = "check" => FALSE
  /\ at = "idle" => Only("idle")

\* A calm printer is heard in time, and its model is not known yet.
Hoping == luck.calm /\ luck.late = 0 /\ caller = "main" /\ st.m = "NULL" /\ at # "over"

CalmInv ==
  /\ luck.calm => pr.kind # "nothing"
  /\ luck.calm /\ luck.late = 0 /\ caller = "main" =>
       /\ st.tried <= Len(Speeds)
       /\ st.m # "NULL" => st.m = pr.kind
  /\ Hoping => AtRest(pr) /\ ((Hunting /\ CalmHunt) \/ (Found /\ CalmFound))

\* The rate of the printer when the session is closed.
AtDefault == pr.rate = Limited(Models[st.m].default) /\ pr.mode = "cmd"

DefaultInv ==
  Main /\ st.m # "NULL" /\ KnownLimit /\ luck.calm /\ luck.late = 0 =>
    /\ Switching("close") /\ at = "switch" => st.speed = Models[st.m].default
    /\ Switching("close") /\ at = "switchCode" => st.speed = Limited(Models[st.m].default)
    /\ Waiting("close") \/ (Switching("close") /\ at = "switchLocal") => AtDefault
    /\ luck.troubles = 0 /\ (at = "close" \/ run.outcome = "done") => AtDefault

\* After a reset, the right model's rate is the printer's.
ResetInv ==
  caller = "fault" /\ st.m = pr.kind =>
    /\ at = "resetSent" => pr.rate = Models[pr.kind].default /\ pr.mode = "cmd"
    /\ at \in {"resetDone", "form"} \/ Waiting("resetDone") => SameRate /\ pr.mode = "cmd"
    /\ at = "formArg" => SameRate /\ pr.mode = "arg"

ProInv ==
  /\ TypeOK /\ ThenInv /\ FrameInv /\ KnownInv /\ CountInv /\ NothingInv /\ PingInv /\ OncePinged
  /\ FoundInv /\ StepInv /\ RateInv /\ JamInv /\ ClearInv /\ CalmInv /\ DefaultInv /\ ResetInv

-----------------------------------------------------------------------------
(***************************************************************************)
(* Messages.                                                               *)
(***************************************************************************)

LEMMA CameAppend ==
  ASSUME NEW s \in Seq(Messages), NEW x \in Messages, NEW b
  PROVE  Append(s, x) \in Seq(Messages) /\ (Came(b, Append(s, x)) <=> Came(b, s) \/ b = x)
<1>1. /\ Append(s, x) \in Seq(Messages) /\ Len(Append(s, x)) = Len(s) + 1
      /\ \A i \in 1..Len(s) : Append(s, x)[i] = s[i]
      /\ Append(s, x)[Len(s) + 1] = x
  OBVIOUS
<1>2. DOMAIN s = 1..Len(s) /\ DOMAIN Append(s, x) = 1..Len(s) + 1 /\ Len(s) \in Nat
  OBVIOUS
<1> QED  BY <1>1, <1>2 DEF Came

LEMMA CameTail ==
  ASSUME NEW s \in Seq(Messages), s # <<>>, NEW b
  PROVE  /\ Tail(s) \in Seq(Messages) /\ Head(s) \in Messages
         /\ Came(b, s) <=> Came(b, Tail(s)) \/ b = Head(s)
<1>1. /\ Tail(s) \in Seq(Messages) /\ Len(Tail(s)) = Len(s) - 1 /\ Len(s) \in Nat \ {0}
      /\ \A i \in 1..Len(s) - 1 : Tail(s)[i] = s[i + 1]
      /\ Head(s) = s[1] /\ Head(s) \in Messages
  OBVIOUS
<1>2. DOMAIN s = 1..Len(s) /\ DOMAIN Tail(s) = 1..Len(s) - 1
  BY <1>1
<1>3. ASSUME Came(b, s) PROVE Came(b, Tail(s)) \/ b = Head(s)
  <2>1. PICK i \in 1..Len(s) : s[i] = b
    BY <1>2, <1>3 DEF Came
  <2>2. CASE i # 1
    <3>1. i - 1 \in 1..Len(s) - 1 /\ Tail(s)[i - 1] = s[i]
      BY <1>1, <2>2
    <3> QED  BY <1>2, <2>1, <3>1 DEF Came
  <2> QED  BY <1>1, <2>1, <2>2
<1>4. ASSUME Came(b, Tail(s)) \/ b = Head(s) PROVE Came(b, s)
  BY <1>1, <1>2, <1>4 DEF Came
<1> QED  BY <1>1, <1>3, <1>4

LEMMA CameEmpty == \A b : ~Came(b, <<>>)
BY DEF Came

LEMMA CameOne == \A x, b : Came(b, <<x>>) <=> b = x
BY DEF Came

LEMMA CameTwo == \A x, y, b : Came(b, <<x, y>>) <=> b = x \/ b = y
<1> SUFFICES ASSUME NEW x, NEW y, NEW b PROVE Came(b, <<x, y>>) <=> b = x \/ b = y
  OBVIOUS
<1>1. DOMAIN <<x, y>> = {1, 2} /\ <<x, y>>[1] = x /\ <<x, y>>[2] = y
  OBVIOUS
<1> QED  BY <1>1 DEF Came

LEMMA CameType ==
  ASSUME NEW s \in Seq(Messages), NEW b, Came(b, s)
  PROVE  b \in Messages
BY DEF Came

\* What was heard, and why.
LEMMA HeardFacts ==
  ASSUME NEW ps \in SUBSET Bits, NEW s \in Seq(Messages)
  PROVE  /\ Heard(ps, s) \in SUBSET Bits
         /\ "ping" \in Heard(ps, s) <=> Came("ping", s)
         /\ "garbled" \in Heard(ps, s) => "garbled" \in ps \/ Came("garbled", s)
         /\ "jam" \in Heard(ps, s) => "jam" \in ps \/ Came("jam", s)
         /\ s = <<>> => Heard(ps, s) = ps \ {"ping"}
         /\ s = <<"idle">> => "idle" \in Heard(ps, s)
<1>1. Heard(ps, s) \in SUBSET Bits
  BY DEF Heard
<1>2. "ping" \in Heard(ps, s) <=> Came("ping", s)
  BY DEF Heard, Bits, Statuses
<1>3. ASSUME "garbled" \in Heard(ps, s) PROVE "garbled" \in ps \/ Came("garbled", s)
  <2>1. CASE s = <<>>
    BY <1>3, <2>1 DEF Heard, Statuses
  <2>2. CASE s # <<>>
    <3>1. Last(s) = "garbled" /\ Last(s) = s[Len(s)] /\ Len(s) \in DOMAIN s
      BY <1>3, <2>2 DEF Heard, Statuses, Last
    <3> QED  BY <3>1 DEF Came
  <2> QED  BY <2>1, <2>2
<1>4. "jam" \in Heard(ps, s) => "jam" \in ps \/ Came("jam", s)
  BY DEF Heard, Came
<1>5. ASSUME s = <<>> PROVE Heard(ps, s) = ps \ {"ping"}
  <2>1. ~Came("ping", s) /\ DOMAIN s = {}
    BY <1>5 DEF Came
  <2>2. \A b \in Bits : b \in Heard(ps, s) <=> b \in ps /\ b # "ping"
    BY <1>5, <2>1 DEF Heard, Bits, Statuses
  <2> QED  BY <1>1, <2>2
<1>6. s = <<"idle">> => "idle" \in Heard(ps, s)
  BY DEF Heard, Bits, Statuses
<1> QED  BY <1>1, <1>2, <1>3, <1>4, <1>5, <1>6

-----------------------------------------------------------------------------
(***************************************************************************)
(* The printer.                                                            *)
(***************************************************************************)

Printers ==
  [kind : DOMAIN Models \cup {"nothing"}, rate : Rates, mode : {"cmd", "rate", "arg", "len", "data"},
   cmd : Nat, left : Nat, busy : BOOLEAN, jam : BOOLEAN, owed : Seq(Messages)]

Bytes == {NOP, STATUS, BAUD, PRINT, MODE, FEED, FF, RESET, MODEL, PING}

LEMMA StatusFacts ==
  ASSUME NEW p \in Printers
  PROVE  /\ StatusOf(p) \in Statuses /\ StatusOf(p) \in Messages
         /\ StatusOf(p) = "jam" <=> p.jam
         /\ ~p.jam /\ ~p.busy /\ p.mode \in {"cmd", "rate", "arg"} => StatusOf(p) = "idle"
BY DEF StatusOf, Statuses, Messages, Printers

\* But for what it reports, the printer is what the step made of it.
LEMMA ReportFacts ==
  ASSUME NEW old \in Printers, NEW new \in Printers
  PROVE  LET r == Report(old, new) IN
         /\ r \in Printers
         /\ r.kind = new.kind /\ r.rate = new.rate /\ r.mode = new.mode /\ r.cmd = new.cmd
         /\ r.left = new.left /\ r.busy = new.busy /\ r.jam = new.jam
         /\ r.owed = new.owed \/ r.owed = Append(new.owed, StatusOf(new))
         /\ StatusOf(new) = StatusOf(old) => r = new
<1>1. CASE StatusOf(new) = StatusOf(old)
  BY <1>1 DEF Report
<1>2. CASE StatusOf(new) # StatusOf(old)
  <2>1. Append(new.owed, StatusOf(new)) \in Seq(Messages)
    BY StatusFacts, CameAppend DEF Printers
  <2> QED  BY <1>2, <2>1 DEF Report, Printers
<1> QED  BY <1>1, <1>2

\* The steps of the parser, at the printer's rate.
LEMMA ResetFacts ==
  ASSUME NEW p \in Printers, p.kind # "nothing", p.mode = "cmd"
  PROVE  Obeyed(p, RESET) = [p EXCEPT !.rate = Models[p.kind].default, !.busy = FALSE, !.jam = FALSE, !.owed = <<"idle">>]
BY DEF Obeyed

LEMMA CommandFacts ==
  ASSUME NEW p \in Printers, p.mode = "cmd", NEW b \in Nat, b # RESET
  PROVE  Obeyed(p, b) = [p EXCEPT !.mode = Expects(b), !.cmd = b, !.busy = @ \/ b = FEED, !.owed = @ \o Answer(p, b)]
BY DEF Obeyed

LEMMA OperandFacts ==
  ASSUME NEW p \in Printers, NEW b \in Nat
  PROVE  /\ p.mode = "rate" => Obeyed(p, b) = [p EXCEPT !.mode = "cmd", !.rate = RateOf(p, b)]
         /\ p.mode = "arg" => Obeyed(p, b) = [p EXCEPT !.mode = "cmd", !.busy = @ \/ (p.cmd = FF /\ b # 0)]
         /\ p.mode = "len" => Obeyed(p, b) = [p EXCEPT !.mode = IF b = 0 THEN "cmd" ELSE "data", !.left = b]
         /\ p.mode = "data" =>
              Obeyed(p, b) = [p EXCEPT !.left = @ - 1, !.mode = IF p.left = 1 THEN "cmd" ELSE "data",
                                       !.busy = @ \/ p.left = 1]
BY DEF Obeyed

LEMMA AnswerFacts ==
  ASSUME NEW p \in Printers, p.kind # "nothing", NEW b \in Nat
  PROVE  /\ p.owed \o Answer(p, b) \in Seq(Messages)
         /\ \A x : Came(x, p.owed \o Answer(p, b)) =>
              \/ Came(x, p.owed)
              \/ x = "ping" /\ b = PING
              \/ x = "model" /\ b = MODEL /\ Models[p.kind].modern
              \/ x = StatusOf(p) /\ b = STATUS
         /\ b \notin {PING, STATUS, MODEL} => p.owed \o Answer(p, b) = p.owed
         /\ b = PING => p.owed \o Answer(p, b) = Append(p.owed, "ping")
         /\ b = STATUS => p.owed \o Answer(p, b) = Append(p.owed, StatusOf(p))
         /\ b = MODEL => p.owed \o Answer(p, b) = IF Models[p.kind].modern THEN Append(p.owed, "model") ELSE p.owed
<1>1. p.owed \in Seq(Messages) /\ StatusOf(p) \in Messages /\ "ping" \in Messages /\ "model" \in Messages
  BY StatusFacts DEF Printers, Messages
<1>2. \A s \in Seq(Messages), x \in Messages : s \o <<x>> = Append(s, x) /\ s \o <<>> = s
  OBVIOUS
<1>3. CASE b = PING
  <2>1. Answer(p, b) = <<"ping">> /\ b \notin {STATUS, MODEL}
    BY <1>3 DEF Answer, PING, STATUS, MODEL
  <2>2. p.owed \o Answer(p, b) = Append(p.owed, "ping")
    BY <1>1, <1>2, <2>1
  <2>3. /\ Append(p.owed, "ping") \in Seq(Messages)
        /\ \A x : Came(x, Append(p.owed, "ping")) <=> Came(x, p.owed) \/ x = "ping"
    BY <1>1, CameAppend
  <2> QED  BY <1>3, <2>1, <2>2, <2>3
<1>4. CASE b = STATUS
  <2>1. Answer(p, b) = <<StatusOf(p)>> /\ b \notin {PING, MODEL}
    BY <1>4 DEF Answer, PING, STATUS, MODEL
  <2>2. p.owed \o Answer(p, b) = Append(p.owed, StatusOf(p))
    BY <1>1, <1>2, <2>1
  <2>3. /\ Append(p.owed, StatusOf(p)) \in Seq(Messages)
        /\ \A x : Came(x, Append(p.owed, StatusOf(p))) <=> Came(x, p.owed) \/ x = StatusOf(p)
    BY <1>1, CameAppend
  <2> QED  BY <1>4, <2>1, <2>2, <2>3
<1>5. CASE b = MODEL /\ Models[p.kind].modern
  <2>1. Answer(p, b) = <<"model">> /\ b \notin {PING, STATUS}
    BY <1>5 DEF Answer, PING, STATUS, MODEL
  <2>2. p.owed \o Answer(p, b) = Append(p.owed, "model")
    BY <1>1, <1>2, <2>1
  <2>3. /\ Append(p.owed, "model") \in Seq(Messages)
        /\ \A x : Came(x, Append(p.owed, "model")) <=> Came(x, p.owed) \/ x = "model"
    BY <1>1, CameAppend
  <2> QED  BY <1>5, <2>1, <2>2, <2>3
<1>6. CASE b \notin {PING, STATUS} /\ ~(b = MODEL /\ Models[p.kind].modern)
  <2>1. Answer(p, b) = <<>>
    BY <1>6 DEF Answer
  <2>2. p.owed \o Answer(p, b) = p.owed
    BY <1>1, <1>2, <2>1
  <2> QED  BY <1>1, <1>6, <2>2
<1> QED  BY <1>3, <1>4, <1>5, <1>6

\* What a byte may make of printer p, at its rate or not: no kind or jam comes of it, and no
\* message but for a status, and the answer to a ping or to CMD_MODEL.
Follows(p, b, same, q) ==
  /\ q \in Printers /\ q.kind = p.kind
  /\ q.mode = "data" => q.left > 0
  /\ q.jam => p.jam
  /\ \A x : Came(x, q.owed) =>
       \/ Came(x, p.owed)
       \/ x \in Statuses /\ (x = "jam" => p.jam)
       \/ same /\ p.mode = "cmd" /\ x = "ping" /\ b = PING
       \/ same /\ p.mode = "cmd" /\ x = "model" /\ b = MODEL /\ p.kind # "nothing"

LEMMA ModelType ==
  \A k \in DOMAIN Models : Models[k].default \in Rates /\ Models[k].modern \in BOOLEAN
BY ProAssumption

LEMMA ExpectsType == \A b \in Nat : Expects(b) \in {"cmd", "rate", "arg", "len"}
BY DEF Expects

LEMMA RateType ==
  ASSUME NEW p \in Printers, NEW b \in Nat
  PROVE  RateOf(p, b) \in Rates
BY DEF RateOf, Rates, Printers

LEMMA ObeyedFacts ==
  ASSUME NEW p \in Printers, p.kind # "nothing", p.mode = "data" => p.left > 0, NEW b \in Nat
  PROVE  Follows(p, b, TRUE, Obeyed(p, b))
<1> DEFINE q == Obeyed(p, b)
<1>1. p.kind \in DOMAIN Models /\ StatusOf(p) \in Statuses /\ (StatusOf(p) = "jam" => p.jam)
  BY StatusFacts DEF Printers
<1>2. CASE p.mode = "cmd" /\ b = RESET
  <2>1. q = [p EXCEPT !.rate = Models[p.kind].default, !.busy = FALSE, !.jam = FALSE, !.owed = <<"idle">>]
    BY <1>2, ResetFacts
  <2>2. <<"idle">> \in Seq(Messages) /\ \A x : Came(x, <<"idle">>) <=> x = "idle"
    BY CameOne DEF Messages
  <2> HIDE DEF q
  <2>3. q \in Printers /\ q.kind = p.kind /\ q.mode = "cmd" /\ ~q.jam /\ q.owed = <<"idle">>
    BY <1>1, <1>2, <2>1, <2>2, ModelType DEF Printers
  <2> QED  BY <2>2, <2>3 DEF Follows, Statuses, q
<1>3. CASE p.mode = "cmd" /\ b # RESET
  <2>1. q = [p EXCEPT !.mode = Expects(b), !.cmd = b, !.busy = @ \/ b = FEED, !.owed = @ \o Answer(p, b)]
    BY <1>3, CommandFacts
  <2>2. Expects(b) \in {"cmd", "rate", "arg", "len"} /\ p.owed \o Answer(p, b) \in Seq(Messages)
    BY AnswerFacts, ExpectsType
  <2> HIDE DEF q
  <2>3. q \in Printers /\ q.kind = p.kind /\ q.mode # "data" /\ q.jam = p.jam /\ q.owed = p.owed \o Answer(p, b)
    BY <2>1, <2>2 DEF Printers
  <2>4. \A x : Came(x, q.owed) =>
              \/ Came(x, p.owed)
              \/ x = "ping" /\ b = PING
              \/ x = "model" /\ b = MODEL
              \/ x = StatusOf(p)
    BY <2>3, AnswerFacts
  <2> QED  BY <1>1, <1>3, <2>3, <2>4 DEF Follows, q
<1>4. CASE p.mode = "rate"
  <2>1. q = [p EXCEPT !.mode = "cmd", !.rate = RateOf(p, b)]
    BY <1>4, OperandFacts
  <2> HIDE DEF q
  <2>2. q \in Printers /\ q.kind = p.kind /\ q.mode # "data" /\ q.jam = p.jam /\ q.owed = p.owed
    BY <2>1, RateType DEF Printers
  <2> QED  BY <2>2 DEF Follows, q
<1>5. CASE p.mode = "arg"
  <2>1. q = [p EXCEPT !.mode = "cmd", !.busy = @ \/ (p.cmd = FF /\ b # 0)]
    BY <1>5, OperandFacts
  <2> HIDE DEF q
  <2>2. q \in Printers /\ q.kind = p.kind /\ q.mode # "data" /\ q.jam = p.jam /\ q.owed = p.owed
    BY <2>1 DEF Printers
  <2> QED  BY <2>2 DEF Follows, q
<1>6. CASE p.mode = "len" /\ b = 0
  <2>1. q = [p EXCEPT !.mode = "cmd", !.left = b]
    BY <1>6, OperandFacts
  <2> HIDE DEF q
  <2>2. q \in Printers /\ q.kind = p.kind /\ q.mode # "data" /\ q.jam = p.jam /\ q.owed = p.owed
    BY <2>1 DEF Printers
  <2> QED  BY <2>2 DEF Follows, q
<1>7. CASE p.mode = "len" /\ b # 0
  <2>1. q = [p EXCEPT !.mode = "data", !.left = b]
    BY <1>7, OperandFacts
  <2>2. b > 0
    BY <1>7
  <2> HIDE DEF q
  <2>3. q \in Printers /\ q.kind = p.kind /\ q.left = b /\ q.jam = p.jam /\ q.owed = p.owed
    BY <2>1 DEF Printers
  <2> QED  BY <2>2, <2>3 DEF Follows, q
<1>8. CASE p.mode = "data"
  <2> DEFINE rest == p.left - 1
             mode == IF p.left = 1 THEN "cmd" ELSE "data"
             busy == p.busy \/ p.left = 1
  <2>1. q = [p EXCEPT !.left = rest, !.mode = mode, !.busy = busy]
    BY <1>8, OperandFacts DEF Printers
  <2>2. rest \in Nat /\ (mode = "data" => rest > 0)
    BY <1>8 DEF Printers
  <2>3. mode \in {"cmd", "data"} /\ busy \in BOOLEAN
    BY DEF Printers
  <2> HIDE DEF q, rest, mode, busy
  <2>4. q \in Printers /\ q.kind = p.kind /\ q.left = rest /\ q.mode = mode /\ q.jam = p.jam /\ q.owed = p.owed
    BY <2>1, <2>2, <2>3 DEF Printers
  <2> QED  BY <2>2, <2>4 DEF Follows, q
<1> QED  BY <1>2, <1>3, <1>4, <1>5, <1>6, <1>7, <1>8 DEF Printers

LEMMA MangledFacts ==
  ASSUME NEW p \in Printers, p.kind # "nothing", p.mode = "data" => p.left > 0, NEW b \in Nat, NEW q \in Mangled(p)
  PROVE  /\ Follows(p, b, FALSE, q) /\ q.rate = p.rate /\ q.owed = p.owed
         /\ p.mode # "data" => q.mode \in {p.mode, "cmd"} /\ q.busy = p.busy
<1>1. CASE q = p
  BY <1>1 DEF Follows
<1>2. CASE p.mode = "data" /\ q = Obeyed(p, NOP)
  <2>1. NOP \in Nat /\ Follows(p, NOP, TRUE, q)
    BY <1>2, ObeyedFacts DEF NOP
  <2>2. q = [p EXCEPT !.left = @ - 1, !.mode = IF p.left = 1 THEN "cmd" ELSE "data", !.busy = @ \/ p.left = 1]
    BY <1>2, <2>1, OperandFacts
  <2>3. q.rate = p.rate /\ q.owed = p.owed
    BY <2>2 DEF Printers
  <2> QED  BY <1>2, <2>1, <2>3 DEF Follows
<1>3. CASE p.mode \in {"rate", "arg", "len"} /\ q = [p EXCEPT !.mode = "cmd"]
  <2>1. /\ q \in Printers /\ q.kind = p.kind /\ q.mode = "cmd" /\ q.jam = p.jam /\ q.owed = p.owed
        /\ q.rate = p.rate /\ q.busy = p.busy
    BY <1>3 DEF Printers
  <2> QED  BY <2>1 DEF Follows
<1> QED  BY <1>1, <1>2, <1>3 DEF Mangled

\* What becomes of the printer when byte b arrives.
Parsed(b) ==
  IF pr.kind = "nothing" THEN pr' = pr
  ELSE IF ~SameRate
    THEN /\ pr'.rate = pr.rate
         /\ pr.mode # "data" => pr'.mode \in {pr.mode, "cmd"}
    ELSE /\ pr.mode = "cmd" => pr'.mode = Expects(b)
         /\ pr.mode \in {"rate", "arg"} => pr'.mode = "cmd"
         /\ pr.mode = "len" => pr'.left = b /\ (b # 0 => pr'.mode = "data")
         /\ pr.mode = "data" => pr'.left = pr.left - 1 /\ (pr.left # 1 => pr'.mode = "data")
                                                       /\ (pr.left = 1 => pr'.mode = "cmd")
         /\ pr.mode = "rate" => pr'.rate = RateOf(pr, b)
         /\ pr.mode = "cmd" /\ b = RESET =>
              pr'.rate = Models[pr.kind].default /\ \A x : Came(x, pr'.owed) => x = "idle"
         /\ pr.mode # "rate" /\ ~(pr.mode = "cmd" /\ b = RESET) => pr'.rate = pr.rate

\* What it owes after a byte that is no question: more by a status, or what it owed.
Reports(q) == q.owed = pr.owed \/ \E x \in Statuses : q.owed = Append(pr.owed, x)

LEMMA StatusesFact == Statuses \subseteq Messages
BY DEF Statuses, Messages

LEMMA FollowsReport ==
  ASSUME NEW p \in Printers, NEW b \in Nat, NEW same \in BOOLEAN, NEW q, Follows(p, b, same, q)
  PROVE  Follows(p, b, same, Report(p, q))
<1> DEFINE r == Report(p, q)
<1>1. /\ q \in Printers /\ r \in Printers
      /\ r.kind = q.kind /\ r.mode = q.mode /\ r.left = q.left /\ r.jam = q.jam
      /\ r.owed = q.owed \/ r.owed = Append(q.owed, StatusOf(q))
  BY ReportFacts DEF Follows
<1>2. StatusOf(q) \in Statuses /\ StatusOf(q) \in Messages /\ (StatusOf(q) = "jam" => p.jam)
  BY <1>1, StatusFacts DEF Follows
<1>3. q.owed \in Seq(Messages)
  BY <1>1 DEF Printers
<1> HIDE DEF r
<1>4. \A x : Came(x, r.owed) => Came(x, q.owed) \/ x = StatusOf(q)
  BY <1>1, <1>2, <1>3, CameAppend
<1>5. \A x : Came(x, r.owed) =>
       \/ Came(x, p.owed)
       \/ x \in Statuses /\ (x = "jam" => p.jam)
       \/ same /\ p.mode = "cmd" /\ x = "ping" /\ b = PING
       \/ same /\ p.mode = "cmd" /\ x = "model" /\ b = MODEL /\ p.kind # "nothing"
  BY <1>2, <1>4 DEF Follows
<1>6. Follows(p, b, same, r)
  BY <1>1, <1>5 DEF Follows
<1> QED  BY <1>6 DEF r

\* The parser, at the printer's rate, step by step.
LEMMA ObeyedFields ==
  ASSUME NEW p \in Printers, p.kind # "nothing", p.mode = "data" => p.left > 0, NEW b \in Nat
  PROVE  LET q == Obeyed(p, b) IN
         /\ p.mode = "cmd" => q.mode = Expects(b)
         /\ p.mode \in {"rate", "arg"} => q.mode = "cmd"
         /\ p.mode = "len" => q.left = b /\ (b # 0 => q.mode = "data")
         /\ p.mode = "data" => q.left = p.left - 1 /\ (p.left # 1 => q.mode = "data")
                                                   /\ (p.left = 1 => q.mode = "cmd")
         /\ p.mode = "rate" => q.rate = RateOf(p, b)
         /\ p.mode = "cmd" /\ b = RESET => q.rate = Models[p.kind].default /\ q.owed = <<"idle">>
         /\ p.mode # "rate" /\ ~(p.mode = "cmd" /\ b = RESET) => q.rate = p.rate
         /\ ~(p.mode = "cmd" /\ b \in {RESET, PING, STATUS, MODEL}) => q.owed = p.owed
         /\ p.mode = "cmd" /\ b = PING => q.owed = Append(p.owed, "ping") /\ StatusOf(q) = StatusOf(p)
<1> DEFINE q == Obeyed(p, b)
<1>1. CASE p.mode = "cmd" /\ b = RESET
  <2>1. q = [p EXCEPT !.rate = Models[p.kind].default, !.busy = FALSE, !.jam = FALSE, !.owed = <<"idle">>]
    BY <1>1, ResetFacts
  <2>2. Expects(b) = "cmd" /\ b # PING
    BY <1>1 DEF Expects, RESET, BAUD, MODE, FF, PRINT, PING
  <2> HIDE DEF q
  <2>3. q.rate = Models[p.kind].default /\ q.mode = "cmd" /\ q.owed = <<"idle">>
    BY <1>1, <2>1 DEF Printers
  <2> QED  BY <1>1, <2>2, <2>3 DEF q
<1>2. CASE p.mode = "cmd" /\ b # RESET
  <2>1. q = [p EXCEPT !.mode = Expects(b), !.cmd = b, !.busy = @ \/ b = FEED, !.owed = @ \o Answer(p, b)]
    BY <1>2, CommandFacts
  <2> DEFINE busy == p.busy \/ b = FEED
  <2>2. busy \in BOOLEAN /\ (b = PING => busy = p.busy /\ Expects(b) = "cmd")
    BY DEF Printers, PING, FEED, Expects, BAUD, MODE, FF, PRINT
  <2> HIDE DEF q
  <2>3. q.rate = p.rate /\ q.mode = Expects(b) /\ q.jam = p.jam /\ q.busy = busy /\ q.owed = p.owed \o Answer(p, b)
    BY <2>1 DEF Printers
  <2>4. b \notin {PING, STATUS, MODEL} => q.owed = p.owed
    BY <2>3, AnswerFacts
  <2>5. b = PING => q.owed = Append(p.owed, "ping")
    BY <2>3, AnswerFacts
  <2> HIDE DEF busy
  <2>6. b = PING => StatusOf(q) = StatusOf(p)
    BY <1>2, <2>2, <2>3 DEF StatusOf
  <2> QED  BY <1>2, <2>3, <2>4, <2>5, <2>6 DEF q
<1>3. CASE p.mode = "rate"
  <2>1. q = [p EXCEPT !.mode = "cmd", !.rate = RateOf(p, b)]
    BY <1>3, OperandFacts
  <2> HIDE DEF q
  <2>2. q.mode = "cmd" /\ q.rate = RateOf(p, b) /\ q.owed = p.owed
    BY <2>1 DEF Printers
  <2> QED  BY <1>3, <2>2 DEF q
<1>4. CASE p.mode = "arg"
  <2>1. q = [p EXCEPT !.mode = "cmd", !.busy = @ \/ (p.cmd = FF /\ b # 0)]
    BY <1>4, OperandFacts
  <2> HIDE DEF q
  <2>2. q.mode = "cmd" /\ q.rate = p.rate /\ q.owed = p.owed
    BY <2>1 DEF Printers
  <2> QED  BY <1>4, <2>2 DEF q
<1>5. CASE p.mode = "len"
  <2> DEFINE mode == IF b = 0 THEN "cmd" ELSE "data"
  <2>1. q = [p EXCEPT !.mode = mode, !.left = b]
    BY <1>5, OperandFacts
  <2> HIDE DEF q, mode
  <2>2. q.mode = mode /\ q.left = b /\ q.rate = p.rate /\ q.owed = p.owed
    BY <2>1 DEF Printers
  <2> QED  BY <1>5, <2>2 DEF q, mode
<1>6. CASE p.mode = "data"
  <2> DEFINE rest == p.left - 1
             mode == IF p.left = 1 THEN "cmd" ELSE "data"
             busy == p.busy \/ p.left = 1
  <2>1. q = [p EXCEPT !.left = rest, !.mode = mode, !.busy = busy]
    BY <1>6, OperandFacts DEF Printers
  <2> HIDE DEF q, rest, mode, busy
  <2>2. q.mode = mode /\ q.left = rest /\ q.rate = p.rate /\ q.owed = p.owed
    BY <2>1 DEF Printers
  <2> QED  BY <1>6, <2>2 DEF q, mode, rest
<1> QED  BY <1>1, <1>2, <1>3, <1>4, <1>5, <1>6 DEF Printers

LEMMA ReceivesFacts ==
  ASSUME pr \in Printers, pr.mode = "data" => pr.left > 0, NEW b \in Nat, Receives(b)
  PROVE  /\ Follows(pr, b, SameRate, pr') /\ Parsed(b)
         /\ b \notin {RESET, PING, STATUS, MODEL} \/ ~SameRate \/ pr.mode # "cmd" => Reports(pr')
         /\ b = PING => Reports(pr') \/ pr'.owed = Append(pr.owed, "ping")
<1>1. CASE pr.kind = "nothing"
  <2>1. pr' = pr
    BY <1>1 DEF Receives
  <2> QED  BY <1>1, <2>1 DEF Follows, Parsed, Reports
<1>2. CASE pr.kind # "nothing" /\ SameRate
  <2> DEFINE q == Obeyed(pr, b)
  <2>1. pr' = Report(pr, q) /\ Follows(pr, b, TRUE, q)
    BY <1>2, ObeyedFacts DEF Receives, SameRate
  <2>2. Follows(pr, b, TRUE, pr')
    BY <2>1, FollowsReport
  <2>3. /\ pr'.rate = q.rate /\ pr'.mode = q.mode /\ pr'.left = q.left
        /\ pr'.owed = q.owed \/ pr'.owed = Append(q.owed, StatusOf(q))
        /\ StatusOf(q) = StatusOf(pr) => pr' = q
        /\ StatusOf(q) \in Statuses /\ q.owed \in Seq(Messages) /\ pr.owed \in Seq(Messages)
    BY <2>1, ReportFacts, StatusFacts DEF Follows, Printers
  <2>4. /\ pr.mode = "cmd" => q.mode = Expects(b)
        /\ pr.mode \in {"rate", "arg"} => q.mode = "cmd"
        /\ pr.mode = "len" => q.left = b /\ (b # 0 => q.mode = "data")
        /\ pr.mode = "data" => q.left = pr.left - 1 /\ (pr.left # 1 => q.mode = "data")
                                                  /\ (pr.left = 1 => q.mode = "cmd")
        /\ pr.mode = "rate" => q.rate = RateOf(pr, b)
        /\ pr.mode = "cmd" /\ b = RESET => q.rate = Models[pr.kind].default /\ q.owed = <<"idle">>
        /\ pr.mode # "rate" /\ ~(pr.mode = "cmd" /\ b = RESET) => q.rate = pr.rate
        /\ ~(pr.mode = "cmd" /\ b \in {RESET, PING, STATUS, MODEL}) => q.owed = pr.owed
        /\ pr.mode = "cmd" /\ b = PING => q.owed = Append(pr.owed, "ping") /\ StatusOf(q) = StatusOf(pr)
    BY <1>2, ObeyedFields
  <2>5. pr.mode = "cmd" /\ b = RESET => \A x : Came(x, pr'.owed) => x = "idle"
    <3> SUFFICES ASSUME pr.mode = "cmd", b = RESET PROVE \A x : Came(x, pr'.owed) => x = "idle"
      OBVIOUS
    <3>1. q = [pr EXCEPT !.rate = Models[pr.kind].default, !.busy = FALSE, !.jam = FALSE, !.owed = <<"idle">>]
      BY <1>2, ResetFacts
    <3>2. q.owed = <<"idle">> /\ ~q.busy /\ ~q.jam /\ q.mode = "cmd"
      BY <3>1 DEF Printers
    <3>3. StatusOf(q) = "idle"
      BY <3>2 DEF StatusOf
    <3> HIDE DEF q
    <3>4. "idle" \in Messages /\ <<"idle">> \in Seq(Messages)
      BY DEF Messages
    <3>5. \A x : Came(x, Append(<<"idle">>, "idle")) <=> Came(x, <<"idle">>) \/ x = "idle"
      BY <3>4, CameAppend
    <3>6. pr'.owed = <<"idle">> \/ pr'.owed = Append(<<"idle">>, "idle")
      BY <2>3, <3>2, <3>3
    <3> QED  BY <3>5, <3>6, CameOne
  <2> HIDE DEF q
  <2>6. Parsed(b)
    BY <1>2, <2>3, <2>4, <2>5 DEF Parsed
  <2> QED  BY <1>2, <2>2, <2>3, <2>4, <2>6 DEF Reports
<1>3. CASE pr.kind # "nothing" /\ ~SameRate
  <2>1. PICK q \in Mangled(pr) : pr' = Report(pr, q)
    BY <1>3 DEF Receives, SameRate
  <2>2. /\ Follows(pr, b, FALSE, q) /\ q.rate = pr.rate /\ q.owed = pr.owed
        /\ pr.mode # "data" => q.mode \in {pr.mode, "cmd"}
    BY <1>3, MangledFacts
  <2>3. Follows(pr, b, FALSE, pr')
    BY <2>1, <2>2, FollowsReport
  <2>4. /\ pr'.rate = q.rate /\ pr'.mode = q.mode
        /\ pr'.owed = q.owed \/ pr'.owed = Append(q.owed, StatusOf(q))
        /\ StatusOf(q) \in Statuses
    BY <2>1, <2>2, ReportFacts, StatusFacts DEF Follows
  <2>5. Follows(pr, b, SameRate, pr')
    BY <1>3, <2>3 DEF Follows
  <2>6. Parsed(b)
    BY <1>3, <2>2, <2>4 DEF Parsed
  <2>7. Reports(pr')
    BY <2>2, <2>4 DEF Reports
  <2> QED  BY <2>5, <2>6, <2>7
<1> QED  BY <1>1, <1>2, <1>3

-----------------------------------------------------------------------------
(***************************************************************************)
(* Types.                                                                  *)
(***************************************************************************)

States ==
  [ps : SUBSET Bits, m : DOMAIN Models \cup {"NULL"}, tof : BOOLEAN, nslices : {MAXNOPS, NSlices},
   maxbaud : MaxBauds \cup {0}, tried : 1..Len(Speeds) + 1, speed : Nat, todo : Nat]
LineRates == HostRates \cup {0, 9600}
Ports == [rate : LineRates, cts : BOOLEAN, rx : Seq(Messages)]
Runs ==
  [labels : 0..MaxLabels, bands : 0..MaxBands, opened : BOOLEAN,
   outcome : {"none", "done", "stopped", "absent", "killed", "error", "fault", "crashed"}]
Fates == [late : 0..MaxTroubles, troubles : 0..MaxTroubles, calm : BOOLEAN]

LEMMA Types ==
  TypeOK <=>
    /\ at \in Labels /\ then \in Labels /\ caller \in {"main", "fault"} /\ frame \in {"main", "handler"}
    /\ st \in States /\ tty \in Ports /\ pr \in Printers /\ run \in Runs /\ luck \in Fates
BY DEF TypeOK, States, Ports, LineRates, Printers, Runs, Fates

LEMMA Primes ==
  TypeOK' <=>
    /\ at' \in Labels /\ then' \in Labels /\ caller' \in {"main", "fault"} /\ frame' \in {"main", "handler"}
    /\ st' \in States /\ tty' \in Ports /\ pr' \in Printers /\ run' \in Runs /\ luck' \in Fates
BY DEF TypeOK, States, Ports, LineRates, Printers, Runs, Fates

LEMMA BytesType ==
  /\ NOP \in Nat /\ STATUS \in Nat /\ BAUD \in Nat /\ PRINT \in Nat /\ MODE \in Nat /\ FEED \in Nat
  /\ FF \in Nat /\ RESET \in Nat /\ MODEL \in Nat /\ PING \in Nat
BY DEF NOP, STATUS, BAUD, PRINT, MODE, FEED, FF, RESET, MODEL, PING

LEMMA NumbersType ==
  /\ NSlices \in Nat /\ MAXNOPS \in Nat /\ MaxLabels \in Nat /\ MaxBands \in Nat /\ MaxTroubles \in Nat
  /\ MaxBauds \cup {0} \subseteq Nat /\ HostRates \subseteq Nat /\ Len(Speeds) \in Nat /\ NSlices # 0
BY ProAssumption

\* What sense() makes of the driver's state.
LEMMA SensedFacts ==
  ASSUME TypeOK, NothingInv
  PROVE  /\ Sensed \in States
         /\ "ping" \in Sensed.ps <=> Came("ping", tty.rx)
         /\ "garbled" \in Sensed.ps => "garbled" \in st.ps \/ Came("garbled", tty.rx)
         /\ "jam" \in Sensed.ps => "jam" \in st.ps \/ Came("jam", tty.rx)
         /\ tty.rx = <<>> => Sensed.ps = st.ps \ {"ping"}
         /\ tty.rx = <<"idle">> => "idle" \in Sensed.ps
         /\ IF Came("model", tty.rx) THEN Sensed.m = pr.kind /\ pr.kind \in DOMAIN Models
                                     ELSE Sensed.m = st.m
         /\ Sensed.tof = st.tof /\ Sensed.nslices = st.nslices /\ Sensed.maxbaud = st.maxbaud
         /\ Sensed.tried = st.tried /\ Sensed.speed = st.speed /\ Sensed.todo = st.todo
<1> DEFINE ps == Heard(st.ps, tty.rx)
           m == IF Came("model", tty.rx) THEN pr.kind ELSE st.m
<1>1. st \in States /\ pr \in Printers /\ tty.rx \in Seq(Messages)
  BY Types DEF Ports
<1>2. Came("model", tty.rx) => pr.kind \in DOMAIN Models
  <2>1. Came("model", tty.rx) => tty.rx # <<>>
    BY CameEmpty
  <2> QED  BY <1>1, <2>1 DEF NothingInv, Printers
<1>3. ps \in SUBSET Bits /\ m \in DOMAIN Models \cup {"NULL"}
  BY <1>1, <1>2, HeardFacts DEF States
<1>4. Sensed = [st EXCEPT !.ps = ps, !.m = m]
  BY <1>1 DEF Sensed, States
<1>5. st.ps \in SUBSET Bits
  BY <1>1 DEF States
<1>6. /\ "ping" \in ps <=> Came("ping", tty.rx)
      /\ "garbled" \in ps => "garbled" \in st.ps \/ Came("garbled", tty.rx)
      /\ "jam" \in ps => "jam" \in st.ps \/ Came("jam", tty.rx)
      /\ tty.rx = <<>> => ps = st.ps \ {"ping"}
      /\ tty.rx = <<"idle">> => "idle" \in ps
  BY <1>1, <1>5, HeardFacts
<1>7. IF Came("model", tty.rx) THEN m = pr.kind ELSE m = st.m
  OBVIOUS
<1> HIDE DEF ps, m
<1>8. /\ Sensed \in States /\ Sensed.ps = ps /\ Sensed.m = m
      /\ Sensed.tof = st.tof /\ Sensed.nslices = st.nslices /\ Sensed.maxbaud = st.maxbaud
      /\ Sensed.tried = st.tried /\ Sensed.speed = st.speed /\ Sensed.todo = st.todo
  BY <1>1, <1>3, <1>4 DEF States
<1> QED  BY <1>2, <1>6, <1>7, <1>8

LEMMA PortFacts ==
  ASSUME tty \in Ports
  PROVE  /\ Read \in Ports /\ Read.rate = tty.rate /\ Read.rx = <<>>
         /\ \A rate \in Nat :
              LET r == Retuned(rate) IN
              r \in Ports /\ r.rx = <<>> /\ (rate \in HostRates => r.rate = rate) /\ (rate \notin HostRates => r.rate = 0)
<1>1. <<>> \in Seq(Messages)
  OBVIOUS
<1>2. Read \in Ports /\ Read.rate = tty.rate /\ Read.rx = <<>>
  BY <1>1 DEF Read, Ports
<1> SUFFICES ASSUME NEW rate \in Nat
             PROVE  LET r == Retuned(rate) IN
                    r \in Ports /\ r.rx = <<>> /\ (rate \in HostRates => r.rate = rate)
                                               /\ (rate \notin HostRates => r.rate = 0)
  BY <1>2
<1> DEFINE new == IF rate \in HostRates THEN rate ELSE 0
<1>3. Retuned(rate) = [tty EXCEPT !.rate = new, !.cts = FALSE, !.rx = <<>>]
  BY DEF Retuned
<1>4. new \in LineRates
  BY DEF LineRates
<1> HIDE DEF new
<1>5. Retuned(rate) \in Ports /\ Retuned(rate).rx = <<>> /\ Retuned(rate).rate = new
  BY <1>1, <1>3, <1>4 DEF Ports
<1> QED  BY <1>5 DEF new

\* A wait ends, and an answer that is not awaited is counted.
Patient(patient) ==
  /\ luck' \in Fates /\ luck'.calm = luck.calm /\ luck'.troubles = luck.troubles
  /\ luck'.late = 0 => luck.late = 0 /\ (Answered \/ Silence(patient))

LEMMA TroublesType ==
  ASSUME luck \in Fates
  PROVE  /\ Fortunate => luck.late + 1 \in 0..MaxTroubles /\ luck.troubles + 1 \in 0..MaxTroubles
         /\ \A patient \in BOOLEAN : Waited(patient) => Patient(patient)
<1>1. luck.late \in Nat /\ luck.troubles \in Nat /\ MaxTroubles \in Nat
  BY NumbersType DEF Fates
<1>2. Fortunate => luck.late + 1 \in 0..MaxTroubles /\ luck.troubles + 1 \in 0..MaxTroubles
  BY <1>1 DEF Fortunate
<1> SUFFICES ASSUME NEW patient \in BOOLEAN, Waited(patient) PROVE Patient(patient)
  BY <1>2
<1>3. CASE UNCHANGED luck /\ (Answered \/ Silence(patient))
  BY <1>3 DEF Patient
<1>4. CASE Fortunate /\ luck' = [luck EXCEPT !.late = @ + 1]
  <2>1. luck' \in Fates /\ luck'.calm = luck.calm /\ luck'.troubles = luck.troubles /\ luck'.late = luck.late + 1
    BY <1>2, <1>4 DEF Fates
  <2>2. luck'.late # 0
    BY <1>1, <2>1
  <2> QED  BY <2>1, <2>2 DEF Patient
<1> QED  BY <1>3, <1>4 DEF Waited, TimedOut

\* Two states of the driver that differ in fields F at most.
Alike(s, t, F) ==
  /\ t \in States
  /\ "ps" \in F \/ t.ps = s.ps
  /\ "m" \in F \/ t.m = s.m
  /\ "nslices" \in F \/ t.nslices = s.nslices
  /\ "tried" \in F \/ t.tried = s.tried
  /\ "speed" \in F \/ t.speed = s.speed
  /\ "todo" \in F \/ t.todo = s.todo
  /\ t.maxbaud = s.maxbaud

LEMMA Setters ==
  ASSUME NEW s \in States
  PROVE  /\ \A n \in Nat : LET t == [s EXCEPT !.todo = n] IN Alike(s, t, {"todo"}) /\ t.todo = n
         /\ \A n \in Nat : LET t == [s EXCEPT !.speed = n] IN Alike(s, t, {"speed"}) /\ t.speed = n
         /\ \A n \in 1..Len(Speeds) + 1 : LET t == [s EXCEPT !.tried = n] IN Alike(s, t, {"tried"}) /\ t.tried = n
         /\ \A ps \in SUBSET Bits : LET t == [s EXCEPT !.ps = ps] IN Alike(s, t, {"ps"}) /\ t.ps = ps
         /\ \A m \in DOMAIN Models \cup {"NULL"} : LET t == [s EXCEPT !.m = m] IN Alike(s, t, {"m"}) /\ t.m = m
         /\ \A b \in BOOLEAN : Alike(s, [s EXCEPT !.tof = b], {})
         /\ LET t == [s EXCEPT !.nslices = NSlices] IN Alike(s, t, {"nslices"}) /\ t.nslices = NSlices
<1>1. ASSUME NEW n \in Nat
      PROVE  LET t == [s EXCEPT !.todo = n] IN Alike(s, t, {"todo"}) /\ t.todo = n
  BY DEF Alike, States
<1>2. ASSUME NEW n \in Nat
      PROVE  LET t == [s EXCEPT !.speed = n] IN Alike(s, t, {"speed"}) /\ t.speed = n
  BY DEF Alike, States
<1>3. ASSUME NEW n \in 1..Len(Speeds) + 1
      PROVE  LET t == [s EXCEPT !.tried = n] IN Alike(s, t, {"tried"}) /\ t.tried = n
  BY DEF Alike, States
<1>4. ASSUME NEW ps \in SUBSET Bits
      PROVE  LET t == [s EXCEPT !.ps = ps] IN Alike(s, t, {"ps"}) /\ t.ps = ps
  BY DEF Alike, States
<1>5. ASSUME NEW m \in DOMAIN Models \cup {"NULL"}
      PROVE  LET t == [s EXCEPT !.m = m] IN Alike(s, t, {"m"}) /\ t.m = m
  BY DEF Alike, States
<1>6. ASSUME NEW b \in BOOLEAN PROVE Alike(s, [s EXCEPT !.tof = b], {})
  BY DEF Alike, States
<1>7. LET t == [s EXCEPT !.nslices = NSlices] IN Alike(s, t, {"nslices"}) /\ t.nslices = NSlices
  BY DEF Alike, States
<1> QED  BY <1>1, <1>2, <1>3, <1>4, <1>5, <1>6, <1>7

LEMMA Counted ==
  ASSUME st \in States, NEW n \in Nat, st' = [st EXCEPT !.todo = n]
  PROVE  Alike(st, st', {"todo"}) /\ st'.todo = n
<1> DEFINE t == [st EXCEPT !.todo = n]
<1>1. Alike(st, t, {"todo"}) /\ t.todo = n
  BY Setters
<1> HIDE DEF t
<1>2. st' = t
  BY DEF t
<1> QED  BY <1>1, <1>2

LEMMA Chosen ==
  ASSUME st \in States, NEW n \in Nat, st' = [st EXCEPT !.speed = n]
  PROVE  Alike(st, st', {"speed"}) /\ st'.speed = n
<1> DEFINE t == [st EXCEPT !.speed = n]
<1>1. Alike(st, t, {"speed"}) /\ t.speed = n
  BY Setters
<1> HIDE DEF t
<1>2. st' = t
  BY DEF t
<1> QED  BY <1>1, <1>2

-----------------------------------------------------------------------------
(***************************************************************************)
(* What each step of the driver changes.                                   *)
(***************************************************************************)

\* The part of the invariant that the types of a step rest on.
Sound == TypeOK /\ CountInv /\ NothingInv

LEMMA SoundFacts ==
  ASSUME Sound
  PROVE  /\ st \in States /\ tty \in Ports /\ pr \in Printers /\ run \in Runs /\ luck \in Fates
         /\ Sensed \in States /\ Alike(st, Sensed, {"ps", "m"}) /\ Alike(st, st, {})
<1>1. TypeOK /\ CountInv /\ NothingInv
  BY DEF Sound
<1>2. st \in States /\ tty \in Ports /\ pr \in Printers /\ run \in Runs /\ luck \in Fates
  BY <1>1, Types
<1>3. /\ Sensed \in States /\ Sensed.nslices = st.nslices /\ Sensed.maxbaud = st.maxbaud
      /\ Sensed.tried = st.tried /\ Sensed.speed = st.speed /\ Sensed.todo = st.todo
  BY <1>1, SensedFacts
<1> QED  BY <1>2, <1>3 DEF Alike

\* The port: as it was, read, or tuned to a rate.
Level == tty' \in Ports /\ tty'.rate = tty.rate /\ tty'.rx = tty.rx
Hushed == tty' \in Ports /\ tty'.rate = tty.rate /\ tty'.rx = <<>>
Tunes(rate) ==
  /\ tty' \in Ports /\ tty'.rx = <<>>
  /\ IF rate \in HostRates THEN tty'.rate = rate ELSE tty'.rate = 0

\* Everything that arrived was heard.
Heeds(F) == Hushed /\ Alike(st, st', {"ps", "m"} \cup F) /\ st'.ps = Sensed.ps /\ st'.m = Sensed.m

Stays == then' = then /\ caller' = caller /\ frame' = frame
Alone == caller' = caller /\ frame' = frame

LEMMA PortSteps ==
  ASSUME Sound
  PROVE  /\ tty' = tty => Level
         /\ tty' = Read => Hushed
         /\ \A rate \in Nat : tty' = Retuned(rate) => Tunes(rate)
         /\ \A c \in BOOLEAN : tty' = [tty EXCEPT !.cts = c] => Level
         /\ Sense => Heeds({})
<1>1. tty \in Ports /\ Alike(st, Sensed, {"ps", "m"})
  BY SoundFacts
<1>2. tty' = Read => Hushed
  BY <1>1, PortFacts DEF Hushed
<1>3. ASSUME NEW rate \in Nat, tty' = Retuned(rate) PROVE Tunes(rate)
  BY <1>1, <1>3, PortFacts DEF Tunes
<1>4. ASSUME NEW c \in BOOLEAN, tty' = [tty EXCEPT !.cts = c] PROVE Level
  BY <1>1, <1>4 DEF Level, Ports
<1>5. Sense => Heeds({})
  BY <1>1, <1>2 DEF Sense, Heeds, Alike
<1> QED  BY <1>1, <1>2, <1>3, <1>4, <1>5 DEF Level

LEMMA WaitSteps ==
  ASSUME Sound
  PROVE  \A patient \in BOOLEAN : Waited(patient) => Patient(patient)
BY SoundFacts, TroublesType

\* Sensed with one field changed.
LEMMA HeedSteps ==
  ASSUME Sound, tty' = Read
  PROVE  /\ \A n \in Nat : st' = [Sensed EXCEPT !.todo = n] => Heeds({"todo"}) /\ st'.todo = n
         /\ \A n \in 1..Len(Speeds) + 1 : st' = [Sensed EXCEPT !.tried = n] => Heeds({"tried"}) /\ st'.tried = n
         /\ \A m \in DOMAIN Models \cup {"NULL"} :
              st' = [Sensed EXCEPT !.m = m] => Hushed /\ Alike(st, st', {"ps", "m"}) /\ st'.ps = Sensed.ps /\ st'.m = m
<1>1. Hushed /\ Sensed \in States /\ Alike(st, Sensed, {"ps", "m"})
  BY PortSteps, SoundFacts
<1>2. ASSUME NEW n \in Nat, st' = [Sensed EXCEPT !.todo = n] PROVE Heeds({"todo"}) /\ st'.todo = n
  <2>1. Alike(Sensed, st', {"todo"}) /\ st'.todo = n
    BY <1>1, <1>2, Setters
  <2> QED  BY <1>1, <2>1 DEF Alike, Heeds
<1>3. ASSUME NEW n \in 1..Len(Speeds) + 1, st' = [Sensed EXCEPT !.tried = n]
      PROVE  Heeds({"tried"}) /\ st'.tried = n
  <2>1. Alike(Sensed, st', {"tried"}) /\ st'.tried = n
    BY <1>1, <1>3, Setters
  <2> QED  BY <1>1, <2>1 DEF Alike, Heeds
<1>4. ASSUME NEW m \in DOMAIN Models \cup {"NULL"}, st' = [Sensed EXCEPT !.m = m]
      PROVE  Hushed /\ Alike(st, st', {"ps", "m"}) /\ st'.ps = Sensed.ps /\ st'.m = m
  <2>1. Alike(Sensed, st', {"m"}) /\ st'.m = m
    BY <1>1, <1>4, Setters
  <2> QED  BY <1>1, <2>1 DEF Alike
<1> QED  BY <1>2, <1>3, <1>4

\* force() and wait_for_idle().
LEMMA ForceSteps ==
  ASSUME Sound, ForceIdle
  PROVE  /\ at = "force" /\ Stays /\ run' = run /\ luck' = luck
         /\ \/ /\ Receives(NOP) /\ Heeds({"todo"}) /\ st'.todo = st.todo + 1 /\ at' = at
            \/ /\ at' = then /\ pr' = pr
               /\ \/ Heeds({}) /\ Sensed.ps \cap {"idle", "garbled"} # {}
                  \/ st' = st /\ tty' = tty /\ st.todo >= st.nslices + 2
<1>1. at = "force" /\ Stays /\ run' = run /\ luck' = luck
  BY DEF ForceIdle, calls, Stays
<1>2. st.todo \in Nat /\ st.nslices \in Nat /\ Sensed.todo = st.todo
  BY SoundFacts, NumbersType DEF States, Alike
<1>3. CASE st.todo < st.nslices + 2 /\ Sensed.ps \cap {"idle", "garbled"} = {}
  <2>1. Receives(NOP) /\ st' = [Sensed EXCEPT !.todo = st.todo + 1] /\ tty' = Read /\ at' = at
    BY <1>2, <1>3 DEF ForceIdle
  <2>2. st.todo + 1 \in Nat
    BY <1>2
  <2> QED  BY <1>1, <2>1, <2>2, HeedSteps
<1>4. CASE st.todo < st.nslices + 2 /\ Sensed.ps \cap {"idle", "garbled"} # {}
  <2>1. Sense /\ at' = then /\ pr' = pr
    BY <1>4 DEF ForceIdle, Goto
  <2> QED  BY <1>1, <1>4, <2>1, PortSteps
<1>5. CASE st.todo >= st.nslices + 2
  <2>1. st' = st /\ tty' = tty /\ at' = then /\ pr' = pr
    BY <1>2, <1>5 DEF ForceIdle, Goto
  <2> QED  BY <1>1, <1>5, <2>1
<1> QED  BY <1>2, <1>3, <1>4, <1>5

LEMMA IdleSteps ==
  ASSUME Sound
  PROVE  /\ WaitIdle =>
              /\ at = "idle" /\ Stays /\ run' = run /\ pr' = pr /\ Patient(TRUE) /\ Heeds({})
              /\ \/ "idle" \in st'.ps /\ at' = then
                 \/ "idle" \notin st'.ps /\ "jam" \in st'.ps /\ at' = "check"
                 \/ "idle" \notin st'.ps /\ at' = at /\ ("garbled" \in st'.ps \/ Answered)
                 \/ at' = OnTimeout /\ ~Answered /\ "idle" \notin st'.ps
         /\ CheckIdle =>
              /\ at = "check" /\ Stays /\ run' = run /\ pr' = pr /\ Patient(TRUE) /\ Heeds({})
              /\ at' = IF "jam" \in st'.ps THEN "fault" ELSE "idle"
<1>1. ASSUME WaitIdle \/ CheckIdle
      PROVE  Stays /\ run' = run /\ pr' = pr /\ Patient(TRUE) /\ Heeds({}) /\ st'.ps = Sensed.ps
  <2>1. Waited(TRUE) /\ Sense /\ Stays /\ run' = run /\ pr' = pr
    BY <1>1 DEF WaitIdle, CheckIdle, calls, Stays
  <2> QED  BY <2>1, WaitSteps, PortSteps DEF Heeds
<1> QED  BY <1>1 DEF WaitIdle, CheckIdle, Goto

\* connect(), up to the printer's model.
LEMMA FindSteps ==
  ASSUME Sound
  PROVE  /\ TrySpeed =>
              /\ at = "hunt" /\ st.tried <= Len(Speeds) /\ Alone /\ pr' = pr /\ run' = run /\ luck' = luck
              /\ \/ /\ Speeds[st.tried] \in HostRates /\ Tunes(Speeds[st.tried]) /\ Alike(st, st', {"todo"})
                    /\ st'.todo = 0 /\ at' = "force" /\ then' = "ping"
                 \/ /\ Speeds[st.tried] \notin HostRates /\ tty' = tty /\ at' = at /\ then' = then
                    /\ Alike(st, st', {"tried"}) /\ st'.tried = st.tried + 1
         /\ SendPing =>
              /\ at = "ping" /\ Receives(PING) /\ at' = "pinged" /\ Stays
              /\ st' = st /\ tty' = tty /\ run' = run /\ luck' = luck
         /\ Pinged =>
              /\ at = "pinged" /\ Patient(FALSE) /\ Stays /\ pr' = pr /\ run' = run
              /\ \/ Came("ping", tty.rx) /\ at' = "verify" /\ Heeds({})
                 \/ ~Came("ping", tty.rx) /\ at' = "hunt" /\ Heeds({"tried"}) /\ st'.tried = st.tried + 1
         /\ Verify =>
              /\ at = "verify" /\ Receives(STATUS) /\ Alike(st, st', {"ps"}) /\ st'.ps = {} /\ Hushed
              /\ at' = "idle" /\ then' = "model" /\ Alone /\ run' = run /\ luck' = luck
         /\ NotFound =>
              /\ at = "hunted" \/ (at = "hunt" /\ st.tried > Len(Speeds))
              /\ at' = IF caller = "main" THEN "stop" ELSE "error"
              /\ Stays /\ st' = st /\ tty' = tty /\ pr' = pr /\ run' = run /\ luck' = luck
         /\ AskModel =>
              /\ at = "model" /\ Receives(MODEL) /\ Alike(st, st', {"m"}) /\ st'.m = "NULL"
              /\ at' = "modelled" /\ Stays /\ tty' = tty /\ run' = run /\ luck' = luck
         /\ Modelled =>
              /\ at = "modelled" /\ Patient(FALSE) /\ Hushed /\ Alike(st, st', {"ps", "m"}) /\ st'.ps = Sensed.ps
              /\ st'.m = IF Sensed.m = "NULL" THEN "SLP-Pro" ELSE Sensed.m
              /\ at' = IF caller = "main" THEN "speed" ELSE "reset"
              /\ Stays /\ pr' = pr /\ run' = run
<1>1. /\ st \in States /\ st.tried \in 1..Len(Speeds) + 1 /\ Len(Speeds) \in Nat /\ Sensed \in States
      /\ Sensed.tried = st.tried /\ Sensed.m \in DOMAIN Models \cup {"NULL"}
  BY SoundFacts, NumbersType DEF States, Alike
<1>2. ASSUME TrySpeed, Speeds[st.tried] \in HostRates
      PROVE  Tunes(Speeds[st.tried]) /\ Alike(st, st', {"todo"}) /\ st'.todo = 0 /\ at' = "force" /\ then' = "ping"
  <2>1. tty' = Retuned(Speeds[st.tried]) /\ st' = [st EXCEPT !.todo = 0] /\ at' = "force" /\ then' = "ping"
    BY <1>2 DEF TrySpeed, Goto
  <2>2. Speeds[st.tried] \in Nat /\ 0 \in Nat
    BY <1>2, NumbersType
  <2> QED  BY <1>1, <2>1, <2>2, PortSteps, Setters
<1>3. ASSUME TrySpeed, Speeds[st.tried] \notin HostRates
      PROVE  tty' = tty /\ at' = at /\ then' = then /\ Alike(st, st', {"tried"}) /\ st'.tried = st.tried + 1
  <2>1. tty' = tty /\ at' = at /\ then' = then /\ st' = [st EXCEPT !.tried = st.tried + 1] /\ st.tried <= Len(Speeds)
    BY <1>3 DEF TrySpeed
  <2>2. st.tried + 1 \in 1..Len(Speeds) + 1
    BY <1>1, <2>1
  <2> QED  BY <1>1, <2>1, <2>2, Setters
<1>4. TrySpeed => at = "hunt" /\ st.tried <= Len(Speeds) /\ Alone /\ pr' = pr /\ run' = run /\ luck' = luck
  BY DEF TrySpeed, Alone
<1>5. ASSUME Pinged
      PROVE  /\ at = "pinged" /\ Patient(FALSE) /\ Stays /\ pr' = pr /\ run' = run
             /\ \/ Came("ping", tty.rx) /\ at' = "verify" /\ Heeds({})
                \/ ~Came("ping", tty.rx) /\ at' = "hunt" /\ Heeds({"tried"}) /\ st'.tried = st.tried + 1
  <2>1. at = "pinged" /\ Patient(FALSE) /\ Stays /\ pr' = pr /\ run' = run /\ tty' = Read
    BY <1>5, WaitSteps DEF Pinged, Stays, calls
  <2>2. "ping" \in Sensed.ps <=> Came("ping", tty.rx)
    BY SensedFacts DEF Sound
  <2>3. CASE Came("ping", tty.rx)
    <3>1. at' = "verify" /\ Sense
      BY <1>5, <2>1, <2>2, <2>3 DEF Pinged, Goto, Sense
    <3> QED  BY <2>1, <2>3, <3>1, PortSteps
  <2>4. CASE ~Came("ping", tty.rx)
    <3>1. at' = "hunt" /\ st' = [Sensed EXCEPT !.tried = st.tried + 1]
      BY <1>1, <1>5, <2>2, <2>4 DEF Pinged, Goto
    <3>2. st.tried + 1 \in 1..Len(Speeds) + 1
      <4>1. st.tried <= Len(Speeds)
        BY <2>1 DEF Sound, CountInv, Tuned
      <4> QED  BY <1>1, <4>1
    <3> QED  BY <2>1, <2>4, <3>1, <3>2, HeedSteps
  <2> QED  BY <2>3, <2>4
<1>6. ASSUME Verify
      PROVE  /\ at = "verify" /\ Receives(STATUS) /\ Alike(st, st', {"ps"}) /\ st'.ps = {} /\ Hushed
             /\ at' = "idle" /\ then' = "model" /\ Alone /\ run' = run /\ luck' = luck
  <2>1. {} \in SUBSET Bits /\ st' = [st EXCEPT !.ps = {}] /\ tty' = Read
    BY <1>6 DEF Verify
  <2>2. Alike(st, st', {"ps"}) /\ st'.ps = {}
    BY <1>1, <2>1, Setters
  <2> QED  BY <1>6, <2>1, <2>2, PortSteps DEF Verify, Goto, Alone
<1>7. ASSUME AskModel
      PROVE  /\ at = "model" /\ Receives(MODEL) /\ Alike(st, st', {"m"}) /\ st'.m = "NULL"
             /\ at' = "modelled" /\ Stays /\ tty' = tty /\ run' = run /\ luck' = luck
  <2>1. st' = [st EXCEPT !.m = "NULL"] /\ "NULL" \in DOMAIN Models \cup {"NULL"}
    BY <1>7 DEF AskModel
  <2>2. Alike(st, st', {"m"}) /\ st'.m = "NULL"
    BY <1>1, <2>1, Setters
  <2> QED  BY <1>7, <2>2 DEF AskModel, Goto, Stays, calls
<1>8. ASSUME Modelled
      PROVE  /\ at = "modelled" /\ Patient(FALSE) /\ Hushed /\ Alike(st, st', {"ps", "m"}) /\ st'.ps = Sensed.ps
             /\ st'.m = IF Sensed.m = "NULL" THEN "SLP-Pro" ELSE Sensed.m
             /\ at' = IF caller = "main" THEN "speed" ELSE "reset"
             /\ Stays /\ pr' = pr /\ run' = run
  <2> DEFINE m == IF Sensed.m = "NULL" THEN "SLP-Pro" ELSE Sensed.m
  <2>1. st' = [Sensed EXCEPT !.m = m] /\ tty' = Read
    BY <1>8 DEF Modelled
  <2>2. m \in DOMAIN Models \cup {"NULL"}
    BY <1>1, ProAssumption
  <2> HIDE DEF m
  <2>3. Hushed /\ Alike(st, st', {"ps", "m"}) /\ st'.ps = Sensed.ps /\ st'.m = m
    BY <2>1, <2>2, HeedSteps
  <2> QED  BY <1>8, <2>3, WaitSteps DEF Modelled, Goto, Stays, calls, m
<1>9. NotFound =>
        /\ at = "hunted" \/ (at = "hunt" /\ st.tried > Len(Speeds))
        /\ at' = IF caller = "main" THEN "stop" ELSE "error"
        /\ Stays /\ st' = st /\ tty' = tty /\ pr' = pr /\ run' = run /\ luck' = luck
  BY DEF NotFound, Goto, Stays, calls
<1>10. SendPing =>
         /\ at = "ping" /\ Receives(PING) /\ at' = "pinged" /\ Stays
         /\ st' = st /\ tty' = tty /\ run' = run /\ luck' = luck
  BY DEF SendPing, Send, Goto, Stays, calls
<1> QED  BY <1>2, <1>3, <1>4, <1>5, <1>6, <1>7, <1>8, <1>9, <1>10

\* connect(), once the model is known; switch_baud() also serves disconnect().
LEMMA ConnectSteps ==
  ASSUME Sound
  PROVE  /\ ChooseSpeed =>
              /\ at = "speed" /\ Alike(st, st', {"speed"}) /\ Level
              /\ st'.speed \in {57600, 38400} /\ (st'.speed = 57600 => 57600 \in HostRates)
              /\ at' = "switch" /\ then' = "modes" /\ Alone /\ pr' = pr /\ run' = run /\ luck' = luck
         /\ SwitchPrinter =>
              /\ Stays /\ tty' = tty /\ run' = run /\ luck' = luck
              /\ \/ /\ at = "switch" /\ at' = "switchCode" /\ Receives(BAUD)
                    /\ Alike(st, st', {"speed"}) /\ st'.speed = Limited(st.speed)
                 \/ at = "switchCode" /\ at' = "switchLocal" /\ Receives(Code(st.speed)) /\ st' = st
         /\ SwitchLocal =>
              /\ at = "switchLocal" /\ at' = "idle" /\ Tunes(st.speed)
              /\ Stays /\ st' = st /\ pr' = pr /\ run' = run /\ luck' = luck
         /\ StartSettings =>
              /\ Alike(st, st', {"todo"}) /\ st'.todo > 0 /\ at' = "set" /\ Alone
              /\ tty' = tty /\ pr' = pr /\ run' = run /\ luck' = luck
              /\ \/ at = "modes" /\ then' \in {"tuning", "margin"}
                 \/ at = "tune" /\ then' = "margin"
                 \/ at = "margin" /\ then' = "settled"
                 \/ at = "media" /\ then' = "sized"
         /\ Set =>
              /\ Stays /\ tty' = tty /\ run' = run /\ luck' = luck
              /\ \/ at = "set" /\ at' = "setArg" /\ Receives(MODE) /\ st' = st
                 \/ /\ at = "setArg" /\ Receives(NOP) /\ Alike(st, st', {"todo"}) /\ st'.todo = st.todo - 1
                    /\ IF st.todo = 1 THEN at' = then ELSE at' = "set"
         /\ Settle =>
              /\ (at = "tuning" /\ then' = "tune") \/ (at = "settled" /\ then' = "connected")
              /\ at' = "idle" /\ Alone /\ st' = st /\ tty' = tty /\ pr' = pr /\ run' = run /\ luck' = luck
         /\ Connected =>
              /\ at = "connected" /\ run' \in Runs /\ run'.opened /\ run'.outcome = run.outcome
              /\ at' = "media" /\ Stays /\ st' = st /\ tty' = tty /\ pr' = pr /\ luck' = luck
         /\ Sized =>
              /\ at = "sized" /\ Alike(st, st', {"nslices"}) /\ st'.nslices = NSlices
              /\ at' = "label" /\ Stays /\ tty' = tty /\ pr' = pr /\ run' = run /\ luck' = luck
<1>1. /\ st \in States /\ st.speed \in Nat /\ st.maxbaud \in Nat /\ st.todo \in Nat
      /\ tty \in Ports /\ run \in Runs
  BY SoundFacts, NumbersType DEF States
<1>2. ASSUME ChooseSpeed
      PROVE  /\ Alike(st, st', {"speed"}) /\ Level
             /\ st'.speed \in {57600, 38400} /\ (st'.speed = 57600 => 57600 \in HostRates)
  <2> DEFINE fast == 57600 \in HostRates /\ Models[st.m].modern /\ HostCts
             speed == IF fast THEN 57600 ELSE 38400
             cts == tty.cts \/ fast
  <2>1. st' = [st EXCEPT !.speed = speed]
    BY <1>2 DEF ChooseSpeed
  <2>2. tty' = [tty EXCEPT !.cts = cts]
    BY <1>2 DEF ChooseSpeed
  <2>3. speed \in Nat /\ cts \in BOOLEAN /\ speed \in {57600, 38400} /\ (speed = 57600 => 57600 \in HostRates)
    OBVIOUS
  <2> HIDE DEF fast, speed, cts
  <2>4. Alike(st, st', {"speed"}) /\ st'.speed = speed
    BY <1>1, <2>1, <2>3, Chosen
  <2>5. Level
    BY <1>1, <2>2, <2>3 DEF Level, Ports
  <2> QED  BY <2>3, <2>4, <2>5
<1>3. ASSUME SwitchPrinter
      PROVE  \/ /\ at = "switch" /\ at' = "switchCode" /\ Receives(BAUD)
                /\ Alike(st, st', {"speed"}) /\ st'.speed = Limited(st.speed)
             \/ at = "switchCode" /\ at' = "switchLocal" /\ Receives(Code(st.speed)) /\ st' = st
  <2>1. Limited(st.speed) \in Nat
    BY <1>1 DEF Limited
  <2>2. st' = [st EXCEPT !.speed = Limited(st.speed)] =>
          Alike(st, st', {"speed"}) /\ st'.speed = Limited(st.speed)
    BY <1>1, <2>1, Chosen
  <2> QED  BY <1>3, <2>2 DEF SwitchPrinter, Send, Goto
<1>4. SwitchPrinter => Stays /\ tty' = tty /\ run' = run /\ luck' = luck
  BY DEF SwitchPrinter, Send, Stays, calls
<1>5. SwitchLocal =>
        /\ at = "switchLocal" /\ at' = "idle" /\ Tunes(st.speed)
        /\ Stays /\ st' = st /\ pr' = pr /\ run' = run /\ luck' = luck
  BY <1>1, PortSteps DEF SwitchLocal, Goto, Stays, calls
<1>6. ASSUME StartSettings
      PROVE  /\ Alike(st, st', {"todo"}) /\ st'.todo > 0 /\ at' = "set" /\ Alone
             /\ tty' = tty /\ pr' = pr /\ run' = run /\ luck' = luck
             /\ \/ at = "modes" /\ then' \in {"tuning", "margin"}
                \/ at = "tune" /\ then' = "margin"
                \/ at = "margin" /\ then' = "settled"
                \/ at = "media" /\ then' = "sized"
  <2>1. PICK here \in {"modes", "tune", "margin", "media"} :
          at = here /\ st' = [st EXCEPT !.todo = Settings[here][1]] /\ then' = Settings[here][2]
    BY <1>6 DEF StartSettings
  <2>2. /\ Settings["modes"] = <<3, "tuning">> \/ Settings["modes"] = <<1, "margin">>
        /\ Settings["tune"] = <<2, "margin">> /\ Settings["margin"] = <<1, "settled">>
        /\ Settings["media"] = <<1, "sized">>
    BY DEF Settings
  <2>3. /\ Settings[here][1] \in Nat /\ Settings[here][1] > 0
        /\ here = "modes" => Settings[here][2] \in {"tuning", "margin"}
        /\ here = "tune" => Settings[here][2] = "margin"
        /\ here = "margin" => Settings[here][2] = "settled"
        /\ here = "media" => Settings[here][2] = "sized"
    BY <2>2
  <2>4. Alike(st, st', {"todo"}) /\ st'.todo = Settings[here][1]
    <3>1. st \in States /\ Settings[here][1] \in Nat
      BY <1>1, <2>3
    <3> QED  BY <2>1, <3>1, Counted
  <2>5. at' = "set" /\ Alone /\ tty' = tty /\ pr' = pr /\ run' = run /\ luck' = luck
    BY <1>6 DEF StartSettings, Goto, Alone
  <2> QED  BY <2>1, <2>3, <2>4, <2>5
<1>7. ASSUME Set
      PROVE  \/ at = "set" /\ at' = "setArg" /\ Receives(MODE) /\ st' = st
             \/ /\ at = "setArg" /\ Receives(NOP) /\ Alike(st, st', {"todo"}) /\ st'.todo = st.todo - 1
                /\ IF st.todo = 1 THEN at' = then ELSE at' = "set"
  <2>1. CASE at = "set"
    BY <1>7, <2>1 DEF Set, Send, Goto
  <2>2. CASE at = "setArg"
    <3>1. Receives(NOP) /\ st' = [st EXCEPT !.todo = st.todo - 1] /\ IF st.todo = 1 THEN at' = then ELSE at' = "set"
      BY <1>7, <2>2 DEF Set, Goto
    <3>2. st.todo - 1 \in Nat
      <4>1. st.todo > 0
        BY <2>2 DEF Sound, CountInv
      <4> QED  BY <1>1, <4>1
    <3> QED  BY <1>1, <2>2, <3>1, <3>2, Counted
  <2> QED  BY <1>7, <2>1, <2>2 DEF Set
<1>8. Set => Stays /\ tty' = tty /\ run' = run /\ luck' = luck
  BY DEF Set, Send, Stays, calls
<1>9. ASSUME Connected PROVE run' \in Runs /\ run'.opened /\ run'.outcome = run.outcome
  BY <1>1, <1>9 DEF Connected, Runs
<1>10. ASSUME Sized PROVE Alike(st, st', {"nslices"}) /\ st'.nslices = NSlices
  BY <1>1, <1>10, Setters DEF Sized
<1>11. Settle =>
        /\ (at = "tuning" /\ then' = "tune") \/ (at = "settled" /\ then' = "connected")
        /\ at' = "idle" /\ Alone /\ st' = st /\ tty' = tty /\ pr' = pr /\ run' = run /\ luck' = luck
  BY DEF Settle, Goto, Alone
<1>12. ChooseSpeed =>
         at = "speed" /\ at' = "switch" /\ then' = "modes" /\ Alone /\ pr' = pr /\ run' = run /\ luck' = luck
  BY DEF ChooseSpeed, Goto, Alone
<1>13. Connected =>
         at = "connected" /\ at' = "media" /\ Stays /\ st' = st /\ tty' = tty /\ pr' = pr /\ luck' = luck
  BY DEF Connected, Goto, Stays, calls
<1>14. Sized =>
         at = "sized" /\ at' = "label" /\ Stays /\ tty' = tty /\ pr' = pr /\ run' = run /\ luck' = luck
  BY DEF Sized, Goto, Stays, calls
<1> QED
  BY <1>2, <1>3, <1>4, <1>5, <1>6, <1>7, <1>8, <1>9, <1>10, <1>11, <1>12, <1>13, <1>14

\* printlabel() and formfeed().
LEMMA PrintSteps ==
  ASSUME Sound
  PROVE  /\ NextLabel =>
              /\ at = "label" /\ Stays /\ tty' = tty /\ pr' = pr /\ luck' = luck
              /\ run' \in Runs /\ run'.opened = run.opened /\ run'.outcome = run.outcome
              /\ \/ at' = "feed" /\ Alike(st, st', {"todo"}) /\ st'.todo = 3
                 \/ at' = "stop" /\ st' = st
         /\ Feed =>
              /\ Stays /\ run' = run
              /\ \/ at = "feed" /\ at' = "fed1" /\ Receives(FEED) /\ Heeds({}) /\ luck' = luck
                 \/ at = "fed1" /\ at' = "fedCheck" /\ Alike(st, st', {}) /\ tty' = tty /\ pr' = pr /\ luck' = luck
                 \/ /\ at = "fedCheck" /\ Heeds({"todo"}) /\ st'.todo = st.todo - 1 /\ pr' = pr /\ Patient(FALSE)
                    /\ at' = IF "jam" \in st'.ps THEN "fault" ELSE IF st.todo = 1 THEN "band" ELSE "feed"
         /\ Band =>
              /\ Stays /\ run' \in Runs /\ run'.opened = run.opened /\ run'.outcome = run.outcome /\ luck' = luck
              /\ \/ /\ at = "band" /\ at' = "print" /\ tty' = tty /\ pr' = pr
                    /\ Alike(st, st', {"ps"}) /\ st'.ps = st.ps \ {"idle"}
                 \/ at = "print" /\ at' = "len" /\ Receives(PRINT) /\ Heeds({})
                 \/ at = "len" /\ at' = "data" /\ Receives(st.nslices) /\ Heeds({"todo"}) /\ st'.todo = st.nslices
                 \/ /\ at = "data" /\ Receives(NOP) /\ Heeds({"todo"}) /\ st'.todo = st.todo - 1
                    /\ at' = IF st.todo = 1 THEN "bandCheck" ELSE "data"
         /\ BandCheck =>
              /\ at = "bandCheck" /\ Alone /\ Heeds({}) /\ pr' = pr /\ run' = run /\ luck' = luck
              /\ \/ "jam" \in st'.ps /\ at' = "fault" /\ then' = then
                 \/ at' = "band" /\ then' = then
                 \/ at' = "idle" /\ then' = "form"
         /\ Form =>
              /\ Alone /\ run' = run /\ luck' = luck
              /\ \/ at = "form" /\ at' = "formArg" /\ then' = then /\ Receives(FF) /\ Heeds({})
                 \/ at = "formArg" /\ at' = "formSent" /\ then' = then /\ Receives(1) /\ Heeds({})
                 \/ /\ at = "formSent" /\ at' = "idle" /\ then' = "fed"
                    /\ Alike(st, st', {}) /\ tty' = tty /\ pr' = pr
                 \/ /\ at = "fed" /\ at' = IF caller = "main" THEN "label" ELSE "giveUp"
                    /\ then' = then /\ st' = st /\ tty' = tty /\ pr' = pr
<1>1. /\ st \in States /\ st.todo \in Nat /\ st.nslices \in Nat /\ st.ps \in SUBSET Bits /\ run \in Runs
      /\ Sensed.todo = st.todo
  BY SoundFacts, NumbersType DEF States, Alike
<1>2. \A b \in BOOLEAN : st' = [st EXCEPT !.tof = b] => Alike(st, st', {})
  BY <1>1, Setters
<1>3. ASSUME NextLabel
      PROVE  /\ at = "label" /\ Stays /\ tty' = tty /\ pr' = pr /\ luck' = luck
             /\ run' \in Runs /\ run'.opened = run.opened /\ run'.outcome = run.outcome
             /\ \/ at' = "feed" /\ Alike(st, st', {"todo"}) /\ st'.todo = 3
                \/ at' = "stop" /\ st' = st
  <2>1. at = "label" /\ Stays /\ tty' = tty /\ pr' = pr /\ luck' = luck
    BY <1>3 DEF NextLabel, Stays, calls
  <2>2. CASE run.labels < MaxLabels /\ run' = [run EXCEPT !.labels = run.labels + 1, !.bands = 0]
                 /\ st' = [st EXCEPT !.todo = 3] /\ at' = "feed"
    <3>1. run.labels + 1 \in 0..MaxLabels /\ 0 \in 0..MaxBands
      BY <1>1, <2>2, NumbersType DEF Runs
    <3>2. run' \in Runs /\ run'.opened = run.opened /\ run'.outcome = run.outcome
      BY <1>1, <2>2, <3>1 DEF Runs
    <3>3. Alike(st, st', {"todo"}) /\ st'.todo = 3
      BY <1>1, <2>2, Setters
    <3> QED  BY <2>1, <2>2, <3>2, <3>3
  <2>3. CASE at' = "stop" /\ st' = st /\ run' = run
    BY <1>1, <2>1, <2>3
  <2> QED  BY <1>3, <2>2, <2>3 DEF NextLabel, Goto
<1>4. ASSUME Feed
      PROVE  /\ Stays /\ run' = run
             /\ \/ at = "feed" /\ at' = "fed1" /\ Receives(FEED) /\ Heeds({}) /\ luck' = luck
                \/ at = "fed1" /\ at' = "fedCheck" /\ Alike(st, st', {}) /\ tty' = tty /\ pr' = pr /\ luck' = luck
                \/ /\ at = "fedCheck" /\ Heeds({"todo"}) /\ st'.todo = st.todo - 1 /\ pr' = pr /\ Patient(FALSE)
                   /\ at' = IF "jam" \in st'.ps THEN "fault" ELSE IF st.todo = 1 THEN "band" ELSE "feed"
  <2>1. Stays /\ run' = run
    BY <1>4 DEF Feed, SendReady, Stays, calls
  <2>2. CASE at = "feed"
    BY <1>4, <2>1, <2>2, PortSteps DEF Feed, SendReady, Goto
  <2>3. CASE at = "fed1"
    BY <1>2, <1>4, <2>1, <2>3 DEF Feed, Goto
  <2>4. CASE at = "fedCheck"
    <3>1. /\ Waited(FALSE) /\ st' = [Sensed EXCEPT !.todo = st.todo - 1] /\ tty' = Read /\ pr' = pr
          /\ at' = IF "jam" \in Sensed.ps THEN "fault" ELSE IF st.todo = 1 THEN "band" ELSE "feed"
      BY <1>1, <1>4, <2>4 DEF Feed, Goto
    <3>2. st.todo - 1 \in Nat
      <4>1. st.todo > 0
        BY <2>4 DEF Sound, CountInv
      <4> QED  BY <1>1, <4>1
    <3>3. Heeds({"todo"}) /\ st'.todo = st.todo - 1 /\ st'.ps = Sensed.ps
      BY <3>1, <3>2, HeedSteps DEF Heeds
    <3> QED  BY <2>1, <2>4, <3>1, <3>3, WaitSteps
  <2> QED  BY <1>4, <2>2, <2>3, <2>4 DEF Feed
<1>5. ASSUME Band
      PROVE  /\ Stays /\ run' \in Runs /\ run'.opened = run.opened /\ run'.outcome = run.outcome /\ luck' = luck
             /\ \/ /\ at = "band" /\ at' = "print" /\ tty' = tty /\ pr' = pr
                   /\ Alike(st, st', {"ps"}) /\ st'.ps = st.ps \ {"idle"}
                \/ at = "print" /\ at' = "len" /\ Receives(PRINT) /\ Heeds({})
                \/ at = "len" /\ at' = "data" /\ Receives(st.nslices) /\ Heeds({"todo"}) /\ st'.todo = st.nslices
                \/ /\ at = "data" /\ Receives(NOP) /\ Heeds({"todo"}) /\ st'.todo = st.todo - 1
                   /\ at' = IF st.todo = 1 THEN "bandCheck" ELSE "data"
  <2>1. Stays /\ luck' = luck /\ (run' = run \/ at = "band")
    BY <1>5 DEF Band, SendReady, Stays, calls
  <2>2. CASE at = "band"
    <3>1. /\ run.bands < MaxBands /\ run' = [run EXCEPT !.bands = run.bands + 1] /\ at' = "print"
          /\ st' = [st EXCEPT !.ps = st.ps \ {"idle"}] /\ tty' = tty /\ pr' = pr
      BY <1>5, <2>2 DEF Band, Goto
    <3>2. run.bands + 1 \in 0..MaxBands
      BY <1>1, <3>1, NumbersType DEF Runs
    <3>3. run' \in Runs /\ run'.opened = run.opened /\ run'.outcome = run.outcome
      BY <1>1, <3>1, <3>2 DEF Runs
    <3>4. st.ps \ {"idle"} \in SUBSET Bits
      BY <1>1
    <3>5. Alike(st, st', {"ps"}) /\ st'.ps = st.ps \ {"idle"}
      BY <1>1, <3>1, <3>4, Setters
    <3> QED  BY <2>1, <2>2, <3>1, <3>3, <3>5
  <2>3. CASE at = "print"
    BY <1>1, <1>5, <2>1, <2>3, PortSteps DEF Band, SendReady, Goto
  <2>4. CASE at = "len"
    <3>1. at' = "data" /\ Receives(st.nslices) /\ st' = [Sensed EXCEPT !.todo = st.nslices] /\ tty' = Read
      BY <1>5, <2>4 DEF Band, Goto
    <3>2. Heeds({"todo"}) /\ st'.todo = st.nslices
      BY <1>1, <3>1, HeedSteps
    <3> QED  BY <1>1, <2>1, <2>4, <3>1, <3>2
  <2>5. CASE at = "data"
    <3>1. /\ Receives(NOP) /\ st' = [Sensed EXCEPT !.todo = st.todo - 1] /\ tty' = Read
          /\ at' = IF st.todo = 1 THEN "bandCheck" ELSE "data"
      BY <1>1, <1>5, <2>5 DEF Band, Goto
    <3>2. st.todo - 1 \in Nat
      <4>1. st.todo > 0
        BY <2>5 DEF Sound, CountInv
      <4> QED  BY <1>1, <4>1
    <3>3. Heeds({"todo"}) /\ st'.todo = st.todo - 1
      BY <3>1, <3>2, HeedSteps
    <3> QED  BY <1>1, <2>1, <2>5, <3>1, <3>3
  <2> QED  BY <1>5, <2>2, <2>3, <2>4, <2>5 DEF Band
<1>6. ASSUME BandCheck
      PROVE  /\ at = "bandCheck" /\ Alone /\ Heeds({}) /\ pr' = pr /\ run' = run /\ luck' = luck
             /\ \/ "jam" \in st'.ps /\ at' = "fault" /\ then' = then
                \/ at' = "band" /\ then' = then
                \/ at' = "idle" /\ then' = "form"
  <2>1. Heeds({}) /\ st'.ps = Sensed.ps
    BY <1>6, PortSteps DEF BandCheck, Heeds
  <2> QED  BY <1>6, <2>1 DEF BandCheck, Goto, Alone
<1>7. ASSUME Form
      PROVE  /\ Alone /\ run' = run /\ luck' = luck
             /\ \/ at = "form" /\ at' = "formArg" /\ then' = then /\ Receives(FF) /\ Heeds({})
                \/ at = "formArg" /\ at' = "formSent" /\ then' = then /\ Receives(1) /\ Heeds({})
                \/ /\ at = "formSent" /\ at' = "idle" /\ then' = "fed"
                   /\ Alike(st, st', {}) /\ tty' = tty /\ pr' = pr
                \/ /\ at = "fed" /\ at' = IF caller = "main" THEN "label" ELSE "giveUp"
                   /\ then' = then /\ st' = st /\ tty' = tty /\ pr' = pr
  BY <1>2, <1>7, PortSteps DEF Form, SendReady, Goto, Alone, calls
<1> QED  BY <1>3, <1>4, <1>5, <1>6, <1>7

\* check_fault() with a fault, reset_printer(), Error(), and the signal.
LEMMA RecoverSteps ==
  ASSUME Sound
  PROVE  /\ Fault =>
              /\ at = "fault" /\ at' = "force" /\ then' = "hunt" /\ caller' = "fault" /\ frame' = frame
              /\ Alike(st, st', {"todo", "tried"}) /\ st'.todo = 0 /\ st'.tried = 1
              /\ tty' = tty /\ pr' = pr /\ run' = run /\ luck' = luck
         /\ Reset =>
              /\ Alone /\ run' = run /\ luck' = luck
              /\ \/ /\ at = "reset" /\ at' = "resetSent" /\ then' = then
                    /\ Receives(RESET) /\ Hushed /\ Alike(st, st', {"ps"}) /\ st'.ps = {}
                 \/ /\ at = "resetSent" /\ st' = st /\ pr' = pr
                    /\ \/ /\ Models[st.m].default \in HostRates /\ Tunes(Models[st.m].default)
                          /\ at' = "idle" /\ then' = "resetDone"
                       \/ at' = "error" /\ then' = then /\ tty' = tty
                 \/ /\ at = "resetDone" /\ at' \in {"giveUp", "form"}
                    /\ then' = then /\ st' = st /\ tty' = tty /\ pr' = pr
         /\ GiveUp \/ Close =>
              /\ at \in {"giveUp", "close"} /\ at' = "over" /\ Stays /\ st' = st /\ tty' = tty /\ pr' = pr /\ luck' = luck
              /\ run' \in Runs /\ run'.opened = run.opened
              /\ run'.outcome = "done" => at = "close" /\ frame = "main" /\ run.opened
         /\ Error \/ Signal =>
              /\ at \notin {"over"} /\ (at = "error" \/ frame = "main") /\ then' = then /\ caller' = caller
              /\ st' = st /\ tty' = tty /\ pr' = pr /\ luck' = luck
              /\ \/ at' = "over" /\ frame' = frame /\ run' \in Runs /\ run'.opened = run.opened /\ run'.outcome # "done"
                 \/ at' = "stop" /\ frame' = "handler" /\ run.opened /\ frame = "main" /\ run' = run
<1>1. st \in States /\ st.m \in DOMAIN Models \cup {"NULL"} /\ run \in Runs
  BY SoundFacts DEF States
<1>2. ASSUME NEW e \in {"done", "stopped", "absent", "killed", "error", "fault", "crashed"}, Ends(e)
      PROVE  /\ at' = "over" /\ Stays /\ st' = st /\ tty' = tty /\ pr' = pr /\ luck' = luck
             /\ run' \in Runs /\ run'.opened = run.opened /\ run'.outcome = e
  <2>1. run' = [run EXCEPT !.outcome = e]
    BY <1>2 DEF Ends
  <2>2. run' \in Runs /\ run'.opened = run.opened /\ run'.outcome = e
    BY <1>1, <2>1 DEF Runs
  <2> QED  BY <1>2, <2>2 DEF Ends, Goto, Stays, calls
<1>3. ASSUME Fault
      PROVE  /\ at = "fault" /\ at' = "force" /\ then' = "hunt" /\ caller' = "fault" /\ frame' = frame
             /\ Alike(st, st', {"todo", "tried"}) /\ st'.todo = 0 /\ st'.tried = 1
             /\ tty' = tty /\ pr' = pr /\ run' = run /\ luck' = luck
  <2>1. st' = [st EXCEPT !.todo = 0, !.tried = 1] /\ 1 \in 1..Len(Speeds) + 1
    BY <1>3, NumbersType DEF Fault
  <2>2. Alike(st, st', {"todo", "tried"}) /\ st'.todo = 0 /\ st'.tried = 1
    BY <1>1, <2>1 DEF Alike, States
  <2> QED  BY <1>3, <2>2 DEF Fault, Goto
<1>4. ASSUME Reset
      PROVE  /\ Alone /\ run' = run /\ luck' = luck
             /\ \/ /\ at = "reset" /\ at' = "resetSent" /\ then' = then
                   /\ Receives(RESET) /\ Hushed /\ Alike(st, st', {"ps"}) /\ st'.ps = {}
                \/ /\ at = "resetSent" /\ st' = st /\ pr' = pr
                   /\ \/ /\ Models[st.m].default \in HostRates /\ Tunes(Models[st.m].default)
                         /\ at' = "idle" /\ then' = "resetDone"
                      \/ at' = "error" /\ then' = then /\ tty' = tty
                \/ /\ at = "resetDone" /\ at' \in {"giveUp", "form"}
                   /\ then' = then /\ st' = st /\ tty' = tty /\ pr' = pr
  <2>1. Alone /\ run' = run /\ luck' = luck
    BY <1>4 DEF Reset, Alone, calls
  <2>2. CASE at = "reset"
    <3>1. Receives(RESET) /\ at' = "resetSent" /\ then' = then /\ tty' = Read /\ st' = [st EXCEPT !.ps = {}]
      BY <1>4, <2>2 DEF Reset, Goto, calls
    <3>2. {} \in SUBSET Bits
      OBVIOUS
    <3>3. Hushed /\ Alike(st, st', {"ps"}) /\ st'.ps = {}
      BY <1>1, <3>1, <3>2, PortSteps, Setters
    <3> QED  BY <2>1, <2>2, <3>1, <3>3
  <2>3. CASE at = "resetSent"
    <3>1. st' = st /\ pr' = pr
      BY <1>4, <2>3 DEF Reset
    <3>2. CASE Models[st.m].default \in HostRates
      <4>1. tty' = Retuned(Models[st.m].default) /\ at' = "idle" /\ then' = "resetDone"
        BY <1>4, <2>3, <3>2 DEF Reset, Goto
      <4>2. Models[st.m].default \in Nat
        BY <3>2, NumbersType
      <4> QED  BY <2>1, <2>3, <3>1, <3>2, <4>1, <4>2, PortSteps
    <3>3. CASE Models[st.m].default \notin HostRates
      BY <1>4, <2>1, <2>3, <3>1, <3>3 DEF Reset, Goto
    <3> QED  BY <3>2, <3>3
  <2>4. CASE at = "resetDone"
    BY <1>4, <2>1, <2>4 DEF Reset, Goto, calls
  <2> QED  BY <1>4, <2>2, <2>3, <2>4 DEF Reset
<1>5. ASSUME GiveUp \/ Close
      PROVE  /\ at \in {"giveUp", "close"} /\ at' = "over" /\ Stays /\ st' = st /\ tty' = tty /\ pr' = pr /\ luck' = luck
             /\ run' \in Runs /\ run'.opened = run.opened
             /\ run'.outcome = "done" => at = "close" /\ frame = "main" /\ run.opened
  <2>1. CASE GiveUp
    <3>1. at = "giveUp" /\ Ends("fault")
      BY <2>1 DEF GiveUp
    <3> QED  BY <1>2, <3>1
  <2>2. CASE Close
    <3> DEFINE e == IF frame = "handler" THEN "stopped" ELSE IF run.opened THEN "done" ELSE "absent"
    <3>1. at = "close" /\ Ends(e) /\ (e = "done" => frame # "handler" /\ run.opened)
      BY <2>2 DEF Close
    <3>2. e \in {"done", "stopped", "absent"}
      OBVIOUS
    <3>3. frame \in {"main", "handler"}
      BY Types DEF Sound
    <3> HIDE DEF e
    <3> QED  BY <1>2, <3>1, <3>2, <3>3
  <2> QED  BY <1>5, <2>1, <2>2
<1>6. ASSUME Error \/ Signal
      PROVE  /\ at \notin {"over"} /\ (at = "error" \/ frame = "main") /\ then' = then /\ caller' = caller
             /\ st' = st /\ tty' = tty /\ pr' = pr /\ luck' = luck
             /\ \/ at' = "over" /\ frame' = frame /\ run' \in Runs /\ run'.opened = run.opened /\ run'.outcome # "done"
                \/ at' = "stop" /\ frame' = "handler" /\ run.opened /\ frame = "main" /\ run' = run
  <2>1. at \notin {"over"} /\ (at = "error" \/ frame = "main")
    BY <1>6 DEF Error, Signal
  <2>2. CASE Ends("error") \/ Ends("killed")
    BY <1>2, <2>1, <2>2 DEF Stays
  <2>3. CASE /\ run.opened /\ frame = "main" /\ frame' = "handler" /\ at' = "stop"
             /\ UNCHANGED <<then, caller, st, tty, pr, run, luck>>
    BY <2>1, <2>3
  <2> QED  BY <1>6, <2>2, <2>3 DEF Error, Signal, Goto
<1> QED  BY <1>3, <1>4, <1>5, <1>6

\* disconnect()
LEMMA LeaveSteps ==
  ASSUME Sound
  PROVE  /\ Stop =>
              /\ at = "stop" /\ at' = "force" /\ then' = "stopped" /\ Alone /\ Level
              /\ Alike(st, st', {"todo"}) /\ pr' = pr /\ run' = run /\ luck' = luck
         /\ Stopped =>
              /\ at = "stopped" /\ Stays /\ st' = st /\ tty' = tty /\ pr' = pr /\ run' = run /\ luck' = luck
              /\ \/ at' = "close" /\ st.ps \cap {"garbled", "jam"} # {}
                 \/ at' \in {"ask", "eject"}
         /\ Eject =>
              /\ Stays /\ tty' = tty /\ run' = run /\ luck' = luck
              /\ \/ at = "eject" /\ at' = "ejectArg" /\ Receives(FF) /\ st' = st
                 \/ at = "ejectArg" /\ at' = "ejected" /\ Receives(1) /\ st' = st
                 \/ at = "ejected" /\ at' = "ask" /\ pr' = pr /\ Alike(st, st', {})
         /\ Ask =>
              /\ at = "ask" /\ at' = "idle" /\ then' = "restore" /\ Alone /\ Receives(STATUS)
              /\ Alike(st, st', {"ps"}) /\ st'.ps = st.ps \ {"idle"} /\ tty' = tty /\ run' = run /\ luck' = luck
         /\ Restore =>
              /\ at = "restore" /\ Alone /\ tty' = tty /\ pr' = pr /\ luck' = luck
              /\ \/ /\ st.m = "NULL" /\ at' = "over" /\ then' = then /\ st' = st
                    /\ run' \in Runs /\ run'.opened = run.opened /\ run'.outcome = "crashed"
                 \/ /\ st.m \in DOMAIN Models /\ at' = "switch" /\ then' = "close" /\ run' = run
                    /\ Alike(st, st', {"speed"}) /\ st'.speed = Models[st.m].default
<1>1. /\ st \in States /\ st.m \in DOMAIN Models \cup {"NULL"} /\ st.ps \in SUBSET Bits /\ run \in Runs
      /\ tty \in Ports /\ pr \in Printers
  BY SoundFacts DEF States
<1>2. ASSUME Stop
      PROVE  /\ at = "stop" /\ at' = "force" /\ then' = "stopped" /\ Alone /\ Level
             /\ Alike(st, st', {"todo"}) /\ pr' = pr /\ run' = run /\ luck' = luck
  <2>1. tty' = [tty EXCEPT !.cts = FALSE] /\ st' = [st EXCEPT !.todo = 0]
    BY <1>2 DEF Stop
  <2>2. Level /\ Alike(st, st', {"todo"})
    BY <1>1, <2>1, PortSteps, Setters
  <2> QED  BY <1>2, <2>2 DEF Stop, Goto, Alone
<1>3. Stopped =>
        /\ at = "stopped" /\ Stays /\ st' = st /\ tty' = tty /\ pr' = pr /\ run' = run /\ luck' = luck
        /\ \/ at' = "close" /\ st.ps \cap {"garbled", "jam"} # {}
           \/ at' \in {"ask", "eject"}
  BY DEF Stopped, Goto, Stays, calls
<1>4. ASSUME Eject
      PROVE  /\ Stays /\ tty' = tty /\ run' = run /\ luck' = luck
             /\ \/ at = "eject" /\ at' = "ejectArg" /\ Receives(FF) /\ st' = st
                \/ at = "ejectArg" /\ at' = "ejected" /\ Receives(1) /\ st' = st
                \/ at = "ejected" /\ at' = "ask" /\ pr' = pr /\ Alike(st, st', {})
  <2>1. TRUE \in BOOLEAN /\ (st' = [st EXCEPT !.tof = TRUE] => Alike(st, st', {}))
    BY <1>1, Setters
  <2> QED  BY <1>4, <2>1 DEF Eject, Send, Goto, Stays, calls
<1>5. ASSUME Ask
      PROVE  /\ at = "ask" /\ at' = "idle" /\ then' = "restore" /\ Alone /\ Receives(STATUS)
             /\ Alike(st, st', {"ps"}) /\ st'.ps = st.ps \ {"idle"} /\ tty' = tty /\ run' = run /\ luck' = luck
  <2>1. st' = [st EXCEPT !.ps = st.ps \ {"idle"}] /\ st.ps \ {"idle"} \in SUBSET Bits
    BY <1>1, <1>5 DEF Ask
  <2>2. Alike(st, st', {"ps"}) /\ st'.ps = st.ps \ {"idle"}
    BY <1>1, <2>1, Setters
  <2> QED  BY <1>5, <2>2 DEF Ask, Goto, Alone
<1>6. ASSUME Restore
      PROVE  /\ at = "restore" /\ Alone /\ tty' = tty /\ pr' = pr /\ luck' = luck
             /\ \/ /\ st.m = "NULL" /\ at' = "over" /\ then' = then /\ st' = st
                   /\ run' \in Runs /\ run'.opened = run.opened /\ run'.outcome = "crashed"
                \/ /\ st.m \in DOMAIN Models /\ at' = "switch" /\ then' = "close" /\ run' = run
                   /\ Alike(st, st', {"speed"}) /\ st'.speed = Models[st.m].default
  <2>1. CASE st.m = "NULL"
    <3>1. Ends("crashed")
      BY <1>6, <2>1 DEF Restore
    <3>2. run' = [run EXCEPT !.outcome = "crashed"]
      BY <3>1 DEF Ends
    <3>3. run' \in Runs /\ run'.opened = run.opened /\ run'.outcome = "crashed"
      BY <1>1, <3>2 DEF Runs
    <3> QED  BY <1>6, <2>1, <3>1, <3>3 DEF Restore, Ends, Goto, calls, Alone
  <2>2. CASE st.m # "NULL"
    <3>1. st' = [st EXCEPT !.speed = Models[st.m].default] /\ Models[st.m].default \in Nat /\ st.m \in DOMAIN Models
      BY <1>1, <1>6, <2>2, ModelType DEF Restore, Rates
    <3>2. Alike(st, st', {"speed"}) /\ st'.speed = Models[st.m].default
      <4>1. st \in States
        BY <1>1
      <4> QED  BY <3>1, <4>1, Chosen
    <3> QED  BY <1>6, <2>2, <3>1, <3>2 DEF Restore, Goto, Alone
  <2> QED  BY <2>1, <2>2
<1> QED  BY <1>2, <1>3, <1>4, <1>5, <1>6

\* The printer by itself: it reports to the port, or its mechanism rests, jams, or is cleared.
LEMMA TransmitStep ==
  ASSUME Sound, Transmit
  PROVE  /\ at' = at /\ Stays /\ st' = st /\ run' = run /\ luck' = luck /\ pr.owed # <<>>
         /\ pr' = [pr EXCEPT !.owed = Tail(pr.owed)] /\ pr' \in Printers /\ pr'.owed = Tail(pr.owed)
         /\ pr'.kind = pr.kind /\ pr'.rate = pr.rate /\ pr'.mode = pr.mode /\ pr'.cmd = pr.cmd /\ pr'.left = pr.left
         /\ pr'.busy = pr.busy /\ pr'.jam = pr.jam
         /\ \A x : Came(x, pr.owed) <=> Came(x, pr'.owed) \/ x = Head(pr.owed)
         /\ tty' \in Ports /\ tty'.rate = tty.rate
         /\ at = "over" => tty' = tty
         /\ at # "over" => LET b == IF SameRate THEN Head(pr.owed) ELSE "garbled" IN
                           tty'.rx = Append(tty.rx, b) /\ \A x : Came(x, tty'.rx) <=> Came(x, tty.rx) \/ x = b
<1>1. tty \in Ports /\ pr \in Printers /\ tty.rx \in Seq(Messages) /\ pr.owed \in Seq(Messages) /\ pr.owed # <<>>
  BY SoundFacts DEF Ports, Printers, Transmit
<1>2. /\ Tail(pr.owed) \in Seq(Messages) /\ Head(pr.owed) \in Messages
      /\ \A x : Came(x, pr.owed) <=> Came(x, Tail(pr.owed)) \/ x = Head(pr.owed)
  BY <1>1, CameTail
<1>3. pr' = [pr EXCEPT !.owed = Tail(pr.owed)]
  BY <1>1 DEF Transmit, Printers
<1>4. /\ pr' \in Printers /\ pr'.owed = Tail(pr.owed)
      /\ pr'.kind = pr.kind /\ pr'.rate = pr.rate /\ pr'.mode = pr.mode /\ pr'.cmd = pr.cmd /\ pr'.left = pr.left
      /\ pr'.busy = pr.busy /\ pr'.jam = pr.jam
  BY <1>1, <1>2, <1>3 DEF Printers
<1>5. at = "over" => tty' = tty
  BY DEF Transmit
<1> DEFINE b == IF SameRate THEN Head(pr.owed) ELSE "garbled"
<1>6. b \in Messages
  BY <1>2 DEF Messages
<1>7. at # "over" => tty' = [tty EXCEPT !.rx = Append(tty.rx, b)]
  BY <1>1 DEF Transmit, Ports, SameRate
<1> HIDE DEF b
<1>8. Append(tty.rx, b) \in Seq(Messages) /\ \A x : Came(x, Append(tty.rx, b)) <=> Came(x, tty.rx) \/ x = b
  BY <1>1, <1>6, CameAppend
<1>9. at # "over" => tty' \in Ports /\ tty'.rate = tty.rate /\ tty'.rx = Append(tty.rx, b)
  BY <1>1, <1>7, <1>8 DEF Ports
<1>10. at' = at /\ Stays /\ st' = st /\ run' = run /\ luck' = luck
  BY DEF Transmit, Stays, calls
<1>11. at # "over" => tty'.rx = Append(tty.rx, b) /\ \A x : Came(x, tty'.rx) <=> Came(x, tty.rx) \/ x = b
  BY <1>8, <1>9
<1> QED  BY <1>1, <1>2, <1>3, <1>4, <1>5, <1>9, <1>10, <1>11 DEF b

LEMMA MechanismStep ==
  ASSUME Sound, Rest \/ Jams \/ Cleared
  PROVE  /\ at' = at /\ Stays /\ st' = st /\ run' = run /\ tty' = tty
         /\ luck' \in Fates /\ luck'.late = luck.late /\ luck'.calm = luck.calm
         /\ luck'.troubles = luck.troubles \/ luck'.troubles > 0
         /\ pr' \in Printers /\ (pr.busy \/ pr.jam)
         /\ pr'.kind = pr.kind /\ pr'.rate = pr.rate /\ pr'.mode = pr.mode /\ pr'.cmd = pr.cmd /\ pr'.left = pr.left
         /\ pr'.jam => pr.jam \/ luck'.troubles > 0
         /\ Reports(pr') /\ \A x : Came(x, pr'.owed) => Came(x, pr.owed) \/ (x \in Statuses /\ (x = "jam" => pr'.jam))
<1>1. pr \in Printers /\ pr.owed \in Seq(Messages) /\ luck \in Fates
  BY SoundFacts DEF Printers
<1> DEFINE Mechanism(q) ==
      /\ q \in Printers /\ q.kind = pr.kind /\ q.rate = pr.rate /\ q.mode = pr.mode /\ q.cmd = pr.cmd
      /\ q.left = pr.left /\ q.owed = pr.owed
<1>2. ASSUME Jams
      PROVE  /\ luck' \in Fates /\ luck'.late = luck.late /\ luck'.calm = luck.calm /\ luck'.troubles > 0
  <2>1. Fortunate /\ luck' = [luck EXCEPT !.troubles = luck.troubles + 1]
    BY <1>2 DEF Jams
  <2>2. luck.troubles + 1 \in 0..MaxTroubles /\ luck.troubles + 1 > 0
    BY <1>1, <2>1, TroublesType, NumbersType DEF Fates
  <2>3. luck' \in Fates /\ luck'.late = luck.late /\ luck'.calm = luck.calm /\ luck'.troubles = luck.troubles + 1
    BY <1>1, <2>1, <2>2 DEF Fates
  <2> QED  BY <2>2, <2>3
<1>3. Rest \/ Cleared => luck' = luck
  BY DEF Rest, Cleared
<1>4. at' = at /\ Stays /\ st' = st /\ run' = run /\ tty' = tty /\ (pr.busy \/ pr.jam)
  BY DEF Rest, Cleared, Jams, Stays, calls
<1>5. /\ luck' \in Fates /\ luck'.late = luck.late /\ luck'.calm = luck.calm
      /\ luck'.troubles = luck.troubles \/ luck'.troubles > 0
  BY <1>1, <1>2, <1>3
<1>6. PICK q : pr' = Report(pr, q) /\ Mechanism(q) /\ (q.jam => pr.jam \/ luck'.troubles > 0)
  <2>1. CASE Rest
    <3>1. pr' = Report(pr, [pr EXCEPT !.busy = FALSE])
      BY <2>1 DEF Rest
    <3>2. Mechanism([pr EXCEPT !.busy = FALSE]) /\ [pr EXCEPT !.busy = FALSE].jam = pr.jam
      BY <1>1 DEF Printers
    <3> QED  BY <3>1, <3>2
  <2>2. CASE Jams
    <3>1. pr' = Report(pr, [pr EXCEPT !.jam = TRUE])
      BY <2>2 DEF Jams
    <3>2. Mechanism([pr EXCEPT !.jam = TRUE])
      BY <1>1 DEF Printers
    <3> QED  BY <1>2, <2>2, <3>1, <3>2
  <2>3. CASE Cleared
    <3>1. pr' = Report(pr, [pr EXCEPT !.jam = FALSE]) /\ pr.jam
      BY <2>3 DEF Cleared
    <3>2. Mechanism([pr EXCEPT !.jam = FALSE])
      BY <1>1 DEF Printers
    <3> QED  BY <3>1, <3>2
  <2> QED  BY <2>1, <2>2, <2>3
<1> HIDE DEF Mechanism
<1>7. /\ q \in Printers /\ q.kind = pr.kind /\ q.rate = pr.rate /\ q.mode = pr.mode /\ q.cmd = pr.cmd
      /\ q.left = pr.left /\ q.owed = pr.owed
  BY <1>6 DEF Mechanism
<1>8. StatusOf(q) \in Statuses /\ StatusOf(q) \in Messages /\ (StatusOf(q) = "jam" <=> q.jam)
  BY <1>7, StatusFacts
<1>9. /\ pr' \in Printers /\ pr'.kind = q.kind /\ pr'.rate = q.rate /\ pr'.mode = q.mode /\ pr'.cmd = q.cmd
      /\ pr'.left = q.left /\ pr'.jam = q.jam
      /\ pr'.owed = q.owed \/ pr'.owed = Append(q.owed, StatusOf(q))
  BY <1>1, <1>6, <1>7, ReportFacts
<1>10. \A x : Came(x, pr'.owed) => Came(x, pr.owed) \/ (x \in Statuses /\ (x = "jam" => pr'.jam))
  <2>1. pr.owed \in Seq(Messages) /\ StatusOf(q) \in Messages
    BY <1>1, <1>8
  <2>2. \A x : Came(x, Append(pr.owed, StatusOf(q))) <=> Came(x, pr.owed) \/ x = StatusOf(q)
    BY <2>1, CameAppend
  <2>3. pr'.owed = pr.owed \/ pr'.owed = Append(pr.owed, StatusOf(q))
    BY <1>7, <1>9
  <2>4. StatusOf(q) \in Statuses /\ (StatusOf(q) = "jam" => pr'.jam)
    BY <1>8, <1>9
  <2> SUFFICES ASSUME NEW x, Came(x, pr'.owed) PROVE Came(x, pr.owed) \/ (x \in Statuses /\ (x = "jam" => pr'.jam))
    OBVIOUS
  <2>5. Came(x, pr.owed) \/ x = StatusOf(q)
    BY <2>2, <2>3
  <2> QED  BY <2>4, <2>5
<1>11. Reports(pr')
  BY <1>7, <1>8, <1>9 DEF Reports
<1>12. pr'.jam => pr.jam \/ luck'.troubles > 0
  BY <1>6, <1>9
<1>13. /\ pr' \in Printers
       /\ pr'.kind = pr.kind /\ pr'.rate = pr.rate /\ pr'.mode = pr.mode /\ pr'.cmd = pr.cmd /\ pr'.left = pr.left
  BY <1>7, <1>9
<1> QED  BY <1>4, <1>5, <1>10, <1>11, <1>12, <1>13

-----------------------------------------------------------------------------
(***************************************************************************)
(* Each part of the invariant is kept by every step.                       *)
(***************************************************************************)

\* Byte b arrives at a printer that the invariant describes.
LEMMA ByteSteps ==
  ASSUME Sound
  PROVE  \A b \in Nat : Receives(b) =>
           /\ Follows(pr, b, SameRate, pr') /\ Parsed(b)
           /\ b \notin {RESET, PING, STATUS, MODEL} \/ ~SameRate \/ pr.mode # "cmd" => Reports(pr')
           /\ b = PING => Reports(pr') \/ pr'.owed = Append(pr.owed, "ping")
<1> SUFFICES ASSUME NEW b \in Nat, Receives(b)
             PROVE  /\ Follows(pr, b, SameRate, pr') /\ Parsed(b)
                    /\ b \notin {RESET, PING, STATUS, MODEL} \/ ~SameRate \/ pr.mode # "cmd" => Reports(pr')
                    /\ b = PING => Reports(pr') \/ pr'.owed = Append(pr.owed, "ping")
  OBVIOUS
<1>1. pr \in Printers /\ (pr.mode = "data" => pr.left > 0)
  BY SoundFacts DEF Sound, CountInv
<1> QED  BY <1>1, ReceivesFacts

LEMMA CodeType == \A speed : Code(speed) \in Nat /\ (speed \in Rates => RateOf(pr, Code(speed)) = speed)
BY DEF Code, Rates, RateOf

\* The bytes that are sent are numbers.
LEMMA SentType ==
  ASSUME Sound
  PROVE  /\ NOP \in Nat /\ STATUS \in Nat /\ BAUD \in Nat /\ PRINT \in Nat /\ MODE \in Nat /\ FEED \in Nat
         /\ FF \in Nat /\ RESET \in Nat /\ MODEL \in Nat /\ PING \in Nat /\ 1 \in Nat
         /\ st.nslices \in Nat /\ Code(st.speed) \in Nat
<1>1. st.nslices \in {MAXNOPS, NSlices}
  BY SoundFacts DEF States
<1> QED  BY <1>1, BytesType, CodeType, NumbersType

\* A step of the printer, of the driver, or none.
LEMMA NextCases ==
  ASSUME [Next]_vars
  PROVE  \/ ForceIdle \/ WaitIdle \/ CheckIdle
         \/ TrySpeed \/ SendPing \/ Pinged \/ Verify \/ NotFound \/ AskModel \/ Modelled
         \/ ChooseSpeed \/ SwitchPrinter \/ SwitchLocal \/ StartSettings \/ Set \/ Settle \/ Connected \/ Sized
         \/ NextLabel \/ Feed \/ Band \/ BandCheck \/ Form
         \/ Fault \/ Reset \/ GiveUp \/ Error \/ Signal
         \/ Stop \/ Stopped \/ Eject \/ Ask \/ Restore \/ Close
         \/ Transmit \/ Rest \/ Jams \/ Cleared \/ UNCHANGED vars
BY DEF Next, Driver, Connect, PrintLabel, Recover, Disconnect, Printer, Over

LEMMA TypeStep ==
  ASSUME Sound, [Next]_vars
  PROVE  TypeOK'
<1>1. /\ st \in States /\ tty \in Ports /\ pr \in Printers /\ run \in Runs /\ luck \in Fates
      /\ at \in Labels /\ then \in Labels /\ caller \in {"main", "fault"} /\ frame \in {"main", "handler"}
  BY SoundFacts, Types DEF Sound
<1>2. \A b \in Nat : Receives(b) => pr' \in Printers
  BY ByteSteps DEF Follows
<1> USE SentType
<1> SUFFICES
      /\ at' \in Labels /\ then' \in Labels /\ caller' \in {"main", "fault"} /\ frame' \in {"main", "handler"}
      /\ st' \in States /\ tty' \in Ports /\ pr' \in Printers /\ run' \in Runs /\ luck' \in Fates
  BY Primes
<1>3. CASE ForceIdle
  BY <1>1, <1>2, <1>3, ForceSteps DEF Heeds, Hushed, Alike, Stays
<1>4. CASE WaitIdle
  BY <1>1, <1>4, IdleSteps DEF Heeds, Hushed, Alike, Stays, Patient, OnTimeout, Labels
<1>5. CASE CheckIdle
  BY <1>1, <1>5, IdleSteps DEF Heeds, Hushed, Alike, Stays, Patient, Labels
<1>6. CASE SendPing \/ Verify
  BY <1>1, <1>2, <1>6, FindSteps DEF Hushed, Alike, Stays, Alone, Labels
<1>7. CASE TrySpeed
  <2>1. Alone /\ pr' = pr /\ run' = run /\ luck' = luck /\ at' \in Labels /\ then' \in Labels
    BY <1>1, <1>7, FindSteps DEF Labels
  <2>2. st' \in States /\ tty' \in Ports
    BY <1>1, <1>7, FindSteps DEF Alike, Tunes
  <2> QED  BY <1>1, <2>1, <2>2 DEF Alone
<1>8. CASE Pinged \/ Modelled
  BY <1>1, <1>8, FindSteps DEF Heeds, Hushed, Alike, Stays, Patient, Labels
<1>9. CASE NotFound \/ AskModel
  BY <1>1, <1>2, <1>9, FindSteps DEF Alike, Stays, Labels
<1>10. CASE ChooseSpeed \/ SwitchLocal
  <2>1. Alone /\ pr' = pr /\ run' = run /\ luck' = luck /\ at' \in Labels /\ then' \in Labels
    BY <1>1, <1>10, ConnectSteps DEF Stays, Alone, Labels
  <2>2. st' \in States /\ tty' \in Ports
    BY <1>1, <1>10, ConnectSteps DEF Alike, Level, Tunes
  <2> QED  BY <1>1, <2>1, <2>2 DEF Alone
<1>11. CASE SwitchPrinter
  BY <1>1, <1>2, <1>11, ConnectSteps DEF Alike, Stays, Labels
<1>12. CASE StartSettings \/ Set
  BY <1>1, <1>2, <1>12, ConnectSteps DEF Alike, Stays, Alone, Labels
<1>13. CASE Settle \/ Connected \/ Sized
  BY <1>1, <1>2, <1>13, ConnectSteps DEF Alike, Stays, Alone, Labels
<1>14. CASE NextLabel
  BY <1>1, <1>14, PrintSteps DEF Alike, Stays, Labels
<1>15. CASE Feed
  <2>1. at' \in Labels /\ Stays /\ run' = run
    BY <1>15, PrintSteps DEF Labels
  <2>2. st' \in States /\ tty' \in Ports /\ pr' \in Printers /\ luck' \in Fates
    BY <1>1, <1>2, <1>15, PrintSteps DEF Heeds, Hushed, Alike, Patient
  <2> QED  BY <1>1, <2>1, <2>2 DEF Stays
<1>16. CASE Band
  BY <1>1, <1>2, <1>16, PrintSteps DEF Heeds, Hushed, Alike, Stays, Labels
<1>17. CASE BandCheck \/ Form
  BY <1>1, <1>2, <1>17, PrintSteps DEF Heeds, Hushed, Alike, Alone, Labels
<1>18. CASE Fault \/ Reset \/ GiveUp \/ Close \/ Error \/ Signal
  BY <1>1, <1>2, <1>18, RecoverSteps DEF Hushed, Alike, Stays, Alone, Tunes, Labels
<1>19. CASE Stop \/ Stopped \/ Eject \/ Ask \/ Restore
  BY <1>1, <1>2, <1>19, LeaveSteps DEF Alike, Stays, Alone, Level, Labels
<1>20. CASE Transmit
  BY <1>1, <1>20, TransmitStep DEF Stays
<1>21. CASE Rest \/ Jams \/ Cleared
  BY <1>1, <1>21, MechanismStep DEF Stays
<1>22. CASE UNCHANGED vars
  BY <1>1, <1>22 DEF vars, calls
<1> QED
  BY <1>3, <1>4, <1>5, <1>6, <1>7, <1>8, <1>9, <1>10, <1>11, <1>12, <1>13, <1>14, <1>15, <1>16, <1>17, <1>18, <1>19, <1>20, <1>21, <1>22, NextCases

\* What sense() hears.
LEMMA Hears ==
  ASSUME Sound
  PROVE  /\ "garbled" \in Sensed.ps => "garbled" \in st.ps \/ Came("garbled", tty.rx)
         /\ "jam" \in Sensed.ps => "jam" \in st.ps \/ Came("jam", tty.rx)
         /\ IF Came("model", tty.rx) THEN Sensed.m = pr.kind /\ pr.kind \in DOMAIN Models
                                     ELSE Sensed.m = st.m
BY SensedFacts DEF Sound

\* Where they return to is known.
LEMMA ThenStep ==
  ASSUME Sound, ThenInv, [Next]_vars
  PROVE  ThenInv'
<1>1. CASE ForceIdle
  BY <1>1, ForceSteps
  DEF ThenInv, Alike, Heeds, Hushed, Stays
<1>2. CASE WaitIdle \/ CheckIdle
  BY <1>2, IdleSteps
  DEF ThenInv, Alike, Heeds, Hushed, OnTimeout, Patient, Stays
<1>3. CASE TrySpeed \/ Pinged
  BY <1>3, FindSteps
  DEF ThenInv, Alike, Alone, Tunes, Heeds, Hushed, Patient, Stays
<1>4. CASE SendPing \/ Verify \/ AskModel
  BY <1>4, FindSteps
  DEF ThenInv, Stays, Alike, Alone, Hushed
<1>5. CASE NotFound \/ Modelled
  BY <1>5, FindSteps
  DEF ThenInv, Stays, Alike, Hushed, Patient
<1>6. CASE ChooseSpeed \/ SwitchPrinter \/ SwitchLocal
  BY <1>6, ConnectSteps
  DEF ThenInv, Alike, Alone, Level, Stays, Tunes
<1>7. CASE StartSettings \/ Set
  BY <1>7, ConnectSteps
  DEF ThenInv, Alike, Alone, Stays
<1>8. CASE Settle \/ Connected \/ Sized
  BY <1>8, ConnectSteps
  DEF ThenInv, Alone, Stays, Alike
<1>9. CASE NextLabel
  BY <1>9, PrintSteps
  DEF ThenInv, Alike, Stays
<1>10. CASE Feed
  BY <1>10, PrintSteps
  DEF ThenInv, Alike, Heeds, Hushed, Patient, Stays
<1>11. CASE Band
  BY <1>11, PrintSteps
  DEF ThenInv, Alike, Heeds, Hushed, Stays
<1>12. CASE BandCheck \/ Form
  BY <1>12, PrintSteps
  DEF ThenInv, Alike, Alone, Heeds, Hushed
<1>13. CASE Fault \/ Reset
  BY <1>13, RecoverSteps
  DEF ThenInv, Alike, Alone, Hushed, Tunes
<1>14. CASE GiveUp \/ Close \/ Error \/ Signal
  BY <1>14, RecoverSteps
  DEF ThenInv, Stays
<1>15. CASE Stop \/ Stopped \/ Ask
  BY <1>15, LeaveSteps
  DEF ThenInv, Alike, Alone, Level, Stays
<1>16. CASE Eject \/ Restore
  BY <1>16, LeaveSteps
  DEF ThenInv, Alike, Stays, Alone
<1>17. CASE Transmit
  BY <1>17, TransmitStep
  DEF ThenInv, Stays
<1>18. CASE Rest \/ Jams \/ Cleared
  BY <1>18, MechanismStep
  DEF ThenInv, Stays
<1>19. CASE UNCHANGED vars
  BY <1>19
  DEF ThenInv, calls, vars
<1> QED
  BY <1>1, <1>2, <1>3, <1>4, <1>5, <1>6, <1>7, <1>8, <1>9, <1>10, <1>11, <1>12, <1>13, <1>14, <1>15, <1>16, <1>17, <1>18, <1>19, NextCases

LEMMA NothingStep ==
  ASSUME Sound, ThenInv, [Next]_vars
  PROVE  NothingInv'
<1>1. NothingInv /\ \A x : ~Came(x, <<>>)
  BY CameEmpty DEF Sound
<1>2. \A b \in Nat : Receives(b) => pr'.kind = pr.kind /\ (pr.kind = "nothing" => pr' = pr)
  BY ByteSteps DEF Follows, Parsed
<1>3. CASE ForceIdle
  BY SentType, Hears, <1>1, <1>2, <1>3, ForceSteps
  DEF ThenInv, NothingInv, Found, Waiting, Alike, Heeds, Hushed, Stays
<1>4. CASE WaitIdle \/ CheckIdle
  BY SentType, Hears, <1>1, <1>2, <1>4, IdleSteps
  DEF ThenInv, NothingInv, Found, Waiting, Alike, Heeds, Hushed, OnTimeout, Patient, Stays
<1>5. CASE TrySpeed \/ Pinged
  BY SentType, Hears, <1>1, <1>2, <1>5, FindSteps
  DEF ThenInv, NothingInv, Found, Waiting, Alike, Alone, Tunes, Heeds, Hushed, Patient, Stays
<1>6. CASE SendPing \/ Verify \/ AskModel
  BY SentType, Hears, <1>1, <1>2, <1>6, FindSteps
  DEF ThenInv, NothingInv, Found, Waiting, Stays, Alike, Alone, Hushed
<1>7. CASE NotFound \/ Modelled
  BY SentType, Hears, <1>1, <1>2, <1>7, FindSteps
  DEF ThenInv, NothingInv, Found, Waiting, Stays, Alike, Hushed, Patient
<1>8. CASE ChooseSpeed \/ SwitchPrinter \/ SwitchLocal
  BY SentType, Hears, <1>1, <1>2, <1>8, ConnectSteps
  DEF ThenInv, NothingInv, Found, Waiting, Alike, Alone, Level, Stays, Tunes
<1>9. CASE StartSettings \/ Set
  BY SentType, Hears, <1>1, <1>2, <1>9, ConnectSteps
  DEF ThenInv, NothingInv, Found, Waiting, Alike, Alone, Stays
<1>10. CASE Settle \/ Connected \/ Sized
  BY SentType, Hears, <1>1, <1>2, <1>10, ConnectSteps
  DEF ThenInv, NothingInv, Found, Waiting, Alone, Stays, Alike
<1>11. CASE NextLabel
  BY SentType, Hears, <1>1, <1>2, <1>11, PrintSteps
  DEF ThenInv, NothingInv, Found, Waiting, Alike, Stays
<1>12. CASE Feed
  BY SentType, Hears, <1>1, <1>2, <1>12, PrintSteps
  DEF ThenInv, NothingInv, Found, Waiting, Alike, Heeds, Hushed, Patient, Stays
<1>13. CASE Band
  BY SentType, Hears, <1>1, <1>2, <1>13, PrintSteps
  DEF ThenInv, NothingInv, Found, Waiting, Alike, Heeds, Hushed, Stays
<1>14. CASE BandCheck \/ Form
  BY SentType, Hears, <1>1, <1>2, <1>14, PrintSteps
  DEF ThenInv, NothingInv, Found, Waiting, Alike, Alone, Heeds, Hushed
<1>15. CASE Fault \/ Reset
  BY SentType, Hears, <1>1, <1>2, <1>15, RecoverSteps
  DEF ThenInv, NothingInv, Found, Waiting, Alike, Alone, Hushed, Tunes
<1>16. CASE GiveUp \/ Close \/ Error \/ Signal
  BY SentType, Hears, <1>1, <1>2, <1>16, RecoverSteps
  DEF ThenInv, NothingInv, Found, Waiting, Stays
<1>17. CASE Stop \/ Stopped \/ Ask
  BY SentType, Hears, <1>1, <1>2, <1>17, LeaveSteps
  DEF ThenInv, NothingInv, Found, Waiting, Alike, Alone, Level, Stays
<1>18. CASE Eject \/ Restore
  BY SentType, Hears, <1>1, <1>2, <1>18, LeaveSteps
  DEF ThenInv, NothingInv, Found, Waiting, Alike, Stays, Alone
<1>19. CASE Transmit
  BY SentType, Hears, <1>1, <1>2, <1>19, TransmitStep
  DEF ThenInv, NothingInv, Found, Waiting, Stays
<1>20. CASE Rest \/ Jams \/ Cleared
  BY SentType, Hears, <1>1, <1>2, <1>20, MechanismStep
  DEF ThenInv, NothingInv, Found, Waiting, Stays
<1>21. CASE UNCHANGED vars
  BY SentType, Hears, <1>1, <1>2, <1>21
  DEF ThenInv, NothingInv, Found, Waiting, calls, vars
<1> QED
  BY <1>3, <1>4, <1>5, <1>6, <1>7, <1>8, <1>9, <1>10, <1>11, <1>12, <1>13, <1>14, <1>15, <1>16, <1>17, <1>18, <1>19, <1>20, <1>21, NextCases

LEMMA CountStep ==
  ASSUME Sound, ThenInv, FrameInv, [Next]_vars
  PROVE  CountInv'
<1>1. CountInv
  BY DEF Sound
<1>2. \A b \in Nat : Receives(b) => (pr'.mode = "data" => pr'.left > 0)
  BY ByteSteps DEF Follows
<1>3. st.todo \in Nat /\ st.tried \in Nat /\ NSlices > 0 /\ caller \in {"main", "fault"} /\ frame \in {"main", "handler"}
  BY SoundFacts, NumbersType, Types DEF States, Sound
<1>4. st.todo > 0 /\ st.todo # 1 => st.todo - 1 > 0
  BY <1>3
<1>5. CASE ForceIdle
  BY SentType, <1>1, <1>2, <1>3, <1>4, <1>5, ForceSteps
  DEF ThenInv, CountInv, FrameInv, Waiting, Forcing, Tuned, Labelling, Forming, Resetting, Leaving, Main, Alike, Heeds, Hushed, Stays
<1>6. CASE WaitIdle \/ CheckIdle
  BY SentType, <1>1, <1>2, <1>3, <1>4, <1>6, IdleSteps
  DEF ThenInv, CountInv, FrameInv, Waiting, Forcing, Tuned, Labelling, Forming, Resetting, Leaving, Main, Alike, Heeds, Hushed, OnTimeout, Patient, Stays
<1>7. CASE TrySpeed \/ Pinged
  BY SentType, <1>1, <1>2, <1>3, <1>4, <1>7, FindSteps
  DEF ThenInv, CountInv, FrameInv, Waiting, Forcing, Tuned, Labelling, Forming, Resetting, Leaving, Main, Alike, Alone, Tunes, Heeds, Hushed, Patient, Stays
<1>8. CASE SendPing \/ Verify \/ AskModel
  BY SentType, <1>1, <1>2, <1>3, <1>4, <1>8, FindSteps
  DEF ThenInv, CountInv, FrameInv, Waiting, Forcing, Tuned, Labelling, Forming, Resetting, Leaving, Main, Stays, Alike, Alone, Hushed
<1>9. CASE NotFound \/ Modelled
  BY SentType, <1>1, <1>2, <1>3, <1>4, <1>9, FindSteps
  DEF ThenInv, CountInv, FrameInv, Waiting, Forcing, Tuned, Labelling, Forming, Resetting, Leaving, Main, Stays, Alike, Hushed, Patient
<1>10. CASE ChooseSpeed
  BY SentType, <1>1, <1>2, <1>3, <1>4, <1>10, ConnectSteps
  DEF ThenInv, CountInv, FrameInv, Waiting, Forcing, Tuned, Labelling, Forming, Resetting, Leaving, Main, Alike, Alone, Level
<1>11. CASE SwitchPrinter
  <2>1. /\ Stays /\ tty' = tty /\ run' = run /\ luck' = luck
        /\ \/ /\ at = "switch" /\ at' = "switchCode" /\ Receives(BAUD)
              /\ Alike(st, st', {"speed"}) /\ st'.speed = Limited(st.speed)
           \/ at = "switchCode" /\ at' = "switchLocal" /\ Receives(Code(st.speed)) /\ st' = st
    BY <1>11, ConnectSteps
  <2> QED
    BY SentType, <1>1, <1>2, <1>3, <2>1
    DEF ThenInv, CountInv, FrameInv, Waiting, Forcing, Tuned, Labelling, Forming, Main, Alike, Stays
<1>12. CASE SwitchLocal
  BY SentType, <1>1, <1>2, <1>3, <1>4, <1>12, ConnectSteps
  DEF ThenInv, CountInv, FrameInv, Waiting, Forcing, Tuned, Labelling, Forming, Resetting, Leaving, Main, Stays, Tunes
<1>13. CASE StartSettings
  BY SentType, <1>1, <1>2, <1>3, <1>4, <1>13, ConnectSteps
  DEF ThenInv, CountInv, FrameInv, Waiting, Forcing, Tuned, Labelling, Forming, Resetting, Leaving, Main, Alike, Alone
<1>14. CASE Set
  <2>1. /\ at \in {"set", "setArg"} /\ st.todo > 0 /\ Stays /\ st'.nslices = st.nslices /\ run' = run
        /\ (at' \in {"set", "setArg"} /\ st'.todo > 0) \/ at' \in {"tuning", "margin", "settled", "sized"}
    BY <1>1, <1>4, <1>14, ConnectSteps DEF ThenInv, CountInv, Alike
  <2>2. pr'.mode = "data" => pr'.left > 0
    BY <1>2, <1>14, SentType, ConnectSteps
  <2> QED
    BY <1>1, <1>3, <2>1, <2>2
    DEF CountInv, FrameInv, Waiting, Forcing, Tuned, Labelling, Forming, Main, Stays
<1>15. CASE Settle
  BY SentType, <1>1, <1>2, <1>3, <1>4, <1>15, ConnectSteps
  DEF ThenInv, CountInv, FrameInv, Waiting, Forcing, Tuned, Labelling, Forming, Resetting, Leaving, Main, Alone
<1>16. CASE Connected
  BY SentType, <1>1, <1>2, <1>3, <1>4, <1>16, ConnectSteps
  DEF ThenInv, CountInv, FrameInv, Waiting, Forcing, Tuned, Labelling, Forming, Resetting, Leaving, Main, Stays
<1>17. CASE Sized
  BY SentType, <1>1, <1>2, <1>3, <1>4, <1>17, ConnectSteps
  DEF ThenInv, CountInv, FrameInv, Waiting, Forcing, Tuned, Labelling, Forming, Resetting, Leaving, Main, Alike, Stays
<1>18. CASE NextLabel
  <2>1. /\ at = "label" /\ Stays /\ tty' = tty /\ pr' = pr /\ luck' = luck
        /\ run' \in Runs /\ run'.opened = run.opened /\ run'.outcome = run.outcome
        /\ \/ at' = "feed" /\ Alike(st, st', {"todo"}) /\ st'.todo = 3
           \/ at' = "stop" /\ st' = st
    BY <1>18, PrintSteps
  <2> QED
    BY <1>1, <1>3, <2>1
    DEF CountInv, FrameInv, Waiting, Forcing, Tuned, Labelling, Forming, Main, Alike, Stays
<1>19. CASE Feed
  BY SentType, <1>1, <1>2, <1>3, <1>4, <1>19, PrintSteps
  DEF ThenInv, CountInv, FrameInv, Waiting, Forcing, Tuned, Labelling, Forming, Resetting, Leaving, Main, Alike, Heeds, Hushed, Patient, Stays
<1>20. CASE Band
  BY SentType, <1>1, <1>2, <1>3, <1>4, <1>20, PrintSteps
  DEF ThenInv, CountInv, FrameInv, Waiting, Forcing, Tuned, Labelling, Forming, Resetting, Leaving, Main, Alike, Heeds, Hushed, Stays
<1>21. CASE BandCheck \/ Form
  BY SentType, <1>1, <1>2, <1>3, <1>4, <1>21, PrintSteps
  DEF ThenInv, CountInv, FrameInv, Waiting, Forcing, Tuned, Labelling, Forming, Resetting, Leaving, Main, Alike, Alone, Heeds, Hushed
<1>22. CASE Fault \/ Reset
  BY SentType, <1>1, <1>2, <1>3, <1>4, <1>22, RecoverSteps
  DEF ThenInv, CountInv, FrameInv, Waiting, Forcing, Tuned, Labelling, Forming, Resetting, Leaving, Main, Alike, Alone, Hushed, Tunes
<1>23. CASE GiveUp \/ Close \/ Error \/ Signal
  BY SentType, <1>1, <1>2, <1>3, <1>4, <1>23, RecoverSteps
  DEF ThenInv, CountInv, FrameInv, Waiting, Forcing, Tuned, Labelling, Forming, Resetting, Leaving, Main, Stays
<1>24. CASE Stop \/ Stopped \/ Ask
  BY SentType, <1>1, <1>2, <1>3, <1>4, <1>24, LeaveSteps
  DEF ThenInv, CountInv, FrameInv, Waiting, Forcing, Tuned, Labelling, Forming, Resetting, Leaving, Main, Alike, Alone, Level, Stays
<1>25. CASE Eject \/ Restore
  BY SentType, <1>1, <1>2, <1>3, <1>4, <1>25, LeaveSteps
  DEF ThenInv, CountInv, FrameInv, Waiting, Forcing, Tuned, Labelling, Forming, Resetting, Leaving, Main, Alike, Stays, Alone
<1>26. CASE Transmit
  BY SentType, <1>1, <1>2, <1>3, <1>4, <1>26, TransmitStep
  DEF ThenInv, CountInv, FrameInv, Waiting, Forcing, Tuned, Labelling, Forming, Resetting, Leaving, Main, Stays
<1>27. CASE Rest \/ Jams \/ Cleared
  BY SentType, <1>1, <1>2, <1>3, <1>4, <1>27, MechanismStep
  DEF ThenInv, CountInv, FrameInv, Waiting, Forcing, Tuned, Labelling, Forming, Resetting, Leaving, Main, Statuses, Stays
<1>28. CASE UNCHANGED vars
  BY SentType, <1>1, <1>2, <1>3, <1>4, <1>28
  DEF ThenInv, CountInv, FrameInv, Waiting, Forcing, Tuned, Labelling, Forming, Resetting, Leaving, Main, calls, vars
<1> QED
  BY <1>5, <1>6, <1>7, <1>8, <1>9, <1>10, <1>11, <1>12, <1>13, <1>14, <1>15, <1>16, <1>17, <1>18, <1>19, <1>20, <1>21, <1>22, <1>23, <1>24, <1>25, <1>26, <1>27, <1>28, NextCases

LEMMA FrameStep ==
  ASSUME Sound, ThenInv, FrameInv, KnownInv, [Next]_vars
  PROVE  FrameInv'
<1>1. caller \in {"main", "fault"} /\ frame \in {"main", "handler"} /\ "NULL" \notin DOMAIN Models /\ pr.kind # "NULL"
  BY SoundFacts, Types, ProAssumption DEF Sound, Printers
<1>2. CASE ForceIdle
  BY Hears, <1>1, <1>2, ForceSteps
  DEF ThenInv, FrameInv, KnownInv, Waiting, Forcing, Switching, Tuned, Hunting, Found, Connecting, Labelling, Forming, Resetting, Leaving, Restoring, Main, Setting, Alike, Heeds, Hushed, Stays
<1>3. CASE WaitIdle \/ CheckIdle
  BY Hears, <1>1, <1>3, IdleSteps
  DEF ThenInv, FrameInv, KnownInv, Waiting, Forcing, Switching, Tuned, Hunting, Found, Connecting, Labelling, Forming, Resetting, Leaving, Restoring, Main, Setting, Alike, Heeds, Hushed, OnTimeout, Patient, Stays
<1>4. CASE TrySpeed \/ Pinged
  BY Hears, <1>1, <1>4, FindSteps
  DEF ThenInv, FrameInv, KnownInv, Waiting, Forcing, Switching, Tuned, Hunting, Found, Connecting, Labelling, Forming, Resetting, Leaving, Restoring, Main, Setting, Alike, Alone, Tunes, Heeds, Hushed, Patient, Stays
<1>5. CASE SendPing \/ Verify \/ AskModel
  BY Hears, <1>1, <1>5, FindSteps
  DEF ThenInv, FrameInv, KnownInv, Waiting, Forcing, Switching, Tuned, Hunting, Found, Connecting, Labelling, Forming, Resetting, Leaving, Restoring, Main, Setting, Stays, Alike, Alone, Hushed
<1>6. CASE NotFound \/ Modelled
  BY Hears, <1>1, <1>6, FindSteps
  DEF ThenInv, FrameInv, KnownInv, Waiting, Forcing, Switching, Tuned, Hunting, Found, Connecting, Labelling, Forming, Resetting, Leaving, Restoring, Main, Setting, Stays, Alike, Hushed, Patient
<1>7. CASE ChooseSpeed \/ SwitchPrinter \/ SwitchLocal
  BY Hears, <1>1, <1>7, ConnectSteps
  DEF ThenInv, FrameInv, KnownInv, Waiting, Forcing, Switching, Tuned, Hunting, Found, Connecting, Labelling, Forming, Resetting, Leaving, Restoring, Main, Setting, Alike, Alone, Level, Stays, Tunes
<1>8. CASE StartSettings \/ Set
  BY Hears, <1>1, <1>8, ConnectSteps
  DEF ThenInv, FrameInv, KnownInv, Waiting, Forcing, Switching, Tuned, Hunting, Found, Connecting, Labelling, Forming, Resetting, Leaving, Restoring, Main, Setting, Alike, Alone, Stays
<1>9. CASE Settle \/ Connected \/ Sized
  BY Hears, <1>1, <1>9, ConnectSteps
  DEF ThenInv, FrameInv, KnownInv, Waiting, Forcing, Switching, Tuned, Hunting, Found, Connecting, Labelling, Forming, Resetting, Leaving, Restoring, Main, Setting, Alone, Stays, Alike
<1>10. CASE NextLabel
  BY Hears, <1>1, <1>10, PrintSteps
  DEF ThenInv, FrameInv, KnownInv, Waiting, Forcing, Switching, Tuned, Hunting, Found, Connecting, Labelling, Forming, Resetting, Leaving, Restoring, Main, Setting, Alike, Stays
<1>11. CASE Feed
  BY Hears, <1>1, <1>11, PrintSteps
  DEF ThenInv, FrameInv, KnownInv, Waiting, Forcing, Switching, Tuned, Hunting, Found, Connecting, Labelling, Forming, Resetting, Leaving, Restoring, Main, Setting, Alike, Heeds, Hushed, Patient, Stays
<1>12. CASE Band
  BY Hears, <1>1, <1>12, PrintSteps
  DEF ThenInv, FrameInv, KnownInv, Waiting, Forcing, Switching, Tuned, Hunting, Found, Connecting, Labelling, Forming, Resetting, Leaving, Restoring, Main, Setting, Alike, Heeds, Hushed, Stays
<1>13. CASE BandCheck \/ Form
  BY Hears, <1>1, <1>13, PrintSteps
  DEF ThenInv, FrameInv, KnownInv, Waiting, Forcing, Switching, Tuned, Hunting, Found, Connecting, Labelling, Forming, Resetting, Leaving, Restoring, Main, Setting, Alike, Alone, Heeds, Hushed
<1>14. CASE Fault \/ Reset
  BY Hears, <1>1, <1>14, RecoverSteps
  DEF ThenInv, FrameInv, KnownInv, Waiting, Forcing, Switching, Tuned, Hunting, Found, Connecting, Labelling, Forming, Resetting, Leaving, Restoring, Main, Setting, Alike, Alone, Hushed, Tunes
<1>15. CASE GiveUp \/ Close \/ Error \/ Signal
  BY Hears, <1>1, <1>15, RecoverSteps
  DEF ThenInv, FrameInv, KnownInv, Waiting, Forcing, Switching, Tuned, Hunting, Found, Connecting, Labelling, Forming, Resetting, Leaving, Restoring, Main, Setting, Stays
<1>16. CASE Stop \/ Stopped \/ Ask
  BY Hears, <1>1, <1>16, LeaveSteps
  DEF ThenInv, FrameInv, KnownInv, Waiting, Forcing, Switching, Tuned, Hunting, Found, Connecting, Labelling, Forming, Resetting, Leaving, Restoring, Main, Setting, Alike, Alone, Level, Stays
<1>17. CASE Eject \/ Restore
  BY Hears, <1>1, <1>17, LeaveSteps
  DEF ThenInv, FrameInv, KnownInv, Waiting, Forcing, Switching, Tuned, Hunting, Found, Connecting, Labelling, Forming, Resetting, Leaving, Restoring, Main, Setting, Alike, Stays, Alone
<1>18. CASE Transmit
  BY Hears, <1>1, <1>18, TransmitStep
  DEF ThenInv, FrameInv, KnownInv, Waiting, Forcing, Switching, Tuned, Hunting, Found, Connecting, Labelling, Forming, Resetting, Leaving, Restoring, Main, Setting, Stays
<1>19. CASE Rest \/ Jams \/ Cleared
  BY Hears, <1>1, <1>19, MechanismStep
  DEF ThenInv, FrameInv, KnownInv, Waiting, Forcing, Switching, Tuned, Hunting, Found, Connecting, Labelling, Forming, Resetting, Leaving, Restoring, Main, Setting, Statuses, Stays
<1>20. CASE UNCHANGED vars
  BY Hears, <1>1, <1>20
  DEF ThenInv, FrameInv, KnownInv, Waiting, Forcing, Switching, Tuned, Hunting, Found, Connecting, Labelling, Forming, Resetting, Leaving, Restoring, Main, Setting, calls, vars
<1> QED
  BY <1>2, <1>3, <1>4, <1>5, <1>6, <1>7, <1>8, <1>9, <1>10, <1>11, <1>12, <1>13, <1>14, <1>15, <1>16, <1>17, <1>18, <1>19, <1>20, NextCases

LEMMA KnownStep ==
  ASSUME Sound, ThenInv, FrameInv, KnownInv, FoundInv, [Next]_vars
  PROVE  KnownInv'
<1>1. caller \in {"main", "fault"} /\ frame \in {"main", "handler"} /\ "NULL" \notin DOMAIN Models /\ pr.kind # "NULL"
  BY SoundFacts, Types, ProAssumption DEF Sound, Printers
<1>2. CASE ForceIdle
  BY Hears, <1>1, <1>2, ForceSteps
  DEF ThenInv, FrameInv, KnownInv, FoundInv, Flying, Waiting, Forcing, Switching, Tuned, Hunting, Found, Connecting, Labelling, Forming, Resetting, Leaving, Restoring, Main, Setting, Alike, Heeds, Hushed, Stays
<1>3. CASE WaitIdle \/ CheckIdle
  BY Hears, <1>1, <1>3, IdleSteps
  DEF ThenInv, FrameInv, KnownInv, FoundInv, Flying, Waiting, Forcing, Switching, Tuned, Hunting, Found, Connecting, Labelling, Forming, Resetting, Leaving, Restoring, Main, Setting, Alike, Heeds, Hushed, OnTimeout, Patient, Stays
<1>4. CASE TrySpeed \/ Pinged
  BY Hears, <1>1, <1>4, FindSteps
  DEF ThenInv, FrameInv, KnownInv, FoundInv, Flying, Waiting, Forcing, Switching, Tuned, Hunting, Found, Connecting, Labelling, Forming, Resetting, Leaving, Restoring, Main, Setting, Alike, Alone, Tunes, Heeds, Hushed, Patient, Stays
<1>5. CASE SendPing \/ Verify \/ AskModel
  BY Hears, <1>1, <1>5, FindSteps
  DEF ThenInv, FrameInv, KnownInv, FoundInv, Flying, Waiting, Forcing, Switching, Tuned, Hunting, Found, Connecting, Labelling, Forming, Resetting, Leaving, Restoring, Main, Setting, Stays, Alike, Alone, Hushed
<1>6. CASE NotFound \/ Modelled
  BY Hears, <1>1, <1>6, FindSteps
  DEF ThenInv, FrameInv, KnownInv, FoundInv, Flying, Waiting, Forcing, Switching, Tuned, Hunting, Found, Connecting, Labelling, Forming, Resetting, Leaving, Restoring, Main, Setting, Stays, Alike, Hushed, Patient
<1>7. CASE ChooseSpeed \/ SwitchPrinter \/ SwitchLocal
  BY Hears, <1>1, <1>7, ConnectSteps
  DEF ThenInv, FrameInv, KnownInv, FoundInv, Flying, Waiting, Forcing, Switching, Tuned, Hunting, Found, Connecting, Labelling, Forming, Resetting, Leaving, Restoring, Main, Setting, Alike, Alone, Level, Stays, Tunes
<1>8. CASE StartSettings \/ Set
  BY Hears, <1>1, <1>8, ConnectSteps
  DEF ThenInv, FrameInv, KnownInv, FoundInv, Flying, Waiting, Forcing, Switching, Tuned, Hunting, Found, Connecting, Labelling, Forming, Resetting, Leaving, Restoring, Main, Setting, Alike, Alone, Stays
<1>9. CASE Settle \/ Connected \/ Sized
  BY Hears, <1>1, <1>9, ConnectSteps
  DEF ThenInv, FrameInv, KnownInv, FoundInv, Flying, Waiting, Forcing, Switching, Tuned, Hunting, Found, Connecting, Labelling, Forming, Resetting, Leaving, Restoring, Main, Setting, Alone, Stays, Alike
<1>10. CASE NextLabel
  BY Hears, <1>1, <1>10, PrintSteps
  DEF ThenInv, FrameInv, KnownInv, FoundInv, Flying, Waiting, Forcing, Switching, Tuned, Hunting, Found, Connecting, Labelling, Forming, Resetting, Leaving, Restoring, Main, Setting, Alike, Stays
<1>11. CASE Feed
  BY Hears, <1>1, <1>11, PrintSteps
  DEF ThenInv, FrameInv, KnownInv, FoundInv, Flying, Waiting, Forcing, Switching, Tuned, Hunting, Found, Connecting, Labelling, Forming, Resetting, Leaving, Restoring, Main, Setting, Alike, Heeds, Hushed, Patient, Stays
<1>12. CASE Band
  BY Hears, <1>1, <1>12, PrintSteps
  DEF ThenInv, FrameInv, KnownInv, FoundInv, Flying, Waiting, Forcing, Switching, Tuned, Hunting, Found, Connecting, Labelling, Forming, Resetting, Leaving, Restoring, Main, Setting, Alike, Heeds, Hushed, Stays
<1>13. CASE BandCheck \/ Form
  BY Hears, <1>1, <1>13, PrintSteps
  DEF ThenInv, FrameInv, KnownInv, FoundInv, Flying, Waiting, Forcing, Switching, Tuned, Hunting, Found, Connecting, Labelling, Forming, Resetting, Leaving, Restoring, Main, Setting, Alike, Alone, Heeds, Hushed
<1>14. CASE Fault \/ Reset
  BY Hears, <1>1, <1>14, RecoverSteps
  DEF ThenInv, FrameInv, KnownInv, FoundInv, Flying, Waiting, Forcing, Switching, Tuned, Hunting, Found, Connecting, Labelling, Forming, Resetting, Leaving, Restoring, Main, Setting, Alike, Alone, Hushed, Tunes
<1>15. CASE GiveUp \/ Close \/ Error \/ Signal
  BY Hears, <1>1, <1>15, RecoverSteps
  DEF ThenInv, FrameInv, KnownInv, FoundInv, Flying, Waiting, Forcing, Switching, Tuned, Hunting, Found, Connecting, Labelling, Forming, Resetting, Leaving, Restoring, Main, Setting, Stays
<1>16. CASE Stop \/ Stopped \/ Ask
  BY Hears, <1>1, <1>16, LeaveSteps
  DEF ThenInv, FrameInv, KnownInv, FoundInv, Flying, Waiting, Forcing, Switching, Tuned, Hunting, Found, Connecting, Labelling, Forming, Resetting, Leaving, Restoring, Main, Setting, Alike, Alone, Level, Stays
<1>17. CASE Eject \/ Restore
  BY Hears, <1>1, <1>17, LeaveSteps
  DEF ThenInv, FrameInv, KnownInv, FoundInv, Flying, Waiting, Forcing, Switching, Tuned, Hunting, Found, Connecting, Labelling, Forming, Resetting, Leaving, Restoring, Main, Setting, Alike, Stays, Alone
<1>18. CASE Transmit
  BY Hears, <1>1, <1>18, TransmitStep
  DEF ThenInv, FrameInv, KnownInv, FoundInv, Flying, Waiting, Forcing, Switching, Tuned, Hunting, Found, Connecting, Labelling, Forming, Resetting, Leaving, Restoring, Main, Setting, Stays
<1>19. CASE Rest \/ Jams \/ Cleared
  BY Hears, <1>1, <1>19, MechanismStep
  DEF ThenInv, FrameInv, KnownInv, FoundInv, Flying, Waiting, Forcing, Switching, Tuned, Hunting, Found, Connecting, Labelling, Forming, Resetting, Leaving, Restoring, Main, Setting, Statuses, Stays
<1>20. CASE UNCHANGED vars
  BY Hears, <1>1, <1>20
  DEF ThenInv, FrameInv, KnownInv, FoundInv, Flying, Waiting, Forcing, Switching, Tuned, Hunting, Found, Connecting, Labelling, Forming, Resetting, Leaving, Restoring, Main, Setting, calls, vars
<1> QED
  BY <1>2, <1>3, <1>4, <1>5, <1>6, <1>7, <1>8, <1>9, <1>10, <1>11, <1>12, <1>13, <1>14, <1>15, <1>16, <1>17, <1>18, <1>19, <1>20, NextCases

\* No command, no argument and no datum but the number of slices is taken for a ping, or for
\* the question for the model.
LEMMA BytesDiffer ==
  /\ PING \notin {NOP, STATUS, BAUD, PRINT, MODE, FEED, FF, RESET, MODEL, 1}
  /\ MODEL \notin {NOP, STATUS, BAUD, PRINT, MODE, FEED, FF, RESET, 1}
  /\ RESET \notin {NOP, STATUS, BAUD, PRINT, MODE, FEED, FF, MODEL, 1}
  /\ \A speed : Code(speed) \notin {PING, MODEL, RESET}
BY DEF PING, NOP, STATUS, BAUD, PRINT, MODE, FEED, FF, RESET, MODEL, Code

LEMMA ExpectsFacts ==
  /\ Expects(NOP) = "cmd" /\ Expects(STATUS) = "cmd" /\ Expects(FEED) = "cmd" /\ Expects(RESET) = "cmd"
  /\ Expects(MODEL) = "cmd" /\ Expects(PING) = "cmd"
  /\ Expects(BAUD) = "rate" /\ Expects(MODE) = "arg" /\ Expects(FF) = "arg" /\ Expects(PRINT) = "len"
BY DEF Expects, PING, NOP, STATUS, BAUD, PRINT, MODE, FEED, FF, RESET, MODEL

\* What may fly after a byte.
LEMMA OwedSteps ==
  ASSUME Sound
  PROVE  \A b \in Nat : Receives(b) =>
           /\ pr'.jam => pr.jam
           /\ Came("jam", pr'.owed) => Came("jam", pr.owed) \/ pr.jam
           /\ Came("garbled", pr'.owed) => Came("garbled", pr.owed)
           /\ Came("ping", pr'.owed) => Came("ping", pr.owed) \/ (SameRate /\ pr.mode = "cmd" /\ b = PING)
           /\ Came("model", pr'.owed) => Came("model", pr.owed) \/ (SameRate /\ pr.mode = "cmd" /\ b = MODEL)
<1> SUFFICES ASSUME NEW b \in Nat, Receives(b)
             PROVE  /\ pr'.jam => pr.jam
                    /\ Came("jam", pr'.owed) => Came("jam", pr.owed) \/ pr.jam
                    /\ Came("garbled", pr'.owed) => Came("garbled", pr.owed)
                    /\ Came("ping", pr'.owed) => Came("ping", pr.owed) \/ (SameRate /\ pr.mode = "cmd" /\ b = PING)
                    /\ Came("model", pr'.owed) => Came("model", pr.owed) \/ (SameRate /\ pr.mode = "cmd" /\ b = MODEL)
  OBVIOUS
<1>1. Follows(pr, b, SameRate, pr')
  BY ByteSteps
<1> QED  BY <1>1 DEF Follows, Statuses

\* A jam is heard only after one.
LEMMA JamStep ==
  ASSUME Sound, JamInv, [Next]_vars
  PROVE  JamInv'
<1>1. \A x : ~Came(x, <<>>)
  BY CameEmpty
<1>2. \A b \in Nat : Receives(b) =>
        (pr'.jam => pr.jam) /\ (Came("jam", pr'.owed) => Came("jam", pr.owed) \/ pr.jam)
  BY OwedSteps
<1>3. CASE ForceIdle
  BY SentType, Hears, <1>1, <1>2, <1>3, ForceSteps
  DEF JamInv, Flying, Alike, Heeds, Hushed, Stays
<1>4. CASE WaitIdle \/ CheckIdle
  BY SentType, Hears, <1>1, <1>2, <1>4, IdleSteps
  DEF JamInv, Flying, Alike, Heeds, Hushed, OnTimeout, Patient, Stays
<1>5. CASE TrySpeed \/ Pinged
  BY SentType, Hears, <1>1, <1>2, <1>5, FindSteps
  DEF JamInv, Flying, Alike, Alone, Tunes, Heeds, Hushed, Patient, Stays
<1>6. CASE SendPing \/ Verify \/ AskModel
  BY SentType, Hears, <1>1, <1>2, <1>6, FindSteps
  DEF JamInv, Flying, Stays, Alike, Alone, Hushed
<1>7. CASE NotFound \/ Modelled
  BY SentType, Hears, <1>1, <1>2, <1>7, FindSteps
  DEF JamInv, Flying, Stays, Alike, Hushed, Patient
<1>8. CASE ChooseSpeed \/ SwitchPrinter \/ SwitchLocal
  BY SentType, Hears, <1>1, <1>2, <1>8, ConnectSteps
  DEF JamInv, Flying, Alike, Alone, Level, Stays, Tunes
<1>9. CASE StartSettings \/ Set
  BY SentType, Hears, <1>1, <1>2, <1>9, ConnectSteps
  DEF JamInv, Flying, Alike, Alone, Stays
<1>10. CASE Settle \/ Connected \/ Sized
  BY SentType, Hears, <1>1, <1>2, <1>10, ConnectSteps
  DEF JamInv, Flying, Alone, Stays, Alike
<1>11. CASE NextLabel
  BY SentType, Hears, <1>1, <1>2, <1>11, PrintSteps
  DEF JamInv, Flying, Alike, Stays
<1>12. CASE Feed
  BY SentType, Hears, <1>1, <1>2, <1>12, PrintSteps
  DEF JamInv, Flying, Alike, Heeds, Hushed, Patient, Stays
<1>13. CASE Band
  BY SentType, Hears, <1>1, <1>2, <1>13, PrintSteps
  DEF JamInv, Flying, Alike, Heeds, Hushed, Stays
<1>14. CASE BandCheck \/ Form
  BY SentType, Hears, <1>1, <1>2, <1>14, PrintSteps
  DEF JamInv, Flying, Alike, Alone, Heeds, Hushed
<1>15. CASE Fault \/ Reset
  BY SentType, Hears, <1>1, <1>2, <1>15, RecoverSteps
  DEF JamInv, Flying, Alike, Alone, Hushed, Tunes
<1>16. CASE GiveUp \/ Close \/ Error \/ Signal
  BY SentType, Hears, <1>1, <1>2, <1>16, RecoverSteps
  DEF JamInv, Flying, Stays
<1>17. CASE Stop \/ Stopped \/ Ask
  BY SentType, Hears, <1>1, <1>2, <1>17, LeaveSteps
  DEF JamInv, Flying, Alike, Alone, Level, Stays
<1>18. CASE Eject \/ Restore
  BY SentType, Hears, <1>1, <1>2, <1>18, LeaveSteps
  DEF JamInv, Flying, Alike, Stays, Alone
<1>19. CASE Transmit
  BY SentType, Hears, <1>1, <1>2, <1>19, TransmitStep
  DEF JamInv, Flying, Stays
<1>20. CASE Rest \/ Jams \/ Cleared
  BY SentType, Hears, <1>1, <1>2, <1>20, MechanismStep
  DEF JamInv, Flying, Statuses, Stays
<1>21. CASE UNCHANGED vars
  BY SentType, Hears, <1>1, <1>2, <1>21
  DEF JamInv, Flying, calls, vars
<1> QED
  BY <1>3, <1>4, <1>5, <1>6, <1>7, <1>8, <1>9, <1>10, <1>11, <1>12, <1>13, <1>14, <1>15, <1>16, <1>17, <1>18, <1>19, <1>20, <1>21, NextCases

LEMMA FoundStep ==
  ASSUME Sound, ThenInv, FrameInv, KnownInv, PingInv, StepInv, FoundInv, [Next]_vars
  PROVE  FoundInv'
<1>1. caller \in {"main", "fault"} /\ frame \in {"main", "handler"}
  BY Types DEF Sound
<1>2. \A x : ~Came(x, <<>>)
  BY CameEmpty
<1>3. \A b \in Nat : Receives(b) =>
        /\ Came("model", pr'.owed) => Came("model", pr.owed) \/ (SameRate /\ pr.mode = "cmd" /\ b = MODEL)
        /\ Parsed(b)
  BY OwedSteps, ByteSteps
<1>4. NothingInv /\ "NULL" \notin DOMAIN Models /\ pr.kind # "NULL"
  BY SoundFacts, ProAssumption DEF Sound, Printers
<1>5. CASE ForceIdle
  BY SentType, Hears, BytesDiffer, ExpectsFacts, <1>1, <1>2, <1>3, <1>4, <1>5, ForceSteps
  DEF FoundInv, ThenInv, FrameInv, KnownInv, NothingInv, PingInv, StepInv, SessionMode, LeavingMode, Flying, SameRate, Parsed, Waiting, Forcing, Switching, Tuned, Hunting, Found, Connecting, Labelling, Forming, Resetting, Leaving, Restoring, Main, Setting, Alike, Heeds, Hushed, Stays
<1>6. CASE WaitIdle \/ CheckIdle
  BY SentType, Hears, BytesDiffer, ExpectsFacts, <1>1, <1>2, <1>3, <1>4, <1>6, IdleSteps
  DEF FoundInv, ThenInv, FrameInv, KnownInv, NothingInv, PingInv, StepInv, SessionMode, LeavingMode, Flying, SameRate, Parsed, Waiting, Forcing, Switching, Tuned, Hunting, Found, Connecting, Labelling, Forming, Resetting, Leaving, Restoring, Main, Setting, Alike, Heeds, Hushed, OnTimeout, Patient, Stays
<1>7. CASE TrySpeed \/ Pinged
  BY SentType, Hears, BytesDiffer, ExpectsFacts, <1>1, <1>2, <1>3, <1>4, <1>7, FindSteps
  DEF FoundInv, ThenInv, FrameInv, KnownInv, NothingInv, PingInv, StepInv, SessionMode, LeavingMode, Flying, SameRate, Parsed, Waiting, Forcing, Switching, Tuned, Hunting, Found, Connecting, Labelling, Forming, Resetting, Leaving, Restoring, Main, Setting, Alike, Alone, Tunes, Heeds, Hushed, Patient, Stays
<1>8. CASE SendPing \/ Verify \/ AskModel
  BY SentType, Hears, BytesDiffer, ExpectsFacts, <1>1, <1>2, <1>3, <1>4, <1>8, FindSteps
  DEF FoundInv, ThenInv, FrameInv, KnownInv, NothingInv, PingInv, StepInv, SessionMode, LeavingMode, Flying, SameRate, Parsed, Waiting, Forcing, Switching, Tuned, Hunting, Found, Connecting, Labelling, Forming, Resetting, Leaving, Restoring, Main, Setting, Stays, Alike, Alone, Hushed
<1>9. CASE NotFound \/ Modelled
  BY SentType, Hears, BytesDiffer, ExpectsFacts, <1>1, <1>2, <1>3, <1>4, <1>9, FindSteps
  DEF FoundInv, ThenInv, FrameInv, KnownInv, NothingInv, PingInv, StepInv, SessionMode, LeavingMode, Flying, SameRate, Parsed, Waiting, Forcing, Switching, Tuned, Hunting, Found, Connecting, Labelling, Forming, Resetting, Leaving, Restoring, Main, Setting, Stays, Alike, Hushed, Patient
<1>10. CASE ChooseSpeed
  BY SentType, Hears, BytesDiffer, ExpectsFacts, <1>1, <1>2, <1>3, <1>4, <1>10, ConnectSteps
  DEF FoundInv, ThenInv, FrameInv, KnownInv, NothingInv, PingInv, StepInv, SessionMode, LeavingMode, Flying, SameRate, Parsed, Waiting, Forcing, Switching, Tuned, Hunting, Found, Connecting, Labelling, Forming, Resetting, Leaving, Restoring, Main, Setting, Alike, Alone, Level
<1>11. CASE SwitchPrinter
  BY SentType, Hears, BytesDiffer, ExpectsFacts, <1>1, <1>2, <1>3, <1>4, <1>11, ConnectSteps
  DEF FoundInv, ThenInv, FrameInv, KnownInv, NothingInv, PingInv, StepInv, SessionMode, LeavingMode, Flying, SameRate, Parsed, Waiting, Forcing, Switching, Tuned, Hunting, Found, Connecting, Labelling, Forming, Resetting, Leaving, Restoring, Main, Setting, Alike, Stays
<1>12. CASE SwitchLocal
  BY SentType, Hears, BytesDiffer, ExpectsFacts, <1>1, <1>2, <1>3, <1>4, <1>12, ConnectSteps
  DEF FoundInv, ThenInv, FrameInv, KnownInv, NothingInv, PingInv, StepInv, SessionMode, LeavingMode, Flying, SameRate, Parsed, Waiting, Forcing, Switching, Tuned, Hunting, Found, Connecting, Labelling, Forming, Resetting, Leaving, Restoring, Main, Setting, Stays, Tunes
<1>13. CASE StartSettings
  BY SentType, Hears, BytesDiffer, ExpectsFacts, <1>1, <1>2, <1>3, <1>4, <1>13, ConnectSteps
  DEF FoundInv, ThenInv, FrameInv, KnownInv, NothingInv, PingInv, StepInv, SessionMode, LeavingMode, Flying, SameRate, Parsed, Waiting, Forcing, Switching, Tuned, Hunting, Found, Connecting, Labelling, Forming, Resetting, Leaving, Restoring, Main, Setting, Alike, Alone
<1>14. CASE Set
  BY SentType, Hears, BytesDiffer, ExpectsFacts, <1>1, <1>2, <1>3, <1>4, <1>14, ConnectSteps
  DEF FoundInv, ThenInv, FrameInv, KnownInv, NothingInv, PingInv, StepInv, SessionMode, LeavingMode, Flying, SameRate, Parsed, Waiting, Forcing, Switching, Tuned, Hunting, Found, Connecting, Labelling, Forming, Resetting, Leaving, Restoring, Main, Setting, Alike, Stays
<1>15. CASE Settle \/ Connected \/ Sized
  BY SentType, Hears, BytesDiffer, ExpectsFacts, <1>1, <1>2, <1>3, <1>4, <1>15, ConnectSteps
  DEF FoundInv, ThenInv, FrameInv, KnownInv, NothingInv, PingInv, StepInv, SessionMode, LeavingMode, Flying, SameRate, Parsed, Waiting, Forcing, Switching, Tuned, Hunting, Found, Connecting, Labelling, Forming, Resetting, Leaving, Restoring, Main, Setting, Alone, Stays, Alike
<1>16. CASE NextLabel
  BY SentType, Hears, BytesDiffer, ExpectsFacts, <1>1, <1>2, <1>3, <1>4, <1>16, PrintSteps
  DEF FoundInv, ThenInv, FrameInv, KnownInv, NothingInv, PingInv, StepInv, SessionMode, LeavingMode, Flying, SameRate, Parsed, Waiting, Forcing, Switching, Tuned, Hunting, Found, Connecting, Labelling, Forming, Resetting, Leaving, Restoring, Main, Setting, Alike, Stays
<1>17. CASE Feed
  BY SentType, Hears, BytesDiffer, ExpectsFacts, <1>1, <1>2, <1>3, <1>4, <1>17, PrintSteps
  DEF FoundInv, ThenInv, FrameInv, KnownInv, NothingInv, PingInv, StepInv, SessionMode, LeavingMode, Flying, SameRate, Parsed, Waiting, Forcing, Switching, Tuned, Hunting, Found, Connecting, Labelling, Forming, Resetting, Leaving, Restoring, Main, Setting, Alike, Heeds, Hushed, Patient, Stays
<1>18. CASE Band
  BY SentType, Hears, BytesDiffer, ExpectsFacts, <1>1, <1>2, <1>3, <1>4, <1>18, PrintSteps
  DEF FoundInv, ThenInv, FrameInv, KnownInv, NothingInv, PingInv, StepInv, SessionMode, LeavingMode, Flying, SameRate, Parsed, Waiting, Forcing, Switching, Tuned, Hunting, Found, Connecting, Labelling, Forming, Resetting, Leaving, Restoring, Main, Setting, Alike, Heeds, Hushed, Stays
<1>19. CASE BandCheck \/ Form
  BY SentType, Hears, BytesDiffer, ExpectsFacts, <1>1, <1>2, <1>3, <1>4, <1>19, PrintSteps
  DEF FoundInv, ThenInv, FrameInv, KnownInv, NothingInv, PingInv, StepInv, SessionMode, LeavingMode, Flying, SameRate, Parsed, Waiting, Forcing, Switching, Tuned, Hunting, Found, Connecting, Labelling, Forming, Resetting, Leaving, Restoring, Main, Setting, Alike, Alone, Heeds, Hushed
<1>20. CASE Fault \/ Reset
  BY SentType, Hears, BytesDiffer, ExpectsFacts, <1>1, <1>2, <1>3, <1>4, <1>20, RecoverSteps
  DEF FoundInv, ThenInv, FrameInv, KnownInv, NothingInv, PingInv, StepInv, SessionMode, LeavingMode, Flying, SameRate, Parsed, Waiting, Forcing, Switching, Tuned, Hunting, Found, Connecting, Labelling, Forming, Resetting, Leaving, Restoring, Main, Setting, Alike, Alone, Hushed, Tunes
<1>21. CASE GiveUp \/ Close \/ Error \/ Signal
  BY SentType, Hears, BytesDiffer, ExpectsFacts, <1>1, <1>2, <1>3, <1>4, <1>21, RecoverSteps
  DEF FoundInv, ThenInv, FrameInv, KnownInv, NothingInv, PingInv, StepInv, SessionMode, LeavingMode, Flying, SameRate, Parsed, Waiting, Forcing, Switching, Tuned, Hunting, Found, Connecting, Labelling, Forming, Resetting, Leaving, Restoring, Main, Setting, Stays
<1>22. CASE Stop \/ Stopped \/ Ask
  BY SentType, Hears, BytesDiffer, ExpectsFacts, <1>1, <1>2, <1>3, <1>4, <1>22, LeaveSteps
  DEF FoundInv, ThenInv, FrameInv, KnownInv, NothingInv, PingInv, StepInv, SessionMode, LeavingMode, Flying, SameRate, Parsed, Waiting, Forcing, Switching, Tuned, Hunting, Found, Connecting, Labelling, Forming, Resetting, Leaving, Restoring, Main, Setting, Alike, Alone, Level, Stays
<1>23. CASE Eject \/ Restore
  BY SentType, Hears, BytesDiffer, ExpectsFacts, <1>1, <1>2, <1>3, <1>4, <1>23, LeaveSteps
  DEF FoundInv, ThenInv, FrameInv, KnownInv, NothingInv, PingInv, StepInv, SessionMode, LeavingMode, Flying, SameRate, Parsed, Waiting, Forcing, Switching, Tuned, Hunting, Found, Connecting, Labelling, Forming, Resetting, Leaving, Restoring, Main, Setting, Alike, Stays, Alone
<1>24. CASE Transmit
  BY SentType, Hears, BytesDiffer, ExpectsFacts, <1>1, <1>2, <1>3, <1>4, <1>24, TransmitStep
  DEF FoundInv, ThenInv, FrameInv, KnownInv, NothingInv, PingInv, StepInv, SessionMode, LeavingMode, Flying, SameRate, Parsed, Waiting, Forcing, Switching, Tuned, Hunting, Found, Connecting, Labelling, Forming, Resetting, Leaving, Restoring, Main, Setting, Stays
<1>25. CASE Rest \/ Jams \/ Cleared
  BY SentType, Hears, BytesDiffer, ExpectsFacts, <1>1, <1>2, <1>3, <1>4, <1>25, MechanismStep
  DEF FoundInv, ThenInv, FrameInv, KnownInv, NothingInv, PingInv, StepInv, SessionMode, LeavingMode, Flying, SameRate, Parsed, Waiting, Forcing, Switching, Tuned, Hunting, Found, Connecting, Labelling, Forming, Resetting, Leaving, Restoring, Main, Setting, Statuses, Stays
<1>26. CASE UNCHANGED vars
  BY SentType, Hears, BytesDiffer, ExpectsFacts, <1>1, <1>2, <1>3, <1>4, <1>26
  DEF FoundInv, ThenInv, FrameInv, KnownInv, NothingInv, PingInv, StepInv, SessionMode, LeavingMode, Flying, SameRate, Parsed, Waiting, Forcing, Switching, Tuned, Hunting, Found, Connecting, Labelling, Forming, Resetting, Leaving, Restoring, Main, Setting, calls, vars
<1> QED
  BY <1>5, <1>6, <1>7, <1>8, <1>9, <1>10, <1>11, <1>12, <1>13, <1>14, <1>15, <1>16, <1>17, <1>18, <1>19, <1>20, <1>21, <1>22, <1>23, <1>24, <1>25, <1>26, NextCases

LEMMA StepStep ==
  ASSUME Sound, ThenInv, FrameInv, KnownInv, FoundInv, StepInv, [Next]_vars
  PROVE  StepInv'
<1>1. caller \in {"main", "fault"} /\ frame \in {"main", "handler"}
  BY Types DEF Sound
<1>2. \A b \in Nat : Receives(b) => Parsed(b)
  BY ByteSteps
<1>3. NothingInv /\ "NULL" \notin DOMAIN Models /\ pr.kind # "NULL"
  BY SoundFacts, ProAssumption DEF Sound, Printers
<1>4. Main /\ st.m = "NULL" /\ at \notin {"modelled", "over"} => Sensed.m = "NULL"
  BY Hears DEF FoundInv, Flying
<1>5. Main /\ at = "len" => st.nslices # 0
  BY NumbersType DEF Sound, CountInv, Labelling, Main
<1>6. st.todo \in Nat /\ (at = "data" => st.todo > 0)
  BY SoundFacts DEF States, Sound, CountInv
<1>7. CASE ForceIdle
  BY SentType, Hears, BytesDiffer, ExpectsFacts, <1>1, <1>2, <1>3, <1>4, <1>5, <1>6, <1>7, ForceSteps
  DEF StepInv, FoundInv, ThenInv, FrameInv, KnownInv, NothingInv, SessionMode, SameRate, Parsed, Waiting, Forcing, Switching, Tuned, Hunting, Found, Connecting, Labelling, Forming, Resetting, Leaving, Restoring, Main, Setting, Alike, Heeds, Hushed, Stays
<1>8. CASE WaitIdle
  BY SentType, Hears, BytesDiffer, ExpectsFacts, <1>1, <1>2, <1>3, <1>4, <1>5, <1>6, <1>8, IdleSteps
  DEF StepInv, FoundInv, ThenInv, FrameInv, KnownInv, NothingInv, SessionMode, SameRate, Parsed, Waiting, Forcing, Switching, Tuned, Hunting, Found, Connecting, Labelling, Forming, Resetting, Leaving, Restoring, Main, Setting, Alike, Heeds, Hushed, OnTimeout, Patient, Stays
<1>9. CASE CheckIdle
  BY SentType, Hears, BytesDiffer, ExpectsFacts, <1>1, <1>2, <1>3, <1>4, <1>5, <1>6, <1>9, IdleSteps
  DEF StepInv, FoundInv, ThenInv, FrameInv, KnownInv, NothingInv, SessionMode, SameRate, Parsed, Waiting, Forcing, Switching, Tuned, Hunting, Found, Connecting, Labelling, Forming, Resetting, Leaving, Restoring, Main, Setting, Alike, Heeds, Hushed, OnTimeout, Patient, Stays
<1>10. CASE TrySpeed
  BY SentType, Hears, BytesDiffer, ExpectsFacts, <1>1, <1>2, <1>3, <1>4, <1>5, <1>6, <1>10, FindSteps
  DEF StepInv, FoundInv, ThenInv, FrameInv, KnownInv, NothingInv, SessionMode, SameRate, Parsed, Waiting, Forcing, Switching, Tuned, Hunting, Found, Connecting, Labelling, Forming, Resetting, Leaving, Restoring, Main, Setting, Alike, Alone, Tunes
<1>11. CASE Pinged
  BY SentType, Hears, BytesDiffer, ExpectsFacts, <1>1, <1>2, <1>3, <1>4, <1>5, <1>6, <1>11, FindSteps
  DEF StepInv, FoundInv, ThenInv, FrameInv, KnownInv, NothingInv, SessionMode, SameRate, Parsed, Waiting, Forcing, Switching, Tuned, Hunting, Found, Connecting, Labelling, Forming, Resetting, Leaving, Restoring, Main, Setting, Alike, Heeds, Hushed, Patient, Stays
<1>12. CASE SendPing \/ Verify \/ AskModel
  BY SentType, Hears, BytesDiffer, ExpectsFacts, <1>1, <1>2, <1>3, <1>4, <1>5, <1>6, <1>12, FindSteps
  DEF StepInv, FoundInv, ThenInv, FrameInv, KnownInv, NothingInv, SessionMode, SameRate, Parsed, Waiting, Forcing, Switching, Tuned, Hunting, Found, Connecting, Labelling, Forming, Resetting, Leaving, Restoring, Main, Setting, Stays, Alike, Alone, Hushed
<1>13. CASE NotFound
  BY SentType, Hears, BytesDiffer, ExpectsFacts, <1>1, <1>2, <1>3, <1>4, <1>5, <1>6, <1>13, FindSteps
  DEF StepInv, FoundInv, ThenInv, FrameInv, KnownInv, NothingInv, SessionMode, SameRate, Parsed, Waiting, Forcing, Switching, Tuned, Hunting, Found, Connecting, Labelling, Forming, Resetting, Leaving, Restoring, Main, Setting, Stays
<1>14. CASE Modelled
  BY SentType, Hears, BytesDiffer, ExpectsFacts, <1>1, <1>2, <1>3, <1>4, <1>5, <1>6, <1>14, FindSteps
  DEF StepInv, FoundInv, ThenInv, FrameInv, KnownInv, NothingInv, SessionMode, SameRate, Parsed, Waiting, Forcing, Switching, Tuned, Hunting, Found, Connecting, Labelling, Forming, Resetting, Leaving, Restoring, Main, Setting, Alike, Hushed, Patient, Stays
<1>15. CASE ChooseSpeed
  BY SentType, Hears, BytesDiffer, ExpectsFacts, <1>1, <1>2, <1>3, <1>4, <1>5, <1>6, <1>15, ConnectSteps
  DEF StepInv, FoundInv, ThenInv, FrameInv, KnownInv, NothingInv, SessionMode, SameRate, Parsed, Waiting, Forcing, Switching, Tuned, Hunting, Found, Connecting, Labelling, Forming, Resetting, Leaving, Restoring, Main, Setting, Alike, Alone, Level
<1>16. CASE SwitchPrinter
  <2>1. /\ Stays /\ tty' = tty /\ run' = run /\ luck' = luck
        /\ \/ /\ at = "switch" /\ at' = "switchCode" /\ Receives(BAUD)
              /\ Alike(st, st', {"speed"}) /\ st'.speed = Limited(st.speed)
           \/ at = "switchCode" /\ at' = "switchLocal" /\ Receives(Code(st.speed)) /\ st' = st
    BY <1>16, ConnectSteps
  <2> QED
    BY SentType, BytesDiffer, ExpectsFacts, <1>1, <1>2, <1>3, <2>1
    DEF FoundInv, ThenInv, FrameInv, StepInv, KnownInv, NothingInv, SessionMode, SameRate, Parsed, Waiting, Forcing, Switching, Tuned, Hunting, Found, Connecting, Labelling, Forming, Resetting, Leaving, Restoring, Main, Setting, Stays, Alike
<1>17. CASE SwitchLocal
  BY SentType, Hears, BytesDiffer, ExpectsFacts, <1>1, <1>2, <1>3, <1>4, <1>5, <1>6, <1>17, ConnectSteps
  DEF StepInv, FoundInv, ThenInv, FrameInv, KnownInv, NothingInv, SessionMode, SameRate, Parsed, Waiting, Forcing, Switching, Tuned, Hunting, Found, Connecting, Labelling, Forming, Resetting, Leaving, Restoring, Main, Setting, Stays, Tunes
<1>18. CASE StartSettings
  BY SentType, Hears, BytesDiffer, ExpectsFacts, <1>1, <1>2, <1>3, <1>4, <1>5, <1>6, <1>18, ConnectSteps
  DEF StepInv, FoundInv, ThenInv, FrameInv, KnownInv, NothingInv, SessionMode, SameRate, Parsed, Waiting, Forcing, Switching, Tuned, Hunting, Found, Connecting, Labelling, Forming, Resetting, Leaving, Restoring, Main, Setting, Alike, Alone
<1>19. CASE Set
  <2>1. /\ Stays /\ tty' = tty /\ run' = run /\ luck' = luck
        /\ \/ at = "set" /\ at' = "setArg" /\ Receives(MODE) /\ st' = st
           \/ /\ at = "setArg" /\ Receives(NOP) /\ Alike(st, st', {"todo"}) /\ st'.todo = st.todo - 1
              /\ IF st.todo = 1 THEN at' = then ELSE at' = "set"
    BY <1>19, ConnectSteps
  <2> QED
    BY SentType, BytesDiffer, ExpectsFacts, <1>1, <1>2, <1>3, <1>6, <2>1
    DEF FoundInv, ThenInv, FrameInv, StepInv, KnownInv, NothingInv, SessionMode, SameRate, Parsed, Waiting, Forcing, Switching, Tuned, Hunting, Found, Connecting, Labelling, Forming, Resetting, Leaving, Restoring, Main, Setting, Stays, Alike
<1>20. CASE Settle
  BY SentType, Hears, BytesDiffer, ExpectsFacts, <1>1, <1>2, <1>3, <1>4, <1>5, <1>6, <1>20, ConnectSteps
  DEF StepInv, FoundInv, ThenInv, FrameInv, KnownInv, NothingInv, SessionMode, SameRate, Parsed, Waiting, Forcing, Switching, Tuned, Hunting, Found, Connecting, Labelling, Forming, Resetting, Leaving, Restoring, Main, Setting, Alone
<1>21. CASE Connected
  BY SentType, Hears, BytesDiffer, ExpectsFacts, <1>1, <1>2, <1>3, <1>4, <1>5, <1>6, <1>21, ConnectSteps
  DEF StepInv, FoundInv, ThenInv, FrameInv, KnownInv, NothingInv, SessionMode, SameRate, Parsed, Waiting, Forcing, Switching, Tuned, Hunting, Found, Connecting, Labelling, Forming, Resetting, Leaving, Restoring, Main, Setting, Stays
<1>22. CASE Sized
  BY SentType, Hears, BytesDiffer, ExpectsFacts, <1>1, <1>2, <1>3, <1>4, <1>5, <1>6, <1>22, ConnectSteps
  DEF StepInv, FoundInv, ThenInv, FrameInv, KnownInv, NothingInv, SessionMode, SameRate, Parsed, Waiting, Forcing, Switching, Tuned, Hunting, Found, Connecting, Labelling, Forming, Resetting, Leaving, Restoring, Main, Setting, Alike, Stays
<1>23. CASE NextLabel
  BY SentType, Hears, BytesDiffer, ExpectsFacts, <1>1, <1>2, <1>3, <1>4, <1>5, <1>6, <1>23, PrintSteps
  DEF StepInv, FoundInv, ThenInv, FrameInv, KnownInv, NothingInv, SessionMode, SameRate, Parsed, Waiting, Forcing, Switching, Tuned, Hunting, Found, Connecting, Labelling, Forming, Resetting, Leaving, Restoring, Main, Setting, Alike, Stays
<1>24. CASE Feed
  BY SentType, Hears, BytesDiffer, ExpectsFacts, <1>1, <1>2, <1>3, <1>4, <1>5, <1>6, <1>24, PrintSteps
  DEF StepInv, FoundInv, ThenInv, FrameInv, KnownInv, NothingInv, SessionMode, SameRate, Parsed, Waiting, Forcing, Switching, Tuned, Hunting, Found, Connecting, Labelling, Forming, Resetting, Leaving, Restoring, Main, Setting, Alike, Heeds, Hushed, Patient, Stays
<1>25. CASE Band
  <2> SUFFICES ASSUME Main', st'.m # "NULL"
               PROVE  pr'.mode = SessionMode' /\ (at' = "data" /\ SameRate' => pr'.left = st'.todo)
    BY DEF StepInv
  <2>1. Main /\ at \in {"band", "print", "len", "data"}
    BY <1>25, PrintSteps DEF Main, Stays
  <2>2. st.m # "NULL" /\ pr.kind # "nothing"
    BY <1>3, <2>1 DEF KnownInv, NothingInv, Hunting, Tuned, Forcing, Found, Waiting, Leaving
  <2>3. pr.mode = SessionMode /\ (at = "data" /\ SameRate => pr.left = st.todo)
    BY <2>1, <2>2 DEF StepInv
  <2>4. CASE at = "band"
    BY <1>25, <2>3, <2>4, PrintSteps DEF SessionMode, SameRate
  <2>5. CASE at = "print"
    BY <1>25, <1>2, <2>2, <2>3, <2>5, PrintSteps, SentType, BytesDiffer, ExpectsFacts
    DEF SessionMode, SameRate, Parsed, Heeds, Hushed
  <2>6. CASE at = "len"
    BY <1>25, <1>2, <1>5, <2>1, <2>2, <2>3, <2>6, PrintSteps, SentType DEF SessionMode, SameRate, Parsed, Heeds, Hushed
  <2>7. CASE at = "data"
    BY <1>25, <1>2, <1>6, <2>2, <2>3, <2>7, PrintSteps, SentType, BytesDiffer, ExpectsFacts
    DEF SessionMode, SameRate, Parsed, Heeds, Hushed
  <2> QED  BY <2>1, <2>4, <2>5, <2>6, <2>7
<1>26. CASE BandCheck
  BY SentType, Hears, BytesDiffer, ExpectsFacts, <1>1, <1>2, <1>3, <1>4, <1>5, <1>6, <1>26, PrintSteps
  DEF StepInv, FoundInv, ThenInv, FrameInv, KnownInv, NothingInv, SessionMode, SameRate, Parsed, Waiting, Forcing, Switching, Tuned, Hunting, Found, Connecting, Labelling, Forming, Resetting, Leaving, Restoring, Main, Setting, Alike, Alone, Heeds, Hushed
<1>27. CASE Form
  BY SentType, Hears, BytesDiffer, ExpectsFacts, <1>1, <1>2, <1>3, <1>4, <1>5, <1>6, <1>27, PrintSteps
  DEF StepInv, FoundInv, ThenInv, FrameInv, KnownInv, NothingInv, SessionMode, SameRate, Parsed, Waiting, Forcing, Switching, Tuned, Hunting, Found, Connecting, Labelling, Forming, Resetting, Leaving, Restoring, Main, Setting, Alike, Alone, Heeds, Hushed
<1>28. CASE Fault \/ Reset
  BY SentType, Hears, BytesDiffer, ExpectsFacts, <1>1, <1>2, <1>3, <1>4, <1>5, <1>6, <1>28, RecoverSteps
  DEF StepInv, FoundInv, ThenInv, FrameInv, KnownInv, NothingInv, SessionMode, SameRate, Parsed, Waiting, Forcing, Switching, Tuned, Hunting, Found, Connecting, Labelling, Forming, Resetting, Leaving, Restoring, Main, Setting, Alike, Alone, Hushed, Tunes
<1>29. CASE GiveUp \/ Close \/ Error \/ Signal
  BY SentType, Hears, BytesDiffer, ExpectsFacts, <1>1, <1>2, <1>3, <1>4, <1>5, <1>6, <1>29, RecoverSteps
  DEF StepInv, FoundInv, ThenInv, FrameInv, KnownInv, NothingInv, SessionMode, SameRate, Parsed, Waiting, Forcing, Switching, Tuned, Hunting, Found, Connecting, Labelling, Forming, Resetting, Leaving, Restoring, Main, Setting, Stays
<1>30. CASE Stop
  BY SentType, Hears, BytesDiffer, ExpectsFacts, <1>1, <1>2, <1>3, <1>4, <1>5, <1>6, <1>30, LeaveSteps
  DEF StepInv, FoundInv, ThenInv, FrameInv, KnownInv, NothingInv, SessionMode, SameRate, Parsed, Waiting, Forcing, Switching, Tuned, Hunting, Found, Connecting, Labelling, Forming, Resetting, Leaving, Restoring, Main, Setting, Alike, Alone, Level
<1>31. CASE Stopped
  BY SentType, Hears, BytesDiffer, ExpectsFacts, <1>1, <1>2, <1>3, <1>4, <1>5, <1>6, <1>31, LeaveSteps
  DEF StepInv, FoundInv, ThenInv, FrameInv, KnownInv, NothingInv, SessionMode, SameRate, Parsed, Waiting, Forcing, Switching, Tuned, Hunting, Found, Connecting, Labelling, Forming, Resetting, Leaving, Restoring, Main, Setting, Stays
<1>32. CASE Ask
  BY SentType, Hears, BytesDiffer, ExpectsFacts, <1>1, <1>2, <1>3, <1>4, <1>5, <1>6, <1>32, LeaveSteps
  DEF StepInv, FoundInv, ThenInv, FrameInv, KnownInv, NothingInv, SessionMode, SameRate, Parsed, Waiting, Forcing, Switching, Tuned, Hunting, Found, Connecting, Labelling, Forming, Resetting, Leaving, Restoring, Main, Setting, Alike, Alone
<1>33. CASE Eject
  BY SentType, Hears, BytesDiffer, ExpectsFacts, <1>1, <1>2, <1>3, <1>4, <1>5, <1>6, <1>33, LeaveSteps
  DEF StepInv, FoundInv, ThenInv, FrameInv, KnownInv, NothingInv, SessionMode, SameRate, Parsed, Waiting, Forcing, Switching, Tuned, Hunting, Found, Connecting, Labelling, Forming, Resetting, Leaving, Restoring, Main, Setting, Alike, Stays
<1>34. CASE Restore
  BY SentType, Hears, BytesDiffer, ExpectsFacts, <1>1, <1>2, <1>3, <1>4, <1>5, <1>6, <1>34, LeaveSteps
  DEF StepInv, FoundInv, ThenInv, FrameInv, KnownInv, NothingInv, SessionMode, SameRate, Parsed, Waiting, Forcing, Switching, Tuned, Hunting, Found, Connecting, Labelling, Forming, Resetting, Leaving, Restoring, Main, Setting, Alike, Alone
<1>35. CASE Transmit
  BY SentType, Hears, BytesDiffer, ExpectsFacts, <1>1, <1>2, <1>3, <1>4, <1>5, <1>6, <1>35, TransmitStep
  DEF StepInv, FoundInv, ThenInv, FrameInv, KnownInv, NothingInv, SessionMode, SameRate, Parsed, Waiting, Forcing, Switching, Tuned, Hunting, Found, Connecting, Labelling, Forming, Resetting, Leaving, Restoring, Main, Setting, Stays
<1>36. CASE Rest \/ Jams \/ Cleared
  BY SentType, Hears, BytesDiffer, ExpectsFacts, <1>1, <1>2, <1>3, <1>4, <1>5, <1>6, <1>36, MechanismStep
  DEF StepInv, FoundInv, ThenInv, FrameInv, KnownInv, NothingInv, SessionMode, SameRate, Parsed, Waiting, Forcing, Switching, Tuned, Hunting, Found, Connecting, Labelling, Forming, Resetting, Leaving, Restoring, Main, Setting, Statuses, Stays
<1>37. CASE UNCHANGED vars
  BY SentType, Hears, BytesDiffer, ExpectsFacts, <1>1, <1>2, <1>3, <1>4, <1>5, <1>6, <1>37
  DEF StepInv, FoundInv, ThenInv, FrameInv, KnownInv, NothingInv, SessionMode, SameRate, Parsed, Waiting, Forcing, Switching, Tuned, Hunting, Found, Connecting, Labelling, Forming, Resetting, Leaving, Restoring, Main, Setting, calls, vars
<1> QED
  BY <1>7, <1>8, <1>9, <1>10, <1>11, <1>12, <1>13, <1>14, <1>15, <1>16, <1>17, <1>18, <1>19, <1>20, <1>21, <1>22, <1>23, <1>24, <1>25, <1>26, <1>27, <1>28, <1>29, <1>30, <1>31, <1>32, <1>33, <1>34, <1>35, <1>36, <1>37, NextCases

LEMMA RateStep ==
  ASSUME Sound, ThenInv, FrameInv, KnownInv, FoundInv, StepInv, RateInv, [Next]_vars
  PROVE  RateInv'
<1>1. caller \in {"main", "fault"} /\ frame \in {"main", "handler"}
  BY Types DEF Sound
<1>2. \A b \in Nat : Receives(b) => Parsed(b)
  BY ByteSteps
<1>3. NothingInv /\ "NULL" \notin DOMAIN Models /\ pr.kind # "NULL"
  BY SoundFacts, ProAssumption DEF Sound, Printers
<1>4. Main /\ st.m = "NULL" /\ at \notin {"modelled", "over"} => Sensed.m = "NULL"
  BY Hears DEF FoundInv, Flying
<1>5. /\ st.speed \in Rates /\ KnownLimit => Limited(st.speed) \in Rates
      /\ st.speed \in Rates /\ st.speed \in HostRates /\ KnownLimit => Limited(st.speed) \in HostRates
  BY ProAssumption DEF Limited, KnownLimit, Rates
<1>6. st.speed \in Rates => RateOf(pr, Code(st.speed)) = st.speed
  BY CodeType
<1>7. {57600, 38400} \subseteq Rates /\ 38400 \in HostRates /\ \A m \in DOMAIN Models : Models[m].default \in Rates
  BY ModelType, ProAssumption DEF Rates
<1>8. CASE ForceIdle
  BY SentType, Hears, BytesDiffer, ExpectsFacts, <1>1, <1>2, <1>3, <1>4, <1>5, <1>6, <1>7, <1>8, ForceSteps
  DEF RateInv, KnownLimit, StepInv, FoundInv, ThenInv, FrameInv, KnownInv, NothingInv, SessionMode, SameRate, Parsed, Waiting, Forcing, Switching, Tuned, Hunting, Found, Connecting, Labelling, Forming, Resetting, Leaving, Restoring, Main, Setting, Alike, Heeds, Hushed, Stays
<1>9. CASE WaitIdle
  BY SentType, Hears, BytesDiffer, ExpectsFacts, <1>1, <1>2, <1>3, <1>4, <1>5, <1>6, <1>7, <1>9, IdleSteps
  DEF RateInv, KnownLimit, StepInv, FoundInv, ThenInv, FrameInv, KnownInv, NothingInv, SessionMode, SameRate, Parsed, Waiting, Forcing, Switching, Tuned, Hunting, Found, Connecting, Labelling, Forming, Resetting, Leaving, Restoring, Main, Setting, Alike, Heeds, Hushed, OnTimeout, Patient, Stays
<1>10. CASE CheckIdle
  BY SentType, Hears, BytesDiffer, ExpectsFacts, <1>1, <1>2, <1>3, <1>4, <1>5, <1>6, <1>7, <1>10, IdleSteps
  DEF RateInv, KnownLimit, StepInv, FoundInv, ThenInv, FrameInv, KnownInv, NothingInv, SessionMode, SameRate, Parsed, Waiting, Forcing, Switching, Tuned, Hunting, Found, Connecting, Labelling, Forming, Resetting, Leaving, Restoring, Main, Setting, Alike, Heeds, Hushed, OnTimeout, Patient, Stays
<1>11. CASE TrySpeed
  BY SentType, Hears, BytesDiffer, ExpectsFacts, <1>1, <1>2, <1>3, <1>4, <1>5, <1>6, <1>7, <1>11, FindSteps
  DEF RateInv, KnownLimit, StepInv, FoundInv, ThenInv, FrameInv, KnownInv, NothingInv, SessionMode, SameRate, Parsed, Waiting, Forcing, Switching, Tuned, Hunting, Found, Connecting, Labelling, Forming, Resetting, Leaving, Restoring, Main, Setting, Alike, Alone, Tunes
<1>12. CASE Pinged
  BY SentType, Hears, BytesDiffer, ExpectsFacts, <1>1, <1>2, <1>3, <1>4, <1>5, <1>6, <1>7, <1>12, FindSteps
  DEF RateInv, KnownLimit, StepInv, FoundInv, ThenInv, FrameInv, KnownInv, NothingInv, SessionMode, SameRate, Parsed, Waiting, Forcing, Switching, Tuned, Hunting, Found, Connecting, Labelling, Forming, Resetting, Leaving, Restoring, Main, Setting, Alike, Heeds, Hushed, Patient, Stays
<1>13. CASE SendPing \/ Verify \/ AskModel
  BY SentType, Hears, BytesDiffer, ExpectsFacts, <1>1, <1>2, <1>3, <1>4, <1>5, <1>6, <1>7, <1>13, FindSteps
  DEF RateInv, KnownLimit, StepInv, FoundInv, ThenInv, FrameInv, KnownInv, NothingInv, SessionMode, SameRate, Parsed, Waiting, Forcing, Switching, Tuned, Hunting, Found, Connecting, Labelling, Forming, Resetting, Leaving, Restoring, Main, Setting, Stays, Alike, Alone, Hushed
<1>14. CASE NotFound
  BY SentType, Hears, BytesDiffer, ExpectsFacts, <1>1, <1>2, <1>3, <1>4, <1>5, <1>6, <1>7, <1>14, FindSteps
  DEF RateInv, KnownLimit, StepInv, FoundInv, ThenInv, FrameInv, KnownInv, NothingInv, SessionMode, SameRate, Parsed, Waiting, Forcing, Switching, Tuned, Hunting, Found, Connecting, Labelling, Forming, Resetting, Leaving, Restoring, Main, Setting, Stays
<1>15. CASE Modelled
  BY SentType, Hears, BytesDiffer, ExpectsFacts, <1>1, <1>2, <1>3, <1>4, <1>5, <1>6, <1>7, <1>15, FindSteps
  DEF RateInv, KnownLimit, StepInv, FoundInv, ThenInv, FrameInv, KnownInv, NothingInv, SessionMode, SameRate, Parsed, Waiting, Forcing, Switching, Tuned, Hunting, Found, Connecting, Labelling, Forming, Resetting, Leaving, Restoring, Main, Setting, Alike, Hushed, Patient, Stays
<1>16. CASE ChooseSpeed
  BY SentType, Hears, BytesDiffer, ExpectsFacts, <1>1, <1>2, <1>3, <1>4, <1>5, <1>6, <1>7, <1>16, ConnectSteps
  DEF RateInv, KnownLimit, StepInv, FoundInv, ThenInv, FrameInv, KnownInv, NothingInv, SessionMode, SameRate, Parsed, Waiting, Forcing, Switching, Tuned, Hunting, Found, Connecting, Labelling, Forming, Resetting, Leaving, Restoring, Main, Setting, Alike, Alone, Level
<1>17. CASE SwitchPrinter
  BY SentType, Hears, BytesDiffer, ExpectsFacts, <1>1, <1>2, <1>3, <1>4, <1>5, <1>6, <1>7, <1>17, ConnectSteps
  DEF RateInv, KnownLimit, StepInv, FoundInv, ThenInv, FrameInv, KnownInv, NothingInv, SessionMode, SameRate, Parsed, Waiting, Forcing, Switching, Tuned, Hunting, Found, Connecting, Labelling, Forming, Resetting, Leaving, Restoring, Main, Setting, Alike, Stays
<1>18. CASE SwitchLocal
  BY SentType, Hears, BytesDiffer, ExpectsFacts, <1>1, <1>2, <1>3, <1>4, <1>5, <1>6, <1>7, <1>18, ConnectSteps
  DEF RateInv, KnownLimit, StepInv, FoundInv, ThenInv, FrameInv, KnownInv, NothingInv, SessionMode, SameRate, Parsed, Waiting, Forcing, Switching, Tuned, Hunting, Found, Connecting, Labelling, Forming, Resetting, Leaving, Restoring, Main, Setting, Stays, Tunes
<1>19. CASE StartSettings
  BY SentType, Hears, BytesDiffer, ExpectsFacts, <1>1, <1>2, <1>3, <1>4, <1>5, <1>6, <1>7, <1>19, ConnectSteps
  DEF RateInv, KnownLimit, StepInv, FoundInv, ThenInv, FrameInv, KnownInv, NothingInv, SessionMode, SameRate, Parsed, Waiting, Forcing, Switching, Tuned, Hunting, Found, Connecting, Labelling, Forming, Resetting, Leaving, Restoring, Main, Setting, Alike, Alone
<1>20. CASE Set
  BY SentType, Hears, BytesDiffer, ExpectsFacts, <1>1, <1>2, <1>3, <1>4, <1>5, <1>6, <1>7, <1>20, ConnectSteps
  DEF RateInv, KnownLimit, StepInv, FoundInv, ThenInv, FrameInv, KnownInv, NothingInv, SessionMode, SameRate, Parsed, Waiting, Forcing, Switching, Tuned, Hunting, Found, Connecting, Labelling, Forming, Resetting, Leaving, Restoring, Main, Setting, Alike, Stays
<1>21. CASE Settle
  BY SentType, Hears, BytesDiffer, ExpectsFacts, <1>1, <1>2, <1>3, <1>4, <1>5, <1>6, <1>7, <1>21, ConnectSteps
  DEF RateInv, KnownLimit, StepInv, FoundInv, ThenInv, FrameInv, KnownInv, NothingInv, SessionMode, SameRate, Parsed, Waiting, Forcing, Switching, Tuned, Hunting, Found, Connecting, Labelling, Forming, Resetting, Leaving, Restoring, Main, Setting, Alone
<1>22. CASE Connected
  BY SentType, Hears, BytesDiffer, ExpectsFacts, <1>1, <1>2, <1>3, <1>4, <1>5, <1>6, <1>7, <1>22, ConnectSteps
  DEF RateInv, KnownLimit, StepInv, FoundInv, ThenInv, FrameInv, KnownInv, NothingInv, SessionMode, SameRate, Parsed, Waiting, Forcing, Switching, Tuned, Hunting, Found, Connecting, Labelling, Forming, Resetting, Leaving, Restoring, Main, Setting, Stays
<1>23. CASE Sized
  BY SentType, Hears, BytesDiffer, ExpectsFacts, <1>1, <1>2, <1>3, <1>4, <1>5, <1>6, <1>7, <1>23, ConnectSteps
  DEF RateInv, KnownLimit, StepInv, FoundInv, ThenInv, FrameInv, KnownInv, NothingInv, SessionMode, SameRate, Parsed, Waiting, Forcing, Switching, Tuned, Hunting, Found, Connecting, Labelling, Forming, Resetting, Leaving, Restoring, Main, Setting, Alike, Stays
<1>24. CASE NextLabel
  BY SentType, Hears, BytesDiffer, ExpectsFacts, <1>1, <1>2, <1>3, <1>4, <1>5, <1>6, <1>7, <1>24, PrintSteps
  DEF RateInv, KnownLimit, StepInv, FoundInv, ThenInv, FrameInv, KnownInv, NothingInv, SessionMode, SameRate, Parsed, Waiting, Forcing, Switching, Tuned, Hunting, Found, Connecting, Labelling, Forming, Resetting, Leaving, Restoring, Main, Setting, Alike, Stays
<1>25. CASE Feed
  <2> SUFFICES ASSUME Main', st'.m # "NULL", KnownLimit'
               PROVE  SameRate' /\ at' \in {"fed1", "fedCheck", "fault", "band", "feed"}
    BY DEF RateInv, Switching, Waiting
  <2>1. /\ Main /\ KnownLimit /\ at \in {"feed", "fed1", "fedCheck"}
        /\ at' \in {"fed1", "fedCheck", "fault", "band", "feed"}
    BY <1>25, PrintSteps DEF Main, Stays, KnownLimit, Heeds, Alike
  <2>2. st.m # "NULL" /\ pr.kind # "nothing"
    BY <1>3, <2>1 DEF KnownInv, NothingInv, Hunting, Tuned, Forcing, Found, Waiting, Leaving
  <2>3. SameRate /\ pr.mode = "cmd"
    BY <2>1, <2>2 DEF RateInv, StepInv, SessionMode, Waiting
  <2>4. SameRate'
    BY <1>25, <1>2, <2>2, <2>3, PrintSteps, SentType, BytesDiffer DEF SameRate, Parsed, Heeds, Hushed
  <2> QED  BY <2>1, <2>4
<1>26. CASE Band
  <2>1. /\ Stays /\ run' \in Runs /\ run'.opened = run.opened /\ run'.outcome = run.outcome /\ luck' = luck
        /\ \/ /\ at = "band" /\ at' = "print" /\ tty' = tty /\ pr' = pr
              /\ Alike(st, st', {"ps"}) /\ st'.ps = st.ps \ {"idle"}
           \/ at = "print" /\ at' = "len" /\ Receives(PRINT) /\ Heeds({})
           \/ at = "len" /\ at' = "data" /\ Receives(st.nslices) /\ Heeds({"todo"}) /\ st'.todo = st.nslices
           \/ /\ at = "data" /\ Receives(NOP) /\ Heeds({"todo"}) /\ st'.todo = st.todo - 1
              /\ at' = IF st.todo = 1 THEN "bandCheck" ELSE "data"
    BY <1>26, PrintSteps
  <2> QED
    BY SentType, Hears, BytesDiffer, <1>1, <1>2, <1>3, <1>4, <2>1
    DEF FoundInv, ThenInv, FrameInv, RateInv, KnownLimit, StepInv, KnownInv, NothingInv, SessionMode, SameRate, Parsed, Waiting, Forcing, Switching, Tuned, Hunting, Found, Connecting, Labelling, Forming, Resetting, Leaving, Restoring, Main, Setting, Stays, Alike, Heeds, Hushed
<1>27. CASE BandCheck
  BY SentType, Hears, BytesDiffer, ExpectsFacts, <1>1, <1>2, <1>3, <1>4, <1>5, <1>6, <1>7, <1>27, PrintSteps
  DEF RateInv, KnownLimit, StepInv, FoundInv, ThenInv, FrameInv, KnownInv, NothingInv, SessionMode, SameRate, Parsed, Waiting, Forcing, Switching, Tuned, Hunting, Found, Connecting, Labelling, Forming, Resetting, Leaving, Restoring, Main, Setting, Alike, Alone, Heeds, Hushed
<1>28. CASE Form
  BY SentType, Hears, BytesDiffer, ExpectsFacts, <1>1, <1>2, <1>3, <1>4, <1>5, <1>6, <1>7, <1>28, PrintSteps
  DEF RateInv, KnownLimit, StepInv, FoundInv, ThenInv, FrameInv, KnownInv, NothingInv, SessionMode, SameRate, Parsed, Waiting, Forcing, Switching, Tuned, Hunting, Found, Connecting, Labelling, Forming, Resetting, Leaving, Restoring, Main, Setting, Alike, Alone, Heeds, Hushed
<1>29. CASE Fault \/ Reset
  BY SentType, Hears, BytesDiffer, ExpectsFacts, <1>1, <1>2, <1>3, <1>4, <1>5, <1>6, <1>7, <1>29, RecoverSteps
  DEF RateInv, KnownLimit, StepInv, FoundInv, ThenInv, FrameInv, KnownInv, NothingInv, SessionMode, SameRate, Parsed, Waiting, Forcing, Switching, Tuned, Hunting, Found, Connecting, Labelling, Forming, Resetting, Leaving, Restoring, Main, Setting, Alike, Alone, Hushed, Tunes
<1>30. CASE GiveUp \/ Close \/ Error \/ Signal
  BY SentType, Hears, BytesDiffer, ExpectsFacts, <1>1, <1>2, <1>3, <1>4, <1>5, <1>6, <1>7, <1>30, RecoverSteps
  DEF RateInv, KnownLimit, StepInv, FoundInv, ThenInv, FrameInv, KnownInv, NothingInv, SessionMode, SameRate, Parsed, Waiting, Forcing, Switching, Tuned, Hunting, Found, Connecting, Labelling, Forming, Resetting, Leaving, Restoring, Main, Setting, Stays
<1>31. CASE Stop
  BY SentType, Hears, BytesDiffer, ExpectsFacts, <1>1, <1>2, <1>3, <1>4, <1>5, <1>6, <1>7, <1>31, LeaveSteps
  DEF RateInv, KnownLimit, StepInv, FoundInv, ThenInv, FrameInv, KnownInv, NothingInv, SessionMode, SameRate, Parsed, Waiting, Forcing, Switching, Tuned, Hunting, Found, Connecting, Labelling, Forming, Resetting, Leaving, Restoring, Main, Setting, Alike, Alone, Level
<1>32. CASE Stopped
  BY SentType, Hears, BytesDiffer, ExpectsFacts, <1>1, <1>2, <1>3, <1>4, <1>5, <1>6, <1>7, <1>32, LeaveSteps
  DEF RateInv, KnownLimit, StepInv, FoundInv, ThenInv, FrameInv, KnownInv, NothingInv, SessionMode, SameRate, Parsed, Waiting, Forcing, Switching, Tuned, Hunting, Found, Connecting, Labelling, Forming, Resetting, Leaving, Restoring, Main, Setting, Stays
<1>33. CASE Ask
  BY SentType, Hears, BytesDiffer, ExpectsFacts, <1>1, <1>2, <1>3, <1>4, <1>5, <1>6, <1>7, <1>33, LeaveSteps
  DEF RateInv, KnownLimit, StepInv, FoundInv, ThenInv, FrameInv, KnownInv, NothingInv, SessionMode, SameRate, Parsed, Waiting, Forcing, Switching, Tuned, Hunting, Found, Connecting, Labelling, Forming, Resetting, Leaving, Restoring, Main, Setting, Alike, Alone
<1>34. CASE Eject
  BY SentType, Hears, BytesDiffer, ExpectsFacts, <1>1, <1>2, <1>3, <1>4, <1>5, <1>6, <1>7, <1>34, LeaveSteps
  DEF RateInv, KnownLimit, StepInv, FoundInv, ThenInv, FrameInv, KnownInv, NothingInv, SessionMode, SameRate, Parsed, Waiting, Forcing, Switching, Tuned, Hunting, Found, Connecting, Labelling, Forming, Resetting, Leaving, Restoring, Main, Setting, Alike, Stays
<1>35. CASE Restore
  BY SentType, Hears, BytesDiffer, ExpectsFacts, <1>1, <1>2, <1>3, <1>4, <1>5, <1>6, <1>7, <1>35, LeaveSteps
  DEF RateInv, KnownLimit, StepInv, FoundInv, ThenInv, FrameInv, KnownInv, NothingInv, SessionMode, SameRate, Parsed, Waiting, Forcing, Switching, Tuned, Hunting, Found, Connecting, Labelling, Forming, Resetting, Leaving, Restoring, Main, Setting, Alike, Alone
<1>36. CASE Transmit
  BY SentType, Hears, BytesDiffer, ExpectsFacts, <1>1, <1>2, <1>3, <1>4, <1>5, <1>6, <1>7, <1>36, TransmitStep
  DEF RateInv, KnownLimit, StepInv, FoundInv, ThenInv, FrameInv, KnownInv, NothingInv, SessionMode, SameRate, Parsed, Waiting, Forcing, Switching, Tuned, Hunting, Found, Connecting, Labelling, Forming, Resetting, Leaving, Restoring, Main, Setting, Stays
<1>37. CASE Rest \/ Jams \/ Cleared
  BY SentType, Hears, BytesDiffer, ExpectsFacts, <1>1, <1>2, <1>3, <1>4, <1>5, <1>6, <1>7, <1>37, MechanismStep
  DEF RateInv, KnownLimit, StepInv, FoundInv, ThenInv, FrameInv, KnownInv, NothingInv, SessionMode, SameRate, Parsed, Waiting, Forcing, Switching, Tuned, Hunting, Found, Connecting, Labelling, Forming, Resetting, Leaving, Restoring, Main, Setting, Statuses, Stays
<1>38. CASE UNCHANGED vars
  BY SentType, Hears, BytesDiffer, ExpectsFacts, <1>1, <1>2, <1>3, <1>4, <1>5, <1>6, <1>7, <1>38
  DEF RateInv, KnownLimit, StepInv, FoundInv, ThenInv, FrameInv, KnownInv, NothingInv, SessionMode, SameRate, Parsed, Waiting, Forcing, Switching, Tuned, Hunting, Found, Connecting, Labelling, Forming, Resetting, Leaving, Restoring, Main, Setting, calls, vars
<1> QED
  BY <1>8, <1>9, <1>10, <1>11, <1>12, <1>13, <1>14, <1>15, <1>16, <1>17, <1>18, <1>19, <1>20, <1>21, <1>22, <1>23, <1>24, <1>25, <1>26, <1>27, <1>28, <1>29, <1>30, <1>31, <1>32, <1>33, <1>34, <1>35, <1>36, <1>37, <1>38, NextCases

LEMMA ClearStep ==
  ASSUME Sound, ThenInv, FrameInv, KnownInv, FoundInv, RateInv, ClearInv, [Next]_vars
  PROVE  ClearInv'
<1>1. caller \in {"main", "fault"} /\ frame \in {"main", "handler"}
  BY Types DEF Sound
<1>2. \A x : ~Came(x, <<>>)
  BY CameEmpty
<1>3. \A b \in Nat : Receives(b) => (Came("garbled", pr'.owed) => Came("garbled", pr.owed))
  BY OwedSteps
<1>4. NothingInv /\ "NULL" \notin DOMAIN Models /\ pr.kind # "NULL"
  BY SoundFacts, ProAssumption DEF Sound, Printers
<1>5. Main /\ st.m = "NULL" /\ at \notin {"modelled", "over"} => Sensed.m = "NULL"
  BY Hears DEF FoundInv, Flying
<1>6. CASE ForceIdle
  BY SentType, Hears, <1>1, <1>2, <1>3, <1>4, <1>5, <1>6, ForceSteps
  DEF ClearInv, Clear, RateInv, KnownLimit, FoundInv, ThenInv, FrameInv, KnownInv, SameRate, Waiting, Forcing, Switching, Tuned, Hunting, Found, Connecting, Labelling, Forming, Resetting, Leaving, Restoring, Main, Setting, Alike, Heeds, Hushed, Stays
<1>7. CASE WaitIdle
  BY SentType, Hears, <1>1, <1>2, <1>3, <1>4, <1>5, <1>7, IdleSteps
  DEF ClearInv, Clear, RateInv, KnownLimit, FoundInv, ThenInv, FrameInv, KnownInv, SameRate, Waiting, Forcing, Switching, Tuned, Hunting, Found, Connecting, Labelling, Forming, Resetting, Leaving, Restoring, Main, Setting, Alike, Heeds, Hushed, OnTimeout, Patient, Stays
<1>8. CASE CheckIdle
  BY SentType, Hears, <1>1, <1>2, <1>3, <1>4, <1>5, <1>8, IdleSteps
  DEF ClearInv, Clear, RateInv, KnownLimit, FoundInv, ThenInv, FrameInv, KnownInv, SameRate, Waiting, Forcing, Switching, Tuned, Hunting, Found, Connecting, Labelling, Forming, Resetting, Leaving, Restoring, Main, Setting, Alike, Heeds, Hushed, OnTimeout, Patient, Stays
<1>9. CASE TrySpeed
  BY SentType, Hears, <1>1, <1>2, <1>3, <1>4, <1>5, <1>9, FindSteps
  DEF ClearInv, Clear, RateInv, KnownLimit, FoundInv, ThenInv, FrameInv, KnownInv, SameRate, Waiting, Forcing, Switching, Tuned, Hunting, Found, Connecting, Labelling, Forming, Resetting, Leaving, Restoring, Main, Setting, Alike, Alone, Tunes
<1>10. CASE Pinged
  BY SentType, Hears, <1>1, <1>2, <1>3, <1>4, <1>5, <1>10, FindSteps
  DEF ClearInv, Clear, RateInv, KnownLimit, FoundInv, ThenInv, FrameInv, KnownInv, SameRate, Waiting, Forcing, Switching, Tuned, Hunting, Found, Connecting, Labelling, Forming, Resetting, Leaving, Restoring, Main, Setting, Alike, Heeds, Hushed, Patient, Stays
<1>11. CASE SendPing \/ Verify \/ AskModel
  BY SentType, Hears, <1>1, <1>2, <1>3, <1>4, <1>5, <1>11, FindSteps
  DEF ClearInv, Clear, RateInv, KnownLimit, FoundInv, ThenInv, FrameInv, KnownInv, SameRate, Waiting, Forcing, Switching, Tuned, Hunting, Found, Connecting, Labelling, Forming, Resetting, Leaving, Restoring, Main, Setting, Stays, Alike, Alone, Hushed
<1>12. CASE NotFound
  BY SentType, Hears, <1>1, <1>2, <1>3, <1>4, <1>5, <1>12, FindSteps
  DEF ClearInv, Clear, RateInv, KnownLimit, FoundInv, ThenInv, FrameInv, KnownInv, SameRate, Waiting, Forcing, Switching, Tuned, Hunting, Found, Connecting, Labelling, Forming, Resetting, Leaving, Restoring, Main, Setting, Stays
<1>13. CASE Modelled
  BY SentType, Hears, <1>1, <1>2, <1>3, <1>4, <1>5, <1>13, FindSteps
  DEF ClearInv, Clear, RateInv, KnownLimit, FoundInv, ThenInv, FrameInv, KnownInv, SameRate, Waiting, Forcing, Switching, Tuned, Hunting, Found, Connecting, Labelling, Forming, Resetting, Leaving, Restoring, Main, Setting, Alike, Hushed, Patient, Stays
<1>14. CASE ChooseSpeed
  BY SentType, Hears, <1>1, <1>2, <1>3, <1>4, <1>5, <1>14, ConnectSteps
  DEF ClearInv, Clear, RateInv, KnownLimit, FoundInv, ThenInv, FrameInv, KnownInv, SameRate, Waiting, Forcing, Switching, Tuned, Hunting, Found, Connecting, Labelling, Forming, Resetting, Leaving, Restoring, Main, Setting, Alike, Alone, Level
<1>15. CASE SwitchPrinter
  BY SentType, Hears, <1>1, <1>2, <1>3, <1>4, <1>5, <1>15, ConnectSteps
  DEF ClearInv, Clear, RateInv, KnownLimit, FoundInv, ThenInv, FrameInv, KnownInv, SameRate, Waiting, Forcing, Switching, Tuned, Hunting, Found, Connecting, Labelling, Forming, Resetting, Leaving, Restoring, Main, Setting, Alike, Stays
<1>16. CASE SwitchLocal
  BY SentType, Hears, <1>1, <1>2, <1>3, <1>4, <1>5, <1>16, ConnectSteps
  DEF ClearInv, Clear, RateInv, KnownLimit, FoundInv, ThenInv, FrameInv, KnownInv, SameRate, Waiting, Forcing, Switching, Tuned, Hunting, Found, Connecting, Labelling, Forming, Resetting, Leaving, Restoring, Main, Setting, Stays, Tunes
<1>17. CASE StartSettings
  BY SentType, Hears, <1>1, <1>2, <1>3, <1>4, <1>5, <1>17, ConnectSteps
  DEF ClearInv, Clear, RateInv, KnownLimit, FoundInv, ThenInv, FrameInv, KnownInv, SameRate, Waiting, Forcing, Switching, Tuned, Hunting, Found, Connecting, Labelling, Forming, Resetting, Leaving, Restoring, Main, Setting, Alike, Alone
<1>18. CASE Set
  BY SentType, Hears, <1>1, <1>2, <1>3, <1>4, <1>5, <1>18, ConnectSteps
  DEF ClearInv, Clear, RateInv, KnownLimit, FoundInv, ThenInv, FrameInv, KnownInv, SameRate, Waiting, Forcing, Switching, Tuned, Hunting, Found, Connecting, Labelling, Forming, Resetting, Leaving, Restoring, Main, Setting, Alike, Stays
<1>19. CASE Settle
  BY SentType, Hears, <1>1, <1>2, <1>3, <1>4, <1>5, <1>19, ConnectSteps
  DEF ClearInv, Clear, RateInv, KnownLimit, FoundInv, ThenInv, FrameInv, KnownInv, SameRate, Waiting, Forcing, Switching, Tuned, Hunting, Found, Connecting, Labelling, Forming, Resetting, Leaving, Restoring, Main, Setting, Alone
<1>20. CASE Connected
  BY SentType, Hears, <1>1, <1>2, <1>3, <1>4, <1>5, <1>20, ConnectSteps
  DEF ClearInv, Clear, RateInv, KnownLimit, FoundInv, ThenInv, FrameInv, KnownInv, SameRate, Waiting, Forcing, Switching, Tuned, Hunting, Found, Connecting, Labelling, Forming, Resetting, Leaving, Restoring, Main, Setting, Stays
<1>21. CASE Sized
  BY SentType, Hears, <1>1, <1>2, <1>3, <1>4, <1>5, <1>21, ConnectSteps
  DEF ClearInv, Clear, RateInv, KnownLimit, FoundInv, ThenInv, FrameInv, KnownInv, SameRate, Waiting, Forcing, Switching, Tuned, Hunting, Found, Connecting, Labelling, Forming, Resetting, Leaving, Restoring, Main, Setting, Alike, Stays
<1>22. CASE NextLabel
  BY SentType, Hears, <1>1, <1>2, <1>3, <1>4, <1>5, <1>22, PrintSteps
  DEF ClearInv, Clear, RateInv, KnownLimit, FoundInv, ThenInv, FrameInv, KnownInv, SameRate, Waiting, Forcing, Switching, Tuned, Hunting, Found, Connecting, Labelling, Forming, Resetting, Leaving, Restoring, Main, Setting, Alike, Stays
<1>23. CASE Feed
  BY SentType, Hears, <1>1, <1>2, <1>3, <1>4, <1>5, <1>23, PrintSteps
  DEF ClearInv, Clear, RateInv, KnownLimit, FoundInv, ThenInv, FrameInv, KnownInv, SameRate, Waiting, Forcing, Switching, Tuned, Hunting, Found, Connecting, Labelling, Forming, Resetting, Leaving, Restoring, Main, Setting, Alike, Heeds, Hushed, Patient, Stays
<1>24. CASE Band
  BY SentType, Hears, <1>1, <1>2, <1>3, <1>4, <1>5, <1>24, PrintSteps
  DEF ClearInv, Clear, RateInv, KnownLimit, FoundInv, ThenInv, FrameInv, KnownInv, SameRate, Waiting, Forcing, Switching, Tuned, Hunting, Found, Connecting, Labelling, Forming, Resetting, Leaving, Restoring, Main, Setting, Alike, Heeds, Hushed, Stays
<1>25. CASE BandCheck
  BY SentType, Hears, <1>1, <1>2, <1>3, <1>4, <1>5, <1>25, PrintSteps
  DEF ClearInv, Clear, RateInv, KnownLimit, FoundInv, ThenInv, FrameInv, KnownInv, SameRate, Waiting, Forcing, Switching, Tuned, Hunting, Found, Connecting, Labelling, Forming, Resetting, Leaving, Restoring, Main, Setting, Alike, Alone, Heeds, Hushed
<1>26. CASE Form
  BY SentType, Hears, <1>1, <1>2, <1>3, <1>4, <1>5, <1>26, PrintSteps
  DEF ClearInv, Clear, RateInv, KnownLimit, FoundInv, ThenInv, FrameInv, KnownInv, SameRate, Waiting, Forcing, Switching, Tuned, Hunting, Found, Connecting, Labelling, Forming, Resetting, Leaving, Restoring, Main, Setting, Alike, Alone, Heeds, Hushed
<1>27. CASE Fault \/ Reset
  BY SentType, Hears, <1>1, <1>2, <1>3, <1>4, <1>5, <1>27, RecoverSteps
  DEF ClearInv, Clear, RateInv, KnownLimit, FoundInv, ThenInv, FrameInv, KnownInv, SameRate, Waiting, Forcing, Switching, Tuned, Hunting, Found, Connecting, Labelling, Forming, Resetting, Leaving, Restoring, Main, Setting, Alike, Alone, Hushed, Tunes
<1>28. CASE GiveUp \/ Close \/ Error \/ Signal
  BY SentType, Hears, <1>1, <1>2, <1>3, <1>4, <1>5, <1>28, RecoverSteps
  DEF ClearInv, Clear, RateInv, KnownLimit, FoundInv, ThenInv, FrameInv, KnownInv, SameRate, Waiting, Forcing, Switching, Tuned, Hunting, Found, Connecting, Labelling, Forming, Resetting, Leaving, Restoring, Main, Setting, Stays
<1>29. CASE Stop
  BY SentType, Hears, <1>1, <1>2, <1>3, <1>4, <1>5, <1>29, LeaveSteps
  DEF ClearInv, Clear, RateInv, KnownLimit, FoundInv, ThenInv, FrameInv, KnownInv, SameRate, Waiting, Forcing, Switching, Tuned, Hunting, Found, Connecting, Labelling, Forming, Resetting, Leaving, Restoring, Main, Setting, Alike, Alone, Level
<1>30. CASE Stopped
  BY SentType, Hears, <1>1, <1>2, <1>3, <1>4, <1>5, <1>30, LeaveSteps
  DEF ClearInv, Clear, RateInv, KnownLimit, FoundInv, ThenInv, FrameInv, KnownInv, SameRate, Waiting, Forcing, Switching, Tuned, Hunting, Found, Connecting, Labelling, Forming, Resetting, Leaving, Restoring, Main, Setting, Stays
<1>31. CASE Ask
  BY SentType, Hears, <1>1, <1>2, <1>3, <1>4, <1>5, <1>31, LeaveSteps
  DEF ClearInv, Clear, RateInv, KnownLimit, FoundInv, ThenInv, FrameInv, KnownInv, SameRate, Waiting, Forcing, Switching, Tuned, Hunting, Found, Connecting, Labelling, Forming, Resetting, Leaving, Restoring, Main, Setting, Alike, Alone
<1>32. CASE Eject
  BY SentType, Hears, <1>1, <1>2, <1>3, <1>4, <1>5, <1>32, LeaveSteps
  DEF ClearInv, Clear, RateInv, KnownLimit, FoundInv, ThenInv, FrameInv, KnownInv, SameRate, Waiting, Forcing, Switching, Tuned, Hunting, Found, Connecting, Labelling, Forming, Resetting, Leaving, Restoring, Main, Setting, Alike, Stays
<1>33. CASE Restore
  BY SentType, Hears, <1>1, <1>2, <1>3, <1>4, <1>5, <1>33, LeaveSteps
  DEF ClearInv, Clear, RateInv, KnownLimit, FoundInv, ThenInv, FrameInv, KnownInv, SameRate, Waiting, Forcing, Switching, Tuned, Hunting, Found, Connecting, Labelling, Forming, Resetting, Leaving, Restoring, Main, Setting, Alike, Alone
<1>34. CASE Transmit
  BY SentType, Hears, <1>1, <1>2, <1>3, <1>4, <1>5, <1>34, TransmitStep
  DEF ClearInv, Clear, RateInv, KnownLimit, FoundInv, ThenInv, FrameInv, KnownInv, SameRate, Waiting, Forcing, Switching, Tuned, Hunting, Found, Connecting, Labelling, Forming, Resetting, Leaving, Restoring, Main, Setting, Stays
<1>35. CASE Rest \/ Jams \/ Cleared
  BY SentType, Hears, <1>1, <1>2, <1>3, <1>4, <1>5, <1>35, MechanismStep
  DEF ClearInv, Clear, RateInv, KnownLimit, FoundInv, ThenInv, FrameInv, KnownInv, SameRate, Waiting, Forcing, Switching, Tuned, Hunting, Found, Connecting, Labelling, Forming, Resetting, Leaving, Restoring, Main, Setting, Statuses, Stays
<1>36. CASE UNCHANGED vars
  BY SentType, Hears, <1>1, <1>2, <1>3, <1>4, <1>5, <1>36
  DEF ClearInv, Clear, RateInv, KnownLimit, FoundInv, ThenInv, FrameInv, KnownInv, SameRate, Waiting, Forcing, Switching, Tuned, Hunting, Found, Connecting, Labelling, Forming, Resetting, Leaving, Restoring, Main, Setting, calls, vars
<1> QED
  BY <1>6, <1>7, <1>8, <1>9, <1>10, <1>11, <1>12, <1>13, <1>14, <1>15, <1>16, <1>17, <1>18, <1>19, <1>20, <1>21, <1>22, <1>23, <1>24, <1>25, <1>26, <1>27, <1>28, <1>29, <1>30, <1>31, <1>32, <1>33, <1>34, <1>35, <1>36, NextCases

LEMMA ResetStep ==
  ASSUME Sound, ThenInv, FrameInv, FoundInv, PingInv, ResetInv, [Next]_vars
  PROVE  ResetInv'
<1>1. caller \in {"main", "fault"} /\ frame \in {"main", "handler"}
  BY Types DEF Sound
<1>2. \A b \in Nat : Receives(b) => Parsed(b) /\ pr'.kind = pr.kind
  BY ByteSteps DEF Follows
<1>3. NothingInv /\ "NULL" \notin DOMAIN Models /\ pr.kind # "NULL"
  BY SoundFacts, ProAssumption DEF Sound, Printers
<1>4. caller = "fault" /\ (Resetting \/ Forming) => Sensed.m = st.m
  BY Hears DEF PingInv, Flying
<1>5. CASE ForceIdle
  BY SentType, Hears, BytesDiffer, ExpectsFacts, <1>1, <1>2, <1>3, <1>4, <1>5, ForceSteps
  DEF ResetInv, PingInv, Flying, FoundInv, ThenInv, FrameInv, NothingInv, SameRate, Parsed, Waiting, Forcing, Switching, Tuned, Hunting, Found, Connecting, Labelling, Forming, Resetting, Leaving, Restoring, Main, Setting, Alike, Heeds, Hushed, Stays
<1>6. CASE WaitIdle
  BY SentType, Hears, BytesDiffer, ExpectsFacts, <1>1, <1>2, <1>3, <1>4, <1>6, IdleSteps
  DEF ResetInv, PingInv, Flying, FoundInv, ThenInv, FrameInv, NothingInv, SameRate, Parsed, Waiting, Forcing, Switching, Tuned, Hunting, Found, Connecting, Labelling, Forming, Resetting, Leaving, Restoring, Main, Setting, Alike, Heeds, Hushed, OnTimeout, Patient, Stays
<1>7. CASE CheckIdle
  BY SentType, Hears, BytesDiffer, ExpectsFacts, <1>1, <1>2, <1>3, <1>4, <1>7, IdleSteps
  DEF ResetInv, PingInv, Flying, FoundInv, ThenInv, FrameInv, NothingInv, SameRate, Parsed, Waiting, Forcing, Switching, Tuned, Hunting, Found, Connecting, Labelling, Forming, Resetting, Leaving, Restoring, Main, Setting, Alike, Heeds, Hushed, OnTimeout, Patient, Stays
<1>8. CASE TrySpeed
  BY SentType, Hears, BytesDiffer, ExpectsFacts, <1>1, <1>2, <1>3, <1>4, <1>8, FindSteps
  DEF ResetInv, PingInv, Flying, FoundInv, ThenInv, FrameInv, NothingInv, SameRate, Parsed, Waiting, Forcing, Switching, Tuned, Hunting, Found, Connecting, Labelling, Forming, Resetting, Leaving, Restoring, Main, Setting, Alike, Alone, Tunes
<1>9. CASE Pinged
  BY SentType, Hears, BytesDiffer, ExpectsFacts, <1>1, <1>2, <1>3, <1>4, <1>9, FindSteps
  DEF ResetInv, PingInv, Flying, FoundInv, ThenInv, FrameInv, NothingInv, SameRate, Parsed, Waiting, Forcing, Switching, Tuned, Hunting, Found, Connecting, Labelling, Forming, Resetting, Leaving, Restoring, Main, Setting, Alike, Heeds, Hushed, Patient, Stays
<1>10. CASE SendPing \/ Verify \/ AskModel
  BY SentType, Hears, BytesDiffer, ExpectsFacts, <1>1, <1>2, <1>3, <1>4, <1>10, FindSteps
  DEF ResetInv, PingInv, Flying, FoundInv, ThenInv, FrameInv, NothingInv, SameRate, Parsed, Waiting, Forcing, Switching, Tuned, Hunting, Found, Connecting, Labelling, Forming, Resetting, Leaving, Restoring, Main, Setting, Stays, Alike, Alone, Hushed
<1>11. CASE NotFound
  BY SentType, Hears, BytesDiffer, ExpectsFacts, <1>1, <1>2, <1>3, <1>4, <1>11, FindSteps
  DEF ResetInv, PingInv, Flying, FoundInv, ThenInv, FrameInv, NothingInv, SameRate, Parsed, Waiting, Forcing, Switching, Tuned, Hunting, Found, Connecting, Labelling, Forming, Resetting, Leaving, Restoring, Main, Setting, Stays
<1>12. CASE Modelled
  BY SentType, Hears, BytesDiffer, ExpectsFacts, <1>1, <1>2, <1>3, <1>4, <1>12, FindSteps
  DEF ResetInv, PingInv, Flying, FoundInv, ThenInv, FrameInv, NothingInv, SameRate, Parsed, Waiting, Forcing, Switching, Tuned, Hunting, Found, Connecting, Labelling, Forming, Resetting, Leaving, Restoring, Main, Setting, Alike, Hushed, Patient, Stays
<1>13. CASE ChooseSpeed
  BY SentType, Hears, BytesDiffer, ExpectsFacts, <1>1, <1>2, <1>3, <1>4, <1>13, ConnectSteps
  DEF ResetInv, PingInv, Flying, FoundInv, ThenInv, FrameInv, NothingInv, SameRate, Parsed, Waiting, Forcing, Switching, Tuned, Hunting, Found, Connecting, Labelling, Forming, Resetting, Leaving, Restoring, Main, Setting, Alike, Alone, Level
<1>14. CASE SwitchPrinter
  BY SentType, Hears, BytesDiffer, ExpectsFacts, <1>1, <1>2, <1>3, <1>4, <1>14, ConnectSteps
  DEF ResetInv, PingInv, Flying, FoundInv, ThenInv, FrameInv, NothingInv, SameRate, Parsed, Waiting, Forcing, Switching, Tuned, Hunting, Found, Connecting, Labelling, Forming, Resetting, Leaving, Restoring, Main, Setting, Alike, Stays
<1>15. CASE SwitchLocal
  BY SentType, Hears, BytesDiffer, ExpectsFacts, <1>1, <1>2, <1>3, <1>4, <1>15, ConnectSteps
  DEF ResetInv, PingInv, Flying, FoundInv, ThenInv, FrameInv, NothingInv, SameRate, Parsed, Waiting, Forcing, Switching, Tuned, Hunting, Found, Connecting, Labelling, Forming, Resetting, Leaving, Restoring, Main, Setting, Stays, Tunes
<1>16. CASE StartSettings
  BY SentType, Hears, BytesDiffer, ExpectsFacts, <1>1, <1>2, <1>3, <1>4, <1>16, ConnectSteps
  DEF ResetInv, PingInv, Flying, FoundInv, ThenInv, FrameInv, NothingInv, SameRate, Parsed, Waiting, Forcing, Switching, Tuned, Hunting, Found, Connecting, Labelling, Forming, Resetting, Leaving, Restoring, Main, Setting, Alike, Alone
<1>17. CASE Set
  BY SentType, Hears, BytesDiffer, ExpectsFacts, <1>1, <1>2, <1>3, <1>4, <1>17, ConnectSteps
  DEF ResetInv, PingInv, Flying, FoundInv, ThenInv, FrameInv, NothingInv, SameRate, Parsed, Waiting, Forcing, Switching, Tuned, Hunting, Found, Connecting, Labelling, Forming, Resetting, Leaving, Restoring, Main, Setting, Alike, Stays
<1>18. CASE Settle
  BY SentType, Hears, BytesDiffer, ExpectsFacts, <1>1, <1>2, <1>3, <1>4, <1>18, ConnectSteps
  DEF ResetInv, PingInv, Flying, FoundInv, ThenInv, FrameInv, NothingInv, SameRate, Parsed, Waiting, Forcing, Switching, Tuned, Hunting, Found, Connecting, Labelling, Forming, Resetting, Leaving, Restoring, Main, Setting, Alone
<1>19. CASE Connected
  BY SentType, Hears, BytesDiffer, ExpectsFacts, <1>1, <1>2, <1>3, <1>4, <1>19, ConnectSteps
  DEF ResetInv, PingInv, Flying, FoundInv, ThenInv, FrameInv, NothingInv, SameRate, Parsed, Waiting, Forcing, Switching, Tuned, Hunting, Found, Connecting, Labelling, Forming, Resetting, Leaving, Restoring, Main, Setting, Stays
<1>20. CASE Sized
  BY SentType, Hears, BytesDiffer, ExpectsFacts, <1>1, <1>2, <1>3, <1>4, <1>20, ConnectSteps
  DEF ResetInv, PingInv, Flying, FoundInv, ThenInv, FrameInv, NothingInv, SameRate, Parsed, Waiting, Forcing, Switching, Tuned, Hunting, Found, Connecting, Labelling, Forming, Resetting, Leaving, Restoring, Main, Setting, Alike, Stays
<1>21. CASE NextLabel
  BY SentType, Hears, BytesDiffer, ExpectsFacts, <1>1, <1>2, <1>3, <1>4, <1>21, PrintSteps
  DEF ResetInv, PingInv, Flying, FoundInv, ThenInv, FrameInv, NothingInv, SameRate, Parsed, Waiting, Forcing, Switching, Tuned, Hunting, Found, Connecting, Labelling, Forming, Resetting, Leaving, Restoring, Main, Setting, Alike, Stays
<1>22. CASE Feed
  BY SentType, Hears, BytesDiffer, ExpectsFacts, <1>1, <1>2, <1>3, <1>4, <1>22, PrintSteps
  DEF ResetInv, PingInv, Flying, FoundInv, ThenInv, FrameInv, NothingInv, SameRate, Parsed, Waiting, Forcing, Switching, Tuned, Hunting, Found, Connecting, Labelling, Forming, Resetting, Leaving, Restoring, Main, Setting, Alike, Heeds, Hushed, Patient, Stays
<1>23. CASE Band
  BY SentType, Hears, BytesDiffer, ExpectsFacts, <1>1, <1>2, <1>3, <1>4, <1>23, PrintSteps
  DEF ResetInv, PingInv, Flying, FoundInv, ThenInv, FrameInv, NothingInv, SameRate, Parsed, Waiting, Forcing, Switching, Tuned, Hunting, Found, Connecting, Labelling, Forming, Resetting, Leaving, Restoring, Main, Setting, Alike, Heeds, Hushed, Stays
<1>24. CASE BandCheck
  BY SentType, Hears, BytesDiffer, ExpectsFacts, <1>1, <1>2, <1>3, <1>4, <1>24, PrintSteps
  DEF ResetInv, PingInv, Flying, FoundInv, ThenInv, FrameInv, NothingInv, SameRate, Parsed, Waiting, Forcing, Switching, Tuned, Hunting, Found, Connecting, Labelling, Forming, Resetting, Leaving, Restoring, Main, Setting, Alike, Alone, Heeds, Hushed
<1>25. CASE Form
  BY SentType, Hears, BytesDiffer, ExpectsFacts, <1>1, <1>2, <1>3, <1>4, <1>25, PrintSteps
  DEF ResetInv, PingInv, Flying, FoundInv, ThenInv, FrameInv, NothingInv, SameRate, Parsed, Waiting, Forcing, Switching, Tuned, Hunting, Found, Connecting, Labelling, Forming, Resetting, Leaving, Restoring, Main, Setting, Alike, Alone, Heeds, Hushed
<1>26. CASE Fault \/ Reset
  BY SentType, Hears, BytesDiffer, ExpectsFacts, <1>1, <1>2, <1>3, <1>4, <1>26, RecoverSteps
  DEF ResetInv, PingInv, Flying, FoundInv, ThenInv, FrameInv, NothingInv, SameRate, Parsed, Waiting, Forcing, Switching, Tuned, Hunting, Found, Connecting, Labelling, Forming, Resetting, Leaving, Restoring, Main, Setting, Alike, Alone, Hushed, Tunes
<1>27. CASE GiveUp \/ Close \/ Error \/ Signal
  BY SentType, Hears, BytesDiffer, ExpectsFacts, <1>1, <1>2, <1>3, <1>4, <1>27, RecoverSteps
  DEF ResetInv, PingInv, Flying, FoundInv, ThenInv, FrameInv, NothingInv, SameRate, Parsed, Waiting, Forcing, Switching, Tuned, Hunting, Found, Connecting, Labelling, Forming, Resetting, Leaving, Restoring, Main, Setting, Stays
<1>28. CASE Stop
  BY SentType, Hears, BytesDiffer, ExpectsFacts, <1>1, <1>2, <1>3, <1>4, <1>28, LeaveSteps
  DEF ResetInv, PingInv, Flying, FoundInv, ThenInv, FrameInv, NothingInv, SameRate, Parsed, Waiting, Forcing, Switching, Tuned, Hunting, Found, Connecting, Labelling, Forming, Resetting, Leaving, Restoring, Main, Setting, Alike, Alone, Level
<1>29. CASE Stopped
  BY SentType, Hears, BytesDiffer, ExpectsFacts, <1>1, <1>2, <1>3, <1>4, <1>29, LeaveSteps
  DEF ResetInv, PingInv, Flying, FoundInv, ThenInv, FrameInv, NothingInv, SameRate, Parsed, Waiting, Forcing, Switching, Tuned, Hunting, Found, Connecting, Labelling, Forming, Resetting, Leaving, Restoring, Main, Setting, Stays
<1>30. CASE Ask
  BY SentType, Hears, BytesDiffer, ExpectsFacts, <1>1, <1>2, <1>3, <1>4, <1>30, LeaveSteps
  DEF ResetInv, PingInv, Flying, FoundInv, ThenInv, FrameInv, NothingInv, SameRate, Parsed, Waiting, Forcing, Switching, Tuned, Hunting, Found, Connecting, Labelling, Forming, Resetting, Leaving, Restoring, Main, Setting, Alike, Alone
<1>31. CASE Eject
  BY SentType, Hears, BytesDiffer, ExpectsFacts, <1>1, <1>2, <1>3, <1>4, <1>31, LeaveSteps
  DEF ResetInv, PingInv, Flying, FoundInv, ThenInv, FrameInv, NothingInv, SameRate, Parsed, Waiting, Forcing, Switching, Tuned, Hunting, Found, Connecting, Labelling, Forming, Resetting, Leaving, Restoring, Main, Setting, Alike, Stays
<1>32. CASE Restore
  BY SentType, Hears, BytesDiffer, ExpectsFacts, <1>1, <1>2, <1>3, <1>4, <1>32, LeaveSteps
  DEF ResetInv, PingInv, Flying, FoundInv, ThenInv, FrameInv, NothingInv, SameRate, Parsed, Waiting, Forcing, Switching, Tuned, Hunting, Found, Connecting, Labelling, Forming, Resetting, Leaving, Restoring, Main, Setting, Alike, Alone
<1>33. CASE Transmit
  BY SentType, Hears, BytesDiffer, ExpectsFacts, <1>1, <1>2, <1>3, <1>4, <1>33, TransmitStep
  DEF ResetInv, PingInv, Flying, FoundInv, ThenInv, FrameInv, NothingInv, SameRate, Parsed, Waiting, Forcing, Switching, Tuned, Hunting, Found, Connecting, Labelling, Forming, Resetting, Leaving, Restoring, Main, Setting, Stays
<1>34. CASE Rest \/ Jams \/ Cleared
  BY SentType, Hears, BytesDiffer, ExpectsFacts, <1>1, <1>2, <1>3, <1>4, <1>34, MechanismStep
  DEF ResetInv, PingInv, Flying, FoundInv, ThenInv, FrameInv, NothingInv, SameRate, Parsed, Waiting, Forcing, Switching, Tuned, Hunting, Found, Connecting, Labelling, Forming, Resetting, Leaving, Restoring, Main, Setting, Statuses, Stays
<1>35. CASE UNCHANGED vars
  BY SentType, Hears, BytesDiffer, ExpectsFacts, <1>1, <1>2, <1>3, <1>4, <1>35
  DEF ResetInv, PingInv, Flying, FoundInv, ThenInv, FrameInv, NothingInv, SameRate, Parsed, Waiting, Forcing, Switching, Tuned, Hunting, Found, Connecting, Labelling, Forming, Resetting, Leaving, Restoring, Main, Setting, calls, vars
<1> QED
  BY <1>5, <1>6, <1>7, <1>8, <1>9, <1>10, <1>11, <1>12, <1>13, <1>14, <1>15, <1>16, <1>17, <1>18, <1>19, <1>20, <1>21, <1>22, <1>23, <1>24, <1>25, <1>26, <1>27, <1>28, <1>29, <1>30, <1>31, <1>32, <1>33, <1>34, <1>35, NextCases

LEMMA OnceFacts ==
  ASSUME NEW s \in Seq(Messages), NEW x \in Messages, NEW b
  PROVE  /\ Once(b, s) /\ x # b => Once(b, Append(s, x))
         /\ ~Came(b, s) => Once(b, s) /\ Once(b, Append(s, x))
         /\ s # <<>> /\ Once(b, s) => Once(b, Tail(s)) /\ (Head(s) = b => ~Came(b, Tail(s)))
<1>1. /\ Len(s) \in Nat /\ DOMAIN s = 1..Len(s) /\ DOMAIN Append(s, x) = 1..Len(s) + 1
      /\ \A i \in 1..Len(s) : Append(s, x)[i] = s[i]
      /\ Append(s, x)[Len(s) + 1] = x
  OBVIOUS
<1>2. Once(b, s) /\ x # b => Once(b, Append(s, x))
  BY <1>1 DEF Once
<1>3. ~Came(b, s) => Once(b, s) /\ Once(b, Append(s, x))
  BY <1>1 DEF Once, Came
<1>4. ASSUME s # <<>>, Once(b, s) PROVE Once(b, Tail(s)) /\ (Head(s) = b => ~Came(b, Tail(s)))
  <2>1. /\ DOMAIN Tail(s) = 1..Len(s) - 1 /\ Len(s) > 0 /\ Head(s) = s[1]
        /\ \A i \in 1..Len(s) - 1 : Tail(s)[i] = s[i + 1]
    BY <1>1, <1>4
  <2>2. \A i \in 1..Len(s) - 1 : i + 1 \in 1..Len(s) /\ i + 1 # 1
    BY <1>1
  <2>3. 1 \in 1..Len(s)
    BY <1>1, <2>1
  <2>4. Once(b, Tail(s))
    BY <1>1, <1>4, <2>1, <2>2 DEF Once
  <2>5. Head(s) = b => ~Came(b, Tail(s))
    BY <1>1, <1>4, <2>1, <2>2, <2>3 DEF Once, Came
  <2> QED  BY <2>4, <2>5
<1> QED  BY <1>2, <1>3, <1>4


LEMMA PingStep ==
  ASSUME Sound, ThenInv, FrameInv, KnownInv, PingInv, OncePinged, FoundInv, StepInv, [Next]_vars
  PROVE  PingInv'
<1>1. caller \in {"main", "fault"} /\ frame \in {"main", "handler"}
  BY Types DEF Sound
<1>2. \A x : ~Came(x, <<>>)
  BY CameEmpty
<1>3. \A b \in Nat : Receives(b) =>
        /\ Came("ping", pr'.owed) => Came("ping", pr.owed) \/ (SameRate /\ pr.mode = "cmd" /\ b = PING)
        /\ Came("model", pr'.owed) => Came("model", pr.owed) \/ (SameRate /\ pr.mode = "cmd" /\ b = MODEL)
        /\ Parsed(b)
  BY ByteSteps, OwedSteps
<1>4. NothingInv /\ "NULL" \notin DOMAIN Models /\ pr.kind # "NULL"
  BY SoundFacts, ProAssumption DEF Sound, Printers
<1>5. Main /\ st.m = "NULL" /\ at \notin {"modelled", "over"} => Sensed.m = "NULL"
  BY Hears DEF FoundInv, Flying
<1>6. Main /\ Hunting => ~(Came("ping", pr.owed) /\ Came("ping", tty.rx))
  BY DEF OncePinged
<1>7. Main /\ st.m # "NULL" /\ at # "over" => pr.mode = SessionMode
  BY DEF StepInv
<1>8. Found \/ at = "reset" => SameRate /\ pr.mode = "cmd"
  BY DEF FoundInv
<1>9. CASE ForceIdle
  BY SentType, BytesDiffer, ExpectsFacts, <1>1, <1>2, <1>3, <1>4, <1>5, <1>6, <1>7, <1>8, <1>9, ForceSteps
  DEF PingInv, ThenInv, FrameInv, KnownInv, NothingInv, SessionMode, LeavingMode, Flying, SameRate, Parsed, Waiting, Forcing, Switching, Tuned, Hunting, Found, Connecting, Labelling, Forming, Resetting, Leaving, Restoring, Main, Setting, Alike, Heeds, Hushed, Stays
<1>10. CASE WaitIdle
  BY SentType, BytesDiffer, ExpectsFacts, <1>1, <1>2, <1>3, <1>4, <1>5, <1>6, <1>7, <1>8, <1>10, IdleSteps
  DEF PingInv, ThenInv, FrameInv, KnownInv, NothingInv, SessionMode, LeavingMode, Flying, SameRate, Parsed, Waiting, Forcing, Switching, Tuned, Hunting, Found, Connecting, Labelling, Forming, Resetting, Leaving, Restoring, Main, Setting, Alike, Heeds, Hushed, OnTimeout, Patient, Stays
<1>11. CASE CheckIdle
  BY SentType, BytesDiffer, ExpectsFacts, <1>1, <1>2, <1>3, <1>4, <1>5, <1>6, <1>7, <1>8, <1>11, IdleSteps
  DEF PingInv, ThenInv, FrameInv, KnownInv, NothingInv, SessionMode, LeavingMode, Flying, SameRate, Parsed, Waiting, Forcing, Switching, Tuned, Hunting, Found, Connecting, Labelling, Forming, Resetting, Leaving, Restoring, Main, Setting, Alike, Heeds, Hushed, OnTimeout, Patient, Stays
<1>12. CASE TrySpeed
  BY SentType, BytesDiffer, ExpectsFacts, <1>1, <1>2, <1>3, <1>4, <1>5, <1>6, <1>7, <1>8, <1>12, FindSteps
  DEF PingInv, ThenInv, FrameInv, KnownInv, NothingInv, SessionMode, LeavingMode, Flying, SameRate, Parsed, Waiting, Forcing, Switching, Tuned, Hunting, Found, Connecting, Labelling, Forming, Resetting, Leaving, Restoring, Main, Setting, Alike, Alone, Tunes
<1>13. CASE Pinged
  BY SentType, BytesDiffer, ExpectsFacts, <1>1, <1>2, <1>3, <1>4, <1>5, <1>6, <1>7, <1>8, <1>13, FindSteps
  DEF PingInv, ThenInv, FrameInv, KnownInv, NothingInv, SessionMode, LeavingMode, Flying, SameRate, Parsed, Waiting, Forcing, Switching, Tuned, Hunting, Found, Connecting, Labelling, Forming, Resetting, Leaving, Restoring, Main, Setting, Alike, Heeds, Hushed, Patient, Stays
<1>14. CASE SendPing
  BY SentType, BytesDiffer, ExpectsFacts, <1>1, <1>2, <1>3, <1>4, <1>5, <1>6, <1>7, <1>8, <1>14, FindSteps
  DEF PingInv, ThenInv, FrameInv, KnownInv, NothingInv, SessionMode, LeavingMode, Flying, SameRate, Parsed, Waiting, Forcing, Switching, Tuned, Hunting, Found, Connecting, Labelling, Forming, Resetting, Leaving, Restoring, Main, Setting, Stays
<1>15. CASE Verify
  BY SentType, BytesDiffer, ExpectsFacts, <1>1, <1>2, <1>3, <1>4, <1>5, <1>6, <1>7, <1>8, <1>15, FindSteps
  DEF PingInv, ThenInv, FrameInv, KnownInv, NothingInv, SessionMode, LeavingMode, Flying, SameRate, Parsed, Waiting, Forcing, Switching, Tuned, Hunting, Found, Connecting, Labelling, Forming, Resetting, Leaving, Restoring, Main, Setting, Alike, Alone, Hushed
<1>16. CASE AskModel
  BY SentType, BytesDiffer, ExpectsFacts, <1>1, <1>2, <1>3, <1>4, <1>5, <1>6, <1>7, <1>8, <1>16, FindSteps
  DEF PingInv, ThenInv, FrameInv, KnownInv, NothingInv, SessionMode, LeavingMode, Flying, SameRate, Parsed, Waiting, Forcing, Switching, Tuned, Hunting, Found, Connecting, Labelling, Forming, Resetting, Leaving, Restoring, Main, Setting, Alike, Stays
<1>17. CASE NotFound
  BY SentType, BytesDiffer, ExpectsFacts, <1>1, <1>2, <1>3, <1>4, <1>5, <1>6, <1>7, <1>8, <1>17, FindSteps
  DEF PingInv, ThenInv, FrameInv, KnownInv, NothingInv, SessionMode, LeavingMode, Flying, SameRate, Parsed, Waiting, Forcing, Switching, Tuned, Hunting, Found, Connecting, Labelling, Forming, Resetting, Leaving, Restoring, Main, Setting, Stays
<1>18. CASE Modelled
  BY SentType, BytesDiffer, ExpectsFacts, <1>1, <1>2, <1>3, <1>4, <1>5, <1>6, <1>7, <1>8, <1>18, FindSteps
  DEF PingInv, ThenInv, FrameInv, KnownInv, NothingInv, SessionMode, LeavingMode, Flying, SameRate, Parsed, Waiting, Forcing, Switching, Tuned, Hunting, Found, Connecting, Labelling, Forming, Resetting, Leaving, Restoring, Main, Setting, Alike, Hushed, Patient, Stays
<1>19. CASE ChooseSpeed
  BY SentType, BytesDiffer, ExpectsFacts, <1>1, <1>2, <1>3, <1>4, <1>5, <1>6, <1>7, <1>8, <1>19, ConnectSteps
  DEF PingInv, ThenInv, FrameInv, KnownInv, NothingInv, SessionMode, LeavingMode, Flying, SameRate, Parsed, Waiting, Forcing, Switching, Tuned, Hunting, Found, Connecting, Labelling, Forming, Resetting, Leaving, Restoring, Main, Setting, Alike, Alone, Level
<1>20. CASE SwitchPrinter
  BY SentType, BytesDiffer, ExpectsFacts, <1>1, <1>2, <1>3, <1>4, <1>5, <1>6, <1>7, <1>8, <1>20, ConnectSteps
  DEF PingInv, ThenInv, FrameInv, KnownInv, NothingInv, SessionMode, LeavingMode, Flying, SameRate, Parsed, Waiting, Forcing, Switching, Tuned, Hunting, Found, Connecting, Labelling, Forming, Resetting, Leaving, Restoring, Main, Setting, Alike, Stays
<1>21. CASE SwitchLocal
  BY SentType, BytesDiffer, ExpectsFacts, <1>1, <1>2, <1>3, <1>4, <1>5, <1>6, <1>7, <1>8, <1>21, ConnectSteps
  DEF PingInv, ThenInv, FrameInv, KnownInv, NothingInv, SessionMode, LeavingMode, Flying, SameRate, Parsed, Waiting, Forcing, Switching, Tuned, Hunting, Found, Connecting, Labelling, Forming, Resetting, Leaving, Restoring, Main, Setting, Stays, Tunes
<1>22. CASE StartSettings
  BY SentType, BytesDiffer, ExpectsFacts, <1>1, <1>2, <1>3, <1>4, <1>5, <1>6, <1>7, <1>8, <1>22, ConnectSteps
  DEF PingInv, ThenInv, FrameInv, KnownInv, NothingInv, SessionMode, LeavingMode, Flying, SameRate, Parsed, Waiting, Forcing, Switching, Tuned, Hunting, Found, Connecting, Labelling, Forming, Resetting, Leaving, Restoring, Main, Setting, Alike, Alone
<1>23. CASE Set
  BY SentType, BytesDiffer, ExpectsFacts, <1>1, <1>2, <1>3, <1>4, <1>5, <1>6, <1>7, <1>8, <1>23, ConnectSteps
  DEF PingInv, ThenInv, FrameInv, KnownInv, NothingInv, SessionMode, LeavingMode, Flying, SameRate, Parsed, Waiting, Forcing, Switching, Tuned, Hunting, Found, Connecting, Labelling, Forming, Resetting, Leaving, Restoring, Main, Setting, Alike, Stays
<1>24. CASE Settle \/ Connected \/ Sized
  BY SentType, BytesDiffer, ExpectsFacts, <1>1, <1>2, <1>3, <1>4, <1>5, <1>6, <1>7, <1>8, <1>24, ConnectSteps
  DEF PingInv, ThenInv, FrameInv, KnownInv, NothingInv, SessionMode, LeavingMode, Flying, SameRate, Parsed, Waiting, Forcing, Switching, Tuned, Hunting, Found, Connecting, Labelling, Forming, Resetting, Leaving, Restoring, Main, Setting, Alone, Stays, Alike
<1>25. CASE NextLabel
  BY SentType, BytesDiffer, ExpectsFacts, <1>1, <1>2, <1>3, <1>4, <1>5, <1>6, <1>7, <1>8, <1>25, PrintSteps
  DEF PingInv, ThenInv, FrameInv, KnownInv, NothingInv, SessionMode, LeavingMode, Flying, SameRate, Parsed, Waiting, Forcing, Switching, Tuned, Hunting, Found, Connecting, Labelling, Forming, Resetting, Leaving, Restoring, Main, Setting, Alike, Stays
<1>26. CASE Feed
  BY SentType, BytesDiffer, ExpectsFacts, <1>1, <1>2, <1>3, <1>4, <1>5, <1>6, <1>7, <1>8, <1>26, PrintSteps
  DEF PingInv, ThenInv, FrameInv, KnownInv, NothingInv, SessionMode, LeavingMode, Flying, SameRate, Parsed, Waiting, Forcing, Switching, Tuned, Hunting, Found, Connecting, Labelling, Forming, Resetting, Leaving, Restoring, Main, Setting, Alike, Heeds, Hushed, Patient, Stays
<1>27. CASE Band
  BY SentType, BytesDiffer, ExpectsFacts, <1>1, <1>2, <1>3, <1>4, <1>5, <1>6, <1>7, <1>8, <1>27, PrintSteps
  DEF PingInv, ThenInv, FrameInv, KnownInv, NothingInv, SessionMode, LeavingMode, Flying, SameRate, Parsed, Waiting, Forcing, Switching, Tuned, Hunting, Found, Connecting, Labelling, Forming, Resetting, Leaving, Restoring, Main, Setting, Alike, Heeds, Hushed, Stays
<1>28. CASE BandCheck
  BY SentType, BytesDiffer, ExpectsFacts, <1>1, <1>2, <1>3, <1>4, <1>5, <1>6, <1>7, <1>8, <1>28, PrintSteps
  DEF PingInv, ThenInv, FrameInv, KnownInv, NothingInv, SessionMode, LeavingMode, Flying, SameRate, Parsed, Waiting, Forcing, Switching, Tuned, Hunting, Found, Connecting, Labelling, Forming, Resetting, Leaving, Restoring, Main, Setting, Alike, Alone, Heeds, Hushed
<1>29. CASE Form
  BY SentType, BytesDiffer, ExpectsFacts, <1>1, <1>2, <1>3, <1>4, <1>5, <1>6, <1>7, <1>8, <1>29, PrintSteps
  DEF PingInv, ThenInv, FrameInv, KnownInv, NothingInv, SessionMode, LeavingMode, Flying, SameRate, Parsed, Waiting, Forcing, Switching, Tuned, Hunting, Found, Connecting, Labelling, Forming, Resetting, Leaving, Restoring, Main, Setting, Alike, Alone, Heeds, Hushed
<1>30. CASE Fault
  BY SentType, BytesDiffer, ExpectsFacts, <1>1, <1>2, <1>3, <1>4, <1>5, <1>6, <1>7, <1>8, <1>30, RecoverSteps
  DEF PingInv, ThenInv, FrameInv, KnownInv, NothingInv, SessionMode, LeavingMode, Flying, SameRate, Parsed, Waiting, Forcing, Switching, Tuned, Hunting, Found, Connecting, Labelling, Forming, Resetting, Leaving, Restoring, Main, Setting, Alike
<1>31. CASE Reset
  BY SentType, BytesDiffer, ExpectsFacts, <1>1, <1>2, <1>3, <1>4, <1>5, <1>6, <1>7, <1>8, <1>31, RecoverSteps
  DEF PingInv, ThenInv, FrameInv, KnownInv, NothingInv, SessionMode, LeavingMode, Flying, SameRate, Parsed, Waiting, Forcing, Switching, Tuned, Hunting, Found, Connecting, Labelling, Forming, Resetting, Leaving, Restoring, Main, Setting, Alike, Alone, Hushed, Tunes
<1>32. CASE GiveUp \/ Close \/ Error \/ Signal
  BY SentType, BytesDiffer, ExpectsFacts, <1>1, <1>2, <1>3, <1>4, <1>5, <1>6, <1>7, <1>8, <1>32, RecoverSteps
  DEF PingInv, ThenInv, FrameInv, KnownInv, NothingInv, SessionMode, LeavingMode, Flying, SameRate, Parsed, Waiting, Forcing, Switching, Tuned, Hunting, Found, Connecting, Labelling, Forming, Resetting, Leaving, Restoring, Main, Setting, Stays
<1>33. CASE Stop \/ Stopped \/ Ask
  BY SentType, BytesDiffer, ExpectsFacts, <1>1, <1>2, <1>3, <1>4, <1>5, <1>6, <1>7, <1>8, <1>33, LeaveSteps
  DEF PingInv, ThenInv, FrameInv, KnownInv, NothingInv, SessionMode, LeavingMode, Flying, SameRate, Parsed, Waiting, Forcing, Switching, Tuned, Hunting, Found, Connecting, Labelling, Forming, Resetting, Leaving, Restoring, Main, Setting, Alike, Alone, Level, Stays
<1>34. CASE Eject
  BY SentType, BytesDiffer, ExpectsFacts, <1>1, <1>2, <1>3, <1>4, <1>5, <1>6, <1>7, <1>8, <1>34, LeaveSteps
  DEF PingInv, ThenInv, FrameInv, KnownInv, NothingInv, SessionMode, LeavingMode, Flying, SameRate, Parsed, Waiting, Forcing, Switching, Tuned, Hunting, Found, Connecting, Labelling, Forming, Resetting, Leaving, Restoring, Main, Setting, Alike, Stays
<1>35. CASE Restore
  BY SentType, BytesDiffer, ExpectsFacts, <1>1, <1>2, <1>3, <1>4, <1>5, <1>6, <1>7, <1>8, <1>35, LeaveSteps
  DEF PingInv, ThenInv, FrameInv, KnownInv, NothingInv, SessionMode, LeavingMode, Flying, SameRate, Parsed, Waiting, Forcing, Switching, Tuned, Hunting, Found, Connecting, Labelling, Forming, Resetting, Leaving, Restoring, Main, Setting, Alike, Alone
<1>36. CASE Transmit
  <2>1. /\ at' = at /\ st' = st /\ Stays /\ pr'.mode = pr.mode /\ pr'.rate = pr.rate /\ tty'.rate = tty.rate
        /\ Flying("ping")' => Flying("ping")
        /\ Flying("model")' => Flying("model")
        /\ at # "over" /\ Came("ping", tty'.rx) => Came("ping", tty.rx) \/ SameRate
    BY <1>36, TransmitStep DEF Flying
  <2>2. Tuned => at # "over"
    BY DEF Tuned, Forcing
  <2> QED  BY <2>1, <2>2 DEF PingInv, Tuned, Forcing, Main, Found, Resetting, Forming, LeavingMode, SameRate, Stays, Waiting, Flying
<1>37. CASE Rest \/ Jams \/ Cleared
  BY SentType, BytesDiffer, ExpectsFacts, <1>1, <1>2, <1>3, <1>4, <1>5, <1>6, <1>7, <1>8, <1>37, MechanismStep
  DEF PingInv, ThenInv, FrameInv, KnownInv, NothingInv, SessionMode, LeavingMode, Flying, SameRate, Parsed, Waiting, Forcing, Switching, Tuned, Hunting, Found, Connecting, Labelling, Forming, Resetting, Leaving, Restoring, Main, Setting, Statuses, Stays
<1>38. CASE UNCHANGED vars
  BY SentType, BytesDiffer, ExpectsFacts, <1>1, <1>2, <1>3, <1>4, <1>5, <1>6, <1>7, <1>8, <1>38
  DEF PingInv, ThenInv, FrameInv, KnownInv, NothingInv, SessionMode, LeavingMode, Flying, SameRate, Parsed, Waiting, Forcing, Switching, Tuned, Hunting, Found, Connecting, Labelling, Forming, Resetting, Leaving, Restoring, Main, Setting, calls, vars
<1> QED
  BY <1>9, <1>10, <1>11, <1>12, <1>13, <1>14, <1>15, <1>16, <1>17, <1>18, <1>19, <1>20, <1>21, <1>22, <1>23, <1>24, <1>25, <1>26, <1>27, <1>28, <1>29, <1>30, <1>31, <1>32, <1>33, <1>34, <1>35, <1>36, <1>37, <1>38, NextCases

\* A report is no answer to a ping.
LEMMA ReportsOnce ==
  ASSUME Sound, NEW q, Reports(q)
  PROVE  /\ Once("ping", pr.owed) => Once("ping", q.owed)
         /\ Came("ping", q.owed) => Came("ping", pr.owed)
<1>1. pr.owed \in Seq(Messages)
  BY SoundFacts DEF Printers
<1>2. ASSUME NEW x \in Statuses
      PROVE  /\ Once("ping", pr.owed) => Once("ping", Append(pr.owed, x))
             /\ Came("ping", Append(pr.owed, x)) => Came("ping", pr.owed)
  <2>1. x \in Messages /\ x # "ping"
    BY DEF Statuses, Messages
  <2> QED  BY <1>1, <2>1, OnceFacts, CameAppend
<1> QED  BY <1>2 DEF Reports

LEMMA OnceStep ==
  ASSUME Sound, ThenInv, FrameInv, KnownInv, PingInv, OncePinged, [Next]_vars
  PROVE  OncePinged'
<1>1. caller \in {"main", "fault"} /\ frame \in {"main", "handler"}
  BY Types DEF Sound
<1>2. \A x : ~Came(x, <<>>)
  BY CameEmpty
<1>3. st.tried \in 1..Len(Speeds) + 1 /\ Len(Speeds) \in Nat
  BY SoundFacts, NumbersType DEF States
<1>4. CASE ForceIdle
  <2> SUFFICES ASSUME Main', Hunting'
               PROVE  /\ Once("ping", pr'.owed)
                      /\ ~(Came("ping", pr'.owed) /\ Came("ping", tty'.rx))
                      /\ Flying("ping")' => (\E j \in 1..st'.tried - 1 : pr'.rate = Speeds[j]) \/ (at' = "pinged" /\ SameRate')
    BY DEF OncePinged
  <2>1. /\ Main /\ at = "force" /\ then = "ping"
        /\ st'.tried = st.tried /\ tty'.rate = tty.rate /\ (tty'.rx = <<>> \/ tty'.rx = tty.rx)
        /\ pr' = pr \/ Receives(NOP)
    BY <1>4, ForceSteps DEF Main, Hunting, Tuned, Forcing, Stays, ThenInv, FrameInv, Heeds, Hushed, Alike
  <2>2. Once("ping", pr'.owed) /\ (Came("ping", pr'.owed) => Came("ping", pr.owed))
    <3>1. Receives(NOP) => Reports(pr')
      <4>1. NOP \notin {RESET, PING, STATUS, MODEL}
        BY DEF NOP, RESET, PING, STATUS, MODEL
      <4> QED  BY <4>1, SentType, ByteSteps
    <3>2. pr' = pr => Reports(pr')
      BY DEF Reports
    <3>3. Once("ping", pr.owed)
      BY <2>1 DEF OncePinged, Hunting, Tuned, Forcing
    <3> QED  BY <2>1, <3>1, <3>2, <3>3, ReportsOnce
  <2>3. Flying("ping") => pr'.rate = pr.rate
    <3>1. Flying("ping") => pr.mode = "cmd"
      BY <2>1 DEF PingInv, LeavingMode
    <3>2. Receives(NOP) /\ pr.mode = "cmd" => pr'.rate = pr.rate
      BY SentType, BytesDiffer, ByteSteps DEF Parsed
    <3> QED  BY <2>1, <3>1, <3>2
  <2>4. /\ ~(Came("ping", pr.owed) /\ Came("ping", tty.rx))
        /\ Flying("ping") => \E j \in 1..st.tried - 1 : pr.rate = Speeds[j]
    BY <2>1 DEF OncePinged, Hunting, Tuned, Forcing
  <2>5. Flying("ping")' => Flying("ping")
    BY <1>2, <2>1, <2>2 DEF Flying
  <2>6. ~(Came("ping", pr'.owed) /\ Came("ping", tty'.rx))
    BY <1>2, <2>1, <2>2, <2>4
  <2> QED  BY <2>1, <2>2, <2>3, <2>4, <2>5, <2>6
<1>5. CASE WaitIdle
  BY <1>1, <1>2, <1>3, <1>5, IdleSteps
  DEF OncePinged, ThenInv, FrameInv, KnownInv, Hunting, Tuned, Forcing, Main, Alike, Heeds, Hushed, OnTimeout, Patient, Stays
<1>6. CASE CheckIdle
  BY <1>1, <1>2, <1>3, <1>6, IdleSteps
  DEF OncePinged, ThenInv, FrameInv, KnownInv, Hunting, Tuned, Forcing, Main, Alike, Heeds, Hushed, OnTimeout, Patient, Stays
<1>7. CASE TrySpeed
  <2> SUFFICES ASSUME Main', Hunting'
               PROVE  /\ Once("ping", pr'.owed)
                      /\ ~(Came("ping", pr'.owed) /\ Came("ping", tty'.rx))
                      /\ Flying("ping")' => (\E j \in 1..st'.tried - 1 : pr'.rate = Speeds[j]) \/ (at' = "pinged" /\ SameRate')
    BY DEF OncePinged
  <2>1. /\ Main /\ at = "hunt" /\ pr' = pr /\ (st'.tried = st.tried \/ st'.tried = st.tried + 1)
        /\ tty'.rx = <<>> \/ tty'.rx = tty.rx
    BY <1>7, FindSteps DEF Main, Alone, Tunes, Alike
  <2>2. Once("ping", pr.owed) /\ ~(Came("ping", pr.owed) /\ Came("ping", tty.rx))
    BY <2>1 DEF OncePinged, Hunting
  <2>3. Flying("ping") => \E j \in 1..st.tried - 1 : pr.rate = Speeds[j]
    BY <2>1 DEF OncePinged, Hunting
  <2>4. 1..st.tried - 1 \subseteq 1..st'.tried - 1
    BY <1>3, <2>1
  <2> QED  BY <1>2, <2>1, <2>2, <2>3, <2>4 DEF Flying
<1>8. CASE Pinged
  <2> SUFFICES ASSUME Main', Hunting'
               PROVE  /\ Once("ping", pr'.owed)
                      /\ ~(Came("ping", pr'.owed) /\ Came("ping", tty'.rx))
                      /\ Flying("ping")' => (\E j \in 1..st'.tried - 1 : pr'.rate = Speeds[j]) \/ (at' = "pinged" /\ SameRate')
    BY DEF OncePinged
  <2>1. Main /\ at = "pinged" /\ at' = "hunt" /\ tty'.rx = <<>> /\ pr' = pr /\ st'.tried = st.tried + 1
    BY <1>8, FindSteps DEF Main, Hunting, Tuned, Forcing, Stays, Heeds, Hushed
  <2>2. /\ Once("ping", pr.owed)
        /\ Flying("ping") => (\E j \in 1..st.tried - 1 : pr.rate = Speeds[j]) \/ SameRate
    BY <2>1 DEF OncePinged, Hunting, Tuned
  <2>3. tty.rate = Speeds[st.tried]
    BY <2>1 DEF Sound, CountInv, Tuned
  <2>4. st.tried \in 1..st'.tried - 1 /\ 1..st.tried - 1 \subseteq 1..st'.tried - 1
    BY <1>3, <2>1
  <2> QED  BY <1>2, <2>1, <2>2, <2>3, <2>4 DEF Flying, SameRate
<1>9. CASE SendPing
  <2> SUFFICES ASSUME Main'
               PROVE  /\ Once("ping", pr'.owed)
                      /\ ~(Came("ping", pr'.owed) /\ Came("ping", tty'.rx))
                      /\ Flying("ping")' => (\E j \in 1..st'.tried - 1 : pr'.rate = Speeds[j]) \/ (at' = "pinged" /\ SameRate')
    BY DEF OncePinged
  <2>1. Main /\ at = "ping" /\ at' = "pinged" /\ Receives(PING) /\ st' = st /\ tty' = tty
    BY <1>9, FindSteps DEF Main, Stays
  <2>2. /\ Once("ping", pr.owed) /\ ~(Came("ping", pr.owed) /\ Came("ping", tty.rx))
        /\ Flying("ping") => \E j \in 1..st.tried - 1 : pr.rate = Speeds[j]
    BY <2>1 DEF OncePinged, Hunting, Tuned
  <2>3. Flying("ping") => pr.mode = "cmd" /\ ~SameRate
    <3>1. st.tried <= Len(Speeds) /\ tty.rate = Speeds[st.tried]
      BY <2>1 DEF Sound, CountInv, Tuned
    <3>2. \A j \in 1..st.tried - 1 : Speeds[j] # Speeds[st.tried]
      <4>1. \A i, j \in 1..Len(Speeds) : Speeds[i] = Speeds[j] => i = j
        BY ProAssumption
      <4>2. st.tried \in 1..Len(Speeds) /\ \A j \in 1..st.tried - 1 : j \in 1..Len(Speeds) /\ j # st.tried
        BY <1>3, <3>1
      <4> QED  BY <4>1, <4>2
    <3>3. Flying("ping") => ~SameRate
      BY <2>2, <3>1, <3>2 DEF SameRate
    <3>4. Flying("ping") => pr.mode = "cmd"
      BY <2>1, <3>3 DEF PingInv, LeavingMode
    <3> QED  BY <3>3, <3>4
  <2>4. /\ Reports(pr') \/ (SameRate /\ pr.mode = "cmd" /\ pr'.owed = Append(pr.owed, "ping"))
        /\ SameRate /\ pr.mode = "cmd" => SameRate'
        /\ ~SameRate => pr'.rate = pr.rate
        /\ Came("ping", pr'.owed) => Came("ping", pr.owed) \/ (SameRate /\ pr.mode = "cmd")
    <3>1. /\ Parsed(PING) /\ (~SameRate \/ pr.mode # "cmd" => Reports(pr'))
          /\ Reports(pr') \/ pr'.owed = Append(pr.owed, "ping")
          /\ Came("ping", pr'.owed) => Came("ping", pr.owed) \/ (SameRate /\ pr.mode = "cmd")
      BY <2>1, SentType, ByteSteps, OwedSteps
    <3> QED  BY <2>1, <3>1, BytesDiffer DEF Parsed, SameRate
  <2>5. Once("ping", pr'.owed)
    <3>1. SameRate => ~Came("ping", pr.owed)
      BY <2>3 DEF Flying
    <3>2. pr.owed \in Seq(Messages) /\ "ping" \in Messages
      BY SoundFacts DEF Printers, Messages
    <3>3. SameRate => Once("ping", Append(pr.owed, "ping"))
      BY <3>1, <3>2, OnceFacts
    <3> QED  BY <2>2, <2>4, <3>3, ReportsOnce
  <2> QED  BY <2>1, <2>2, <2>3, <2>4, <2>5 DEF Flying
<1>10. CASE Verify
  BY <1>1, <1>2, <1>3, <1>10, FindSteps
  DEF OncePinged, ThenInv, FrameInv, KnownInv, Hunting, Tuned, Forcing, Main, Alike, Alone, Hushed
<1>11. CASE AskModel
  BY <1>1, <1>2, <1>3, <1>11, FindSteps
  DEF OncePinged, ThenInv, FrameInv, KnownInv, Hunting, Tuned, Forcing, Main, Alike, Stays
<1>12. CASE NotFound
  BY <1>1, <1>2, <1>3, <1>12, FindSteps
  DEF OncePinged, ThenInv, FrameInv, KnownInv, Hunting, Tuned, Forcing, Main, Stays
<1>13. CASE Modelled
  BY <1>1, <1>2, <1>3, <1>13, FindSteps
  DEF OncePinged, ThenInv, FrameInv, KnownInv, Hunting, Tuned, Forcing, Main, Alike, Hushed, Patient, Stays
<1>14. CASE ChooseSpeed
  BY <1>1, <1>2, <1>3, <1>14, ConnectSteps
  DEF OncePinged, ThenInv, FrameInv, KnownInv, Hunting, Tuned, Forcing, Main, Alike, Alone, Level
<1>15. CASE SwitchPrinter
  BY <1>1, <1>2, <1>3, <1>15, ConnectSteps
  DEF OncePinged, ThenInv, FrameInv, KnownInv, Hunting, Tuned, Forcing, Main, Alike, Stays
<1>16. CASE SwitchLocal
  BY <1>1, <1>2, <1>3, <1>16, ConnectSteps
  DEF OncePinged, ThenInv, FrameInv, KnownInv, Hunting, Tuned, Forcing, Main, Stays, Tunes
<1>17. CASE StartSettings
  BY <1>1, <1>2, <1>3, <1>17, ConnectSteps
  DEF OncePinged, ThenInv, FrameInv, KnownInv, Hunting, Tuned, Forcing, Main, Alike, Alone
<1>18. CASE Set
  BY <1>1, <1>2, <1>3, <1>18, ConnectSteps
  DEF OncePinged, ThenInv, FrameInv, KnownInv, Hunting, Tuned, Forcing, Main, Alike, Stays
<1>19. CASE Settle \/ Connected \/ Sized
  BY <1>1, <1>2, <1>3, <1>19, ConnectSteps
  DEF OncePinged, ThenInv, FrameInv, KnownInv, Hunting, Tuned, Forcing, Main, Alone, Stays, Alike
<1>20. CASE NextLabel
  BY <1>1, <1>2, <1>3, <1>20, PrintSteps
  DEF OncePinged, ThenInv, FrameInv, KnownInv, Hunting, Tuned, Forcing, Main, Alike, Stays
<1>21. CASE Feed
  BY <1>1, <1>2, <1>3, <1>21, PrintSteps
  DEF OncePinged, ThenInv, FrameInv, KnownInv, Hunting, Tuned, Forcing, Main, Alike, Heeds, Hushed, Patient, Stays
<1>22. CASE Band
  BY <1>1, <1>2, <1>3, <1>22, PrintSteps
  DEF OncePinged, ThenInv, FrameInv, KnownInv, Hunting, Tuned, Forcing, Main, Alike, Heeds, Hushed, Stays
<1>23. CASE BandCheck
  BY <1>1, <1>2, <1>3, <1>23, PrintSteps
  DEF OncePinged, ThenInv, FrameInv, KnownInv, Hunting, Tuned, Forcing, Main, Alike, Alone, Heeds, Hushed
<1>24. CASE Form
  BY <1>1, <1>2, <1>3, <1>24, PrintSteps
  DEF OncePinged, ThenInv, FrameInv, KnownInv, Hunting, Tuned, Forcing, Main, Alike, Alone, Heeds, Hushed
<1>25. CASE Fault
  BY <1>1, <1>2, <1>3, <1>25, RecoverSteps
  DEF OncePinged, ThenInv, FrameInv, KnownInv, Hunting, Tuned, Forcing, Main, Alike
<1>26. CASE Reset
  BY <1>1, <1>2, <1>3, <1>26, RecoverSteps
  DEF OncePinged, ThenInv, FrameInv, KnownInv, Hunting, Tuned, Forcing, Main, Alike, Alone, Hushed, Tunes
<1>27. CASE GiveUp \/ Close \/ Error \/ Signal
  BY <1>1, <1>2, <1>3, <1>27, RecoverSteps
  DEF OncePinged, ThenInv, FrameInv, KnownInv, Hunting, Tuned, Forcing, Main, Stays
<1>28. CASE Stop \/ Stopped \/ Ask
  BY <1>1, <1>2, <1>3, <1>28, LeaveSteps
  DEF OncePinged, ThenInv, FrameInv, KnownInv, Hunting, Tuned, Forcing, Main, Alike, Alone, Level, Stays
<1>29. CASE Eject
  BY <1>1, <1>2, <1>3, <1>29, LeaveSteps
  DEF OncePinged, ThenInv, FrameInv, KnownInv, Hunting, Tuned, Forcing, Main, Alike, Stays
<1>30. CASE Restore
  BY <1>1, <1>2, <1>3, <1>30, LeaveSteps
  DEF OncePinged, ThenInv, FrameInv, KnownInv, Hunting, Tuned, Forcing, Main, Alike, Alone
<1>31. CASE Transmit
  <2> SUFFICES ASSUME Main', Hunting'
               PROVE  /\ Once("ping", pr'.owed)
                      /\ ~(Came("ping", pr'.owed) /\ Came("ping", tty'.rx))
                      /\ Flying("ping")' => (\E j \in 1..st'.tried - 1 : pr'.rate = Speeds[j]) \/ (at' = "pinged" /\ SameRate')
    BY DEF OncePinged
  <2>1. Main /\ Hunting /\ at # "over"
    BY <1>31, TransmitStep DEF Main, Hunting, Tuned, Forcing, Stays
  <2>2. pr.owed \in Seq(Messages) /\ pr.owed # <<>> /\ pr'.owed = Tail(pr.owed)
    BY <1>31, SoundFacts, TransmitStep DEF Printers
  <2>3. "ping" \in Messages
    BY DEF Messages
  <2>4. Once("ping", pr'.owed) /\ (Head(pr.owed) = "ping" => ~Came("ping", pr'.owed))
    BY <2>1, <2>2, <2>3, OnceFacts DEF OncePinged
  <2>5. /\ Came("ping", pr.owed) <=> Came("ping", pr'.owed) \/ Head(pr.owed) = "ping"
        /\ Came("ping", tty'.rx) => Came("ping", tty.rx) \/ Head(pr.owed) = "ping"
        /\ at' = at /\ st' = st /\ pr'.rate = pr.rate /\ tty'.rate = tty.rate
    BY <1>31, <2>1, TransmitStep
  <2> QED  BY <2>1, <2>4, <2>5 DEF OncePinged, Flying, SameRate
<1>32. CASE Rest \/ Jams \/ Cleared
  <2>1. /\ Reports(pr') /\ tty' = tty /\ pr'.rate = pr.rate /\ at' = at /\ st' = st
        /\ then' = then /\ caller' = caller /\ frame' = frame
    BY <1>32, MechanismStep DEF Stays
  <2>2. /\ Once("ping", pr.owed) => Once("ping", pr'.owed)
        /\ Came("ping", pr'.owed) => Came("ping", pr.owed)
    BY <2>1, ReportsOnce
  <2> QED  BY <2>1, <2>2 DEF OncePinged, Main, Hunting, Tuned, Forcing, Flying, SameRate
<1>33. CASE UNCHANGED vars
  BY <1>33 DEF vars, calls, OncePinged, Main, Hunting, Tuned, Forcing, Flying, SameRate
<1> QED
  BY <1>4, <1>5, <1>6, <1>7, <1>8, <1>9, <1>10, <1>11, <1>12, <1>13, <1>14, <1>15, <1>16, <1>17, <1>18, <1>19, <1>20, <1>21, <1>22, <1>23, <1>24, <1>25, <1>26, <1>27, <1>28, <1>29, <1>30, <1>31, <1>32, <1>33, NextCases

\* What changes of luck, of who called, and of what was found.
LEMMA CalmFrame ==
  ASSUME Sound, ThenInv, FrameInv, KnownInv, [Next]_vars
  PROVE  /\ luck'.calm = luck.calm /\ (luck'.late = 0 => luck.late = 0)
         /\ pr'.kind = pr.kind /\ (caller' = "main" => caller = "main")
         /\ caller' = "main" /\ st.m # "NULL" => st'.m \in {st.m, pr.kind} /\ st'.tried = st.tried
         /\ at' # "over" => at # "over"
         /\ caller = "main" /\ st.m = "NULL" /\ at # "over" /\ at' # "over" => Main
<1>1. \A b \in Nat : Receives(b) => pr'.kind = pr.kind
  BY ByteSteps DEF Follows
<1>2. NothingInv /\ "NULL" \notin DOMAIN Models /\ caller \in {"main", "fault"} /\ frame \in {"main", "handler"}
  BY SoundFacts, ProAssumption, Types DEF Sound
<1>3. CASE ForceIdle
  BY SentType, Hears, <1>1, <1>2, <1>3, ForceSteps
  DEF FrameInv, KnownInv, ThenInv, Waiting, Forcing, Switching, Tuned, Hunting, Found, Connecting, Labelling, Forming, Resetting, Leaving, Restoring, Main, Setting, Alike, Heeds, Hushed, Stays
<1>4. CASE WaitIdle \/ CheckIdle
  BY SentType, Hears, <1>1, <1>2, <1>4, IdleSteps
  DEF FrameInv, KnownInv, ThenInv, Waiting, Forcing, Switching, Tuned, Hunting, Found, Connecting, Labelling, Forming, Resetting, Leaving, Restoring, Main, Setting, Alike, Heeds, Hushed, OnTimeout, Patient, Stays
<1>5. CASE TrySpeed \/ Pinged
  BY SentType, Hears, <1>1, <1>2, <1>5, FindSteps
  DEF FrameInv, KnownInv, ThenInv, Waiting, Forcing, Switching, Tuned, Hunting, Found, Connecting, Labelling, Forming, Resetting, Leaving, Restoring, Main, Setting, Alike, Alone, Tunes, Heeds, Hushed, Patient, Stays
<1>6. CASE SendPing \/ Verify \/ AskModel
  BY SentType, Hears, <1>1, <1>2, <1>6, FindSteps
  DEF FrameInv, KnownInv, ThenInv, Waiting, Forcing, Switching, Tuned, Hunting, Found, Connecting, Labelling, Forming, Resetting, Leaving, Restoring, Main, Setting, Stays, Alike, Alone, Hushed
<1>7. CASE NotFound \/ Modelled
  BY SentType, Hears, <1>1, <1>2, <1>7, FindSteps
  DEF FrameInv, KnownInv, ThenInv, Waiting, Forcing, Switching, Tuned, Hunting, Found, Connecting, Labelling, Forming, Resetting, Leaving, Restoring, Main, Setting, Stays, Alike, Hushed, Patient
<1>8. CASE ChooseSpeed \/ SwitchPrinter \/ SwitchLocal
  BY SentType, Hears, <1>1, <1>2, <1>8, ConnectSteps
  DEF FrameInv, KnownInv, ThenInv, Waiting, Forcing, Switching, Tuned, Hunting, Found, Connecting, Labelling, Forming, Resetting, Leaving, Restoring, Main, Setting, Alike, Alone, Level, Stays, Tunes
<1>9. CASE StartSettings \/ Set
  BY SentType, Hears, <1>1, <1>2, <1>9, ConnectSteps
  DEF FrameInv, KnownInv, ThenInv, Waiting, Forcing, Switching, Tuned, Hunting, Found, Connecting, Labelling, Forming, Resetting, Leaving, Restoring, Main, Setting, Alike, Alone, Stays
<1>10. CASE Settle \/ Connected \/ Sized
  BY SentType, Hears, <1>1, <1>2, <1>10, ConnectSteps
  DEF FrameInv, KnownInv, ThenInv, Waiting, Forcing, Switching, Tuned, Hunting, Found, Connecting, Labelling, Forming, Resetting, Leaving, Restoring, Main, Setting, Alone, Stays, Alike
<1>11. CASE NextLabel
  BY SentType, Hears, <1>1, <1>2, <1>11, PrintSteps
  DEF FrameInv, KnownInv, ThenInv, Waiting, Forcing, Switching, Tuned, Hunting, Found, Connecting, Labelling, Forming, Resetting, Leaving, Restoring, Main, Setting, Alike, Stays
<1>12. CASE Feed
  BY SentType, Hears, <1>1, <1>2, <1>12, PrintSteps
  DEF FrameInv, KnownInv, ThenInv, Waiting, Forcing, Switching, Tuned, Hunting, Found, Connecting, Labelling, Forming, Resetting, Leaving, Restoring, Main, Setting, Alike, Heeds, Hushed, Patient, Stays
<1>13. CASE Band
  BY SentType, Hears, <1>1, <1>2, <1>13, PrintSteps
  DEF FrameInv, KnownInv, ThenInv, Waiting, Forcing, Switching, Tuned, Hunting, Found, Connecting, Labelling, Forming, Resetting, Leaving, Restoring, Main, Setting, Alike, Heeds, Hushed, Stays
<1>14. CASE BandCheck \/ Form
  BY SentType, Hears, <1>1, <1>2, <1>14, PrintSteps
  DEF FrameInv, KnownInv, ThenInv, Waiting, Forcing, Switching, Tuned, Hunting, Found, Connecting, Labelling, Forming, Resetting, Leaving, Restoring, Main, Setting, Alike, Alone, Heeds, Hushed
<1>15. CASE Fault \/ Reset
  BY SentType, Hears, <1>1, <1>2, <1>15, RecoverSteps
  DEF FrameInv, KnownInv, ThenInv, Waiting, Forcing, Switching, Tuned, Hunting, Found, Connecting, Labelling, Forming, Resetting, Leaving, Restoring, Main, Setting, Alike, Alone, Hushed, Tunes
<1>16. CASE GiveUp \/ Close \/ Error \/ Signal
  BY SentType, Hears, <1>1, <1>2, <1>16, RecoverSteps
  DEF FrameInv, KnownInv, ThenInv, Waiting, Forcing, Switching, Tuned, Hunting, Found, Connecting, Labelling, Forming, Resetting, Leaving, Restoring, Main, Setting, Stays
<1>17. CASE Stop \/ Stopped \/ Ask
  BY SentType, Hears, <1>1, <1>2, <1>17, LeaveSteps
  DEF FrameInv, KnownInv, ThenInv, Waiting, Forcing, Switching, Tuned, Hunting, Found, Connecting, Labelling, Forming, Resetting, Leaving, Restoring, Main, Setting, Alike, Alone, Level, Stays
<1>18. CASE Eject \/ Restore
  BY SentType, Hears, <1>1, <1>2, <1>18, LeaveSteps
  DEF FrameInv, KnownInv, ThenInv, Waiting, Forcing, Switching, Tuned, Hunting, Found, Connecting, Labelling, Forming, Resetting, Leaving, Restoring, Main, Setting, Alike, Stays, Alone
<1>19. CASE Transmit
  BY SentType, Hears, <1>1, <1>2, <1>19, TransmitStep
  DEF FrameInv, KnownInv, ThenInv, Waiting, Forcing, Switching, Tuned, Hunting, Found, Connecting, Labelling, Forming, Resetting, Leaving, Restoring, Main, Setting, Stays
<1>20. CASE Rest \/ Jams \/ Cleared
  BY SentType, Hears, <1>1, <1>2, <1>20, MechanismStep
  DEF FrameInv, KnownInv, ThenInv, Waiting, Forcing, Switching, Tuned, Hunting, Found, Connecting, Labelling, Forming, Resetting, Leaving, Restoring, Main, Setting, Statuses, Stays
<1>21. CASE UNCHANGED vars
  BY SentType, Hears, <1>1, <1>2, <1>21
  DEF FrameInv, KnownInv, ThenInv, Waiting, Forcing, Switching, Tuned, Hunting, Found, Connecting, Labelling, Forming, Resetting, Leaving, Restoring, Main, Setting, calls, vars
<1> QED
  BY <1>3, <1>4, <1>5, <1>6, <1>7, <1>8, <1>9, <1>10, <1>11, <1>12, <1>13, <1>14, <1>15, <1>16, <1>17, <1>18, <1>19, <1>20, <1>21, NextCases
\* It stays at rest when a NOP arrives, or a question.
LEMMA RestingByte ==
  ASSUME Sound, AtRest(pr), NEW b \in {NOP, PING, STATUS, MODEL}, Receives(b), b = NOP \/ pr.mode = "cmd" \/ ~SameRate
  PROVE  /\ AtRest(pr') /\ pr'.kind = pr.kind /\ pr'.rate = pr.rate
         /\ pr'.mode = IF SameRate THEN "cmd" ELSE pr'.mode
         /\ pr'.owed = IF ~SameRate \/ b = NOP \/ (b = MODEL /\ ~Models[pr.kind].modern) THEN pr.owed
                       ELSE Append(pr.owed, IF b = PING THEN "ping" ELSE IF b = STATUS THEN "idle" ELSE "model")
<1>1. pr \in Printers /\ b \in Nat /\ pr.kind # "nothing" /\ StatusOf(pr) = "idle"
  BY SoundFacts, SentType, StatusFacts DEF AtRest
<1>2. ASSUME NEW q \in Printers, AtRest(q), pr' = Report(pr, q) PROVE pr' = q
  <2>1. StatusOf(q) = "idle"
    BY <1>2, StatusFacts DEF AtRest
  <2> QED  BY <1>1, <1>2, <2>1 DEF Report
<1>3. CASE ~SameRate
  <2>1. PICK q \in Mangled(pr) : pr' = Report(pr, q)
    BY <1>1, <1>3 DEF Receives, SameRate
  <2>2. q = pr \/ (pr.mode \in {"rate", "arg"} /\ q = [pr EXCEPT !.mode = "cmd"])
    BY <1>1, <2>1 DEF Mangled, AtRest
  <2>3. q \in Printers /\ AtRest(q) /\ q.kind = pr.kind /\ q.rate = pr.rate /\ q.owed = pr.owed
    <3>1. CASE q = pr
      BY <1>1, <3>1
    <3>2. CASE pr.mode \in {"rate", "arg"} /\ q = [pr EXCEPT !.mode = "cmd"]
      BY <1>1, <3>2 DEF AtRest, Printers
    <3> QED  BY <2>2, <3>1, <3>2
  <2>4. pr' = q
    BY <1>2, <2>1, <2>3
  <2> QED  BY <1>3, <2>3, <2>4
<1>4. CASE SameRate /\ pr.mode = "cmd"
  <2> DEFINE q == Obeyed(pr, b)
             owed == pr.owed \o Answer(pr, b)
  <2>1. pr' = Report(pr, q)
    BY <1>1, <1>4 DEF Receives, SameRate
  <2>2. b # RESET /\ Expects(b) = "cmd" /\ b # FEED
    BY ExpectsFacts DEF NOP, PING, STATUS, MODEL, RESET, FEED
  <2>3. q = [pr EXCEPT !.mode = Expects(b), !.cmd = b, !.busy = @ \/ b = FEED, !.owed = @ \o Answer(pr, b)]
    BY <1>1, <1>4, <2>2, CommandFacts
  <2>4. q = [pr EXCEPT !.mode = "cmd", !.cmd = b, !.busy = pr.busy, !.owed = owed]
    BY <1>1, <2>2, <2>3 DEF Printers
  <2>5. /\ owed \in Seq(Messages)
        /\ owed = IF b = NOP \/ (b = MODEL /\ ~Models[pr.kind].modern) THEN pr.owed
                  ELSE Append(pr.owed, IF b = PING THEN "ping" ELSE IF b = STATUS THEN "idle" ELSE "model")
    <3>1. NOP \notin {PING, STATUS, MODEL} /\ PING \notin {STATUS, MODEL} /\ STATUS # MODEL
      BY DEF NOP, PING, STATUS, MODEL
    <3>2. /\ owed \in Seq(Messages)
          /\ b \notin {PING, STATUS, MODEL} => owed = pr.owed
          /\ b = PING => owed = Append(pr.owed, "ping")
          /\ b = STATUS => owed = Append(pr.owed, "idle")
          /\ b = MODEL => owed = IF Models[pr.kind].modern THEN Append(pr.owed, "model") ELSE pr.owed
      BY <1>1, AnswerFacts
    <3> HIDE DEF owed
    <3> QED  BY <3>1, <3>2
  <2> HIDE DEF q, owed
  <2>6. /\ q \in Printers /\ q.kind = pr.kind /\ q.rate = pr.rate /\ q.mode = "cmd"
        /\ q.busy = pr.busy /\ q.jam = pr.jam /\ q.owed = owed
    BY <1>1, <2>4, <2>5 DEF Printers
  <2>7. AtRest(q)
    BY <2>6 DEF AtRest
  <2>8. pr' = q
    BY <1>2, <2>1, <2>6, <2>7
  <2> QED  BY <1>4, <2>5, <2>6, <2>7, <2>8
<1>5. CASE SameRate /\ pr.mode # "cmd" /\ b = NOP
  <2> DEFINE q == Obeyed(pr, b)
  <2>1. pr' = Report(pr, q)
    BY <1>1, <1>5 DEF Receives, SameRate
  <2>2. /\ pr.mode = "rate" => q = [pr EXCEPT !.mode = "cmd", !.rate = RateOf(pr, b)]
        /\ pr.mode = "arg" => q = [pr EXCEPT !.mode = "cmd", !.busy = @ \/ (pr.cmd = FF /\ b # 0)]
    BY <1>1, OperandFacts
  <2> DEFINE rate == RateOf(pr, b)
             busy == pr.busy \/ (pr.cmd = FF /\ b # 0)
  <2>3. rate = 9600 /\ busy = pr.busy
    BY <1>1, <1>5 DEF NOP, RateOf, Printers
  <2>3a. rate \in Rates /\ busy \in BOOLEAN
    BY <1>1, RateType DEF Printers
  <2>4. /\ pr.mode = "rate" => q = [pr EXCEPT !.mode = "cmd", !.rate = rate]
        /\ pr.mode = "arg" => q = [pr EXCEPT !.mode = "cmd", !.busy = busy]
    BY <2>2
  <2> HIDE DEF q, rate, busy
  <2>5. /\ q \in Printers /\ q.kind = pr.kind /\ q.rate = pr.rate /\ q.mode = "cmd"
        /\ q.busy = pr.busy /\ q.jam = pr.jam /\ q.owed = pr.owed
    <3>1. CASE pr.mode = "rate"
      <4>a. q = [pr EXCEPT !.mode = "cmd", !.rate = rate] /\ pr \in Printers
        BY <1>1, <2>4, <3>1
      <4>1. /\ q \in Printers /\ q.kind = pr.kind /\ q.rate = rate /\ q.mode = "cmd"
            /\ q.busy = pr.busy /\ q.jam = pr.jam /\ q.owed = pr.owed
        BY <2>3a, <4>a DEF Printers
      <4> QED  BY <2>3, <3>1, <4>1 DEF AtRest
    <3>2. CASE pr.mode = "arg"
      <4>a. q = [pr EXCEPT !.mode = "cmd", !.busy = busy] /\ pr \in Printers
        BY <1>1, <2>4, <3>2
      <4>1. /\ q \in Printers /\ q.kind = pr.kind /\ q.rate = pr.rate /\ q.mode = "cmd"
            /\ q.busy = busy /\ q.jam = pr.jam /\ q.owed = pr.owed
        BY <2>3a, <4>a DEF Printers
      <4> QED  BY <2>3, <4>1
    <3> QED  BY <1>5, <3>1, <3>2 DEF AtRest
  <2>6. AtRest(q)
    BY <2>5 DEF AtRest
  <2>7. pr' = q
    BY <1>2, <2>1, <2>5, <2>6
  <2> QED  BY <1>5, <2>5, <2>6, <2>7
<1> QED  BY <1>3, <1>4, <1>5

\* What the steps of a driver that does not know its calm printer's model lead to.
Promised ==
  /\ st'.tried <= Len(Speeds)
  /\ st'.m # "NULL" => st'.m = pr'.kind
  /\ st'.m = "NULL" /\ at' # "over" => AtRest(pr') /\ ((Hunting' /\ CalmHunt') \/ (Found' /\ CalmFound'))

LEMMA CalmFacts ==
  ASSUME Sound, FrameInv, CalmInv, Hoping
  PROVE  /\ Main /\ AtRest(pr) /\ ((Hunting /\ CalmHunt) \/ (Found /\ CalmFound))
         /\ st.m = "NULL" /\ st.tried <= Len(Speeds) /\ st.tried \in Nat \ {0} /\ Len(Speeds) \in Nat
         /\ pr \in Printers /\ pr.kind \in DOMAIN Models /\ "NULL" \notin DOMAIN Models
         /\ tty.rx \in Seq(Messages) /\ pr.owed \in Seq(Messages)
<1>1. st \in States /\ tty \in Ports /\ pr \in Printers /\ caller = "main" /\ frame \in {"main", "handler"}
  BY SoundFacts, Types DEF Sound, Hoping
<1>2. st.tried \in Nat \ {0} /\ tty.rx \in Seq(Messages) /\ pr.owed \in Seq(Messages) /\ Len(Speeds) \in Nat
  BY <1>1, NumbersType DEF States, Ports, Printers
<1>3. AtRest(pr) /\ ((Hunting /\ CalmHunt) \/ (Found /\ CalmFound)) /\ st.tried <= Len(Speeds)
  BY DEF CalmInv, Hoping
<1>4. pr.kind \in DOMAIN Models /\ "NULL" \notin DOMAIN Models
  BY <1>1, <1>3, ProAssumption DEF AtRest, Printers
<1>5. Main
  BY <1>1 DEF Main, FrameInv, Hoping
<1> QED  BY <1>1, <1>2, <1>3, <1>4, <1>5 DEF Hoping

\* What it hears.
LEMMA CalmHears ==
  ASSUME Sound
  PROVE  /\ tty.rx = <<>> => Sensed.m = st.m /\ ~Answered /\ ~Came("ping", tty.rx)
         /\ tty.rx = <<>> /\ st.ps = {} => Sensed.ps = {}
         /\ tty.rx = <<"ping">> => Sensed.m = st.m /\ Came("ping", tty.rx)
         /\ tty.rx = <<"idle">> => Sensed.m = st.m /\ "idle" \in Sensed.ps
         /\ tty.rx = <<"model">> => Sensed.m = pr.kind
<1>1. /\ tty.rx = <<>> => Sensed.ps = st.ps \ {"ping"}
      /\ tty.rx = <<"idle">> => "idle" \in Sensed.ps
      /\ IF Came("model", tty.rx) THEN Sensed.m = pr.kind ELSE Sensed.m = st.m
  BY SensedFacts DEF Sound
<1>2. DOMAIN <<>> = {}
  OBVIOUS
<1>3. tty.rx = <<>> => ~Answered
  BY <1>2 DEF Answered
<1>4. ASSUME NEW b, tty.rx = <<>> PROVE ~Came(b, tty.rx)
  <2>1. ~Came(b, <<>>)
    BY CameEmpty
  <2> QED  BY <1>4, <2>1
<1>5. ASSUME NEW x, NEW b, tty.rx = <<x>> PROVE Came(b, tty.rx) <=> b = x
  <2>1. Came(b, <<x>>) <=> b = x
    BY CameOne
  <2> QED  BY <1>5, <2>1
<1>6. /\ tty.rx = <<>> => Sensed.m = st.m
      /\ tty.rx = <<"ping">> => Sensed.m = st.m
      /\ tty.rx = <<"idle">> => Sensed.m = st.m
      /\ tty.rx = <<"model">> => Sensed.m = pr.kind
  BY <1>1, <1>4, <1>5
<1>7. /\ tty.rx = <<>> /\ st.ps = {} => Sensed.ps = {}
      /\ tty.rx = <<"idle">> => "idle" \in Sensed.ps
  BY <1>1
<1> QED  BY <1>3, <1>4, <1>5, <1>6, <1>7

\* force() brings the printer to where it expects a command, if it listens.
LEMMA CalmForce ==
  ASSUME Sound, ThenInv, FrameInv, CalmInv, Hoping, ForceIdle
  PROVE  Promised
<1>1. /\ at = "force" /\ then \in {"ping", "hunt", "stopped"} /\ Main
      /\ (Hunting /\ CalmHunt) \/ (Found /\ CalmFound)
  BY CalmFacts, ForceSteps DEF ThenInv
<1>2. then = "ping" /\ Tuned /\ CalmHunt
  <2>1. ~Forcing("hunt") /\ ~Found
    BY <1>1 DEF FrameInv, Main, Found, Forcing, Waiting
  <2> QED  BY <1>1, <2>1 DEF Hunting, Tuned, Forcing
<1>3. st.ps = {} /\ tty.rx = <<>> /\ pr.owed = <<>>
  BY <1>1, <1>2 DEF CalmHunt, None
<1>4. Sensed.ps = {} /\ Sensed.m = "NULL"
  BY <1>3, CalmFacts, CalmHears
<1>5. /\ Stays /\ st'.m = "NULL" /\ st'.ps = {} /\ st'.tried = st.tried
      /\ tty'.rate = tty.rate /\ tty'.rx = <<>>
  BY <1>3, <1>4, CalmFacts, ForceSteps DEF Heeds, Hushed, Alike
<1>6. CASE at' = at
  <2>1. Receives(NOP) /\ st'.todo = st.todo + 1
    BY <1>1, <1>2, <1>6, ForceSteps
  <2>2. /\ AtRest(pr') /\ pr'.kind = pr.kind /\ pr'.rate = pr.rate /\ pr'.owed = <<>>
        /\ SameRate => pr'.mode = "cmd"
    BY <1>3, <2>1, CalmFacts, RestingByte
  <2>3. Tuned' /\ Hunting' /\ (SameRate' <=> SameRate)
    BY <1>1, <1>2, <1>5, <1>6, <2>2 DEF Tuned, Hunting, Forcing, SameRate, Stays
  <2>4. CalmHunt'
    BY <1>1, <1>2, <1>5, <1>6, <2>2, <2>3 DEF CalmHunt, None
  <2> QED  BY <1>5, <2>2, <2>3, <2>4, CalmFacts DEF Promised
<1>7. CASE at' # at
  <2>1. at' = "ping" /\ pr' = pr /\ st.todo >= st.nslices + 2
    BY <1>2, <1>4, <1>7, ForceSteps
  <2>2. st.todo > 0
    <3>1. st.todo \in Nat /\ st.nslices \in Nat
      BY SoundFacts, NumbersType DEF States
    <3> QED  BY <2>1, <3>1
  <2>3. Tuned' /\ Hunting' /\ (SameRate' <=> SameRate)
    BY <1>5, <2>1 DEF Tuned, Hunting, SameRate
  <2>4. CalmHunt'
    BY <1>2, <1>3, <1>5, <2>1, <2>2, <2>3 DEF CalmHunt, None
  <2> QED  BY <1>5, <2>1, <2>3, <2>4, CalmFacts DEF Promised
<1> QED  BY <1>6, <1>7

\* The next speed is tuned to, or left out if the host does not have it: the printer has another.
LEMMA CalmTry ==
  ASSUME Sound, ThenInv, FrameInv, CalmInv, Hoping, TrySpeed
  PROVE  Promised
<1>1. at = "hunt" /\ CalmHunt /\ AtRest(pr)
  BY CalmFacts, FindSteps DEF Found, Waiting
<1>2. st.ps = {} /\ tty.rx = <<>> /\ pr.owed = <<>> /\ pr' = pr
  BY <1>1, FindSteps DEF CalmHunt, None
<1>3. CASE Speeds[st.tried] \in HostRates
  <2>1. /\ tty'.rx = <<>> /\ st'.ps = {} /\ st'.m = "NULL" /\ st'.tried = st.tried
        /\ st'.todo = 0 /\ at' = "force" /\ then' = "ping"
    BY <1>2, <1>3, CalmFacts, FindSteps DEF Tunes, Alike
  <2>2. Hunting' /\ CalmHunt'
    BY <1>1, <1>2, <2>1 DEF CalmHunt, None, Hunting, Tuned, Forcing
  <2> QED  BY <1>1, <1>2, <2>1, <2>2, CalmFacts DEF Promised
<1>4. CASE Speeds[st.tried] \notin HostRates
  <2>1. tty' = tty /\ st'.ps = {} /\ st'.m = "NULL" /\ st'.tried = st.tried + 1 /\ at' = at
    BY <1>2, <1>4, CalmFacts, FindSteps DEF Alike
  <2>2. PICK i \in st.tried..Len(Speeds) : Speeds[i] = pr.rate
    BY <1>1 DEF CalmHunt
  <2>3. i # st.tried /\ pr.rate \in HostRates
    BY <1>1, <1>4, <2>2 DEF CalmHunt
  <2>4. i \in st.tried + 1..Len(Speeds) /\ st.tried + 1 <= Len(Speeds)
    BY <2>3, CalmFacts
  <2>5. \E j \in st'.tried..Len(Speeds) : Speeds[j] = pr'.rate
    BY <1>2, <2>1, <2>2, <2>4
  <2>6. Hunting' /\ CalmHunt'
    BY <1>1, <1>2, <2>1, <2>3, <2>5 DEF CalmHunt, None, Hunting, Tuned, Forcing
  <2> QED  BY <1>1, <1>2, <2>1, <2>4, <2>6 DEF Promised
<1> QED  BY <1>3, <1>4

\* A printer at the rate of the port answers the ping.
LEMMA CalmPing ==
  ASSUME Sound, ThenInv, FrameInv, CalmInv, Hoping, SendPing
  PROVE  Promised
<1>1. at = "ping" /\ CalmHunt /\ AtRest(pr) /\ Tuned
  BY CalmFacts, FindSteps DEF Found, Waiting, Tuned
<1>2. st.ps = {} /\ tty.rx = <<>> /\ pr.owed = <<>> /\ (SameRate => pr.mode = "cmd")
  BY <1>1 DEF CalmHunt, None
<1>3. Receives(PING) /\ at' = "pinged" /\ st' = st /\ tty' = tty
  BY FindSteps
<1>4. /\ AtRest(pr') /\ pr'.kind = pr.kind /\ pr'.rate = pr.rate
      /\ SameRate => pr'.mode = "cmd" /\ pr'.owed = <<"ping">>
      /\ ~SameRate => pr'.owed = <<>>
  <2>1. PING # NOP /\ PING # MODEL /\ Append(<<>>, "ping") = <<"ping">>
    BY DEF PING, NOP, MODEL
  <2> QED  BY <1>1, <1>2, <1>3, <2>1, RestingByte, CalmFacts
<1>5. Hunting' /\ CalmHunt'
  BY <1>1, <1>2, <1>3, <1>4 DEF CalmHunt, None, Only, Hunting, Tuned, SameRate, Forcing
<1> QED  BY <1>3, <1>4, <1>5, CalmFacts DEF Promised

\* The answer is awaited; without one, the printer is at one of the next speeds.
LEMMA CalmPinged ==
  ASSUME Sound, CountInv, FrameInv, CalmInv, Hoping, Pinged, luck'.late = 0
  PROVE  Promised
<1>1. at = "pinged" /\ CalmHunt /\ AtRest(pr) /\ Tuned /\ pr' = pr /\ (Answered \/ Silence(FALSE))
  BY CalmFacts, FindSteps DEF Found, Waiting, Tuned, Patient
<1>2. st.ps = {} /\ st.m = "NULL"
  BY <1>1, CalmFacts DEF CalmHunt
<1>3. CASE SameRate
  <2>1. Only("ping")
    BY <1>1, <1>3 DEF CalmHunt
  <2>2. tty.rx = <<"ping">> /\ pr.owed = <<>>
    BY <1>1, <2>1, CalmHears DEF Only, Silence
  <2>3. at' = "verify" /\ st'.m = "NULL" /\ st'.tried = st.tried /\ tty'.rx = <<>>
    BY <1>2, <2>2, CalmHears, FindSteps DEF Heeds, Hushed, Alike
  <2>4. Found' /\ CalmFound'
    BY <1>1, <2>2, <2>3 DEF Found, CalmFound, None
  <2> QED  BY <1>1, <2>3, <2>4, CalmFacts DEF Promised
<1>4. CASE ~SameRate
  <2>1. tty.rx = <<>> /\ pr.owed = <<>>
    BY <1>1, <1>4 DEF CalmHunt, None
  <2>2. /\ at' = "hunt" /\ st'.m = "NULL" /\ st'.tried = st.tried + 1 /\ tty'.rx = <<>>
        /\ st'.ps = {}
    BY <1>2, <2>1, CalmHears, FindSteps DEF Heeds, Hushed, Alike
  <2>3. PICK i \in st.tried..Len(Speeds) : Speeds[i] = pr.rate
    BY <1>1 DEF CalmHunt
  <2>4. i # st.tried
    BY <1>1, <1>4, <2>3 DEF CountInv, SameRate
  <2>5. i \in st.tried + 1..Len(Speeds) /\ st.tried + 1 <= Len(Speeds)
    BY <2>4, CalmFacts
  <2>6. \E j \in st'.tried..Len(Speeds) : Speeds[j] = pr'.rate
    BY <1>1, <2>2, <2>3, <2>5
  <2>7. Hunting' /\ CalmHunt'
    BY <1>1, <2>1, <2>2, <2>6 DEF CalmHunt, None, Hunting, Tuned, Forcing
  <2> QED  BY <1>1, <2>2, <2>5, <2>7 DEF Promised
<1> QED  BY <1>3, <1>4

\* A status is asked for, and the model: there is an answer, but not from an SLP-Pro.
LEMMA CalmAsk ==
  ASSUME Sound, FrameInv, FoundInv, CalmInv, Hoping, Verify \/ AskModel
  PROVE  Promised
<1>1. at \in {"verify", "model"} /\ Found /\ CalmFound /\ AtRest(pr) /\ st.m = "NULL"
  BY CalmFacts, FindSteps DEF Found, Waiting, Hunting, Tuned, Forcing
<1>2. tty.rx = <<>> /\ pr.owed = <<>> /\ SameRate /\ pr.mode = "cmd"
  BY <1>1 DEF CalmFound, None, FoundInv
<1>3. STATUS # NOP /\ MODEL # NOP /\ MODEL # STATUS /\ PING # STATUS /\ PING # MODEL
  BY DEF STATUS, NOP, MODEL, PING
<1>4. CASE Verify
  <2>1. Receives(STATUS) /\ at' = "idle" /\ then' = "model" /\ st'.m = "NULL" /\ st'.tried = st.tried /\ tty'.rx = <<>>
    BY <1>1, <1>4, FindSteps DEF Alike, Hushed
  <2>2. AtRest(pr') /\ pr'.kind = pr.kind /\ pr'.owed = <<"idle">>
    <3>1. Append(<<>>, "idle") = <<"idle">>
      OBVIOUS
    <3> QED  BY <1>1, <1>2, <1>3, <2>1, <3>1, RestingByte
  <2>3. Found' /\ CalmFound'
    BY <2>1, <2>2 DEF Found, Waiting, CalmFound, Only
  <2> QED  BY <2>1, <2>2, <2>3, CalmFacts DEF Promised
<1>5. CASE AskModel
  <2>1. Receives(MODEL) /\ at' = "modelled" /\ st'.m = "NULL" /\ st'.tried = st.tried /\ tty' = tty
    BY <1>1, <1>5, FindSteps DEF Alike
  <2>2. /\ AtRest(pr') /\ pr'.kind = pr.kind
        /\ pr'.owed = IF Models[pr.kind].modern THEN <<"model">> ELSE <<>>
    <3>1. Append(<<>>, "model") = <<"model">>
      OBVIOUS
    <3> QED  BY <1>1, <1>2, <1>3, <2>1, <3>1, RestingByte
  <2>3. Found' /\ CalmFound'
    BY <1>2, <2>1, <2>2 DEF Found, Waiting, CalmFound, Only, None
  <2> QED  BY <2>1, <2>2, <2>3, CalmFacts DEF Promised
<1> QED  BY <1>4, <1>5

\* The status is "idle".
LEMMA CalmIdle ==
  ASSUME Sound, ThenInv, FrameInv, CalmInv, Hoping, WaitIdle, luck'.late = 0
  PROVE  Promised
<1>1. at = "idle" /\ pr' = pr /\ (Answered \/ Silence(TRUE))
  BY IdleSteps DEF Patient
<1>2. Found /\ CalmFound /\ AtRest(pr) /\ then = "model" /\ st.m = "NULL"
  BY <1>1, CalmFacts DEF Found, Waiting, Hunting, Tuned, Forcing
<1>3. tty.rx = <<"idle">> /\ pr.owed = <<>>
  BY <1>1, <1>2, CalmHears DEF CalmFound, Only, Silence
<1>4. at' = "model" /\ st'.m = "NULL" /\ st'.tried = st.tried /\ tty'.rx = <<>>
  BY <1>2, <1>3, CalmHears, IdleSteps DEF Heeds, Hushed, Alike, OnTimeout
<1>5. Found' /\ CalmFound'
  BY <1>1, <1>3, <1>4 DEF Found, CalmFound, None
<1> QED  BY <1>1, <1>2, <1>4, <1>5, CalmFacts DEF Promised

\* The model is the printer's; only an SLP-Pro does not give it.
LEMMA CalmModelled ==
  ASSUME Sound, FrameInv, CalmInv, Hoping, Modelled, luck'.late = 0
  PROVE  Promised
<1>1. at = "modelled" /\ pr' = pr /\ (Answered \/ Silence(FALSE)) /\ Alike(st, st', {"ps", "m"})
  BY FindSteps DEF Patient
<1>2. CalmFound /\ pr.kind \in DOMAIN Models /\ st.m = "NULL" /\ "NULL" \notin DOMAIN Models
  BY <1>1, CalmFacts DEF Found, Waiting, Hunting, Tuned, Forcing
<1>3. st'.m = pr.kind
  <2>1. CASE Models[pr.kind].modern
    <3>1. tty.rx = <<"model">>
      BY <1>1, <1>2, <2>1, CalmHears DEF CalmFound, Only, Silence
    <3> QED  BY <1>2, <3>1, CalmHears, FindSteps
  <2>2. CASE ~Models[pr.kind].modern
    <3>1. tty.rx = <<>> /\ pr.kind = "SLP-Pro"
      BY <1>1, <1>2, <2>2, ProAssumption DEF CalmFound, None
    <3> QED  BY <1>2, <3>1, CalmHears, FindSteps
  <2> QED  BY <2>1, <2>2
<1>4. st'.tried = st.tried
  BY <1>1 DEF Alike
<1> QED  BY <1>1, <1>2, <1>3, <1>4, CalmFacts DEF Promised

\* What it sends arrives as it was sent.
LEMMA CalmTransmit ==
  ASSUME Sound, FrameInv, FoundInv, CalmInv, Hoping, Transmit
  PROVE  Promised
<1>1. /\ at' = at /\ Stays /\ st' = st /\ pr.owed # <<>> /\ pr'.owed = Tail(pr.owed) /\ tty'.rate = tty.rate
      /\ pr'.kind = pr.kind /\ pr'.rate = pr.rate /\ pr'.mode = pr.mode /\ pr'.cmd = pr.cmd
      /\ pr'.busy = pr.busy /\ pr'.jam = pr.jam
      /\ SameRate /\ at # "over" => tty'.rx = Append(tty.rx, Head(pr.owed))
  BY TransmitStep
<1>2. AtRest(pr')
  BY <1>1, CalmFacts DEF AtRest
<1>3. ASSUME NEW b, Only(b), SameRate PROVE Only(b)' /\ ~None
  <2>1. tty.rx = <<>> /\ pr.owed = <<b>>
    BY <1>1, <1>3 DEF Only
  <2>2. Tail(<<b>>) = <<>> /\ Head(<<b>>) = b /\ Append(<<>>, b) = <<b>> /\ <<b>> # <<>>
    OBVIOUS
  <2> QED  BY <1>1, <1>3, <2>1, <2>2 DEF Only, None, Hoping
<1>4. ~None
  BY <1>1 DEF None
<1>5. CASE Hunting /\ CalmHunt
  <2>1. at = "pinged" /\ SameRate /\ Only("ping")
    BY <1>4, <1>5 DEF CalmHunt
  <2>2. SameRate' /\ Only("ping")'
    BY <1>1, <1>3, <2>1 DEF SameRate
  <2>3. Hunting' /\ CalmHunt'
    BY <1>1, <1>5, <2>1, <2>2 DEF CalmHunt, Hunting, Tuned
  <2> QED  BY <1>1, <1>2, <2>3, CalmFacts DEF Promised
<1>6. CASE Found /\ CalmFound
  <2>1. SameRate /\ at \notin {"verify", "model", "check"}
    BY <1>4, <1>6 DEF FoundInv, CalmFound
  <2>2. /\ at = "modelled" => Models[pr.kind].modern /\ Only("model")
        /\ at = "idle" => Only("idle")
    BY <1>4, <1>6 DEF CalmFound
  <2>3. (at = "modelled" => Only("model")') /\ (at = "idle" => Only("idle")')
    BY <1>3, <2>1, <2>2
  <2>4. Found' /\ CalmFound'
    BY <1>1, <1>6, <2>1, <2>2, <2>3 DEF CalmFound, Found, Waiting, Stays
  <2> QED  BY <1>1, <1>2, <2>4, CalmFacts DEF Promised
<1> QED  BY <1>5, <1>6, CalmFacts

\* Nothing else is done while its model is not known, but that a signal kills the driver.
LEMMA CalmActs ==
  ASSUME Sound, ThenInv, FrameInv, KnownInv, CalmInv, Hoping, [Next]_vars
  PROVE  \/ ForceIdle \/ WaitIdle \/ TrySpeed \/ SendPing \/ Pinged \/ Verify \/ AskModel \/ Modelled \/ Transmit
         \/ UNCHANGED vars \/ (st' = st /\ pr'.kind = pr.kind /\ at' = "over")
<1>1. (Hunting \/ Found) /\ Main /\ at \in {"hunt", "ping", "pinged", "verify", "model", "modelled", "force", "idle"}
  BY CalmFacts DEF Hunting, Tuned, Forcing, Found, Waiting, CalmFound
<1>2. st.tried <= Len(Speeds) /\ st.tried \in Nat /\ Len(Speeds) \in Nat
  BY CalmFacts
<1>3. ~CheckIdle /\ ~NotFound /\ ~ChooseSpeed /\ ~SwitchPrinter /\ ~SwitchLocal /\ ~StartSettings /\ ~Set /\ ~Settle
  <2>1. ~NotFound
    BY <1>1, <1>2 DEF NotFound
  <2>2. at \notin {"modes", "tune", "margin", "media"} => ~StartSettings
    BY Zenon DEF StartSettings
  <2>3. ChooseSpeed => at = "speed"
    BY DEF ChooseSpeed
  <2>4. CheckIdle \/ SwitchPrinter => at \in {"check", "switch", "switchCode"}
    BY DEF CheckIdle, SwitchPrinter
  <2>5. ~SwitchLocal /\ ~Set /\ ~Settle
    BY <1>1 DEF SwitchLocal, Set, Settle
  <2> QED  BY <1>1, <2>1, <2>2, <2>3, <2>4, <2>5
<1>4. ~Connected /\ ~Sized /\ ~NextLabel /\ ~Feed /\ ~Band /\ ~BandCheck /\ ~Form /\ ~Fault /\ ~Reset /\ ~GiveUp
  BY <1>1 DEF Connected, Sized, NextLabel, Feed, Band, BandCheck, Form, Fault, Reset, GiveUp
<1>5. ~Error /\ ~Stop /\ ~Stopped /\ ~Eject /\ ~Ask /\ ~Restore /\ ~Close
  BY <1>1 DEF Error, Stop, Stopped, Eject, Ask, Restore, Close
<1>6. ~Rest /\ ~Jams /\ ~Cleared
  BY CalmFacts DEF AtRest, Rest, Jams, Cleared
<1>7. Signal => st' = st /\ pr'.kind = pr.kind /\ at' = "over"
  BY <1>1 DEF Signal, Ends, Goto, Main, FrameInv, Hoping
<1> QED  BY <1>3, <1>4, <1>5, <1>6, <1>7, NextCases

\* A process that is over stays as it is.
LEMMA OverStays ==
  ASSUME [Next]_vars, at = "over"
  PROVE  st' = st /\ tty' = tty /\ at' = at /\ run' = run /\ caller' = caller /\ frame' = frame
<1>1. ~ForceIdle /\ ~WaitIdle /\ ~CheckIdle /\ ~Connect
  BY DEF ForceIdle, WaitIdle, CheckIdle, Connect, TrySpeed, SendPing, Pinged, Verify, NotFound, AskModel, Modelled,
         ChooseSpeed, SwitchPrinter, SwitchLocal, StartSettings, Set, Settle, Connected, Sized
<1>2. ~PrintLabel /\ ~Recover /\ ~Disconnect /\ ~Signal
  BY DEF PrintLabel, NextLabel, Feed, Band, BandCheck, Form, Recover, Fault, Reset, GiveUp, Error,
         Disconnect, Stop, Stopped, Eject, Ask, Restore, Close, Signal
<1>3. Printer => st' = st /\ tty' = tty /\ at' = at /\ run' = run /\ caller' = caller /\ frame' = frame
  BY DEF Printer, Transmit, Rest, Jams, Cleared, calls
<1> QED  BY <1>1, <1>2, <1>3 DEF Next, Driver, Over, vars, calls

LEMMA CalmStep ==
  ASSUME Sound, ThenInv, FrameInv, KnownInv, FoundInv, CalmInv, [Next]_vars
  PROVE  CalmInv'
<1>1. ASSUME Hoping, luck'.late = 0 PROVE Promised
  <2>1. CASE UNCHANGED vars
    <3>1. st' = st /\ pr' = pr /\ at' = at /\ then' = then /\ tty' = tty
      BY <2>1 DEF vars
    <3>2. Hunting' = Hunting /\ CalmHunt' = CalmHunt /\ Found' = Found /\ CalmFound' = CalmFound
      BY <3>1 DEF Hunting, Tuned, Forcing, Found, Waiting, CalmHunt, CalmFound, None, Only, SameRate
    <3> QED  BY <1>1, <3>1, <3>2, CalmFacts DEF Promised
  <2>2. CASE st' = st /\ pr'.kind = pr.kind /\ at' = "over"
    BY <1>1, <2>2, CalmFacts DEF Promised
  <2>3. CASE ForceIdle \/ WaitIdle \/ TrySpeed \/ SendPing \/ Pinged
    BY <1>1, <2>3, CalmForce, CalmIdle, CalmTry, CalmPing, CalmPinged DEF Sound
  <2>4. CASE Verify \/ AskModel \/ Modelled \/ Transmit
    BY <1>1, <2>4, CalmAsk, CalmModelled, CalmTransmit
  <2> QED  BY <1>1, <2>1, <2>2, <2>3, <2>4, CalmActs
<1>2. /\ luck'.calm = luck.calm /\ (luck'.late = 0 => luck.late = 0)
      /\ pr'.kind = pr.kind /\ (caller' = "main" => caller = "main")
      /\ caller' = "main" /\ st.m # "NULL" => st'.m \in {st.m, pr.kind} /\ st'.tried = st.tried
      /\ at' # "over" => at # "over"
  BY CalmFrame
<1>3. luck'.calm => pr'.kind # "nothing"
  BY <1>2 DEF CalmInv
<1>4. ASSUME luck'.calm, luck'.late = 0, caller' = "main"
      PROVE  st'.tried <= Len(Speeds) /\ (st'.m # "NULL" => st'.m = pr'.kind) /\ (Hoping => Promised)
  <2>1. CASE Hoping
    BY <1>1, <1>4, <2>1 DEF Promised
  <2>2. CASE st.m # "NULL"
    BY <1>2, <1>4, <2>2 DEF CalmInv, Hoping
  <2>3. CASE at = "over"
    <3>1. st' = st
      BY <2>3, OverStays
    <3> QED  BY <1>2, <1>4, <2>3, <3>1 DEF CalmInv, Hoping
  <2> QED  BY <1>2, <1>4, <2>1, <2>2, <2>3 DEF Hoping
<1>5. ASSUME Hoping' PROVE AtRest(pr') /\ ((Hunting' /\ CalmHunt') \/ (Found' /\ CalmFound'))
  <2>1. luck'.calm /\ luck'.late = 0 /\ caller' = "main" /\ st'.m = "NULL" /\ at' # "over"
    BY <1>5 DEF Hoping
  <2>2. luck.calm /\ luck.late = 0 /\ caller = "main" /\ at # "over"
    BY <1>2, <2>1
  <2>3. st.m = "NULL"
    <3>1. st.m # "NULL" => st.m = pr.kind /\ st'.m \in {st.m, pr.kind}
      BY <1>2, <2>1, <2>2 DEF CalmInv
    <3> QED  BY <2>1, <3>1
  <2> QED  BY <1>1, <2>1, <2>2, <2>3 DEF Promised, Hoping
<1> QED  BY <1>3, <1>4, <1>5 DEF CalmInv


LEMMA DefaultStep ==
  ASSUME Sound, ThenInv, FrameInv, KnownInv, StepInv, RateInv, JamInv, ClearInv, CalmInv, DefaultInv, [Next]_vars
  PROVE  DefaultInv'
<1>1. caller \in {"main", "fault"} /\ frame \in {"main", "handler"}
  BY Types DEF Sound
<1>2. \A b \in Nat : Receives(b) => Parsed(b)
  BY ByteSteps
<1>3. NothingInv /\ (run.outcome = "done" => at = "over")
  BY DEF Sound, CountInv
<1>4. Main /\ st.m # "NULL" /\ luck.calm /\ luck.late = 0 => st.m = pr.kind /\ Sensed.m = st.m
  BY Hears DEF CalmInv, Main
<1>5. st.m # "NULL" => st.m \in DOMAIN Models /\ Models[st.m].default \in Rates
  BY SoundFacts, ModelType DEF States
<1>6. st.speed \in Rates => RateOf(pr, Code(st.speed)) = st.speed
  BY CodeType
<1>7. KnownLimit /\ st.speed \in Rates => Limited(st.speed) \in Rates
  BY DEF KnownLimit, Limited
<1>8. Main /\ st.m # "NULL" /\ at # "over" => pr.mode = SessionMode
  BY DEF StepInv
<1>9. luck.troubles = 0 => "jam" \notin st.ps
  BY DEF JamInv
<1>10. CASE ForceIdle
  BY SentType, BytesDiffer, ExpectsFacts, <1>1, <1>2, <1>3, <1>4, <1>5, <1>6, <1>7, <1>8, <1>9, <1>10, ForceSteps
  DEF DefaultInv, AtDefault, KnownLimit, Limited, ThenInv, FrameInv, KnownInv, RateInv, SessionMode, SameRate, Parsed, Waiting, Forcing, Switching, Tuned, Hunting, Found, Connecting, Labelling, Forming, Resetting, Leaving, Restoring, Main, Setting, Alike, Heeds, Hushed, Stays
<1>11. CASE WaitIdle
  <2> SUFFICES ASSUME Main', st'.m # "NULL", KnownLimit', luck'.calm, luck'.late = 0
               PROVE  /\ Switching("close")' /\ at' = "switch" => st'.speed = Models[st'.m].default
                      /\ Switching("close")' /\ at' = "switchCode" => st'.speed = Limited(Models[st.m].default)'
                      /\ Waiting("close")' \/ (Switching("close")' /\ at' = "switchLocal") => AtDefault'
                      /\ luck'.troubles = 0 /\ (at' = "close" \/ run'.outcome = "done") => AtDefault'
    BY DEF DefaultInv
  <2>1. /\ Stays /\ Main /\ pr' = pr /\ run' = run /\ st'.maxbaud = st.maxbaud /\ KnownLimit /\ luck.calm /\ luck.late = 0
        /\ at \in {"idle", "check"} /\ at' \in {then, "idle", "check", "fault", OnTimeout} /\ st'.m = Sensed.m
    BY <1>11, IdleSteps DEF Main, Stays, Patient, Heeds, Alike, KnownLimit
  <2>2. at' \notin {"over", "switch", "switchCode", "switchLocal"} /\ run'.outcome # "done"
    BY <1>3, <2>1 DEF ThenInv, OnTimeout
  <2>3. CASE then = "close"
    <3>1. st.m # "NULL" /\ AtDefault
      BY <2>1, <2>3 DEF DefaultInv, KnownInv, Waiting, Hunting, Tuned, Forcing, Found, Leaving
    <3>2. AtDefault'
      BY <1>4, <2>1, <3>1 DEF AtDefault, Limited
    <3> QED  BY <2>2, <3>2 DEF Switching
  <2>4. CASE then # "close"
    <3>1. at' # "close" /\ ~Waiting("close")'
      BY <2>1, <2>4 DEF OnTimeout, Waiting, Stays
    <3> QED  BY <2>2, <3>1 DEF Switching
  <2> QED  BY <2>3, <2>4
<1>12. CASE CheckIdle
  <2> SUFFICES ASSUME Main', st'.m # "NULL", KnownLimit', luck'.calm, luck'.late = 0
               PROVE  /\ Switching("close")' /\ at' = "switch" => st'.speed = Models[st'.m].default
                      /\ Switching("close")' /\ at' = "switchCode" => st'.speed = Limited(Models[st.m].default)'
                      /\ Waiting("close")' \/ (Switching("close")' /\ at' = "switchLocal") => AtDefault'
                      /\ luck'.troubles = 0 /\ (at' = "close" \/ run'.outcome = "done") => AtDefault'
    BY DEF DefaultInv
  <2>1. /\ Stays /\ Main /\ pr' = pr /\ run' = run /\ st'.maxbaud = st.maxbaud /\ KnownLimit /\ luck.calm /\ luck.late = 0
        /\ at \in {"idle", "check"} /\ at' \in {then, "idle", "check", "fault", OnTimeout} /\ st'.m = Sensed.m
    BY <1>12, IdleSteps DEF Main, Stays, Patient, Heeds, Alike, KnownLimit
  <2>2. at' \notin {"over", "switch", "switchCode", "switchLocal"} /\ run'.outcome # "done"
    BY <1>3, <2>1 DEF ThenInv, OnTimeout
  <2>3. CASE then = "close"
    <3>1. st.m # "NULL" /\ AtDefault
      BY <2>1, <2>3 DEF DefaultInv, KnownInv, Waiting, Hunting, Tuned, Forcing, Found, Leaving
    <3>2. AtDefault'
      BY <1>4, <2>1, <3>1 DEF AtDefault, Limited
    <3> QED  BY <2>2, <3>2 DEF Switching
  <2>4. CASE then # "close"
    <3>1. at' # "close" /\ ~Waiting("close")'
      BY <2>1, <2>4 DEF OnTimeout, Waiting, Stays
    <3> QED  BY <2>2, <3>1 DEF Switching
  <2> QED  BY <2>3, <2>4
<1>13. CASE TrySpeed
  BY SentType, BytesDiffer, ExpectsFacts, <1>1, <1>2, <1>3, <1>4, <1>5, <1>6, <1>7, <1>8, <1>9, <1>13, FindSteps
  DEF DefaultInv, AtDefault, KnownLimit, Limited, ThenInv, FrameInv, KnownInv, RateInv, SessionMode, SameRate, Parsed, Waiting, Forcing, Switching, Tuned, Hunting, Found, Connecting, Labelling, Forming, Resetting, Leaving, Restoring, Main, Setting, Alike, Alone, Tunes
<1>14. CASE Pinged
  BY SentType, BytesDiffer, ExpectsFacts, <1>1, <1>2, <1>3, <1>4, <1>5, <1>6, <1>7, <1>8, <1>9, <1>14, FindSteps
  DEF DefaultInv, AtDefault, KnownLimit, Limited, ThenInv, FrameInv, KnownInv, RateInv, SessionMode, SameRate, Parsed, Waiting, Forcing, Switching, Tuned, Hunting, Found, Connecting, Labelling, Forming, Resetting, Leaving, Restoring, Main, Setting, Alike, Heeds, Hushed, Patient, Stays
<1>15. CASE SendPing \/ Verify \/ AskModel
  BY SentType, BytesDiffer, ExpectsFacts, <1>1, <1>2, <1>3, <1>4, <1>5, <1>6, <1>7, <1>8, <1>9, <1>15, FindSteps
  DEF DefaultInv, AtDefault, KnownLimit, Limited, ThenInv, FrameInv, KnownInv, RateInv, SessionMode, SameRate, Parsed, Waiting, Forcing, Switching, Tuned, Hunting, Found, Connecting, Labelling, Forming, Resetting, Leaving, Restoring, Main, Setting, Stays, Alike, Alone, Hushed
<1>16. CASE NotFound
  BY SentType, BytesDiffer, ExpectsFacts, <1>1, <1>2, <1>3, <1>4, <1>5, <1>6, <1>7, <1>8, <1>9, <1>16, FindSteps
  DEF DefaultInv, AtDefault, KnownLimit, Limited, ThenInv, FrameInv, KnownInv, RateInv, SessionMode, SameRate, Parsed, Waiting, Forcing, Switching, Tuned, Hunting, Found, Connecting, Labelling, Forming, Resetting, Leaving, Restoring, Main, Setting, Stays
<1>17. CASE Modelled
  BY SentType, BytesDiffer, ExpectsFacts, <1>1, <1>2, <1>3, <1>4, <1>5, <1>6, <1>7, <1>8, <1>9, <1>17, FindSteps
  DEF DefaultInv, AtDefault, KnownLimit, Limited, ThenInv, FrameInv, KnownInv, RateInv, SessionMode, SameRate, Parsed, Waiting, Forcing, Switching, Tuned, Hunting, Found, Connecting, Labelling, Forming, Resetting, Leaving, Restoring, Main, Setting, Alike, Hushed, Patient, Stays
<1>18. CASE ChooseSpeed
  BY SentType, BytesDiffer, ExpectsFacts, <1>1, <1>2, <1>3, <1>4, <1>5, <1>6, <1>7, <1>8, <1>9, <1>18, ConnectSteps
  DEF DefaultInv, AtDefault, KnownLimit, Limited, ThenInv, FrameInv, KnownInv, RateInv, SessionMode, SameRate, Parsed, Waiting, Forcing, Switching, Tuned, Hunting, Found, Connecting, Labelling, Forming, Resetting, Leaving, Restoring, Main, Setting, Alike, Alone, Level
<1>19. CASE SwitchPrinter
  <2> SUFFICES ASSUME Main', st'.m # "NULL", KnownLimit', luck'.calm, luck'.late = 0
               PROVE  /\ Switching("close")' /\ at' = "switch" => st'.speed = Models[st'.m].default
                      /\ Switching("close")' /\ at' = "switchCode" => st'.speed = Limited(Models[st.m].default)'
                      /\ Waiting("close")' \/ (Switching("close")' /\ at' = "switchLocal") => AtDefault'
                      /\ luck'.troubles = 0 /\ (at' = "close" \/ run'.outcome = "done") => AtDefault'
    BY DEF DefaultInv
  <2>1. /\ Stays /\ Main /\ run' = run /\ tty' = tty /\ st'.m = st.m /\ st'.maxbaud = st.maxbaud
        /\ KnownLimit /\ luck.calm /\ luck.late = 0
        /\ \/ at = "switch" /\ at' = "switchCode" /\ st'.speed = Limited(st.speed)
           \/ at = "switchCode" /\ at' = "switchLocal" /\ Receives(Code(st.speed)) /\ st' = st
    BY <1>19, ConnectSteps DEF Main, Stays, Alike, KnownLimit
  <2>2. run'.outcome # "done" /\ st.m # "NULL"
    BY <1>3, <2>1
  <2>3. CASE then = "close"
    <3> DEFINE here == Limited(Models[st.m].default)
    <3>1. at = "switch" => st.speed = Models[st.m].default
      BY <2>1, <2>2, <2>3 DEF DefaultInv, Switching
    <3>3. at = "switchCode" => st.speed = here
      BY <2>1, <2>2, <2>3 DEF DefaultInv, Switching
    <3>4. Limited(Models[st.m].default)' = here
      BY <2>1 DEF Limited
    <3>5. at = "switchCode" => st.speed \in Rates
      BY <2>1, <2>2 DEF RateInv
    <3> HIDE DEF here
    <3>2. ASSUME at = "switchCode" PROVE AtDefault'
      <4>1. SameRate /\ pr.mode = "rate" /\ pr.kind # "nothing"
        BY <1>3, <1>8, <2>1, <2>2, <3>2 DEF RateInv, SessionMode, Waiting, NothingInv
      <4>2. pr'.mode = "cmd" /\ pr'.rate = st.speed
        BY <1>2, <1>6, <2>1, <3>2, <3>5, <4>1, SentType DEF Parsed
      <4> QED  BY <3>2, <3>3, <3>4, <4>2 DEF AtDefault
    <3>6. at = "switch" => st'.speed = here
      BY <2>1, <3>1 DEF here
    <3> QED  BY <2>1, <2>2, <2>3, <3>2, <3>4, <3>6 DEF Waiting
  <2>4. CASE then # "close"
    BY <2>1, <2>2, <2>4 DEF Switching, Waiting, Stays
  <2> QED  BY <2>3, <2>4
<1>20. CASE SwitchLocal
  BY SentType, BytesDiffer, ExpectsFacts, <1>1, <1>2, <1>3, <1>4, <1>5, <1>6, <1>7, <1>8, <1>9, <1>20, ConnectSteps
  DEF DefaultInv, AtDefault, KnownLimit, Limited, ThenInv, FrameInv, KnownInv, RateInv, SessionMode, SameRate, Parsed, Waiting, Forcing, Switching, Tuned, Hunting, Found, Connecting, Labelling, Forming, Resetting, Leaving, Restoring, Main, Setting, Stays, Tunes
<1>21. CASE StartSettings
  BY SentType, BytesDiffer, ExpectsFacts, <1>1, <1>2, <1>3, <1>4, <1>5, <1>6, <1>7, <1>8, <1>9, <1>21, ConnectSteps
  DEF DefaultInv, AtDefault, KnownLimit, Limited, ThenInv, FrameInv, KnownInv, RateInv, SessionMode, SameRate, Parsed, Waiting, Forcing, Switching, Tuned, Hunting, Found, Connecting, Labelling, Forming, Resetting, Leaving, Restoring, Main, Setting, Alike, Alone
<1>22. CASE Set
  BY SentType, BytesDiffer, ExpectsFacts, <1>1, <1>2, <1>3, <1>4, <1>5, <1>6, <1>7, <1>8, <1>9, <1>22, ConnectSteps
  DEF DefaultInv, AtDefault, KnownLimit, Limited, ThenInv, FrameInv, KnownInv, RateInv, SessionMode, SameRate, Parsed, Waiting, Forcing, Switching, Tuned, Hunting, Found, Connecting, Labelling, Forming, Resetting, Leaving, Restoring, Main, Setting, Alike, Stays
<1>23. CASE Settle \/ Connected \/ Sized
  BY SentType, BytesDiffer, ExpectsFacts, <1>1, <1>2, <1>3, <1>4, <1>5, <1>6, <1>7, <1>8, <1>9, <1>23, ConnectSteps
  DEF DefaultInv, AtDefault, KnownLimit, Limited, ThenInv, FrameInv, KnownInv, RateInv, SessionMode, SameRate, Parsed, Waiting, Forcing, Switching, Tuned, Hunting, Found, Connecting, Labelling, Forming, Resetting, Leaving, Restoring, Main, Setting, Alone, Stays, Alike
<1>24. CASE NextLabel
  BY SentType, BytesDiffer, ExpectsFacts, <1>1, <1>2, <1>3, <1>4, <1>5, <1>6, <1>7, <1>8, <1>9, <1>24, PrintSteps
  DEF DefaultInv, AtDefault, KnownLimit, Limited, ThenInv, FrameInv, KnownInv, RateInv, SessionMode, SameRate, Parsed, Waiting, Forcing, Switching, Tuned, Hunting, Found, Connecting, Labelling, Forming, Resetting, Leaving, Restoring, Main, Setting, Alike, Stays
<1>25. CASE Feed
  BY SentType, BytesDiffer, ExpectsFacts, <1>1, <1>2, <1>3, <1>4, <1>5, <1>6, <1>7, <1>8, <1>9, <1>25, PrintSteps
  DEF DefaultInv, AtDefault, KnownLimit, Limited, ThenInv, FrameInv, KnownInv, RateInv, SessionMode, SameRate, Parsed, Waiting, Forcing, Switching, Tuned, Hunting, Found, Connecting, Labelling, Forming, Resetting, Leaving, Restoring, Main, Setting, Alike, Heeds, Hushed, Patient, Stays
<1>26. CASE Band
  BY SentType, BytesDiffer, ExpectsFacts, <1>1, <1>2, <1>3, <1>4, <1>5, <1>6, <1>7, <1>8, <1>9, <1>26, PrintSteps
  DEF DefaultInv, AtDefault, KnownLimit, Limited, ThenInv, FrameInv, KnownInv, RateInv, SessionMode, SameRate, Parsed, Waiting, Forcing, Switching, Tuned, Hunting, Found, Connecting, Labelling, Forming, Resetting, Leaving, Restoring, Main, Setting, Alike, Heeds, Hushed, Stays
<1>27. CASE BandCheck \/ Form
  BY SentType, BytesDiffer, ExpectsFacts, <1>1, <1>2, <1>3, <1>4, <1>5, <1>6, <1>7, <1>8, <1>9, <1>27, PrintSteps
  DEF DefaultInv, AtDefault, KnownLimit, Limited, ThenInv, FrameInv, KnownInv, RateInv, SessionMode, SameRate, Parsed, Waiting, Forcing, Switching, Tuned, Hunting, Found, Connecting, Labelling, Forming, Resetting, Leaving, Restoring, Main, Setting, Alike, Alone, Heeds, Hushed
<1>28. CASE Fault \/ Reset
  BY SentType, BytesDiffer, ExpectsFacts, <1>1, <1>2, <1>3, <1>4, <1>5, <1>6, <1>7, <1>8, <1>9, <1>28, RecoverSteps
  DEF DefaultInv, AtDefault, KnownLimit, Limited, ThenInv, FrameInv, KnownInv, RateInv, SessionMode, SameRate, Parsed, Waiting, Forcing, Switching, Tuned, Hunting, Found, Connecting, Labelling, Forming, Resetting, Leaving, Restoring, Main, Setting, Alike, Alone, Hushed, Tunes
<1>29. CASE GiveUp
  BY SentType, BytesDiffer, ExpectsFacts, <1>1, <1>2, <1>3, <1>4, <1>5, <1>6, <1>7, <1>8, <1>9, <1>29, RecoverSteps
  DEF DefaultInv, AtDefault, KnownLimit, Limited, ThenInv, FrameInv, KnownInv, RateInv, SessionMode, SameRate, Parsed, Waiting, Forcing, Switching, Tuned, Hunting, Found, Connecting, Labelling, Forming, Resetting, Leaving, Restoring, Main, Setting, Stays
<1>30. CASE Close
  BY SentType, BytesDiffer, ExpectsFacts, <1>1, <1>2, <1>3, <1>4, <1>5, <1>6, <1>7, <1>8, <1>9, <1>30, RecoverSteps
  DEF DefaultInv, AtDefault, KnownLimit, Limited, ThenInv, FrameInv, KnownInv, RateInv, SessionMode, SameRate, Parsed, Waiting, Forcing, Switching, Tuned, Hunting, Found, Connecting, Labelling, Forming, Resetting, Leaving, Restoring, Main, Setting, Stays
<1>31. CASE Error
  BY SentType, BytesDiffer, ExpectsFacts, <1>1, <1>2, <1>3, <1>4, <1>5, <1>6, <1>7, <1>8, <1>9, <1>31, RecoverSteps
  DEF DefaultInv, AtDefault, KnownLimit, Limited, ThenInv, FrameInv, KnownInv, RateInv, SessionMode, SameRate, Parsed, Waiting, Forcing, Switching, Tuned, Hunting, Found, Connecting, Labelling, Forming, Resetting, Leaving, Restoring, Main, Setting
<1>32. CASE Signal
  BY SentType, BytesDiffer, ExpectsFacts, <1>1, <1>2, <1>3, <1>4, <1>5, <1>6, <1>7, <1>8, <1>9, <1>32, RecoverSteps
  DEF DefaultInv, AtDefault, KnownLimit, Limited, ThenInv, FrameInv, KnownInv, RateInv, SessionMode, SameRate, Parsed, Waiting, Forcing, Switching, Tuned, Hunting, Found, Connecting, Labelling, Forming, Resetting, Leaving, Restoring, Main, Setting
<1>33. CASE Stop
  BY SentType, BytesDiffer, ExpectsFacts, <1>1, <1>2, <1>3, <1>4, <1>5, <1>6, <1>7, <1>8, <1>9, <1>33, LeaveSteps
  DEF DefaultInv, AtDefault, KnownLimit, Limited, ThenInv, FrameInv, KnownInv, RateInv, SessionMode, SameRate, Parsed, Waiting, Forcing, Switching, Tuned, Hunting, Found, Connecting, Labelling, Forming, Resetting, Leaving, Restoring, Main, Setting, Alike, Alone, Level
<1>34. CASE Stopped
  <2> SUFFICES ASSUME Main', st'.m # "NULL", KnownLimit', luck'.calm, luck'.late = 0
               PROVE  /\ Switching("close")' /\ at' = "switch" => st'.speed = Models[st'.m].default
                      /\ Switching("close")' /\ at' = "switchCode" => st'.speed = Limited(Models[st.m].default)'
                      /\ Waiting("close")' \/ (Switching("close")' /\ at' = "switchLocal") => AtDefault'
                      /\ luck'.troubles = 0 /\ (at' = "close" \/ run'.outcome = "done") => AtDefault'
    BY DEF DefaultInv
  <2>1. /\ at = "stopped" /\ Main /\ run' = run /\ st' = st /\ luck' = luck
        /\ (at' = "close" /\ st.ps \cap {"garbled", "jam"} # {}) \/ at' \in {"ask", "eject"}
    BY <1>34, LeaveSteps DEF Main, Stays
  <2>2. run'.outcome # "done" /\ "garbled" \notin st.ps
    BY <1>3, <2>1 DEF ClearInv, Clear, Waiting, KnownLimit
  <2> QED  BY <1>9, <2>1, <2>2 DEF Switching, Waiting
<1>35. CASE Ask
  BY SentType, BytesDiffer, ExpectsFacts, <1>1, <1>2, <1>3, <1>4, <1>5, <1>6, <1>7, <1>8, <1>9, <1>35, LeaveSteps
  DEF DefaultInv, AtDefault, KnownLimit, Limited, ThenInv, FrameInv, KnownInv, RateInv, SessionMode, SameRate, Parsed, Waiting, Forcing, Switching, Tuned, Hunting, Found, Connecting, Labelling, Forming, Resetting, Leaving, Restoring, Main, Setting, Alike, Alone
<1>36. CASE Eject \/ Restore
  BY SentType, BytesDiffer, ExpectsFacts, <1>1, <1>2, <1>3, <1>4, <1>5, <1>6, <1>7, <1>8, <1>9, <1>36, LeaveSteps
  DEF DefaultInv, AtDefault, KnownLimit, Limited, ThenInv, FrameInv, KnownInv, RateInv, SessionMode, SameRate, Parsed, Waiting, Forcing, Switching, Tuned, Hunting, Found, Connecting, Labelling, Forming, Resetting, Leaving, Restoring, Main, Setting, Alike, Stays, Alone
<1>37. CASE Transmit
  BY SentType, BytesDiffer, ExpectsFacts, <1>1, <1>2, <1>3, <1>4, <1>5, <1>6, <1>7, <1>8, <1>9, <1>37, TransmitStep
  DEF DefaultInv, AtDefault, KnownLimit, Limited, ThenInv, FrameInv, KnownInv, RateInv, SessionMode, SameRate, Parsed, Waiting, Forcing, Switching, Tuned, Hunting, Found, Connecting, Labelling, Forming, Resetting, Leaving, Restoring, Main, Setting, Stays
<1>38. CASE Rest \/ Jams \/ Cleared
  <2> SUFFICES ASSUME Main', st'.m # "NULL", KnownLimit', luck'.calm, luck'.late = 0
               PROVE  /\ Switching("close")' /\ at' = "switch" => st'.speed = Models[st'.m].default
                      /\ Switching("close")' /\ at' = "switchCode" => st'.speed = Limited(Models[st.m].default)'
                      /\ Waiting("close")' \/ (Switching("close")' /\ at' = "switchLocal") => AtDefault'
                      /\ luck'.troubles = 0 /\ (at' = "close" \/ run'.outcome = "done") => AtDefault'
    BY DEF DefaultInv
  <2>1. /\ at' = at /\ Stays /\ st' = st /\ run' = run /\ luck'.late = luck.late /\ luck'.calm = luck.calm
        /\ pr'.rate = pr.rate /\ pr'.mode = pr.mode
    BY <1>38, MechanismStep
  <2>2. luck'.troubles = 0 => luck.troubles = 0
    <3>1. luck' \in Fates /\ (luck'.troubles = luck.troubles \/ luck'.troubles > 0)
      BY <1>38, MechanismStep
    <3>2. luck'.troubles \in 0..MaxTroubles
      BY <3>1 DEF Fates
    <3> QED  BY <3>1, <3>2, NumbersType
  <2>3. AtDefault' = AtDefault /\ Main /\ Switching("close")' = Switching("close") /\ Waiting("close")' = Waiting("close")
    BY <2>1 DEF AtDefault, Limited, Main, Switching, Waiting, Stays
  <2>4. Limited(Models[st.m].default)' = Limited(Models[st.m].default) /\ KnownLimit
    BY <2>1 DEF Limited, KnownLimit
  <2> QED  BY <2>1, <2>2, <2>3, <2>4 DEF DefaultInv, Switching
<1>39. CASE UNCHANGED vars
  BY SentType, BytesDiffer, ExpectsFacts, <1>1, <1>2, <1>3, <1>4, <1>5, <1>6, <1>7, <1>8, <1>9, <1>39
  DEF DefaultInv, AtDefault, KnownLimit, Limited, ThenInv, FrameInv, KnownInv, RateInv, SessionMode, SameRate, Parsed, Waiting, Forcing, Switching, Tuned, Hunting, Found, Connecting, Labelling, Forming, Resetting, Leaving, Restoring, Main, Setting, calls, vars
<1> QED
  BY <1>10, <1>11, <1>12, <1>13, <1>14, <1>15, <1>16, <1>17, <1>18, <1>19, <1>20, <1>21, <1>22, <1>23, <1>24, <1>25, <1>26, <1>27, <1>28, <1>29, <1>30, <1>31, <1>32, <1>33, <1>34, <1>35, <1>36, <1>37, <1>38, <1>39, NextCases

-----------------------------------------------------------------------------
(***************************************************************************)
(* The invariant holds when a run begins, and every step keeps it.         *)
(***************************************************************************)

LEMMA InitInv ==
  ASSUME Init
  PROVE  ProInv
<1> USE NumbersType
<1>1. /\ at = "hunt" /\ then = "ping" /\ caller = "main" /\ frame = "main" /\ Main /\ Hunting
      /\ tty = [rate |-> 9600, cts |-> FALSE, rx |-> <<>>]
      /\ run = [labels |-> 0, bands |-> 0, opened |-> FALSE, outcome |-> "none"]
      /\ luck = [late |-> 0, troubles |-> 0, calm |-> Calm(pr)]
  BY DEF Init, Main, Hunting
<1>2. PICK b \in MaxBauds :
        st = [ps |-> {}, m |-> "NULL", tof |-> TRUE, nslices |-> MAXNOPS, maxbaud |-> b,
              tried |-> 1, speed |-> 0, todo |-> 0]
  BY DEF Init
<1>3. PICK k \in DOMAIN Models \cup {"nothing"}, r \in Range(Speeds), moving \in BOOLEAN,
           where \in {"cmd", "rate", "arg", "len", "data"} :
        pr = [kind |-> k, rate |-> r, mode |-> where, cmd |-> IF where = "arg" THEN FF ELSE NOP,
              left |-> IF where = "data" THEN NSlices ELSE 0,
              busy |-> moving /\ k # "nothing", jam |-> FALSE, owed |-> <<>>]
  BY DEF Init
<1>4. PICK i \in 1..Len(Speeds) : r = Speeds[i] /\ r \in Rates
  <2>1. Speeds \in Seq(Rates) /\ DOMAIN Speeds = 1..Len(Speeds)
    BY ProAssumption
  <2> QED  BY <2>1 DEF Range
<1> DEFINE cmd == IF where = "arg" THEN FF ELSE NOP
           left == IF where = "data" THEN NSlices ELSE 0
           busy == moving /\ k # "nothing"
<1>5. cmd \in Nat /\ left \in Nat /\ busy \in BOOLEAN /\ (where = "data" => left > 0) /\ (where = "arg" => cmd = FF)
      /\ (k = "nothing" => ~busy)
  BY BytesType
<1>6. pr = [kind |-> k, rate |-> r, mode |-> where, cmd |-> cmd, left |-> left, busy |-> busy, jam |-> FALSE, owed |-> <<>>]
  BY <1>3
<1> HIDE DEF cmd, left, busy
<1>7. /\ pr \in Printers /\ pr.kind = k /\ pr.rate = r /\ pr.mode = where /\ pr.cmd = cmd /\ pr.left = left
      /\ pr.busy = busy /\ ~pr.jam /\ pr.owed = <<>>
  BY <1>4, <1>5, <1>6 DEF Printers
<1>8. /\ st \in States /\ st.ps = {} /\ st.m = "NULL" /\ st.tried = 1 /\ st.todo = 0 /\ tty.rx = <<>>
      /\ run.outcome = "none" /\ ~run.opened /\ luck.troubles = 0 /\ luck.late = 0 /\ luck.calm = Calm(pr)
  BY <1>1, <1>2 DEF States
<1>9. tty \in Ports /\ run \in Runs /\ luck \in Fates
  <2>1. Calm(pr) \in BOOLEAN /\ 9600 \in LineRates
    BY DEF Calm, LineRates
  <2> QED  BY <1>1, <2>1 DEF Ports, Runs, Fates
<1>10. TypeOK
  <2>1. at \in Labels /\ then \in Labels
    BY <1>1 DEF Labels
  <2> QED  BY <1>1, <1>7, <1>8, <1>9, <2>1, Types
<1>11. ThenInv /\ FrameInv /\ KnownInv
  BY <1>1, <1>8 DEF ThenInv, FrameInv, KnownInv, Hunting, Tuned, Found, Forming, Connecting, Labelling, Leaving, Restoring,
     Resetting, Waiting, Forcing, Switching, Setting
<1>12. CountInv
  BY <1>1, <1>5, <1>7, <1>8 DEF CountInv, Labelling, Forming, Waiting, Tuned, Forcing
<1>13. NothingInv
  BY <1>1, <1>5, <1>7, <1>8 DEF NothingInv, Found, Waiting
<1>14. \A x : ~Flying(x)
  BY <1>7, <1>8, CameEmpty DEF Flying
<1>15. PingInv /\ OncePinged /\ FoundInv
  <2>1. \A x : ~Came(x, pr.owed) /\ ~Came(x, tty.rx)
    BY <1>14 DEF Flying
  <2>2. Once("ping", pr.owed)
    BY <2>1 DEF Once, Came
  <2>3. ~Found /\ at # "reset"
    BY <1>1 DEF Found, Waiting
  <2> QED  BY <1>14, <2>1, <2>2, <2>3 DEF PingInv, OncePinged, FoundInv
<1>16. StepInv /\ RateInv /\ JamInv /\ DefaultInv /\ ResetInv
  BY <1>1, <1>7, <1>8, <1>14 DEF StepInv, RateInv, JamInv, DefaultInv, ResetInv
<1>17. ClearInv
  <2>1. ~Came("garbled", pr.owed) /\ ~Found
    BY <1>1, <1>14 DEF Flying, Found, Waiting
  <2> QED  BY <1>8, <2>1 DEF ClearInv
<1>18. CalmInv
  <2>1. ASSUME luck.calm PROVE AtRest(pr) /\ CalmHunt
    <3>1. pr.kind # "nothing" /\ StatusOf(pr) = "idle" /\ pr.rate \in HostRates /\ (pr.mode = "rate" => pr.rate = 9600)
      <4>1. Calm(pr)
        BY <1>8, <2>1
      <4> QED  BY <4>1 DEF Calm
    <3>2. ~pr.busy /\ pr.mode \in {"cmd", "rate", "arg"}
      BY <1>7, <3>1 DEF StatusOf, Printers
    <3>3. AtRest(pr)
      BY <1>5, <1>7, <3>1, <3>2 DEF AtRest
    <3>4. CalmHunt
      BY <1>1, <1>4, <1>7, <1>8, <3>1 DEF CalmHunt, None, Tuned, Forcing
    <3> QED  BY <3>3, <3>4
  <2>2. 1 <= Len(Speeds)
    BY <1>4
  <2> QED  BY <1>1, <1>8, <2>1, <2>2 DEF CalmInv, Hoping, AtRest
<1> QED  BY <1>10, <1>11, <1>12, <1>13, <1>15, <1>16, <1>17, <1>18 DEF ProInv

LEMMA ProInvStep ==
  ASSUME ProInv, [Next]_vars
  PROVE  ProInv'
<1>1. Sound
  BY DEF ProInv, Sound
<1>2. TypeOK' /\ ThenInv' /\ NothingInv' /\ CountInv' /\ FrameInv' /\ KnownInv'
  BY <1>1, TypeStep, ThenStep, NothingStep, CountStep, FrameStep, KnownStep DEF ProInv
<1>3. JamInv' /\ FoundInv' /\ StepInv' /\ RateInv' /\ ClearInv' /\ ResetInv'
  BY <1>1, JamStep, FoundStep, StepStep, RateStep, ClearStep, ResetStep DEF ProInv
<1>4. PingInv' /\ OncePinged' /\ CalmInv' /\ DefaultInv'
  BY <1>1, PingStep, OnceStep, CalmStep, DefaultStep DEF ProInv
<1> QED  BY <1>2, <1>3, <1>4 DEF ProInv

-----------------------------------------------------------------------------
(***************************************************************************)
(* What follows from it.                                                   *)
(***************************************************************************)

\* However the driver, the printer, a signal and a human take turns, each part of the
\* invariant holds: what driver and printer know of each other at every point of slpro.c.
THEOREM ProInvariant == Spec => []ProInv
<1>1. Init => ProInv
  BY InitInv
<1>2. ProInv /\ [Next]_vars => ProInv'
  BY ProInvStep
<1> QED  BY <1>1, <1>2, PTL DEF Spec

\* The driver's STATE, its port, the printer and what they exchange have their types.
THEOREM ProTypeOK == Spec => []TypeOK
<1>1. ProInv => TypeOK
  BY DEF ProInv
<1> QED  BY <1>1, ProInvariant, PTL

\* ping() (slpro.c) finds every printer at rest, at whichever of the speeds it was left,
\* and when it still waits for an argument.
THEOREM ProFindsPrinter == Spec => []FindsPrinter
<1>1. ProInv => FindsPrinter
  <2> SUFFICES ASSUME ProInv, at \in {"hunt", "stop"}, caller = "main", st.tried > Len(Speeds), luck.calm, luck.late = 0
               PROVE  FALSE
    <3> HAVE ProInv
    <3>1. luck.late \in Nat
      <4>1. luck \in Fates
        BY Types DEF ProInv
      <4> QED  BY <4>1, NumbersType DEF Fates
    <3> QED  BY <3>1 DEF FindsPrinter
  <2>1. st.tried <= Len(Speeds) /\ st.tried \in Nat /\ Len(Speeds) \in Nat
    BY NumbersType, Types DEF ProInv, CalmInv, States
  <2> QED  BY <2>1
<1> QED  BY <1>1, ProInvariant, PTL

\* From switch_baud() to the end of a label, main() and the printer have the same rate, and the
\* printer takes every byte for what the driver means by it.
THEOREM ProUnderstood == Spec => []Understood
<1>1. ProInv => Understood
  <2> SUFFICES ASSUME ProInv, Main, KnownLimit, at \in {"switch", "switchCode"} \cup Setting \cup Printing
               PROVE  /\ tty.rate = pr.rate
                      /\ pr.mode = "rate" <=> at = "switchCode"
                      /\ pr.mode = "arg" <=> at \in {"setArg", "formArg"}
                      /\ pr.mode = "len" <=> at = "len"
                      /\ pr.mode = "data" <=> at = "data"
                      /\ at = "data" => pr.left = st.todo
    BY DEF Understood, Main
  <2>1. at \in {"switch", "switchCode"} \cup Setting \cup Printing => at \notin {"over", "switchLocal", "close", "fault", "error", "ejectArg"}
    BY DEF Setting, Printing
  <2>2. ~Waiting("close") /\ st.m # "NULL"
    BY DEF Waiting, Setting, Printing, ProInv, KnownInv, Hunting, Tuned, Forcing, Found, Leaving
  <2>3. SameRate
    BY <2>1, <2>2 DEF ProInv, RateInv
  <2>4. pr.mode = SessionMode /\ (at = "data" => pr.left = st.todo)
    BY <2>1, <2>2, <2>3 DEF ProInv, StepInv
  <2> QED  BY <2>1, <2>3, <2>4 DEF SessionMode, SameRate
<1> QED  BY <1>1, ProInvariant, PTL

\* getmodel() (slpro.c) finds the model of a printer that answers in time.
THEOREM ProRightModel == Spec => []RightModel
<1>1. ProInv => RightModel
  BY DEF ProInv, RightModel, FrameInv, CalmInv
<1> QED  BY <1>1, ProInvariant, PTL

\* disconnect() (slpro.c) leaves a printer that was calm, with every answer in time and no
\* fault, at the rate it wakes up with, or at a lower one of -b, and inside no command.
THEOREM ProLeavesDefault == Spec => []LeavesDefault
<1>1. ProInv => LeavesDefault
  <2> SUFFICES ASSUME ProInv, run.outcome = "done", KnownLimit, luck.late = 0, luck.troubles = 0, luck.calm
               PROVE  pr.rate = Limited(Models[pr.kind].default) /\ pr.mode = "cmd"
    BY DEF LeavesDefault
  <2>1. Main /\ run.opened
    BY DEF ProInv, CountInv
  <2>2. st.m # "NULL" /\ st.m = pr.kind
    BY <2>1 DEF ProInv, FrameInv, CalmInv, Main
  <2>3. AtDefault
    BY <2>1, <2>2 DEF ProInv, DefaultInv
  <2> QED  BY <2>2, <2>3 DEF AtDefault
<1> QED  BY <1>1, ProInvariant, PTL

\* After the reset of reset_printer() (slpro.c), the port is tuned to the rate that the printer woke up with.
THEOREM ProResetAgrees == Spec => []ResetAgrees
<1>1. ProInv => ResetAgrees
  <2> SUFFICES ASSUME ProInv, caller = "fault", st.m = pr.kind,
                      at \in {"resetDone", "form", "formArg"} \/ Waiting("resetDone")
               PROVE  tty.rate = pr.rate
    BY DEF ResetAgrees, Waiting
  <2> QED  BY DEF ProInv, ResetInv, SameRate
<1> QED  BY <1>1, ProInvariant, PTL

=============================================================================
