# A verification of slap

`slap` prints text on Seiko Smart Label Printers that hang off a serial port.
It is one short-lived process: it opens a session on a printer, renders its
input into a bitmap, one label at a time, sends each bitmap to the printer, and
closes the session. Nothing is persistent and there is one thread; what is hard
is that five signals may end it at any instruction and must leave the printer
and the port usable, that it steers a print head by dead reckoning through a
serial line, and that the printer reports its state asynchronously.

This directory holds TLA+ models of that program, their TLC configurations, and
TLAPS proofs. Line numbers are those of the files under `src/`.

## 1. The system

### Components

| component | source | state it keeps | operations | modelled in |
|---|---|---|---|---|
| main program | `slap/slap.c` | the flags, `sd` | parse flags, open, load font, render, close; `Error()` | Session; the search for a font in Font |
| session | `slap/session.c` | `SESSION`: `opd`, `arena`, the driver's functions; `sigs[]` | `open_session`, `close_session`, `handle_signal` | Session |
| signals | `slap/sig.c` | a list of ACTIONs, one per catch | `sigcatch`, `chain_handler` | Session |
| driver table | `slap/glue.c` | `drivers[]` | `load_driver`: try every entry that matches the model's name | Session, Port |
| SLP-Plus driver | `slap/slplus.c` | the OPD: `fd`, `ps` (status bits), `tof`, `nbands`, `nslices`, the band map | `opendev`, `closedev`, `setmedia`, `printlabel`; `connect`, `disconnect`, `force`, `sense`, `check_fault`, `reset_printer`, `wait_for_*` | PlusPrint, PlusStop, PlusLink, Port, Geometry |
| SLP-Pro driver | `slap/slpro.c` | as above, with the detected model, its margin, the baud rate | as above, and hunting for the baud rate, detecting the model | Pro, Port, Geometry (not its bitmap) |
| serial port | `slap/port.c` | the original tty modes; the lock | `opentty`, `closetty`, `fxlock`, `use_cts`, `avoid_cts` | Port (not its tables of rates) |
| bitmap dump driver | `slap/mbmd.c` | an output file | `opendev`, `printlabel` | its sizes, in Geometry |
| text rendering | `slap/render.c` | the arena: bitmap, `dirty`; the baseline and column | `render`, `render1`, `put_glyph` | Render |
| bitmaps | `mjsulib/mbm*.c` | an array of bytes | set, clear, reverse, test, allocate, load, save | Bitmap, Font |
| fonts | `slap/*font.c` | glyphs and their metrics; files | import, check, save, find, load, drop | Font; the checks also as assumptions of Render |
| error reporting | `mjsulib/error.c` | - | `error`, `verror` | Session |
| utilities | `mjsulib/getflags.c`, `hash_sht.c`, `regexp.c`, `mem_buy.c` | - | flag parsing, hash tables, regular expressions, memory | not modelled |
| build files, font data, packaging | the rest | - | - | not modelled |

### How they interact

`main()` calls the session, which calls one driver through a table of function
pointers (`slap.h`); the driver owns the OPD and, through it, the port. The
contract is in `slap.h:95-115`: `open()` makes the OPD, `close()` destroys it,
and after `close()` only `open()` is valid. Two other paths of control reach
the driver's `close()`: the signal handler, which interrupts `main()` anywhere
and never returns to it; and `Error()`, which with `-l` sends SIGABRT to its own
process and so enters the same handler. The driver and the printer run
concurrently: bytes wait in the tty's output queue, status bytes wait in its
input queue, and `sense()` stops and restarts the output with `tcflow()`.

Two processes meet in two places. A port's modes belong to the device, not to
the process, and outlive it: whoever opens the port saves what is there and puts
it back. A font's file is written by `makefont` and read by `slap`, with no lock
between them.

### What is hard

* *Interruption.* A signal may come between any two instructions: between
  opening the port and recording the OPD, inside `close_session()` itself,
  between the two bytes of a command, between an action of the printer and the
  variable that remembers it (`tof`).
* *Re-entrance.* `Error()` may be called by the driver from within the handler,
  by `check_fault()` from within the wait that `disconnect()` makes, and by
  `reset_printer()` from within `check_fault()`.
* *Stale knowledge.* The driver decides from status bytes that may be older
  than the bytes it has just sent.
* *Dead reckoning.* The head's place is never read back.
* *Unsigned arithmetic.* Signed glyph metrics meet unsigned positions.
* *Shared modes.* `opentty()` changes the port before `fxlock()` is asked whether
  it may; noise on the line is a SIGINT as long as BRKINT is on.
* *Files without a trailer.* A font is a header and 256 glyphs, whose bitmaps are
  of any size; a file that ends early must not load, and must not leak.
* *Waits.* Human intervention (labels), faults, and timeouts interleave; nothing
  may wait for output that was stopped.

### What makes each component correct

* Session: the handler runs once; the invoker sees the signal that came; a
  stored OPD is closed before the process ends; the driver contract is kept.
* Driver, printing: the head is where the driver thinks; ink is where the bitmap
  has it; labels alternate start and eject.
* Driver, stopping: the printer is never left inside a command; a label that
  was started is ejected.
* Driver, link: no wait without an end other than for a human; a fault ends the
  process with the port given back.
* Rendering: lines stay on the page; nothing is lost at page breaks; no blank
  labels; nothing of one copy shows on the next.
* SLP-Pro: both ends of the line use the same baud rate; a printer that is not
  there is reported cleanly. Port: the modes found are the modes left; one
  process at a time.
* Fonts: what loads is what was saved. Bitmaps: two dots never share a bit.
* Sizes: what a driver computes of a label fits its bands, its lengths and its counts.

The hazards list of `PROJECT.json` has each of these at its line, with the
properties that watch it.

## 2. The modules

Every module has one action per step of the code that another actor can come
between. `map` in `PROJECT.json` gives each definition's lines.

### Session

One run of the process. `at["main"]` and `at["handler"]` are two frames of
control: main's goes through `slap.c:230-300`, `open_session`, `load_driver` and
the driver's entry points; the handler's goes through `handle_signal` and
`close_session`. `Runs(f, label)` says which frame may execute: signals are
delivered first, and main is suspended while the handler runs. `disp`, `blocked`
and `pending` are the process's signal state as POSIX has it; `ncaught` counts how far
`open_session`'s loop over `sigs[]` got. The driver is abstracted to what
`slap.h` says and where it calls `Error()`: `port` is "held" while the port
has the driver's modes; `opd` goes from "none" to "valid", "closing",
"destroyed". `misused` and `closers` are history: whether a destroyed OPD was passed to a
driver or freed memory used again, and who called the driver's `close()`.

Three windows are steps of their own: `LinkAction`, where `sigcatch` has put
an ACTION in its list and not yet filled it in (`EnterJunk`: another signal's handler
walks the list there); `MapBands`, where `setmedia` fills a map that is already
reachable (`DestroyJunk`: the handler frees it); and the time between opening the
port and storing the OPD.

### Label and PlusPrint

`Label` is the promise: in one downward sweep ink is burned only where the
bitmap has a dot, only on rows under the head, and a label starts only after the
last one was ejected. `PlusPrint` is `printlabel()` statement by statement
(`slplus.c:813-946`): the mapping of the bitmap to interleaved pairs of bands,
`lastband` and its adjustment, and for each band the head moves, the overshoot
to the left, the strike, and the feed. Beside it is the printer: `head` and `line`
are where the head and paper *are*, `pos` and `band` where the driver
*believes* they are. `PlusPrint` implements `Label` under the mapping
`started <- ~tof`, with `Reach` the rows under the head.

### PlusStop

The bytes, and what stops them. The printer is a parser (`mode`: a command, an
argument, the length of a band, its data) fed from a queue `tx`; status bytes come
back through `rx`. `Interrupt` moves the driver from any point of `printlabel()`
to `disconnect()`, and `Init` leaves the printer anywhere in a command, as an
earlier run that was killed may have. `force()` has to bring it back. A read may be too
early for up to `Late` status bytes.

### PlusLink

The waits. `sense()`, `wait_for_ready()`, `wait_for_idle()`, `check_fault()`,
`check_loaded()`, `reset_printer()` and `force()` call one another; the model has
their common state (`ps`, `tof`, `fd`, the output's flow), a return address where
the code returns, and a printer that fills up, runs out of labels, faults, and is
looked after by a human. `Signal` and `Error` move control to the handler's
`disconnect()` at any point. A `read()`, `write()` or `tcsetattr()` of the open port may fail wherever
one is made (`ReadFails`, `WriteFails`), after some of its work or none, and calls `Error()` there;
an end by such a call is "broken" in `ended`, so that it is told from "failed", an end by a
fault of the printer or a timeout.

### Pro

The connection of the other driver, whose printers have a baud rate of their own:
`ping()` hunts for it at four speeds, `getmodel()` asks what is there, and
`switch_baud()` takes both ends of the line to the speed that the model and the host allow;
then settings, labels (their commands, without the bitmap), `check_fault()` with `reset_printer()`, and
`disconnect()`. `tty.rate` and `pr.rate` are the two ends. A byte at
the wrong rate is lost, or taken for a datum or an argument; what the
printer sends at the wrong rate is heard as garbled. The driver drains its
output before each decision, so its bytes arrive as they are written; the
printer's answers come later, and a wait may be over too soon (`TimedOut`).
`sense()` reads all that has arrived: `Heard` says what its loop makes of that, and
`MCPro`'s assumption `HeardByteByByte` has TLC compare it with the loop, byte by byte. `ForceIdle` is
`force()`, which senses before each of its NOPs.
`then` and `caller` are the return addresses of `force()`, `wait_for_idle()`, `ping()` and
`formfeed()`. `Init` is a printer that an earlier run, or a human, left at any
rate, in motion or at rest, and inside any command.

### Render

`render()`, one action per case of its loop over characters: glyphs, tabs, newlines
(left out under `-s`, on the page, or past its end), carriage returns, form feeds,
undefined characters, the reading of a chunk (with `BUFSIZ`), copies. Metrics
are SHORTs and positions are UINTs: `UINT(n)` wraps around. `row` is the baseline as the code
has it; a font whose ascent is negative has its baselines above its lines, and the first of them is a
`row` just below 2^32. `Top`, the first row of the line, and `Baseline`, as a number with a sign, are
what the properties speak of. `Physical` is
`set_labelimage_bit()`'s rotation. Where the C program stops being defined the
model stops: `at` is "assert" (the assertion of `render.c:109`), "wild" (backspaces
before the buffer's start) or "divzero" (a tab without a space's width). `Chunk(i)` is what
`fgets()` reads at a position of the file, `Fold` what backspaces leave of it; `Place`, `Dots`, `Drawn`
and `Ink` are `put_glyph()`'s two loops, up to a dot that fails the assertion.

### Port

Any number of processes and one port. Each process goes through `opentty()`
(`Open`, `SaveModes`, `Suppress`), `fxlock()` (`Lock`), `init_channel()`, the probe, the
session, and `closetty()` (`Disconnect`, `Restore`, `CloseFile`), for each driver
that `load_driver` tries, with SIGINT blocked where the code blocks it. Of the modes
there are `brkint`, `cts` and `raw`, those that the code treats in different places.
`modes` is the device's; `otm[p]` and `tm[p]` are a process's saved and working copies.
Every call may fail. `events` is history: whether two processes had the port open at the
same time ("overlap"), whether one died on its way ("died"), and whether the
port refused to be restored ("stuck"). A target of "-" (`named[p]` is FALSE) is
standard output: it is duplicated, and not locked.

### Bitmap

The bits of an array of bytes, numbered as `mbm_getb()`, `mbm_setb()` and their like
number them, with rows that are not padded; and the operations on one bitmap.

### Font

A file is a sequence of bytes. `makefont` imports a font, opens its output (which empties
it), checks the metrics, and writes header, glyphs and bitmaps; any write may be
short and any moment its last. Then `slap` looks for the font in `Places` places,
and `loadfont()` with `mbm_load()` reads what is there, allocating as it goes. SHORTs and
USHORTs wrap around as they are written and read; what an uninitialised variable
holds is any member of `Junk`. `heap` is what was allocated and not freed, and `origin`
the font that each file was written from.

### Geometry

`geometry()` of the three drivers as operators: from the media table and the model to
bands, slices and margins, with the C types' divisions. It has no state: what it
computes is what PlusPrint, PlusStop and Pro assume of their constants.

### The MC modules

`MCSession`, `MCPlusPrint`, `MCPlusLink`, `MCPro`, `MCRender`, `MCPort` and `MCFont`
extend these with the sets a run uses, and with the statements of comments and
documents that the code does not keep.

## 3. The runs

| run | checks | bounds |
|---|---|---|
| `session` | ReportsTheSignal, QuietWhenHandled, MisuseNeedsMainClose, HeldAtEnd, EventuallyEnds | three signals, all sendable at any time, any of them ignored at the start; two matching drivers |
| `plus_print` | ExactInk, RefinesLabel | two pairs of bands of two dots, four slices; every bitmap of at most two dots, and the black one; two labels |
| `plus_stop` | TypeOK, InStep, ForceWorksWhenSilent, TofTruthful, EjectsStoppedLabel | two bands of up to five slices, two late status bytes |
| `plus_link` | TypeOK, NeverDrainsStopped, AtMostTwoHurriedFeeds, GivenBack, SignalEnds, FaultReported | one label, two bands, two misfortunes, faults that a reset clears; any read or write may fail |
| `pro` | TypeOK, FindsPrinter, Understood, RightModel, LeavesDefault, ResetAgrees, SignalEnds | an old and a new model, two of the four speeds, with and without `-b 38400`; one label of one band of one slice; one misfortune (a late answer, or a jam) |
| `render` | TypeOK, EveryLineFits, CopiesAlike, PagesTurn, WholeGlyphs, EventuallyEnds | a font of six glyphs that ink (one below the baseline, one that starts and one that also ends left of its origin) and the special characters, a page of two lines (one in the other orientation), two copies; every file of up to three characters, and of up to five of those that fill pages |
| `port` | Exclusive, LeftAsFound, NoiseIsHarmless, WaitIsBounded | two processes, one of which tries both drivers and may get one SIGINT, the other one driver; one more attempt at the lock; every set of first modes that is not raw |
| `font` | TypeOK, LoadedIsSaved, NothingLeaks, WholeIsFound | two glyphs (empty, of no height, below the baseline, of two bytes, and two that the check refuses); names below, at and above the bound; two places; one short write |

Why these are enough. *Session*: SIGHUP, SIGQUIT, SIGINT and SIGTERM are treated alike, so two
of them and SIGABRT give every pair of different signals; a third driver would
repeat what the second did. *PlusPrint*: what can go wrong depends on the parity
of bands, on the first and last slice, and on moving left or right between
two bands; two pairs and four slices have all of these, and two dots are needed to have a
move. Two labels show that the second starts as the first. The proofs remove the
bounds. *PlusStop*: five slices are more than the margin and the overshoot, so
every place of a stop inside a band differs; two bands give a stop before,
between and after feeds. *PlusLink*: two misfortunes are needed for a fault
during the recovery from another; a second label repeats the first from the
same state. *Pro*: the models differ, for the control, in whether they answer
`CMD_MODEL` and in the rate of a reset, and one of each is there; the speeds are tried
alike, so that two give a first and a last, and `-b 38400` a third rate; the proofs have any list. A band of one slice already has a command, a
length and data, and it is left at each of them. One misfortune is enough to show
what each property excuses. *Port*: the lock
and the modes are between two; the proofs remove the number. *Font*: two glyphs give a first and a
last, and a bitmap of two bytes a middle; a short write may be at each byte. *Render*: two lines give a first, a last and a full page; `BUFSIZ` of 4
splits files into chunks; two copies show what one leaves for the next. `UIntValues` is 10^6
instead of 2^32: what matters is that it is far from any position. A font whose ascent is negative is
in the proofs.

The other runs each show one statement of the repository that the code does
not keep, with a counterexample:

| run | statement | what happens |
|---|---|---|
| `plus_interleave` | `slplus.c:871-873`: complete interleave of the final pair | `lastband` is raised when it is odd rather than even, so the last odd band may be missing |
| `render_below` | `render.c:66-67`: only glyphs off the right-hand end are left out | the underscore's negative ascent becomes a UINT near 2^32 in `row >= g->ascent`, and it is never drawn (`render.c:154`) |
| `pro_silent` | `slpro.c:788`: NO if the printer is not responding | a printer that was left moving, inside a command, takes the ping for an argument and is not found; `disconnect()` then uses the default rate of a model that is NULL |
| `pro_cts` | `slpro.c:100-103`: CTS flow control if the host has it, else no more than 38400 baud | `switch_baud()` sets modes without the CRTSCTS that `use_cts()` has just set, and the label goes at 57600 baud without it (`slpro.c:951,1292-1295`) |

### Fairness

* Session: the process executes, and its pending signals are delivered. A process
  that is neither stopped nor starved does; nothing is assumed of the senders.
* PlusPrint and PlusStop: none; only safety is checked of them.
* PlusLink: `WF(Driver)`, and `WF(Timeout)` since `recv_bytes()` has VTIME set; the
  line transmits while its output is not stopped; someone loads an empty
  printer. Without that last one the handler waits for ever, which the code intends
  (`check_loaded()` says so on the terminal). Nothing is assumed of the printer's
  other changes.
* Pro: `WF(Driver)`; `WF(Transmit)` and `WF(Rest)`: what the printer sends arrives, and its
  mechanism comes to rest; `WF(Cleared)`: someone clears a jam. Without that, the handler's
  reset never gets an idle printer. `SignalEnds` excuses a
  driver whose last byte heard was garbled: `wait_for_idle()` restarts its timeout for
  as long as that bit is set, and at the wrong rate nothing clears it.
* Port: `WF(Step(p))` for each process: it executes, its calls return, its signals are delivered.
  Nothing is assumed of how long a process prints; `WaitIsBounded` is the code's own bound
  on the attempts at the lock.
* Font: none; only safety is checked of it.
* Render: `WF(Step)`: the function runs.

## 4. The proofs

TLAPS checks, for every value of the constants that the modules' named
assumptions admit:

* **SessionProofs**, from `SessionAssumption`. `IInv` is `TypeOK`, what is blocked and
  what the handler let through (`MaskInv`), which signals are caught and what they
  are caught to do (`CatchInv`), how far the closing has come (`CloseInv`), where the
  port is quiet (`PortInv`), and `HeldAtEnd`. The promises are not inductive on
  their own: that the handler is not entered twice needs the mask at each of its
  statements, and that nothing is freed twice needs the order of the frees.
  `Invariance` has one lemma per group of actions; from it follow `TypeCorrect`,
  `HandlerRunsOnce`, `TruthfulStatus`, `HandledIsQuiet`, `InterruptionIsSafe`,
  `LeavesPortQuiet`, `AbortIsInternal`. The number of signals is arbitrary.
* **PlusPrintProofs**, from `PlusAssumption`. `IInv` is `TypeOK`, `OnTrack` and `LoopInv`:
  the dead reckoning is right only because the loop never strikes from a slice
  behind the dirty zone and never moves left of the stop. `StaysOnTrack` follows,
  and `ImplementsLabel` (`Spec => Paper!Spec`): each step of the driver is a
  `Burn`, `Feed`, `Start` or `Eject` of `Label` or leaves it alone; and `OverrunsAtEnd`: the loop reads
  past its array only when the last dot met is on the last band. `PrintsExactly` (`ExactInk`) needs `InkInv`: when
  the loop has left a band, the ink is `Printed` of the bands above, that is all their dots but for the
  bands that pass for blank; `StrikeExact` says that a strike adds just the dots of its slice. All
  band heights, label sizes and bitmaps.
* **PlusStopProofs**, from `StopAssumption`. A byte that was written is not yet taken, so
  `StopInv` speaks of the state the parser *will* be in when it has taken what is on its
  way (`ModeThen` and its like): that is the state `printlabel()` counts on (`StepInv`). In the
  handler one NOP at most is on its way, what the driver has heard or may still hear of
  an idle printer is true (`ForceInv`), and what is left of a band is no more than the NOPs still to
  be sent; then the formfeed and its argument arrive as such (`EjectInv`). Theorems: `StopTypeOK`,
  `StopInStep`, `StopForceWorks`, `StopTofTruthful`, `StopEjects`, for bands of any length and
  status bytes of any lateness.
* **PlusLinkProofs**, from `LinkAssumption`. `LinkInv` says where each wait may
  return to (`ThenInv`), that output is stopped only while nothing waits in it (`FlowInv`), how many
  feeds may have been hurried at each point of a label (`HurryInv`), where the handler may be
  (`HandlerInv`), and how far the port is given back on each way out, with failing calls anywhere
  (`GiveInv`). Theorems: `LinkTypeOK`, `LinkNeverDrainsStopped`, `LinkHurriesTwice`,
  `LinkGivenBack`, for any number of labels, bands and troubles, and for faults that
  come back after a reset.
* **PortProofs**, from `PortAssumption`. `PortInv` says how many descriptors each process has
  (`HeldInv`), who has the lock (`OwnerInv`), what is blocked (`MaskInv`), that an undisturbed port
  belongs to one process (`AloneInv`) whose copies follow the port's modes (`CopyInv`), and that
  the first modes are in the port or in that process's hands (`FoundInv`). Theorems:
  `PortExclusive`, `PortLeftAsFound`, `PortFailsClean`, `PortNoiseIsHarmless`, for any number
  of processes, lists of drivers, attempts and signals.
* **ProProofs**, from `ProAssumption`: any list of speeds to try without repetition, any models of which the
  one called "SLP-Pro" alone does not answer `CMD_MODEL`, a host that has every rate but perhaps 57600, any
  length of bands and labels, any number of troubles. `ProInv` has three layers. The first is the control: where a wait,
  `force()` and `switch_baud()` return to (`ThenInv`), who may be where (`FrameInv`), how far
  `connect()` came (`KnownInv`) and what loops have still to do (`CountInv`). The second is what
  may be on the line, because a decision is taken on what was sent some steps ago: nothing comes from nothing
  (`NothingInv`), an answer to a ping comes from a printer in step and is gone before the next question
  (`PingInv`, `OncePinged`), a jam is heard only after one (`JamInv`), and nothing is garbled between two ends that
  agree (`ClearInv`). The third is the agreement itself: what the printer's parser expects is what the driver sends
  next (`FoundInv`, `StepInv`), the rates are equal but between the two halves of a switch
  (`RateInv`), a printer that was calm answers each question (`CalmInv`), and what the closing (`DefaultInv`, with `-b` or without) and the reset
  (`ResetInv`) leave. None of the promises is inductive without the second layer: `Understood` fails in
  one step from a state with an old answer in the queue. Theorems: `ProTypeOK`, `ProFindsPrinter`,
  `ProUnderstood`, `ProRightModel`, `ProLeavesDefault`, `ProResetAgrees`.
* **DataProofs**, on what has a size: bitmaps, labels, fonts. Some of its facts need induction over data;
  they are proved from the least number principle (`NatLeast`, which follows from the library's
  theorems on well-founded relations): had the fact a counterexample it would have a least one.
  * *Bitmaps.* A dot is a bit of the array (`DotInArray`), its own (`DotsApart`), and writing
    it leaves the others (`OneDotChanges`), for every height and width: this is why Render may
    speak of sets of dots. Reversing twice gives the bitmap back (`ReverseIsInvolution`).
  * *Sizes.* For every medium and model: SLP-Plus labels are an even number of
    bands (`PlusBandsPair`, which is `PlusAssumption`'s condition on `NBands`); the SLP-Pro's bands are
    no wider than the NOPs of its `force()` (`ProBandsAreForced`); rounding loses no dots (`RoundingKeepsTotals`),
    the margins keep the label under the head (`MarginKeepsLabelInside`), and the dump lies the way the text does
    (`DumpLiesAsAsked`).
  * *Fonts*, from `FontAssumption` (what `import()` yields: metrics that are shorts, names
    of 1 to `NameMax` characters without a LF, bitmaps of their declared size) and `InstalledAssumption` (files that are
    there were written by `savefont()`). `FontInv`: each file is a beginning of what its font is
    written as (`FilesInv`, where a *layout* gives the place of each item and `Agrees` compares the
    bytes), how far `makefont` has come (`MakingInv`), where `loadfont()` is (`LoadingInv`), and which
    blocks it owns (`HeapInv`). From it `FontTypeOK` and `FontNothingLeaks`. `FontLoadedIsSaved` needs `RestoredInv`: each glyph
    so far was read from its own place (`Exact`), or the reader took a magic number for bits (`Slipped`). The latter
    can happen, since the end of a bitmap is only its size and a size may be half read; it cannot end well, since there
    are then too few bytes left for the glyphs that are left. `FontWholeIsFound` needs `WholeInv`: in a
    whole file with a name that fits, the reader is at the place of the item it is about to read (`Succeeds`), and a whole file
    is passed over only for want of memory (`Passed`).
* **RenderProofs**, from `RenderAssumption`, which has exactly what `checkfontmetrics()`
  tests of a font, and the ranges of C's types. The font's ascent, or its descent, may be negative; a font
  that is too tall for the bitmap ends in the code's own `Error()`. `IInv` is the page's type, `EveryLineFits`,
  `InkAccounted`, that with `-s` a page without ink is at its first line and one
  with ink has some there (`TopInv`), and `TopLineUsed`. The lemmas on `Physical` (a
  logical dot of the page is a dot of the bitmap) and on UINT arithmetic (`UINTSum`: a sum may be
  wrapped around at each step or once at the end; `Line`: the next baseline and the page's end as
  numbers with a sign) carry it. Theorems: `LinesFit`, `NoBlankLabels`, `TopLines`, and `NoInkLost` (the
  action property `PagesTurn`). On top of it:
  * `RenderTypeOK`: no dot is set outside the bitmap. `ReadType` is the type of the file, the buffer and the position;
    that `Chunk` is not empty and ends within the file (`ChunkType`) and that `Fold` yields characters when
    no backspace underflows (`FoldType`) are inductions over the file and the chunk.
  * `GlyphsAreWhole` (the action property `WholeGlyphs`): when `put_glyph()`'s test passes, UINT arithmetic did
    not wrap around, or the assertion fails at a dot; when it fails, the box is not on the page or a metric was
    negative (or the left bearing positive).
  * `CopiesAreAlike` (`CopiesAlike`): `StepOf` is one step of `render1()` as a function of what a copy depends on.
    `CopyInv` says that the current copy is the end of a trail of such steps from `Start`, which is where every copy begins because
    `Render1` clears all of it. Two trails from one place that both end have one length and one end, so
    the labels of each copy are those of the one before.

The properties `HandlerOnce`, `OnTrack`, `OverrunOnlyAtEnd`, `InkAccounted`, `TopLineUsed` and `FailsClean`
are proved and in no run: the proofs cover the runs' instances.

Only model-checked: the liveness properties (`EventuallyEnds` of Session and Render, `SignalEnds`,
`FaultReported`, `WaitIsBounded`), which need fairness and ENABLED. Every invariant, every action
property and the refinement that the runs check is also a theorem. The violated statements are
counterexamples, which TLC gives and a proof does not.

## 5. What is not claimed

* Known, without a run: a signal while `opendev()` probes a silent port
  interrupts a read and ends the process with the port in raw mode, since no OPD is stored
  yet (`HeldAtEnd` lists the case); a media size the driver refuses, with `-l`, makes
  `open_session` close the driver and call `Error()`, whose handler closes it again
  (`session.c:154`, against `slap.h:111-114`; `MisuseNeedsMainClose` lists it); `force()` trusts a
  status that may be older than the bytes it interrupts (`ForceWorksWhenSilent` has the
  condition); a fault that comes back is reset again from inside its own reset, one level deeper
  each time, and never reported (`slplus.c:722,727`; PlusLink with `Stubborn = TRUE`); a signal
  during `sigcatch()`'s unfilled ACTION, or while `setmedia()` fills the map, takes junk for a pointer.
* Also known, without a run: without `-l` `Error()` ends in `verror()`'s exit, before the SIGABRT by
  which the handler would close the session (`session.c:85-86`, `HeldAtEnd`);
  `MAXNOPS` of the SLP-Plus driver is 84 because the cast truncates the pitch alone, and a band
  has up to 104 slices (`slplus.c:195-198`); a glyph with a negative left bearing at the right-hand
  end of a line passes `put_glyph()`'s test and fails `render.c:109`'s assertion (Render's "assert").
* Pro: flow control, empty rolls and open lids are left out, and so is the bitmap. The
  properties say what they excuse: an answer that comes after its timeout, a
  printer that was moving or inside a band when the run began (its next status byte ends the wait
  for the ping or for the model), or was at a rate that the host does not have (`calm` has these three), and a `-b` that is none of the printer's rates, which
  sends the code of 9600 baud and sets the local rate to that value.
  `LeavesDefault` says what `disconnect()` does, not what its comment says ("back to 9600 baud",
  which a newer model does not get): the printer goes to its model's default, and since `switch_baud()` obeys
  `-b` there as well (`slpro.c:914-915`), to that of `-b` if it is lower. With `-b 38400` a printer whose
  power-on rate is 57600 is left at 38400. `LeavesDefault` excuses a fault as well: `check_fault()` closes the port
  after a reset, which is `ResetAgrees`.
* Failing calls of the open port (`slplus.c:309-339`) are in PlusLink, and in Port as the calls of
  `opentty()` and `closetty()`; PlusStop and Pro leave them out (the handler takes over as after a
  signal). `GivenBack` excuses them: without `-l`, or inside the handler, such an `Error()` ends the
  process with the port in raw mode, even from within `reset_printer()` on the way to giving it back.
  That `closetty()` itself may fail is in Port ("stuck") and not in PlusLink.
* SLP-Plus sizes: the serial break that `ping()` falls back on (`slplus.c:632`) cannot be reached;
  `setmedia()` ignores the orientation. SLP-Pro: `connect()` sends a margin that is not yet set
  (`slpro.c:902`), which `setmedia()` corrects; `geometry()` finds its model inside an `assert`.
* Port: a second process saves and changes the modes, and flushes both queues, before it asks for
  the lock (`LeftAsFound` excuses the overlap; after it the raw modes may stay for good). A SIGINT in
  `opentty()` is delayed, not lost. `init_channel()` leaves CRTSCTS as it was, and `use_cts()` is
  undone by the `switch_baud()` after it (`Tune`; the run `pro_cts` shows it with the rates). A duplicated standard output
  loses O_NONBLOCK and O_APPEND. `recv_bytes()` keeps its last timeout across a reopening, which
  the next call corrects. `isctty()` and `try_cts()` are not called.
* Fonts: the name of a loaded font keeps its CR and LF, and no NUL is written after them
  (`mjsfont.h:59` says always; nothing reads it). Names of 127 and 128 characters save and do not
  load again. `makefont` empties its output before it checks the font. Results of `fclose()` are not looked at, nor
  the writes of `mbm_save()`, so a full disk may leave a short file and a success. `mbm_load()` accepts a
  size of which one byte was read, harmless since `checkfontmetrics()` compares it. The buffer of
  `locate_font()` is never freed.
* Render: the advance of a glyph includes its left bearing (`put_glyph`'s return);
  a tab uses the width of the space's first non-empty substitute, and counts from
  the left in whole spaces; a last line that would just fit goes to the next page
  (`>=` in `render.c:279`); `-c` with a negative number asks for about 2^32 copies.
  The model has all of these as the code does; no property is about them.
* Render: `WholeGlyphs` says which glyphs on the page are left out. Those below the baseline are
  `render_below`, those that end left of their origin are the comma of
  `MCRender`'s font: at the left margin `put_glyph()` moves it right, and then its negative right bearing takes the sum
  `col + g->rbearing` near 2^32 (`render.c:142-153`), so that it is not drawn although its box is on the page; a glyph that starts right of its origin is only
  left out near the right-hand end, where its bearing counts twice (`render.c:150-153`). With a baseline above the page
  (a font of negative ascent, first line) the comparison of `render.c:154` is true for the wrong reason, a huge row
  against a huge ascent, and the glyph is drawn where it should be (`GlyphsAreWhole` has it).
* `boxit()` is unreachable (the argument `boxed` is always NO) and is left out.
* Where the paper is when a run begins cannot be read: PlusStop's `top` counts from there.
* Values of status faults, of print data and of times are abstracted: one fault bit that
  needs a reset, one byte per band in PlusLink, timeouts that may expire at any time.

### Not modelled

* Baud rates: `val2baud()` and its like (`port.c:300-483`) are look-ups in tables that the host's
  headers decide.
* `mbmd.c` but for its sizes: it opens a file, copies the bitmap and writes it.
* Parsing: flags, numbers, a font's text. Stateless and sequential; Font takes what `import()` yields.
* `regexp.c`, `hash_sht.c`, the pixmap operations, `mbm_copy()`: in the library, not reached from
  `slap`. `dumpfont.c`, `Warning()`, `Notice()` and the usage text only print.
* The SLP-Pro's bitmap, flow control, empty rolls and open lids; the SLP-Plus's `ping()` step by
  step (PlusStop has what it finds).

## 6. The plan

Done, in this order: Session; Label and PlusPrint; PlusStop; PlusLink; Render; proofs of
Session, PlusPrint, Render; Pro; Port and its proofs; Bitmap, Font and Geometry, and proofs of
Bitmap and Geometry; the windows of `sigcatch()` and `setmedia()` in Session; proofs of PlusLink and
PlusStop; of Pro; `ExactInk`; proofs of Font; the types, the whole glyphs and the copies of Render.

Left, most important first:

1. **ProPrint**: its `printlabel()`, as another implementation of `Label`, and its data queue
   with XOFF.
2. **PlusProbe**: `connect()` of the SLP-Plus driver and its static timeout; the composition of Port
   with Session's "held" and "quiet".
3. The tables of baud rates against each other.
