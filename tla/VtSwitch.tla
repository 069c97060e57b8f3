------------------------------ MODULE VtSwitch ------------------------------
(***************************************************************************)
(* ui/metal/metal.go and vt.go, with what they use of drm.go and input.go: *)
(* Run, the native theme on the bare console.  It puts the console into    *)
(* graphics mode, mutes the kernel's keyboard, and so has to do itself     *)
(* what the kernel does elsewhere: watch for ctrl+alt+fn, give the display *)
(* up when another VT is asked for, take it again, and leave the console   *)
(* as it was on every way out.                                             *)
(*                                                                         *)
(* A switch is a handshake of signals, which the kernel keeps as a set,    *)
(* the go runtime hands on lowest first, and Run reads from a channel at   *)
(* one place of its loop.  Keys come from another channel, whatever VT     *)
(* they are typed on.                                                      *)
(*                                                                         *)
(* The kernel, and whoever has the other VT, are external.  One of the     *)
(* modifiers stands for ctrl and alt together, one other VT for all; the   *)
(* pointer, the CRTCs and the frames are left out.  What the login screen  *)
(* does with a key is MetalUI; here it may end the loop when it likes.     *)
(***************************************************************************)
EXTENDS Naturals, Sequences

CONSTANTS
  KeyCap,  \* capacity of Keyboard.Ch
  VtCap    \* capacity of vtCh

ASSUME CapAssumption == KeyCap \in Nat /\ VtCap \in Nat

\* Run
VARIABLES
  at,       \* where it is; "top", "parked", "events" and "present" are the loop
  outcome,  \* what it has returned, or is about to
  guard,    \* vtGuard: "none" has no fd; "ok"; "closed" is restored
  away,     \* parked on another VT
  sigCh,    \* a SIGTERM or SIGINT is in its channel
  vtCh,     \* SIGUSR1 and SIGUSR2 in theirs
  kbCh,     \* key events, each with the VT it was typed on
  chord,    \* chordState: the modifiers of a switch are down
  mods,     \* UI.mods: a modifier is down
  done      \* loop.Done()

\* the kernel, the other VT, the keyboard
VARIABLES
  active,     \* the VT on the display
  switching,  \* a switch away waits for our VT_RELDISP
  vtmode, kdmode, kbmode,
  sigs,       \* signals raised, and not yet in a channel
  master,     \* who holds the DRM master of the card
  denied,     \* another held it when the card was opened
  held        \* the modifier is held down

\* history
VARIABLES
  dropped,  \* a key event found the channel full
  unaware   \* another VT was shown before setupVT, or asked for when the acquire
            \* signal was unread, or a signal found its channel full

control == <<at, outcome, done>>
input   == <<kbCh, chord, mods>>
console == <<vtmode, kdmode, kbmode>>
display == <<active, switching, sigs, master>>
history == <<dropped, unaware>>
vtVars  == <<control, guard, away, sigCh, vtCh, input, console, display, denied, held,
             history>>

Loop == {"top", "parked", "events", "present", "release", "resume"}

Up == at \in {"drm", "keyboards", "tty", "notify", "control", "close", "restore"} \union Loop

\* "Other" is any key that is no modifier, with the fn keys.
KeyEvent == [key: {"ModDown", "ModUp", "Other"}, vt: {"ours", "other"}]

VtTypeOK ==
  /\ Up \/ at \in {"off", "returned", "panicked", "killed"}
  /\ outcome \in {"none", "done", "failed", "panic"}
  /\ guard \in {"none", "ok", "closed"} /\ away \in BOOLEAN
  /\ sigCh \in BOOLEAN /\ done \in BOOLEAN
  /\ vtCh \in Seq({"USR1", "USR2"}) /\ Len(vtCh) <= VtCap
  /\ kbCh \in Seq(KeyEvent) /\ Len(kbCh) <= KeyCap
  /\ chord \in BOOLEAN /\ mods \in BOOLEAN /\ held \in BOOLEAN
  /\ active \in {"ours", "other"} /\ switching \in BOOLEAN
  /\ vtmode \in {"auto", "process"} /\ kdmode \in {"text", "graphics"}
  /\ kbmode \in {"old", "off"}
  /\ sigs \subseteq {"USR1", "USR2"} /\ master \in {"nobody", "ours", "other"}
  /\ denied \in BOOLEAN /\ dropped \in BOOLEAN /\ unaware \in BOOLEAN

\* Whoever showed our VT before, a boot splash or another greeter, may not have
\* let the card go.
VtInit ==
  /\ at = "off" /\ outcome = "none" /\ guard = "none" /\ away = FALSE
  /\ sigCh = FALSE /\ vtCh = <<>> /\ kbCh = <<>>
  /\ chord = FALSE /\ mods = FALSE /\ done = FALSE
  /\ active = "ours" /\ switching = FALSE
  /\ vtmode = "auto" /\ kdmode = "text" /\ kbmode = "old"
  /\ sigs = {} /\ master \in {"nobody", "other"} /\ denied = FALSE /\ held = FALSE
  /\ dropped = FALSE /\ unaware = FALSE

-----------------------------------------------------------------------------
\* The kernel (external)

\* The other VT's owner drops the master before its VT goes.
ToOurs ==
  /\ active' = "ours"
  /\ master' = IF master = "other" THEN "nobody" ELSE master
  /\ sigs' = IF vtmode = "process" THEN sigs \union {"USR2"} ELSE sigs
  /\ UNCHANGED <<switching, unaware>>

ToOther ==
  /\ active' = "other"
  /\ switching' = FALSE

AcquireUnread == "USR2" \in sigs \/ \E i \in DOMAIN vtCh : vtCh[i] = "USR2"

\* The keys that are unread when our VT comes back are taken for typed on it.
Late(keys) == [i \in DOMAIN keys |-> [keys[i] EXCEPT !.vt = "ours"]]

\* VT_ACTIVATE, with these keys unread: a VT in process mode is asked to release
\* the display, one in graphics mode without it is never left.
Activate(vt, keys) ==
  CASE vt = "ours" /\ active = "other" -> ToOurs /\ kbCh' = Late(keys)
    [] vt = "other" /\ active = "ours" /\ vtmode = "process" ->
         /\ sigs' = sigs \union {"USR1"}
         /\ switching' = TRUE
         /\ unaware' = (unaware \/ AcquireUnread)
         /\ kbCh' = keys
         /\ UNCHANGED <<active, master>>
    [] vt = "other" /\ active = "ours" /\ vtmode = "auto" /\ kdmode = "text" ->
         ToOther /\ kbCh' = keys /\ unaware' = TRUE /\ UNCHANGED <<sigs, master>>
    [] OTHER -> kbCh' = keys /\ UNCHANGED <<display, unaware>>

\* VT_RELDISP, with 1 as with VT_ACKACQ, completes a switch that waits.
VT_RELDISP == IF switching THEN ToOther ELSE UNCHANGED <<active, switching>>

\* chvt, and ctrl+alt+fn on a VT that has the kernel's keyboard.
SwitchFromOutside ==
  /\ Up
  /\ \E vt \in {"ours", "other"} : Activate(vt, kbCh)
  /\ UNCHANGED <<control, guard, away, sigCh, vtCh, chord, mods, console, denied, held, dropped>>

OtherTakesMaster ==
  /\ Up
  /\ active = "other" /\ master = "nobody"
  /\ master' = "other"
  /\ UNCHANGED <<control, guard, away, sigCh, vtCh, input, console, active, switching, sigs,
                 denied, held, history>>

\* Its owner lets the card go.
OtherDropsMaster ==
  /\ Up
  /\ master = "other"
  /\ master' = "nobody"
  /\ UNCHANGED <<control, guard, away, sigCh, vtCh, input, console, active, switching, sigs,
                 denied, held, history>>

\* Taking the master fails while another has it, and may fail for who has never
\* had it; nobody looks at whether it has.
SET_MASTER ==
  master' \in IF master # "nobody" THEN {master}
              ELSE IF denied THEN {"nobody", "ours"} ELSE {"ours"}

\* The runtime hands the signals on; a full channel loses them.
Deliver ==
  /\ at \in Loop \union {"close", "restore"}
  /\ \E s \in sigs :
       /\ s = "USR2" => "USR1" \notin sigs
       /\ sigs' = sigs \ {s}
       /\ IF Len(vtCh) < VtCap
          THEN vtCh' = Append(vtCh, s) /\ UNCHANGED unaware
          ELSE unaware' = TRUE /\ UNCHANGED vtCh
  /\ UNCHANGED <<control, guard, away, sigCh, input, console, active, switching, master,
                 denied, held, dropped>>

\* readLoop, which goes on for as long as there is a Keyboard.
readLoop ==
  /\ Up /\ at \notin {"drm", "keyboards", "restore"}
  /\ \E k \in {"ModDown", "ModUp", "Other"} :
       /\ k = "ModDown" => ~held
       /\ k = "ModUp" => held
       /\ held' = (k = "ModDown" \/ (held /\ k # "ModUp"))
       /\ IF Len(kbCh) < KeyCap
          THEN kbCh' = Append(kbCh, [key |-> k, vt |-> active]) /\ UNCHANGED dropped
          ELSE dropped' = TRUE /\ UNCHANGED kbCh
  /\ UNCHANGED <<control, guard, away, sigCh, vtCh, chord, mods, console, display, denied,
                 unaware>>

-----------------------------------------------------------------------------
\* vt.go.  Operators named Faulty... are variants of the definition that
\* follows them, each with one plausible bug; no specification uses them.

\* Opening the controlling tty, or asking for its keyboard mode, may fail; then
\* setting the modes does not.
setupVT ==
  /\ at = "tty"
  /\ at' = "notify"
  /\ \/ /\ guard' = "ok"
        /\ kdmode' = "graphics" /\ kbmode' = "off"
     \/ UNCHANGED <<guard, kdmode, kbmode>>
  /\ UNCHANGED <<outcome, done, away, sigCh, vtCh, input, vtmode, display, denied, held, history>>

takeControl ==
  /\ at = "control"
  /\ at' = "top"
  /\ vtmode' \in IF guard = "ok" THEN {"process", "auto"} ELSE {vtmode}
  /\ UNCHANGED <<outcome, done, guard, away, sigCh, vtCh, input, kdmode, kbmode, display,
                 denied, held, history>>

\* The mode of the keyboard is forgotten.
Faulty_restore ==
  IF guard = "ok"
  THEN /\ guard' = "closed"
       /\ vtmode' = "auto" /\ switching' = FALSE
       /\ kdmode' = "text"
       /\ UNCHANGED kbmode
  ELSE UNCHANGED <<guard, switching, console>>

\* The kernel forgets a switch that waits.
restore ==
  IF guard = "ok"
  THEN /\ guard' = "closed"
       /\ vtmode' = "auto" /\ switching' = FALSE
       /\ kbmode' = "old"
       /\ kdmode' = "text"
  ELSE UNCHANGED <<guard, switching, console>>

-----------------------------------------------------------------------------
\* metal.go: Run

\* The way up.  SIGTERM still ends the process, wherever it is.
Dial ==
  /\ at = "off"
  /\ \/ at' = "drm" /\ UNCHANGED outcome
     \/ at' = "returned" /\ outcome' = "failed"
  /\ UNCHANGED <<done, guard, away, sigCh, vtCh, input, console, display, denied, held, history>>

OpenDRM ==
  /\ at = "drm"
  /\ \/ at' = "keyboards" /\ SET_MASTER /\ denied' = (master' # "ours") /\ UNCHANGED outcome
     \/ at' = "returned" /\ outcome' = "failed" /\ UNCHANGED <<master, denied>>
  /\ UNCHANGED <<done, guard, away, sigCh, vtCh, input, console, active, switching, sigs,
                 held, history>>

Drop == master' = IF master = "ours" THEN "nobody" ELSE master

OpenKeyboards ==
  /\ at = "keyboards"
  /\ \/ at' = "tty" /\ UNCHANGED <<outcome, master>>
     \/ at' = "returned" /\ outcome' = "failed" /\ Drop
  /\ UNCHANGED <<done, guard, away, sigCh, vtCh, input, console, active, switching, sigs,
                 denied, held, history>>

Notify ==
  /\ at = "notify"
  /\ at' = "control"
  /\ UNCHANGED <<outcome, done, guard, away, sigCh, vtCh, input, console, display, denied,
                 held, history>>

\* A step that leaves the console, the guard and the keyboard as they are.
Step(from, to) ==
  /\ at = from
  /\ at' = to
  /\ UNCHANGED <<guard, console, denied, held, dropped>>

Leave(how) ==
  /\ outcome' = how
  /\ UNCHANGED <<done, away, sigCh, vtCh, input, display, unaware>>

LoopDone == Step("top", "close") /\ done /\ Leave("done")

\* Where the loop takes a signal.
Listening == at = "parked" \/ (at = "top" /\ ~done)

Shutdown == Listening /\ Step(at, "close") /\ sigCh /\ Leave("done")

Proceed ==
  /\ Step("top", IF away THEN "parked" ELSE "events")
  /\ ~done /\ ~sigCh /\ vtCh = <<>>
  /\ UNCHANGED <<outcome, done, away, sigCh, vtCh, input, display, unaware>>

\* handleVTSignal
TakeSignal(s, to) ==
  /\ Listening /\ Step(at, to)
  /\ vtCh # <<>> /\ Head(vtCh) = s
  /\ vtCh' = Tail(vtCh)
  /\ UNCHANGED <<outcome, done, away, sigCh, input, sigs, unaware>>

\* The switch is approved, but the display is not given up.
FaultyPause == UNCHANGED master

Pause == Drop

Release ==
  /\ TakeSignal("USR1", IF away THEN "top" ELSE "release")
  /\ IF away THEN UNCHANGED master ELSE Pause
  /\ UNCHANGED <<active, switching>>

\* The greeter is not parked.
Faulty_ackRelease ==
  /\ Step("release", "top")
  /\ VT_RELDISP
  /\ UNCHANGED <<outcome, done, away, sigCh, vtCh, input, sigs, master, unaware>>

ackRelease ==
  /\ Step("release", "top")
  /\ VT_RELDISP
  /\ away' = TRUE
  /\ UNCHANGED <<outcome, done, sigCh, vtCh, input, sigs, master, unaware>>

ackAcquire ==
  /\ TakeSignal("USR2", "resume")
  /\ VT_RELDISP
  /\ UNCHANGED master

\* The modifiers that were let go on the other VT are still down.
FaultyResetMods == UNCHANGED mods

ResetMods == mods' = FALSE

Resume ==
  /\ Step("resume", "top")
  /\ SET_MASTER
  /\ ResetMods
  /\ away' = FALSE
  /\ UNCHANGED <<outcome, done, sigCh, vtCh, kbCh, chord, active, switching, sigs, unaware>>

\* chordState.consume
consume(k) == chord' = (k = "ModDown" \/ (chord /\ k # "ModUp"))

MayComplete(k) == chord /\ k = "Other"

Track(k) == mods' = (k = "ModDown" \/ (mods /\ k # "ModUp"))

TakeKey(from, to) ==
  /\ Step(from, to)
  /\ kbCh # <<>>
  /\ consume(Head(kbCh).key)
  /\ UNCHANGED <<outcome, away, sigCh, vtCh>>

\* A key that is typed while the greeter is parked.
Swallow ==
  /\ TakeKey("parked", "top")
  /\ kbCh' = Tail(kbCh)
  /\ UNCHANGED <<done, mods, display, unaware>>

\* loop.Key, after which the screen may be done.
Key ==
  /\ TakeKey("events", "events")
  /\ kbCh' = Tail(kbCh)
  /\ Track(Head(kbCh).key)
  /\ done' \in {done, TRUE}
  /\ UNCHANGED <<display, unaware>>

\* switchTo, which does nothing without a VT.
Switch ==
  /\ TakeKey("events", "events")
  /\ MayComplete(Head(kbCh).key)
  /\ IF guard = "ok"
     THEN \E vt \in {"ours", "other"} : Activate(vt, Tail(kbCh))
     ELSE kbCh' = Tail(kbCh) /\ UNCHANGED <<display, unaware>>
  /\ UNCHANGED <<done, mods>>

NoMoreKeys ==
  /\ Step("events", "present")
  /\ kbCh = <<>>
  /\ UNCHANGED <<outcome, done, away, sigCh, vtCh, input, display, unaware>>

\* Update may find the screen done.  Setting a CRTC takes the master, and may
\* fail with it.
Present ==
  /\ master = "ours"
  /\ Step("present", "top")
  /\ done' \in {done, TRUE}
  /\ UNCHANGED <<outcome, away, sigCh, vtCh, input, display, unaware>>

PresentFails == Step("present", "close") /\ Leave("failed")

\* The deferred functions: the devices first, then the console.
surfClose ==
  /\ Step("close", "restore")
  /\ Drop
  /\ UNCHANGED <<outcome, done, away, sigCh, vtCh, input, active, switching, sigs, unaware>>

Unwind ==
  /\ at = "restore"
  /\ at' = IF outcome = "panic" THEN "panicked" ELSE "returned"
  /\ restore
  /\ UNCHANGED <<outcome, done, away, sigCh, vtCh, input, active, sigs, master, denied, held,
                 history>>

\* A panic of the main goroutine, wherever it is in the loop.
Panic ==
  /\ at \in Loop
  /\ at' = "close"
  /\ outcome' = "panic"
  /\ restore
  /\ UNCHANGED <<done, away, sigCh, vtCh, input, active, sigs, master, denied, held,
                 history>>

\* SIGTERM, which before Notify is the end of the process.
Term ==
  /\ Up
  /\ IF at \in {"drm", "keyboards", "tty", "notify"}
     THEN at' = "killed" /\ Drop /\ UNCHANGED sigCh
     ELSE sigCh' = TRUE /\ UNCHANGED <<at, master>>
  /\ UNCHANGED <<outcome, done, guard, away, vtCh, input, console, active, switching, sigs,
                 denied, held, history>>

\* A panic of any other goroutine, or SIGKILL.
Killed ==
  /\ Up
  /\ at' = "killed"
  /\ Drop
  /\ UNCHANGED <<outcome, done, guard, away, sigCh, vtCh, input, console, active, switching,
                 sigs, denied, held, history>>

Kernel == SwitchFromOutside \/ OtherTakesMaster \/ OtherDropsMaster \/ Deliver \/ readLoop

Run ==
  \/ Dial \/ OpenDRM \/ OpenKeyboards \/ setupVT \/ Notify \/ takeControl
  \/ LoopDone \/ Shutdown \/ Proceed
  \/ Release \/ ackRelease \/ ackAcquire \/ Resume
  \/ Swallow \/ Key \/ Switch \/ NoMoreKeys \/ Present \/ PresentFails
  \/ surfClose \/ Unwind

VtNext == Kernel \/ Run \/ Panic \/ Term \/ Killed

VtSpec == VtInit /\ [][VtNext]_vtVars

-----------------------------------------------------------------------------
\* "restore must run before the session starts or the next vt user inherits a
\* dead console" (vt.go:109), and "even on panic the vt must come back"
\* (metal.go:49): on every way out of Run the console is as it was found, the
\* panic of the goroutine that runs it included.
ConsoleRestored ==
  at \in {"returned", "panicked"} =>
    /\ vtmode = "auto" /\ kdmode = "text" /\ kbmode = "old"
    /\ master # "ours"

\* "drm master must already be dropped or the incoming console cannot modeset"
\* (vt.go:93).  Excepted are a greeter without a VT, which is never asked, one
\* that had not got it when it was left, one that is asked to leave before it
\* knows that it is back, and one that has lost a signal.
DisplayHandedOver ==
  active = "other" /\ guard = "ok" /\ ~unaware => master # "ours"

\* "keystrokes typed over there must never reach the form" (metal.go:86): none
\* does that was typed on another VT, but for those that the greeter has not
\* read by the time the display comes back.
KeysStayAway ==
  [][at = "events" /\ Len(kbCh') < Len(kbCh) /\ guard = "ok" /\ ~unaware =>
       Head(kbCh).vt # "other"]_vtVars

\* When all signals are read, no switch is left waiting for the greeter, and it
\* is parked, without the display, exactly when another VT is shown.  One that
\* has opened the card of another goes on without the display, to the first frame.
SwitchSettled ==
  (/\ at \in {"top", "parked", "events", "present"}
   /\ guard = "ok" /\ sigs = {} /\ vtCh = <<>> /\ ~unaware) =>
     /\ ~switching
     /\ away <=> active = "other"
     /\ away => master # "ours"
     /\ ~away => master = "ours" \/ denied

\* While no key event is lost, no modifier stays down that was let go, on
\* whatever VT that was.
NoStuckModifier ==
  Up /\ ~dropped /\ (chord \/ (mods /\ ~away)) =>
    held \/ \E i \in DOMAIN kbCh : kbCh[i].key = "ModUp"
=============================================================================
