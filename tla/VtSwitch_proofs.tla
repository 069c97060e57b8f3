--------------------------- MODULE VtSwitch_proofs ---------------------------
(***************************************************************************)
(* However signals, keys, switches and panics fall, Run gives the console  *)
(* back, hands the display over before another VT has it, keeps to itself  *)
(* what is typed there, and lets no modifier stick.  For any capacity of   *)
(* its channels.                                                           *)
(***************************************************************************)
EXTENDS VtSwitch, SequenceTheorems, TLAPS

\* The console is not as it was found only while the guard says so, and Run has
\* yet to come to its deferred functions.
Guarded ==
  /\ guard # "ok" => vtmode = "auto" /\ kdmode = "text" /\ kbmode = "old"
  /\ at \in {"off", "drm", "keyboards", "tty"} => guard = "none"
  /\ at \in {"returned", "panicked"} => guard # "ok"

\* The master is given up before the console is.
Dropped ==
  at \in {"off", "drm", "restore", "returned", "panicked", "killed"} => master # "ours"

VtInv == Guarded /\ Dropped

LEMMA VtInitInv == VtInit => VtInv
  BY DEF VtInit, VtInv, Guarded, Dropped

\* The kernel touches neither the console's modes nor the guard, and gives the
\* master to nobody but the other VT's owner.
LEMMA KernelInv == VtInv /\ Kernel => VtInv'
<1> SUFFICES ASSUME VtInv, Kernel PROVE VtInv'
  OBVIOUS
<1>1. /\ UNCHANGED <<at, guard, console>>
      /\ master' = "ours" => master = "ours"
  <2>1. CASE SwitchFromOutside
    <3>1. PICK vt \in {"ours", "other"} : Activate(vt, kbCh)
      BY <2>1 DEF SwitchFromOutside
    <3>2. master' = "ours" => master = "ours"
      BY <3>1 DEF Activate, ToOurs, ToOther, display
    <3> QED BY <2>1, <3>2 DEF SwitchFromOutside, control
  <2>2. CASE OtherTakesMaster \/ OtherDropsMaster
    BY <2>2 DEF OtherTakesMaster, OtherDropsMaster, control
  <2>3. CASE Deliver
    BY <2>3 DEF Deliver, control
  <2>4. CASE readLoop
    BY <2>4 DEF readLoop, control, display
  <2> QED BY <2>1, <2>2, <2>3, <2>4 DEF Kernel
<1> QED BY <1>1 DEF VtInv, Guarded, Dropped, console

\* Run on its way up, in its loop, and on its way out.
LEMMA RunInv == VtInv /\ Run => VtInv'
<1> SUFFICES ASSUME VtInv, Run PROVE VtInv'
  OBVIOUS
<1> USE DEF VtInv, Guarded, Dropped, console, display, control
<1>1. CASE Dial \/ OpenDRM \/ OpenKeyboards \/ setupVT \/ Notify \/ takeControl
  BY <1>1 DEF Dial, OpenDRM, SET_MASTER, OpenKeyboards, Drop, setupVT, Notify, takeControl
<1>2. CASE LoopDone \/ Shutdown \/ Proceed
  BY <1>2 DEF LoopDone, Shutdown, Proceed, Step, Leave, Listening
<1>3. CASE Release \/ ackRelease \/ ackAcquire \/ Resume
  BY <1>3 DEF Release, ackRelease, ackAcquire, Resume, SET_MASTER, TakeSignal, Step, Listening
<1>4. CASE Swallow \/ Key \/ NoMoreKeys \/ Present \/ PresentFails
  BY <1>4 DEF Swallow, Key, TakeKey, NoMoreKeys, Present, PresentFails, Step, Leave
<1>5. CASE Switch
  BY <1>5 DEF Switch, TakeKey, Step
<1>6. CASE surfClose
  BY <1>6 DEF surfClose, Step, Drop
<1>7. CASE Unwind
  BY <1>7 DEF Unwind, restore
<1> QED BY <1>1, <1>2, <1>3, <1>4, <1>5, <1>6, <1>7 DEF Run

\* Every step preserves the invariant, a panic and a kill included.
LEMMA VtNextInv == VtInv /\ [VtNext]_vtVars => VtInv'
<1> SUFFICES ASSUME VtInv, [VtNext]_vtVars PROVE VtInv'
  OBVIOUS
<1>1. CASE Panic
  BY <1>1 DEF VtInv, Guarded, Dropped, Panic, restore, console, Loop
<1>2. CASE Term
  BY <1>2 DEF VtInv, Guarded, Dropped, Term, Drop, console
<1>3. CASE Killed
  BY <1>3 DEF VtInv, Guarded, Dropped, Killed, Drop, console
<1>4. CASE UNCHANGED vtVars
  BY <1>4 DEF VtInv, Guarded, Dropped, vtVars, console, display, control
<1> QED BY <1>1, <1>2, <1>3, <1>4, KernelInv, RunInv DEF VtNext

\* What the invariant says of the ways out.
LEMMA VtInvRestores == VtInv => ConsoleRestored
  BY DEF VtInv, Guarded, Dropped, ConsoleRestored

\* On every way out of Run, a panic of its own included, the console has its
\* modes back, and the display is free (metal.go:20-55, vt.go:105-119).
THEOREM ConsoleComesBack == VtSpec => []ConsoleRestored
<1>1. VtSpec => []VtInv
  BY VtInitInv, VtNextInv, PTL DEF VtSpec
<1> QED BY <1>1, VtInvRestores, PTL

-----------------------------------------------------------------------------
(* The channels. *)

SigType == {"USR1", "USR2"}

\* A signal is taken from the channel, or a key event is.
LEMMA TailOf ==
  ASSUME NEW S, NEW q \in Seq(S), q # <<>>, NEW n \in Nat, Len(q) <= n
  PROVE  /\ Head(q) \in S /\ Head(q) = q[1]
         /\ Tail(q) \in Seq(S) /\ Len(Tail(q)) \in Nat
         /\ Len(Tail(q)) = Len(q) - 1 /\ Len(Tail(q)) <= n
         /\ DOMAIN q = 1..Len(q) /\ DOMAIN Tail(q) = 1..(Len(q) - 1)
         /\ \A i \in DOMAIN Tail(q) : i + 1 \in DOMAIN q /\ Tail(q)[i] = q[i + 1]
         /\ \A i \in DOMAIN q : i # 1 => i - 1 \in DOMAIN Tail(q) /\ Tail(q)[i - 1] = q[i]
<1>1. /\ Head(q) \in S /\ Tail(q) \in Seq(S) /\ Len(Tail(q)) = Len(q) - 1
      /\ \A i \in 1..Len(Tail(q)) : Tail(q)[i] = q[i + 1]
  BY HeadTailProperties
<1>2. Len(q) \in Nat /\ DOMAIN q = 1..Len(q) /\ DOMAIN Tail(q) = 1..Len(Tail(q))
  BY <1>1
<1>3. Head(q) = q[1]
  OBVIOUS
<1>4. Len(q) # 0
  OBVIOUS
<1>5. ASSUME NEW i \in DOMAIN q, i # 1
      PROVE  i - 1 \in DOMAIN Tail(q) /\ Tail(q)[i - 1] = q[i]
  <2>1. i - 1 \in 1..Len(Tail(q)) /\ (i - 1) + 1 = i
    BY <1>1, <1>2, <1>5
  <2>2. Tail(q)[i - 1] = q[(i - 1) + 1]
    BY <1>1, <2>1
  <2> QED BY <1>2, <2>1, <2>2
<1> QED BY <1>1, <1>2, <1>3, <1>4, <1>5

\* One is sent to it.
LEMMA AppendOf ==
  ASSUME NEW S, NEW q \in Seq(S), NEW e \in S, NEW n \in Nat, Len(q) < n
  PROVE  /\ Append(q, e) \in Seq(S) /\ Len(Append(q, e)) = Len(q) + 1
         /\ Len(Append(q, e)) <= n /\ Len(q) \in Nat
         /\ DOMAIN q = 1..Len(q) /\ DOMAIN Append(q, e) = 1..(Len(q) + 1)
         /\ \A i \in DOMAIN q : Append(q, e)[i] = q[i]
         /\ Append(q, e)[Len(q) + 1] = e
<1>1. /\ Append(q, e) \in Seq(S) /\ Len(Append(q, e)) = Len(q) + 1
      /\ \A i \in 1..Len(q) : Append(q, e)[i] = q[i]
      /\ Append(q, e)[Len(q) + 1] = e
  BY AppendProperties
<1>2. Len(q) \in Nat /\ DOMAIN q = 1..Len(q) /\ DOMAIN Append(q, e) = 1..Len(Append(q, e))
  BY <1>1
<1> QED BY <1>1, <1>2

-----------------------------------------------------------------------------
(* Types. *)

\* Wherever Run is.
Place == {"off", "drm", "keyboards", "tty", "notify", "control", "top", "parked", "events",
          "present", "release", "resume", "close", "restore", "returned", "panicked", "killed"}

LEMMA VtInitType == VtInit => VtTypeOK
<1>1. /\ <<>> \in Seq({"USR1", "USR2"}) /\ <<>> \in Seq(KeyEvent)
      /\ Len(<<>>) <= VtCap /\ Len(<<>>) <= KeyCap
  BY CapAssumption, EmptySeq
<1> QED BY <1>1 DEF VtInit, VtTypeOK, Up, Loop

\* A switch keeps the types, if the keys that it leaves unread have theirs.
LEMMA ActivateType ==
  ASSUME VtTypeOK, NEW vt \in {"ours", "other"}, NEW keys \in Seq(KeyEvent),
         Len(keys) <= KeyCap, Activate(vt, keys)
  PROVE  /\ active' \in {"ours", "other"} /\ switching' \in BOOLEAN
         /\ sigs' \subseteq {"USR1", "USR2"} /\ master' \in {"nobody", "ours", "other"}
         /\ unaware' \in BOOLEAN
         /\ kbCh' \in Seq(KeyEvent) /\ Len(kbCh') <= KeyCap
<1>1. Late(keys) \in Seq(KeyEvent) /\ Len(Late(keys)) = Len(keys)
  <2>1. DOMAIN keys = 1..Len(keys) /\ Len(keys) \in Nat
    OBVIOUS
  <2>2. ASSUME NEW i \in 1..Len(keys)
        PROVE  [keys[i] EXCEPT !.vt = "ours"] \in KeyEvent
    <3>1. keys[i] \in KeyEvent
      BY ElementOfSeq
    <3> QED BY <3>1 DEF KeyEvent
  <2>3. Late(keys) = [i \in 1..Len(keys) |-> [keys[i] EXCEPT !.vt = "ours"]]
    BY <2>1 DEF Late
  <2>4. Late(keys) \in [1..Len(keys) -> KeyEvent]
    BY <2>2, <2>3
  <2> QED BY <2>1, <2>4
<1>3. kbCh' = keys \/ kbCh' = Late(keys)
  BY DEF Activate
<1>4. switching' = switching \/ switching' = TRUE \/ switching' = FALSE
  BY DEF Activate, ToOurs, ToOther, display
<1>5. master' = master \/ master' = "nobody"
  BY DEF Activate, ToOurs, display
<1>6. sigs' \in {sigs, sigs \union {"USR1"}, sigs \union {"USR2"}}
  BY DEF Activate, ToOurs, display
<1>7. unaware' \in BOOLEAN
  BY DEF Activate, ToOurs, VtTypeOK, AcquireUnread
<1>8. active' \in {"ours", "other"}
  BY DEF VtTypeOK, Activate, ToOurs, ToOther, display
<1> QED BY <1>1, <1>3, <1>4, <1>5, <1>6, <1>7, <1>8 DEF VtTypeOK

\* The kernel's steps.
LEMMA KernelType == VtTypeOK /\ Kernel => VtTypeOK'
<1> SUFFICES ASSUME VtTypeOK, Kernel PROVE VtTypeOK'
  OBVIOUS
<1>1. CASE SwitchFromOutside
  <2>1. PICK vt \in {"ours", "other"} : Activate(vt, kbCh)
    BY <1>1 DEF SwitchFromOutside
  <2>2. kbCh \in Seq(KeyEvent) /\ Len(kbCh) <= KeyCap
    BY DEF VtTypeOK
  <2>3. /\ active' \in {"ours", "other"} /\ switching' \in BOOLEAN
        /\ sigs' \subseteq {"USR1", "USR2"} /\ master' \in {"nobody", "ours", "other"}
        /\ unaware' \in BOOLEAN
        /\ kbCh' \in Seq(KeyEvent) /\ Len(kbCh') <= KeyCap
    BY <2>1, <2>2, ActivateType
  <2> QED BY <1>1, <2>3 DEF SwitchFromOutside, VtTypeOK, Up, control, console
<1>2. CASE OtherTakesMaster \/ OtherDropsMaster
  <2>1. /\ master' \in {"nobody", "other"}
        /\ UNCHANGED <<at, outcome, done, guard, away, sigCh, vtCh, kbCh, chord, mods,
                       active, switching, vtmode, kdmode, kbmode, sigs, denied, held,
                       dropped, unaware>>
    BY <1>2 DEF OtherTakesMaster, OtherDropsMaster, control, console, input, history
  <2> QED BY <2>1 DEF VtTypeOK, Up
<1>3. CASE Deliver
  <2>1. PICK s \in sigs :
          /\ sigs' = sigs \ {s}
          /\ IF Len(vtCh) < VtCap
             THEN vtCh' = Append(vtCh, s) /\ UNCHANGED unaware
             ELSE unaware' = TRUE /\ UNCHANGED vtCh
    BY <1>3 DEF Deliver
  <2>2. sigs' \subseteq {"USR1", "USR2"} /\ s \in {"USR1", "USR2"} /\ unaware' \in BOOLEAN
    BY <2>1 DEF VtTypeOK
  <2>3. vtCh' \in Seq({"USR1", "USR2"}) /\ Len(vtCh') <= VtCap
    <3>1. CASE Len(vtCh) < VtCap
      BY <2>1, <2>2, <3>1, AppendOf, CapAssumption DEF VtTypeOK
    <3>2. CASE ~(Len(vtCh) < VtCap)
      BY <2>1, <3>2 DEF VtTypeOK
    <3> QED BY <3>1, <3>2
  <2> QED BY <1>3, <2>2, <2>3 DEF Deliver, VtTypeOK, Up, control, console, input
<1>4. CASE readLoop
  <2>1. PICK k \in {"ModDown", "ModUp", "Other"} :
          /\ held' = (k = "ModDown" \/ (held /\ k # "ModUp"))
          /\ IF Len(kbCh) < KeyCap
             THEN kbCh' = Append(kbCh, [key |-> k, vt |-> active]) /\ UNCHANGED dropped
             ELSE dropped' = TRUE /\ UNCHANGED kbCh
    BY <1>4 DEF readLoop
  <2>2. [key |-> k, vt |-> active] \in KeyEvent
    BY DEF VtTypeOK, KeyEvent
  <2>3. kbCh' \in Seq(KeyEvent) /\ Len(kbCh') <= KeyCap
    <3>1. CASE Len(kbCh) < KeyCap
      BY <2>1, <2>2, <3>1, AppendOf, CapAssumption DEF VtTypeOK
    <3>2. CASE ~(Len(kbCh) < KeyCap)
      BY <2>1, <3>2 DEF VtTypeOK
    <3> QED BY <3>1, <3>2
  <2>4. held' \in BOOLEAN /\ dropped' \in BOOLEAN
    BY <2>1 DEF VtTypeOK
  <2> QED BY <1>4, <2>3, <2>4 DEF readLoop, VtTypeOK, Up, control, console, display
<1> QED BY <1>1, <1>2, <1>3, <1>4 DEF Kernel

\* A key is taken from the channel, and seen by the chord.
LEMMA TakeKeyType ==
  ASSUME VtTypeOK, NEW from, NEW to, TakeKey(from, to)
  PROVE  /\ chord' \in BOOLEAN
         /\ Head(kbCh) \in KeyEvent
         /\ Tail(kbCh) \in Seq(KeyEvent) /\ Len(Tail(kbCh)) <= KeyCap
<1>1. kbCh \in Seq(KeyEvent) /\ kbCh # <<>> /\ Len(kbCh) <= KeyCap
  BY DEF TakeKey, VtTypeOK
<1>2. chord' \in BOOLEAN
  BY DEF TakeKey, consume, VtTypeOK
<1> QED BY <1>1, <1>2, TailOf, CapAssumption

\* A step of Run leads to a place of its own, which has its part in the types.
LEMMA RunPlace ==
  ASSUME VtTypeOK, Run
  PROVE  at' \in Place /\ (Up \/ at \in {"off", "returned", "panicked", "killed"})'
<1>1. at \in Place
  BY DEF VtTypeOK, Up, Loop, Place
<1>2. at' \in Place
  BY <1>1 DEF Run, Place, Dial, OpenDRM, OpenKeyboards, setupVT, Notify, takeControl,
              LoopDone, Shutdown, Proceed, Step, Release, ackRelease, ackAcquire, Resume,
              TakeSignal, Swallow, Key, Switch, TakeKey, NoMoreKeys, Present, PresentFails,
              surfClose, Unwind
<1> QED BY <1>2 DEF Up, Loop, Place

\* Run's steps.
LEMMA RunType == VtTypeOK /\ Run => VtTypeOK'
<1> SUFFICES ASSUME VtTypeOK, Run PROVE VtTypeOK'
  OBVIOUS
<1>0. (Up \/ at \in {"off", "returned", "panicked", "killed"})'
  BY RunPlace
<1> USE DEF VtTypeOK, console, display, control, input, history
<1>Dial. CASE Dial
  BY <1>0, <1>Dial DEF Dial
<1>OpenDRM. CASE OpenDRM
  <2>1. denied' \in BOOLEAN /\ master' \in {"nobody", "ours", "other"}
    BY <1>OpenDRM DEF OpenDRM, SET_MASTER
  <2> QED BY <1>0, <1>OpenDRM, <2>1 DEF OpenDRM
<1>OpenKeyboards. CASE OpenKeyboards
  BY <1>0, <1>OpenKeyboards DEF OpenKeyboards, Drop
<1>setupVT. CASE setupVT
  BY <1>0, <1>setupVT DEF setupVT
<1>Notify. CASE Notify
  BY <1>0, <1>Notify DEF Notify
<1>takeControl. CASE takeControl
  BY <1>0, <1>takeControl DEF takeControl
<1>LoopDone. CASE LoopDone
  BY <1>0, <1>LoopDone DEF LoopDone, Step, Leave
<1>Shutdown. CASE Shutdown
  BY <1>0, <1>Shutdown DEF Shutdown, Step, Leave, Listening
<1>Proceed. CASE Proceed
  BY <1>0, <1>Proceed DEF Proceed, Step
<1>Resume. CASE Resume
  <2>1. /\ master' \in {"nobody", "ours", "other"}
        /\ away' \in BOOLEAN /\ mods' \in BOOLEAN
    BY <1>Resume DEF Resume, SET_MASTER, ResetMods
  <2>2. UNCHANGED <<outcome, done, guard, sigCh, vtCh, kbCh, chord, console,
                    active, switching, sigs, denied, held, history>>
    BY <1>Resume DEF Resume, Step
  <2> QED BY <1>0, <2>1, <2>2
<1>NoMoreKeys. CASE NoMoreKeys
  BY <1>0, <1>NoMoreKeys DEF NoMoreKeys, Step
<1>Present. CASE Present
  <2>1. done' \in BOOLEAN
    BY <1>Present DEF Present
  <2> QED BY <1>0, <1>Present, <2>1 DEF Present, Step
<1>PresentFails. CASE PresentFails
  BY <1>0, <1>PresentFails DEF PresentFails, Step, Leave
<1>surfClose. CASE surfClose
  BY <1>0, <1>surfClose DEF surfClose, Step, Drop
<1>Switched. VT_RELDISP => active' \in {"ours", "other"} /\ switching' \in BOOLEAN
  BY DEF VT_RELDISP, ToOther
<1>ackRelease. CASE ackRelease
  BY <1>0, <1>ackRelease, <1>Switched DEF ackRelease, Step
<1>Release. CASE Release
  <2>1. Tail(vtCh) \in Seq({"USR1", "USR2"}) /\ Len(Tail(vtCh)) <= VtCap
    BY <1>Release, TailOf, CapAssumption DEF Release, TakeSignal
  <2> QED BY <1>0, <1>Release, <2>1 DEF Release, TakeSignal, Step, Pause, Drop
<1>ackAcquire. CASE ackAcquire
  <2>1. Tail(vtCh) \in Seq({"USR1", "USR2"}) /\ Len(Tail(vtCh)) <= VtCap
    BY <1>ackAcquire, TailOf, CapAssumption DEF ackAcquire, TakeSignal
  <2> QED BY <1>0, <1>ackAcquire, <1>Switched, <2>1 DEF ackAcquire, TakeSignal, Step
<1>Swallow. CASE Swallow
  <2>1. TakeKey("parked", "top")
    BY <1>Swallow DEF Swallow
  <2> QED BY <1>0, <1>Swallow, <2>1, TakeKeyType DEF Swallow, TakeKey, Step
<1>Key. CASE Key
  <2>1. TakeKey("events", "events")
    BY <1>Key DEF Key
  <2>2. mods' \in BOOLEAN /\ done' \in BOOLEAN
    BY <1>Key DEF Key, Track
  <2> QED BY <1>0, <1>Key, <2>1, <2>2, TakeKeyType DEF Key, TakeKey, Step
<1>Switch. CASE Switch
  <2>1. TakeKey("events", "events")
    BY <1>Switch DEF Switch
  <2>2. Tail(kbCh) \in Seq(KeyEvent) /\ Len(Tail(kbCh)) <= KeyCap /\ chord' \in BOOLEAN
    BY <2>1, TakeKeyType
  <2>3. /\ active' \in {"ours", "other"} /\ switching' \in BOOLEAN
        /\ sigs' \subseteq {"USR1", "USR2"} /\ master' \in {"nobody", "ours", "other"}
        /\ unaware' \in BOOLEAN
        /\ kbCh' \in Seq(KeyEvent) /\ Len(kbCh') <= KeyCap
    <3>1. CASE guard = "ok"
      <4>1. PICK vt \in {"ours", "other"} : Activate(vt, Tail(kbCh))
        BY <1>Switch, <3>1 DEF Switch
      <4> QED BY <2>2, <4>1, ActivateType
    <3>2. CASE guard # "ok"
      BY <1>Switch, <2>2, <3>2 DEF Switch
    <3> QED BY <3>1, <3>2
  <2> QED BY <1>0, <1>Switch, <2>1, <2>2, <2>3 DEF Switch, TakeKey, Step
<1>Restored. restore => /\ guard' \in {"none", "ok", "closed"} /\ switching' \in BOOLEAN
                        /\ vtmode' \in {"auto", "process"} /\ kdmode' \in {"text", "graphics"}
                        /\ kbmode' \in {"old", "off"}
  BY DEF restore
<1>Unwind. CASE Unwind
  BY <1>0, <1>Unwind, <1>Restored DEF Unwind
<1> QED BY <1>Dial, <1>OpenDRM, <1>OpenKeyboards, <1>setupVT, <1>Notify, <1>takeControl,
           <1>LoopDone, <1>Shutdown, <1>Proceed, <1>Release, <1>ackRelease, <1>ackAcquire,
           <1>Resume, <1>Swallow, <1>Key, <1>Switch, <1>NoMoreKeys, <1>Present, <1>PresentFails,
           <1>surfClose, <1>Unwind DEF Run

\* Every step keeps the types.
LEMMA VtTypeStep == VtTypeOK /\ [VtNext]_vtVars => VtTypeOK'
<1> SUFFICES ASSUME VtTypeOK, [VtNext]_vtVars PROVE VtTypeOK'
  OBVIOUS
<1> USE DEF VtTypeOK, console, display, control, input, history
<1>0. Panic \/ Term \/ Killed => (Up \/ at \in {"off", "returned", "panicked", "killed"})'
  BY DEF Panic, Term, Killed, Up, Loop
<1>1. CASE Panic
  <2>1. /\ guard' \in {"none", "ok", "closed"} /\ switching' \in BOOLEAN
        /\ vtmode' \in {"auto", "process"} /\ kdmode' \in {"text", "graphics"}
        /\ kbmode' \in {"old", "off"}
    BY <1>1 DEF Panic, restore
  <2> QED BY <1>0, <1>1, <2>1 DEF Panic
<1>3. CASE Term
  <2>1. master' \in {"nobody", "ours", "other"} /\ sigCh' \in BOOLEAN
    BY <1>3 DEF Term, Drop
  <2> QED BY <1>0, <1>3, <2>1 DEF Term
<1>4. CASE Killed
  BY <1>0, <1>4 DEF Killed, Drop
<1>2. CASE UNCHANGED vtVars
  BY <1>2 DEF Up, Loop, vtVars
<1> QED BY <1>1, <1>2, <1>3, <1>4, KernelType, RunType DEF VtNext

-----------------------------------------------------------------------------
(* The handshake of a switch. *)

ReleaseUnread == "USR1" \in sigs \/ \E i \in DOMAIN vtCh : vtCh[i] = "USR1"

\* Nothing comes after an acquire signal that is in the channel.
LastWord ==
  \A i \in DOMAIN vtCh : vtCh[i] = "USR2" => i = Len(vtCh) /\ sigs = {}

\* Before the loop, nothing is asked of the greeter, and the display is its own,
\* unless the card was another's.
Before ==
  at \in {"off", "drm", "keyboards", "tty", "notify", "control"} =>
    /\ ~away /\ vtCh = <<>>
    /\ at \in {"keyboards", "tty", "notify", "control"} => master = "ours" \/ denied
    /\ ~unaware => active = "ours" /\ ~switching /\ sigs = {}

\* With a guard, the console is in graphics mode, in which a VT in auto mode is
\* not left.
Muted ==
  /\ guard = "ok" => kdmode = "graphics"
  /\ at \in {"notify", "control"} => vtmode = "auto"

Places ==
  /\ at = "parked" => away
  /\ at \in {"events", "present", "release"} => ~away

Aware == guard = "ok" /\ ~unaware /\ at \in Loop \union {"close", "restore"}

\* The greeter is parked when it is not shown, or has yet to hear that it is; a
\* switch waits for it only when it has yet to hear of that, or is about to
\* answer; and it has the master exactly when it is neither parked nor about to be,
\* or at most then, if the card was another's.
Shaken ==
  /\ active = "other" \/ switching => vtmode = "process"
  /\ active = "other" => ~switching /\ ~AcquireUnread
  /\ AcquireUnread => ~switching
  /\ away <=> active = "other" \/ AcquireUnread \/ at = "resume"
  /\ at = "resume" => active = "ours" /\ ~AcquireUnread
  /\ switching => at = "release" \/ ReleaseUnread
  /\ at = "release" => switching
  /\ ReleaseUnread /\ (~away \/ at = "resume") => switching
  /\ LastWord
  /\ away \/ at = "release" => master # "ours"
  /\ at \in Loop \ {"release"} /\ ~away => master = "ours" \/ denied

\* Nobody else has the master of the VT that is shown, once the greeter has had it.
MasterHere == active = "ours" /\ Up /\ at # "drm" => master # "other" \/ denied

Hand == Before /\ Muted /\ Places /\ MasterHere /\ (Aware => Shaken)

\* What is known of the handshake, whatever else happens.
HandInv == VtTypeOK /\ VtInv /\ Hand

LEMMA HandInit == VtInit => Hand
  BY DEF VtInit, Hand, Before, Muted, Places, MasterHere, Up, Aware, Loop

\* Delivering a signal leaves it unread.
LEMMA DeliverUnread ==
  ASSUME VtTypeOK, LastWord, Deliver, ~unaware'
  PROVE  /\ AcquireUnread' <=> AcquireUnread
         /\ ReleaseUnread' <=> ReleaseUnread
         /\ LastWord'
<1>1. PICK s \in sigs :
        /\ s = "USR2" => "USR1" \notin sigs
        /\ sigs' = sigs \ {s}
        /\ Len(vtCh) < VtCap
        /\ vtCh' = Append(vtCh, s)
  BY DEF Deliver
<1>2. s \in {"USR1", "USR2"} /\ vtCh \in Seq({"USR1", "USR2"}) /\ sigs \subseteq {"USR1", "USR2"}
  BY <1>1 DEF VtTypeOK
<1>3. /\ Len(vtCh) \in Nat /\ Len(vtCh') = Len(vtCh) + 1
      /\ DOMAIN vtCh = 1..Len(vtCh) /\ DOMAIN vtCh' = 1..(Len(vtCh) + 1)
      /\ \A i \in DOMAIN vtCh : vtCh'[i] = vtCh[i]
      /\ vtCh'[Len(vtCh) + 1] = s
  BY <1>1, <1>2, AppendOf, CapAssumption
<1>4. ASSUME NEW r PROVE (\E i \in DOMAIN vtCh' : vtCh'[i] = r)
                            <=> r = s \/ \E i \in DOMAIN vtCh : vtCh[i] = r
  <2>1. \A i \in DOMAIN vtCh' : i \in DOMAIN vtCh \/ i = Len(vtCh) + 1
    BY <1>3
  <2>2. DOMAIN vtCh \subseteq DOMAIN vtCh' /\ Len(vtCh) + 1 \in DOMAIN vtCh'
    BY <1>3
  <2> QED BY <1>3, <2>1, <2>2
<1>5. LastWord'
  <2> SUFFICES ASSUME NEW i \in DOMAIN vtCh', vtCh'[i] = "USR2"
               PROVE  i = Len(vtCh') /\ sigs' = {}
    BY DEF LastWord
  <2>1. i \notin DOMAIN vtCh
    BY <1>1, <1>3 DEF LastWord
  <2>2. i = Len(vtCh) + 1 /\ s = "USR2"
    BY <1>3, <2>1
  <2> QED BY <1>1, <1>2, <1>3, <2>2
<1> QED BY <1>1, <1>4, <1>5 DEF AcquireUnread, ReleaseUnread

\* Reading one is reading the oldest; the acquire signal is read last.
LEMMA TakeUnread ==
  ASSUME VtTypeOK, LastWord, NEW s \in {"USR1", "USR2"}, NEW to, TakeSignal(s, to)
  PROVE  /\ s = "USR1" => ReleaseUnread /\ (ReleaseUnread' => ReleaseUnread)
                          /\ (AcquireUnread' <=> AcquireUnread)
         /\ s = "USR2" => AcquireUnread /\ ~AcquireUnread' /\ ~ReleaseUnread'
         /\ LastWord'
<1>1. /\ vtCh \in Seq({"USR1", "USR2"}) /\ vtCh # <<>> /\ Len(vtCh) <= VtCap
      /\ Head(vtCh) = s /\ vtCh' = Tail(vtCh) /\ sigs' = sigs
  BY DEF TakeSignal, VtTypeOK
<1>2. /\ s = vtCh[1] /\ Len(vtCh) \in Nat /\ Len(vtCh') \in Nat /\ Len(vtCh') = Len(vtCh) - 1
      /\ DOMAIN vtCh = 1..Len(vtCh) /\ DOMAIN vtCh' = 1..(Len(vtCh) - 1)
      /\ \A i \in DOMAIN vtCh' : i + 1 \in DOMAIN vtCh /\ vtCh'[i] = vtCh[i + 1]
      /\ \A i \in DOMAIN vtCh : i # 1 => i - 1 \in DOMAIN vtCh' /\ vtCh'[i - 1] = vtCh[i]
  BY <1>1, TailOf, CapAssumption
<1>3. 1 \in DOMAIN vtCh
  BY <1>2
<1>4. LastWord'
  <2> SUFFICES ASSUME NEW i \in DOMAIN vtCh', vtCh'[i] = "USR2"
               PROVE  i = Len(vtCh') /\ sigs' = {}
    BY DEF LastWord
  <2>1. i + 1 = Len(vtCh) /\ sigs = {}
    BY <1>2 DEF LastWord
  <2> QED BY <1>1, <1>2, <2>1
<1>5. CASE s = "USR1"
  BY <1>1, <1>2, <1>3, <1>4, <1>5 DEF AcquireUnread, ReleaseUnread
<1>6. CASE s = "USR2"
  <2>1. Len(vtCh) = 1 /\ sigs = {}
    BY <1>2, <1>3, <1>6 DEF LastWord
  <2>2. DOMAIN vtCh' = {}
    BY <1>2, <2>1
  <2> QED BY <1>1, <1>2, <1>3, <1>4, <1>6, <2>1, <2>2 DEF AcquireUnread, ReleaseUnread
<1> QED BY <1>5, <1>6

\* Another VT is asked for, or ours is.
LEMMA ActivateHand ==
  ASSUME HandInv, Up, NEW vt \in {"ours", "other"}, NEW keys, Activate(vt, keys),
         UNCHANGED <<at, guard, away, vtCh, console, denied>>
  PROVE  Hand'
<1> USE DEF HandInv, Hand, console, display
<1>1. CASE vt = "ours" /\ active = "other"
  <2>1. ToOurs
    BY <1>1 DEF Activate
  <2>2. Before' /\ Muted' /\ Places' /\ MasterHere'
    BY <1>1, <2>1 DEF ToOurs, Before, Muted, Places, MasterHere, Up, VtTypeOK
  <2>3. ASSUME Aware' PROVE Shaken'
    <3>1. Aware /\ Shaken
      BY <2>1, <2>3 DEF Aware, ToOurs
    <3>2. /\ vtmode = "process" /\ ~switching /\ ~AcquireUnread /\ away /\ at # "resume"
          /\ master # "ours"
      BY <1>1, <3>1 DEF Shaken
    <3>3. /\ sigs' = sigs \union {"USR2"} /\ active' = "ours" /\ ~switching'
          /\ master' # "ours"
      BY <2>1, <3>2 DEF ToOurs
    <3>4. AcquireUnread' /\ LastWord' /\ (ReleaseUnread' => ReleaseUnread)
      BY <3>2, <3>3 DEF AcquireUnread, ReleaseUnread, LastWord
    <3> QED BY <3>1, <3>2, <3>3, <3>4 DEF Shaken, Places
  <2> QED BY <2>2, <2>3
<1>2. CASE vt = "other" /\ active = "ours" /\ vtmode = "process"
  <2>1. /\ sigs' = sigs \union {"USR1"} /\ switching' = TRUE
        /\ unaware' = (unaware \/ AcquireUnread) /\ UNCHANGED <<active, master>>
    BY <1>2 DEF Activate
  <2> QED BY <1>2, <2>1 DEF Before, Muted, Places, MasterHere, Up, Aware, Shaken, VtTypeOK, VtInv,
                            Guarded, AcquireUnread, ReleaseUnread, LastWord
<1>3. CASE vt = "other" /\ active = "ours" /\ vtmode = "auto" /\ kdmode = "text"
  <2>1. ToOther /\ unaware' = TRUE /\ UNCHANGED <<sigs, master>>
    BY <1>3 DEF Activate
  <2> QED BY <1>3, <2>1 DEF ToOther, Before, Muted, Places, MasterHere, Up, Aware
<1>4. CASE UNCHANGED <<display, unaware>>
  BY <1>4 DEF Before, Muted, Places, MasterHere, Up, Aware, Shaken, AcquireUnread, ReleaseUnread,
              LastWord
<1> QED BY <1>1, <1>2, <1>3, <1>4 DEF Activate

\* The kernel's steps keep the handshake.
LEMMA KernelHand == HandInv /\ Kernel => Hand'
<1> SUFFICES ASSUME HandInv, Kernel PROVE Hand'
  OBVIOUS
<1>1. CASE SwitchFromOutside
  BY <1>1, ActivateHand DEF SwitchFromOutside, control
<1> USE DEF HandInv, Hand, Before, Muted, Places, MasterHere, Up, Aware, console, control
<1>2. CASE OtherTakesMaster \/ OtherDropsMaster
  BY <1>2 DEF OtherTakesMaster, OtherDropsMaster, Shaken, LastWord, AcquireUnread, ReleaseUnread, history, Loop
<1>3. CASE Deliver
  <2>1. /\ UNCHANGED <<at, guard, away, vtmode, kdmode, active, switching, master, denied>>
        /\ at \in Loop \union {"close", "restore"}
    BY <1>3 DEF Deliver
  <2>2. unaware => unaware'
    BY <1>3 DEF Deliver
  <2>3. Aware' => Shaken'
    BY <1>3, <2>1, <2>2, DeliverUnread DEF Shaken
  <2> QED BY <2>1, <2>2, <2>3 DEF Loop
<1>4. CASE readLoop
  BY <1>4 DEF readLoop, Shaken, LastWord, AcquireUnread, ReleaseUnread, display
<1> QED BY <1>1, <1>2, <1>3, <1>4 DEF Kernel

\* A key event moves nothing but the keyboard.
LEMMA KeyTaken ==
  ASSUME Swallow \/ Key
  PROVE  /\ (at = "parked" /\ at' = "top") \/ (at = "events" /\ at' = "events")
         /\ UNCHANGED <<guard, away, vtCh, vtmode, kdmode, active, switching, sigs, master,
                        denied, unaware>>
<1>1. CASE Swallow
  BY <1>1 DEF Swallow, TakeKey, Step, console, display
<1>2. CASE Key
  BY <1>2 DEF Key, TakeKey, Step, console, display
<1> QED BY <1>1, <1>2

\* Run's steps do, of which these leave the signals as they are.
LEMMA QuietHand ==
  ASSUME HandInv,
         \/ Dial \/ OpenDRM \/ OpenKeyboards \/ setupVT \/ Notify \/ takeControl
         \/ LoopDone \/ Shutdown \/ Proceed \/ Swallow \/ Key \/ NoMoreKeys
         \/ Present \/ PresentFails \/ surfClose \/ Unwind
  PROVE  Hand'
<1> USE DEF HandInv, Hand, Before, Muted, Places, MasterHere, Up, Aware, Shaken, LastWord,
            AcquireUnread, ReleaseUnread, console, control, display, history, Loop
<1>1. CASE Dial \/ OpenKeyboards
  BY <1>1 DEF Dial, OpenKeyboards, Drop, VtInv, Guarded, Dropped
<1>13. CASE OpenDRM
  <2>1. /\ at = "drm" /\ guard = "none"
        /\ UNCHANGED <<guard, away, vtCh, vtmode, kdmode, active, switching, sigs, unaware>>
        /\ \/ at' = "keyboards" /\ denied' = (master' # "ours")
           \/ at' = "returned"
    BY <1>13 DEF OpenDRM, VtInv, Guarded
  <2> QED BY <2>1
<1>2. CASE setupVT
  BY <1>2 DEF setupVT, VtInv, Guarded
<1>3. CASE Notify
  BY <1>3 DEF Notify
<1>4. CASE takeControl
  BY <1>4 DEF takeControl
<1>5. CASE LoopDone
  BY <1>5 DEF LoopDone, Step, Leave
<1>6. CASE Shutdown
  BY <1>6 DEF Shutdown, Step, Leave, Listening
<1>7. CASE Proceed
  BY <1>7 DEF Proceed, Step
<1>8. CASE Swallow \/ Key
  <2>1. /\ (at = "parked" /\ at' = "top") \/ (at = "events" /\ at' = "events")
        /\ UNCHANGED <<guard, away, vtCh, vtmode, kdmode, active, switching, sigs, master, denied, unaware>>
    BY <1>8, KeyTaken
  <2> QED BY <2>1
<1>9. CASE NoMoreKeys
  BY <1>9 DEF NoMoreKeys, Step
<1>10. CASE Present \/ PresentFails
  <2>1. /\ at = "present" /\ at' \in {"top", "close"}
        /\ UNCHANGED <<guard, away, vtCh, vtmode, kdmode, active, switching, sigs, master, denied, unaware>>
    BY <1>10 DEF Present, PresentFails, Step, Leave
  <2> QED BY <2>1
<1>11. CASE surfClose
  BY <1>11 DEF surfClose, Step, Drop
<1>12. CASE Unwind
  BY <1>12 DEF Unwind, restore
<1> QED BY <1>1, <1>2, <1>3, <1>4, <1>5, <1>6, <1>7, <1>8, <1>9, <1>10, <1>11, <1>12,
           <1>13

\* These answer them.
LEMMA AnswerHand ==
  ASSUME HandInv, Release \/ ackRelease \/ ackAcquire \/ Resume \/ Switch
  PROVE  Hand'
<1> USE DEF HandInv, Hand, Before, Muted, Places, MasterHere, Up, Aware, console, control, display
<1>1. CASE Release
  <2>1. /\ TakeSignal("USR1", IF away THEN "top" ELSE "release")
        /\ at \in {"top", "parked"} /\ at' = IF away THEN "top" ELSE "release"
        /\ UNCHANGED <<guard, away, vtmode, kdmode, active, switching, sigs, denied, unaware>>
        /\ master' = IF ~away /\ master = "ours" THEN "nobody" ELSE master
    BY <1>1 DEF Release, TakeSignal, Step, Listening, Pause, Drop
  <2>2. ASSUME Aware, Shaken PROVE Shaken'
    <3>1. /\ ReleaseUnread /\ (ReleaseUnread' => ReleaseUnread)
          /\ AcquireUnread' <=> AcquireUnread
          /\ LastWord'
      BY <2>1, <2>2, TakeUnread DEF Shaken
    <3> QED BY <2>1, <2>2, <3>1 DEF Shaken, Loop
  <2> QED BY <2>1, <2>2 DEF Loop
<1>2. CASE ackRelease
  <2>1. /\ at = "release" /\ at' = "top" /\ away' = TRUE
        /\ IF switching THEN active' = "other" /\ ~switching' ELSE UNCHANGED <<active, switching>>
        /\ UNCHANGED <<guard, vtmode, kdmode, vtCh, sigs, master, denied, unaware>>
    BY <1>2 DEF ackRelease, Step, VT_RELDISP, ToOther
  <2>2. /\ AcquireUnread' <=> AcquireUnread
        /\ ReleaseUnread' <=> ReleaseUnread
        /\ LastWord' <=> LastWord
    BY <2>1 DEF AcquireUnread, ReleaseUnread, LastWord
  <2> QED BY <2>1, <2>2 DEF Shaken, Loop
<1>3. CASE ackAcquire
  <2>1. /\ TakeSignal("USR2", "resume")
        /\ at \in {"top", "parked"} /\ at' = "resume"
        /\ IF switching THEN active' = "other" /\ ~switching' ELSE UNCHANGED <<active, switching>>
        /\ UNCHANGED <<guard, away, vtmode, kdmode, sigs, master, denied, unaware>>
    BY <1>3 DEF ackAcquire, TakeSignal, Step, Listening, VT_RELDISP, ToOther
  <2>2. ASSUME Aware, Shaken PROVE Shaken'
    <3>1. AcquireUnread /\ ~AcquireUnread' /\ ~ReleaseUnread' /\ LastWord'
      BY <2>1, <2>2, TakeUnread DEF Shaken
    <3>2. active = "ours" /\ away /\ ~switching /\ master # "ours"
      BY <2>2, <3>1 DEF Shaken, VtTypeOK
    <3>3. active' = "ours" /\ away' /\ ~switching' /\ master' # "ours"
      BY <2>1, <3>2
    <3> QED BY <2>1, <3>1, <3>3 DEF Shaken, Loop
  <2> QED BY <2>1, <2>2 DEF Loop, VtTypeOK
<1>4. CASE Resume
  <2>1. /\ at = "resume" /\ at' = "top" /\ away' = FALSE
        /\ master' = master \/ (master = "nobody" /\ master' = "ours")
        /\ master = "nobody" /\ ~denied => master' = "ours"
        /\ UNCHANGED <<guard, vtmode, kdmode, vtCh, active, switching, sigs, denied, unaware>>
    BY <1>4 DEF Resume, SET_MASTER, Step
  <2>2. /\ AcquireUnread' <=> AcquireUnread
        /\ ReleaseUnread' <=> ReleaseUnread
        /\ LastWord' <=> LastWord
    BY <2>1 DEF AcquireUnread, ReleaseUnread, LastWord
  <2> QED BY <2>1, <2>2 DEF Shaken, Loop, VtTypeOK
<1>5. CASE Switch
  <2>1. at = "events" /\ UNCHANGED <<at, guard, away, vtCh, console, denied>>
    BY <1>5 DEF Switch, TakeKey, Step
  <2>2. CASE guard = "ok"
    <3>1. PICK vt \in {"ours", "other"} : Activate(vt, Tail(kbCh))
      BY <1>5, <2>2 DEF Switch
    <3> QED BY <2>1, <3>1, ActivateHand DEF Up, Loop
  <2>3. CASE guard # "ok"
    <3>1. UNCHANGED <<display, unaware>>
      BY <1>5, <2>3 DEF Switch
    <3> QED BY <2>1, <2>3, <3>1
  <2> QED BY <2>2, <2>3
<1> QED BY <1>1, <1>2, <1>3, <1>4, <1>5

\* Every step keeps the handshake.
LEMMA HandStep == HandInv /\ [VtNext]_vtVars => HandInv'
<1> SUFFICES ASSUME HandInv, [VtNext]_vtVars PROVE Hand'
  BY VtTypeStep, VtNextInv DEF HandInv
<1>1. CASE Panic
  BY <1>1 DEF Panic, restore, HandInv, VtInv, Guarded, Hand, Before, Muted, Places, MasterHere, Up,
              Aware, Loop
<1>2. CASE Term
  <2>1. /\ UNCHANGED <<guard, away, vtCh, console, active, switching, sigs, denied, unaware>>
        /\ \/ at' = "killed" /\ master' = (IF master = "ours" THEN "nobody" ELSE master)
           \/ UNCHANGED <<at, master>>
    BY <1>2 DEF Term, Drop, history
  <2> QED BY <2>1 DEF HandInv, Hand, Before, Muted, Places, MasterHere, Up, Aware, Shaken,
                      LastWord, AcquireUnread, ReleaseUnread, console, Loop
<1>3. CASE Killed
  BY <1>3 DEF Killed, Drop, HandInv, Hand, Before, Muted, Places, MasterHere, Up, Aware, console,
              Loop
<1>4. CASE UNCHANGED vtVars
  BY <1>4 DEF vtVars, HandInv, Hand, Before, Muted, Places, MasterHere, Up, Aware, Shaken,
              LastWord, AcquireUnread, ReleaseUnread, console, control, display, history
<1>5. CASE Run
  BY <1>5, QuietHand, AnswerHand DEF Run
<1> QED BY <1>1, <1>2, <1>3, <1>4, <1>5, KernelHand DEF VtNext

-----------------------------------------------------------------------------
(* The keyboard. *)

\* While our VT is shown, every key event that is unread was typed on it, or is
\* taken for it.
KeysHere == active = "ours" => \A i \in DOMAIN kbCh : kbCh[i].vt = "ours"

\* The keys tell of a modifier that is let go after all that tell of one pressed.
Balanced(keys, down) ==
  \A i \in DOMAIN keys :
    keys[i].key = "ModDown" => down \/ \E k \in DOMAIN keys : k > i /\ keys[k].key = "ModUp"

LetGo(keys) == \E i \in DOMAIN keys : keys[i].key = "ModUp"

\* What Run has of the modifiers, the keys that it has not read put right.
Modifiers ==
  ~dropped => /\ Balanced(kbCh, held)
              /\ chord \/ (mods /\ ~away) => held \/ LetGo(kbCh)

KeyInv == KeysHere /\ Modifiers

LEMMA KeyInit == VtInit => KeyInv
<1>1. DOMAIN <<>> = {}
  OBVIOUS
<1> QED BY <1>1 DEF VtInit, KeyInv, KeysHere, Modifiers, Balanced, LetGo

\* The kernel changes where a key was typed, and not which.
LEMMA ActivateKeys ==
  ASSUME NEW vt \in {"ours", "other"}, NEW keys \in Seq(KeyEvent), Activate(vt, keys)
  PROVE  /\ DOMAIN kbCh' = DOMAIN keys
         /\ \A i \in DOMAIN keys : kbCh'[i].key = keys[i].key
         /\ \/ active' = "ours" => active = "ours" /\ kbCh' = keys
            \/ \A i \in DOMAIN keys : kbCh'[i].vt = "ours"
<1>1. /\ DOMAIN Late(keys) = DOMAIN keys
      /\ \A i \in DOMAIN keys : Late(keys)[i].key = keys[i].key /\ Late(keys)[i].vt = "ours"
  <2>1. \A i \in DOMAIN keys : keys[i] \in KeyEvent
    OBVIOUS
  <2> QED BY <2>1 DEF Late, KeyEvent
<1>2. \/ kbCh' = Late(keys)
      \/ kbCh' = keys /\ (active' = "ours" => active = "ours")
  BY DEF Activate, ToOther, display
<1> QED BY <1>1, <1>2

\* What holds of all unread keys holds of those that a switch leaves.
LEMMA ActivateKeyInv ==
  ASSUME VtTypeOK, NEW vt \in {"ours", "other"}, NEW keys \in Seq(KeyEvent), Activate(vt, keys),
         active = "ours" => \A i \in DOMAIN keys : keys[i].vt = "ours"
  PROVE  /\ KeysHere'
         /\ \A down \in BOOLEAN : Balanced(keys, down) => Balanced(kbCh', down)
         /\ LetGo(keys) => LetGo(kbCh')
  BY ActivateKeys DEF KeysHere, Balanced, LetGo

\* The key that is read, and those that it leaves.
LEMMA TakenKeys ==
  ASSUME VtTypeOK, kbCh # <<>>
  PROVE  /\ Head(kbCh) \in KeyEvent /\ Tail(kbCh) \in Seq(KeyEvent)
         /\ \A down \in BOOLEAN : Balanced(kbCh, down) =>
              /\ Balanced(Tail(kbCh), down)
              /\ Head(kbCh).key = "ModDown" => down \/ LetGo(Tail(kbCh))
         /\ LetGo(kbCh) => Head(kbCh).key = "ModUp" \/ LetGo(Tail(kbCh))
         /\ KeysHere /\ active = "ours" =>
              /\ Head(kbCh).vt = "ours"
              /\ \A i \in DOMAIN Tail(kbCh) : Tail(kbCh)[i].vt = "ours"
<1>1. kbCh \in Seq(KeyEvent) /\ Len(kbCh) <= KeyCap /\ KeyCap \in Nat
  BY CapAssumption DEF VtTypeOK
<1>2. /\ Head(kbCh) \in KeyEvent /\ Head(kbCh) = kbCh[1] /\ Tail(kbCh) \in Seq(KeyEvent)
      /\ Len(Tail(kbCh)) = Len(kbCh) - 1 /\ Len(Tail(kbCh)) \in Nat
      /\ DOMAIN kbCh = 1..Len(kbCh) /\ DOMAIN Tail(kbCh) = 1..(Len(kbCh) - 1)
      /\ \A i \in DOMAIN Tail(kbCh) : i + 1 \in DOMAIN kbCh /\ Tail(kbCh)[i] = kbCh[i + 1]
      /\ \A i \in DOMAIN kbCh : i # 1 => i - 1 \in DOMAIN Tail(kbCh) /\ Tail(kbCh)[i - 1] = kbCh[i]
  BY <1>1, TailOf
<1>3. 1 \in DOMAIN kbCh /\ Len(kbCh) \in Nat
  BY <1>1, <1>2
<1>4. ASSUME NEW down \in BOOLEAN, Balanced(kbCh, down)
      PROVE  /\ Balanced(Tail(kbCh), down)
             /\ Head(kbCh).key = "ModDown" => down \/ LetGo(Tail(kbCh))
  <2>1. ASSUME NEW i \in DOMAIN Tail(kbCh), Tail(kbCh)[i].key = "ModDown", ~down
        PROVE  \E k \in DOMAIN Tail(kbCh) : k > i /\ Tail(kbCh)[k].key = "ModUp"
    <3>1. PICK k \in DOMAIN kbCh : k > i + 1 /\ kbCh[k].key = "ModUp"
      BY <1>2, <1>4, <2>1 DEF Balanced
    <3>2. k - 1 \in DOMAIN Tail(kbCh) /\ k - 1 > i /\ Tail(kbCh)[k - 1].key = "ModUp"
      BY <1>2, <3>1
    <3> QED BY <3>2
  <2>2. ASSUME Head(kbCh).key = "ModDown", ~down PROVE LetGo(Tail(kbCh))
    <3>1. PICK k \in DOMAIN kbCh : k > 1 /\ kbCh[k].key = "ModUp"
      BY <1>2, <1>3, <1>4, <2>2 DEF Balanced
    <3>2. k - 1 \in DOMAIN Tail(kbCh) /\ Tail(kbCh)[k - 1].key = "ModUp"
      BY <1>2, <3>1
    <3> QED BY <3>2 DEF LetGo
  <2> QED BY <2>1, <2>2 DEF Balanced
<1>5. LetGo(kbCh) => Head(kbCh).key = "ModUp" \/ LetGo(Tail(kbCh))
  BY <1>2 DEF LetGo
<1>6. KeysHere /\ active = "ours" =>
        /\ Head(kbCh).vt = "ours"
        /\ \A i \in DOMAIN Tail(kbCh) : Tail(kbCh)[i].vt = "ours"
  BY <1>2, <1>3 DEF KeysHere
<1> QED BY <1>2, <1>4, <1>5, <1>6

\* A step that neither takes a key nor brings the display back.
LEMMA QuietKeys ==
  ASSUME KeyInv, UNCHANGED <<kbCh, chord, held, dropped>>,
         active' = "ours" => active = "ours",
         mods' /\ ~away' => mods /\ ~away
  PROVE  KeyInv'
  BY DEF KeyInv, KeysHere, Modifiers, Balanced, LetGo

\* A key event comes.
LEMMA ReadLoopKeys == ASSUME VtTypeOK, KeyInv, readLoop PROVE KeyInv'
<1>1. PICK k \in {"ModDown", "ModUp", "Other"} :
        /\ k = "ModUp" => held
        /\ held' = (k = "ModDown" \/ (held /\ k # "ModUp"))
        /\ IF Len(kbCh) < KeyCap
           THEN kbCh' = Append(kbCh, [key |-> k, vt |-> active]) /\ UNCHANGED dropped
           ELSE dropped' = TRUE /\ UNCHANGED kbCh
  BY DEF readLoop
<1>2. UNCHANGED <<active, chord, mods, away>>
  BY DEF readLoop, display
<1>3. CASE Len(kbCh) < KeyCap
  <2> DEFINE e == [key |-> k, vt |-> active]
  <2>1. e \in KeyEvent /\ e.key = k /\ e.vt = active
    BY DEF KeyEvent, VtTypeOK
  <2>2. kbCh \in Seq(KeyEvent) /\ KeyCap \in Nat
    BY CapAssumption DEF VtTypeOK
  <2>3. /\ Len(kbCh) \in Nat
        /\ DOMAIN kbCh = 1..Len(kbCh) /\ DOMAIN kbCh' = 1..(Len(kbCh) + 1)
        /\ \A i \in DOMAIN kbCh : kbCh'[i] = kbCh[i]
        /\ kbCh'[Len(kbCh) + 1] = e
    <3> HIDE DEF e
    <3> QED BY <1>1, <1>3, <2>1, <2>2, AppendOf DEF e
  <2>4. /\ \A i \in DOMAIN kbCh' : i \in DOMAIN kbCh \/ i = Len(kbCh) + 1
        /\ \A i \in DOMAIN kbCh : i \in DOMAIN kbCh' /\ i < Len(kbCh) + 1
        /\ Len(kbCh) + 1 \in DOMAIN kbCh'
    BY <2>3
  <2>5. KeysHere'
    BY <1>2, <2>1, <2>3, <2>4 DEF KeyInv, KeysHere
  <2>6. ASSUME ~dropped'
        PROVE  Balanced(kbCh', held') /\ (chord \/ (mods /\ ~away) => held' \/ LetGo(kbCh'))
    <3>1. ~dropped
      BY <1>1, <1>3, <2>6
    <3>2. k = "ModUp" => LetGo(kbCh')
      BY <2>1, <2>3, <2>4 DEF LetGo
    <3>3. LetGo(kbCh) => LetGo(kbCh')
      BY <2>3, <2>4 DEF LetGo
    <3>4. ASSUME NEW i \in DOMAIN kbCh', kbCh'[i].key = "ModDown", ~held'
          PROVE  \E j \in DOMAIN kbCh' : j > i /\ kbCh'[j].key = "ModUp"
      <4>1. k # "ModDown" /\ i \in DOMAIN kbCh /\ kbCh[i].key = "ModDown"
        BY <1>1, <2>1, <2>3, <2>4, <3>4
      <4>2. CASE k = "ModUp"
        BY <2>1, <2>3, <2>4, <4>1, <4>2
      <4>3. CASE k # "ModUp"
        <5>1. ~held
          BY <1>1, <3>4, <4>3
        <5>2. PICK j \in DOMAIN kbCh : j > i /\ kbCh[j].key = "ModUp"
          BY <3>1, <4>1, <5>1 DEF KeyInv, Modifiers, Balanced
        <5> QED BY <2>3, <2>4, <5>2
      <4> QED BY <4>2, <4>3
    <3>5. Balanced(kbCh', held')
      BY <3>4 DEF Balanced
    <3>6. chord \/ (mods /\ ~away) => held' \/ LetGo(kbCh')
      BY <1>1, <3>1, <3>2, <3>3 DEF KeyInv, Modifiers
    <3> QED BY <3>5, <3>6
  <2> QED BY <1>2, <2>5, <2>6 DEF KeyInv, Modifiers
<1>4. CASE ~(Len(kbCh) < KeyCap)
  BY <1>1, <1>2, <1>4 DEF KeyInv, KeysHere, Modifiers
<1> QED BY <1>3, <1>4

\* Run takes one.
LEMMA TakenKeyInv ==
  ASSUME HandInv, KeyInv, Swallow \/ Key \/ Switch
  PROVE  KeyInv'
<1>1. /\ kbCh # <<>> /\ consume(Head(kbCh).key) /\ UNCHANGED <<away, held, dropped>>
  BY DEF Swallow, Key, Switch, TakeKey, Step
<1>2. /\ Head(kbCh) \in KeyEvent /\ Tail(kbCh) \in Seq(KeyEvent)
      /\ Balanced(kbCh, held) => /\ Balanced(Tail(kbCh), held)
                                 /\ Head(kbCh).key = "ModDown" => held \/ LetGo(Tail(kbCh))
      /\ LetGo(kbCh) => Head(kbCh).key = "ModUp" \/ LetGo(Tail(kbCh))
      /\ active = "ours" => \A i \in DOMAIN Tail(kbCh) : Tail(kbCh)[i].vt = "ours"
  BY <1>1, TakenKeys DEF HandInv, VtTypeOK, KeyInv
<1>3. ASSUME ~dropped, chord' \/ (mods' /\ ~away')
      PROVE  held \/ LetGo(Tail(kbCh))
  <2>1. CASE Swallow
    <3>1. away /\ chord'
      BY <1>1, <1>3, <2>1 DEF Swallow, TakeKey, Step, HandInv, Hand, Places
    <3> QED BY <1>1, <1>2, <1>3, <3>1 DEF consume, KeyInv, Modifiers
  <2>2. CASE Key
    <3>1. /\ chord' = (Head(kbCh).key = "ModDown" \/ (chord /\ Head(kbCh).key # "ModUp"))
          /\ mods' = (Head(kbCh).key = "ModDown" \/ (mods /\ Head(kbCh).key # "ModUp"))
      BY <1>1, <2>2 DEF Key, Track, consume
    <3> QED BY <1>1, <1>2, <1>3, <3>1 DEF KeyInv, Modifiers
  <2>3. CASE Switch
    <3>1. /\ chord' = (Head(kbCh).key = "ModDown" \/ (chord /\ Head(kbCh).key # "ModUp"))
          /\ mods' = mods /\ Head(kbCh).key = "Other"
      BY <1>1, <2>3 DEF Switch, MayComplete, consume
    <3> QED BY <1>1, <1>2, <1>3, <3>1 DEF KeyInv, Modifiers
  <2> QED BY <2>1, <2>2, <2>3
<1>4. CASE kbCh' = Tail(kbCh) /\ UNCHANGED active
  BY <1>1, <1>2, <1>3, <1>4 DEF KeyInv, KeysHere, Modifiers
<1>5. CASE \E vt \in {"ours", "other"} : Activate(vt, Tail(kbCh))
  <2>1. /\ KeysHere'
        /\ Balanced(Tail(kbCh), held) => Balanced(kbCh', held)
        /\ LetGo(Tail(kbCh)) => LetGo(kbCh')
    BY <1>2, <1>5, ActivateKeyInv DEF HandInv, VtTypeOK
  <2> QED BY <1>1, <1>2, <1>3, <2>1 DEF KeyInv, Modifiers
<1> QED BY <1>4, <1>5 DEF Swallow, Key, Switch, display

\* Every step keeps what is known of the keyboard.
LEMMA KeyStep == HandInv /\ KeyInv /\ [VtNext]_vtVars => KeyInv'
<1> SUFFICES ASSUME HandInv, KeyInv, [VtNext]_vtVars PROVE KeyInv'
  OBVIOUS
<1>1. CASE SwitchFromOutside
  <2>1. PICK vt \in {"ours", "other"} : Activate(vt, kbCh)
    BY <1>1 DEF SwitchFromOutside
  <2>2. UNCHANGED <<away, chord, mods, held, dropped>>
    BY <1>1 DEF SwitchFromOutside
  <2>3. /\ KeysHere'
        /\ Balanced(kbCh, held) => Balanced(kbCh', held)
        /\ LetGo(kbCh) => LetGo(kbCh')
    BY <2>1, ActivateKeyInv DEF HandInv, VtTypeOK, KeyInv, KeysHere
  <2> QED BY <2>2, <2>3 DEF KeyInv, Modifiers
<1>2. CASE readLoop
  BY <1>2, ReadLoopKeys DEF HandInv
<1>3. CASE Swallow \/ Key \/ Switch
  BY <1>3, TakenKeyInv
<1>4. CASE \/ OtherTakesMaster \/ OtherDropsMaster \/ Deliver \/ Panic \/ Term \/ Killed
           \/ UNCHANGED vtVars
  BY <1>4, QuietKeys DEF OtherTakesMaster, OtherDropsMaster, Deliver, Panic, Term, Killed, vtVars, input,
                         display, history
<1>5. CASE Run /\ ~(Swallow \/ Key \/ Switch)
  <2>1. /\ UNCHANGED <<kbCh, chord, held, dropped>>
        /\ active' = "ours" => active = "ours"
        /\ mods' /\ ~away' => mods /\ ~away
    <3>1. CASE Dial \/ OpenDRM \/ OpenKeyboards \/ setupVT \/ Notify \/ takeControl \/ Unwind
      BY <3>1 DEF Dial, OpenDRM, OpenKeyboards, setupVT, Notify, takeControl, Unwind, input,
                  display, history
    <3>2. CASE LoopDone \/ Shutdown \/ PresentFails
      BY <3>2 DEF LoopDone, Shutdown, PresentFails, Step, Leave, input, display
    <3>3. CASE Release \/ ackRelease \/ ackAcquire \/ Resume
      BY <3>3 DEF Release, ackRelease, ackAcquire, Resume, TakeSignal, Step, VT_RELDISP,
                  ToOther, ResetMods, input
    <3>4. CASE Proceed
      BY <3>4 DEF Proceed, Step, input, display
    <3>5. CASE NoMoreKeys
      BY <3>5 DEF NoMoreKeys, Step, input, display
    <3>6. CASE Present
      BY <3>6 DEF Present, Step, input, display
    <3>7. CASE surfClose
      BY <3>7 DEF surfClose, Step, input
    <3> QED BY <1>5, <3>1, <3>2, <3>3, <3>4, <3>5, <3>6, <3>7 DEF Run
  <2> QED BY <2>1, QuietKeys
<1> QED BY <1>1, <1>2, <1>3, <1>4, <1>5 DEF VtNext, Kernel

-----------------------------------------------------------------------------
(* What follows. *)

LEMMA AllInv == VtSpec => [](HandInv /\ KeyInv)
<1>1. VtInit => HandInv /\ KeyInv
  BY VtInitType, VtInitInv, HandInit, KeyInit DEF HandInv
<1>2. HandInv /\ KeyInv /\ [VtNext]_vtVars => (HandInv /\ KeyInv)'
  BY HandStep, KeyStep
<1> QED BY <1>1, <1>2, PTL DEF VtSpec

\* The state of Run, of the channels and of the console keeps its types, and the
\* channels their capacities, whatever these are (metal.go:20-61, input.go).
THEOREM ConsoleTypeCorrect == VtSpec => []VtTypeOK
<1>1. HandInv => VtTypeOK
  BY DEF HandInv
<1> QED BY <1>1, AllInv, PTL

\* Another VT is not shown while the greeter still has the display, unless a
\* signal was lost or overtaken (vt.go:86-104, metal.go:70-84).
THEOREM DisplayIsHandedOver == VtSpec => []DisplayHandedOver
<1>1. HandInv => DisplayHandedOver
  <2> SUFFICES ASSUME HandInv, active = "other", guard = "ok", ~unaware
               PROVE  master # "ours"
    BY DEF DisplayHandedOver
  <2>1. CASE Aware
    BY <2>1 DEF HandInv, Hand, Shaken
  <2>2. CASE ~Aware
    BY <2>2 DEF HandInv, Hand, Before, Aware, Up, Loop, VtTypeOK, VtInv, Guarded, Dropped
  <2> QED BY <2>1, <2>2
<1> QED BY <1>1, AllInv, PTL

\* Once its signals are read, no switch waits for the greeter, which is parked
\* without the display exactly while another VT is shown, unless the card was
\* another's when it was opened (metal.go:61-96, drm.go:240).
THEOREM SwitchIsSettled == VtSpec => []SwitchSettled
<1>1. HandInv => SwitchSettled
  <2> SUFFICES ASSUME HandInv, at \in {"top", "parked", "events", "present"}, guard = "ok",
                      sigs = {}, vtCh = <<>>, ~unaware
               PROVE  /\ ~switching /\ (away <=> active = "other")
                      /\ away => master # "ours"
                      /\ ~away => master = "ours" \/ denied
    BY DEF SwitchSettled
  <2>1. ~AcquireUnread /\ ~ReleaseUnread
    BY DEF AcquireUnread, ReleaseUnread
  <2>2. Shaken
    BY DEF HandInv, Hand, Aware, Loop
  <2> QED BY <2>1, <2>2 DEF Shaken, Loop
<1> QED BY <1>1, AllInv, PTL

\* While no key event is lost, a modifier that the chord or the screen holds down
\* is down, or the key event that lets it go is unread (input.go, metal.go:86-93).
THEOREM NoModifierSticks == VtSpec => []NoStuckModifier
<1>1. KeyInv => NoStuckModifier
  BY DEF KeyInv, Modifiers, LetGo, NoStuckModifier
<1> QED BY <1>1, AllInv, PTL

\* No key that was typed on another VT is taken by the screen (metal.go:85-107).
THEOREM KeysDoStayAway == VtSpec => KeysStayAway
<1>1. HandInv /\ KeyInv /\ HandInv' /\ [VtNext]_vtVars =>
        [at = "events" /\ Len(kbCh') < Len(kbCh) /\ guard = "ok" /\ ~unaware =>
           Head(kbCh).vt # "other"]_vtVars
  <2> SUFFICES ASSUME HandInv, KeyInv, HandInv', at = "events", Len(kbCh') < Len(kbCh),
                      guard = "ok", ~unaware
               PROVE  Head(kbCh).vt # "other"
    OBVIOUS
  <2>1. active = "ours"
    BY DEF HandInv, Hand, Places, Aware, Shaken, Loop, VtTypeOK
  <2>2. kbCh # <<>>
    <3>1. Len(kbCh') \in Nat
      BY DEF HandInv, VtTypeOK
    <3> QED BY <3>1, EmptySeq
  <2> QED BY <2>1, <2>2, TakenKeys DEF HandInv, KeyInv, VtTypeOK
<1> QED BY <1>1, AllInv, PTL DEF VtSpec, KeysStayAway
=============================================================================
