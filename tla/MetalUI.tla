------------------------------- MODULE MetalUI -------------------------------
(***************************************************************************)
(* ui/metal/ui.go: the login screen of the native theme.  The main loop    *)
(* takes key and mouse events and drains the results once a frame; every   *)
(* call to the greeter is made by a goroutine of its own, over the one     *)
(* connection of socketBackend, and comes back through resCh.              *)
(*                                                                         *)
(* A call is one step.  The connection may be lost, in the middle of a     *)
(* call too; deadlines that expire on a live connection are not modelled   *)
(* here.  Which field has the focus, the chosen session and the messages   *)
(* shown are left out; so is the development mode, where Esc quits.        *)
(***************************************************************************)
EXTENDS AuthService, Naturals, Sequences, FiniteSets

CONSTANTS
  Jobs,     \* bound: goroutines that exist at once
  MaxPower  \* bound: power actions asked for

ASSUME MaxPowerAssumption == MaxPower \in Nat

VARIABLES
  phase,     \* the phase of the screen
  username,  \* the login field
  input,     \* the password or answer field
  armed,     \* the power action whose key was pressed once
  done, success,
  job,       \* job[j]: what goroutine j does next
  resCh,     \* results for the main loop
  linked,    \* the connection to the greeter is up
  powered,   \* power actions asked for
  machine    \* "on", "slept" once it was suspended, "off"

screenVars == <<phase, username, input, armed, done, success>>
workVars   == <<job, resCh>>
worldVars  == <<serviceVars, linked, machine>>
vars       == <<screenVars, workVars, worldVars, powered>>

ChanSize == 4  \* capacity of resCh

Action  == {"poweroff", "suspend"}
Op      == {"begin", "respond", "start", "save", "cancel", "send"} \union Action
Result  == [kind : {"auth", "start", "power"}, outcome : Outcome \union {"failed"}]
NoRes   == [kind |-> "none", outcome |-> "none"]

\* user, secret: what the form held when the goroutine was started.
Job == [op : Op, user : Name, secret : Name, res : Result \union {NoRes}]

MkJob(op, user, secret) == [op |-> op, user |-> user, secret |-> secret, res |-> NoRes]

Free == [op |-> "none", user |-> Nobody, secret |-> Nobody, res |-> NoRes]

TypeOK ==
  /\ ServiceTypeOK
  /\ phase \in {"user", "prompt", "busy", "warp"}
  /\ username \in Name
  /\ input \in Name
  /\ armed \in Action \union {"none"}
  /\ done \in BOOLEAN
  /\ success \in BOOLEAN
  /\ job \in [Jobs -> Job \union {Free}]
  /\ resCh \in Seq(Result) /\ Len(resCh) <= ChanSize
  /\ linked \in BOOLEAN
  /\ powered \in 0..MaxPower
  /\ machine \in {"on", "slept", "off"}

Init ==
  /\ ServiceInit
  /\ phase = "user"
  /\ username \in Name  \* the user the state file names, if any
  /\ input = Nobody
  /\ armed = "none"
  /\ done = FALSE
  /\ success = FALSE
  /\ job = [j \in Jobs |-> Free]
  /\ resCh = <<>>
  /\ linked = TRUE
  /\ powered = 0
  /\ machine = "on"

-----------------------------------------------------------------------------
\* Operators named Faulty... are variants of the definition that follows them,
\* each with one plausible bug; no specification uses them.

Running == ~done /\ machine # "off"

Go(k) == \E j \in Jobs : job[j] = Free /\ job' = [job EXCEPT ![j] = k]

\* Typing: the login field keeps what it has while PAM asks.
Type ==
  /\ Running
  /\ \/ /\ phase = "user"
        /\ username' \in Name
        /\ UNCHANGED input
     \/ /\ phase \in {"user", "prompt"}
        /\ input' \in Name
        /\ UNCHANGED username
  /\ UNCHANGED <<phase, armed, done, success, workVars, worldVars, powered>>

\* The screen stays in the phase it is in while the goroutine works.
FaultyToBusy == UNCHANGED phase

ToBusy == phase' = "busy"

beginAuth ==
  /\ Running
  /\ phase = "user"
  /\ Go(MkJob("begin", username, input))
  /\ ToBusy
  /\ input' = Nobody
  /\ UNCHANGED <<username, armed, done, success, resCh, worldVars, powered>>

respondAuth ==
  /\ Running
  /\ phase = "prompt"
  /\ Go(MkJob("respond", username, input))
  /\ ToBusy
  /\ input' = Nobody
  /\ UNCHANGED <<username, armed, done, success, resCh, worldVars, powered>>

\* Tab, Esc or a click on the login field: the call that cancels the
\* conversation is not waited for.
backToUser ==
  /\ Running
  /\ phase = "prompt"
  /\ Go(MkJob("cancel", Nobody, Nobody))
  /\ phase' = "user"
  /\ input' = Nobody
  /\ UNCHANGED <<username, armed, done, success, resCh, worldVars, powered>>

\* The first press of a power key, in any phase, and the time that disarms it.
ArmPower ==
  /\ Running
  /\ armed' \in (Action \union {"none"}) \ {armed}
  /\ UNCHANGED <<phase, username, input, done, success, workVars, worldVars, powered>>

\* The second press.
FirePower ==
  /\ Running
  /\ armed # "none"
  /\ powered < MaxPower
  /\ powered' = powered + 1
  /\ Go(MkJob(armed, Nobody, Nobody))
  /\ phase' = "busy"
  /\ armed' = "none"
  /\ UNCHANGED <<username, input, done, success, resCh, worldVars>>

-----------------------------------------------------------------------------
\* A call over the connection: o is what the goroutine sees of outcome r.
Reply(o, r) ==
  \/ o = r /\ UNCHANGED linked
  \/ o = "failed" /\ linked' = FALSE

\* The effect of j's call at the greeter.
Effect(k, r) ==
  CASE k.op = "begin"   -> BeginAuth(k.user, r) /\ UNCHANGED machine
    [] k.op = "respond" -> RespondAuth(k.secret, r) /\ UNCHANGED machine
    [] k.op = "cancel"  -> CancelAuth(r) /\ UNCHANGED machine
    [] k.op = "start"   -> StartSession(r) /\ UNCHANGED machine
    [] k.op = "save"    -> SaveState(k.user, r) /\ UNCHANGED machine
    [] OTHER            -> /\ r \in {"success", "error"}
                           /\ machine' = CASE r = "error"       -> machine
                                           [] k.op = "poweroff" -> "off"
                                           [] OTHER             -> "slept"
                           /\ UNCHANGED serviceVars

Kind(op) ==
  CASE op \in {"begin", "respond"} -> "auth"
    [] op \in {"start", "save"}    -> "start"
    [] OTHER                       -> "power"

\* The result is sent as it was allocated.
FaultySend(k, o) == [k EXCEPT !.op = "send"]

Send(k, o) == [k EXCEPT !.op = "send", !.res = [kind |-> Kind(k.op), outcome |-> o]]

\* The session is taken for started before the answer is looked at.
FaultyAfter(k, o) ==
  CASE k.op = "begin" /\ o = "secret" /\ k.secret # Nobody -> [k EXCEPT !.op = "respond"]
    [] k.op = "start" -> [k EXCEPT !.op = "save"]
    [] k.op = "save" -> Send(k, "success")
    [] k.op = "cancel" -> Free
    [] OTHER -> Send(k, o)

\* A state that could not be saved counts as a session that did not start.
FaultyAfterSave(k, o) ==
  CASE k.op = "begin" /\ o = "secret" /\ k.secret # Nobody -> [k EXCEPT !.op = "respond"]
    [] k.op = "start" /\ o = "success" -> [k EXCEPT !.op = "save"]
    [] k.op = "cancel" -> Free
    [] OTHER -> Send(k, o)

\* What the goroutine does after its call: a filled password answers the first
\* secret prompt, a started session is remembered, whether that works or not.
After(k, o) ==
  CASE k.op = "begin" /\ o = "secret" /\ k.secret # Nobody -> [k EXCEPT !.op = "respond"]
    [] k.op = "start" /\ o = "success" -> [k EXCEPT !.op = "save"]
    [] k.op = "save" -> Send(k, "success")
    [] k.op = "cancel" -> Free
    [] OTHER -> Send(k, o)

Calls(j) == job[j].op \notin {"none", "send"}

RpcCall(j) ==
  /\ Running
  /\ Calls(j)
  /\ linked
  /\ \E r \in Outcome : \E o \in {r, "failed"} :
       /\ Effect(job[j], r)
       /\ Reply(o, r)
       /\ job' = [job EXCEPT ![j] = After(job[j], o)]
  /\ UNCHANGED <<screenVars, resCh, powered>>

RpcDead(j) ==
  /\ Running
  /\ Calls(j)
  /\ ~linked
  /\ job' = [job EXCEPT ![j] = After(job[j], "failed")]
  /\ UNCHANGED <<screenVars, resCh, worldVars, powered>>

SendResult(j) ==
  /\ Running
  /\ job[j].op = "send"
  /\ Len(resCh) < ChanSize
  /\ resCh' = Append(resCh, job[j].res)
  /\ job' = [job EXCEPT ![j] = Free]
  /\ UNCHANGED <<screenVars, worldVars, powered>>

-----------------------------------------------------------------------------
\* Update: the results, in whatever phase the screen is by now.
fail ==
  /\ phase' = "user"
  /\ input' = Nobody
  /\ UNCHANGED job

onAuthStep(o) ==
  CASE o = "success"   -> /\ phase' = "busy"
                          /\ Go(MkJob("start", username, Nobody))
                          /\ UNCHANGED input
    [] o \in Prompt    -> /\ phase' = "prompt"
                          /\ input' = Nobody
                          /\ UNCHANGED job
    [] OTHER           -> fail

\* A start that failed warps like one that succeeded.
FaultyOnStart(o) == phase' = "warp" /\ UNCHANGED <<input, job>>

onStart(o) ==
  IF o = "success" THEN phase' = "warp" /\ UNCHANGED <<input, job>> ELSE fail

\* A power action that failed changes nothing either.
FaultyOnPower(o) == UNCHANGED <<phase, input, job>>

\* After a power action that worked, nothing changes.
onPower(o) ==
  IF o = "success" THEN UNCHANGED <<phase, input, job>> ELSE fail

TakeResult ==
  /\ Running
  /\ resCh # <<>>
  /\ resCh' = Tail(resCh)
  /\ LET r == Head(resCh) IN
       CASE r.kind = "auth"  -> onAuthStep(r.outcome)
         [] r.kind = "start" -> onStart(r.outcome)
         [] r.kind = "power" -> onPower(r.outcome)
  /\ UNCHANGED <<username, armed, done, success, worldVars, powered>>

\* The warp has run its time: the loop ends and the greeter exits.
WarpEnds ==
  /\ Running
  /\ phase = "warp"
  /\ done' = TRUE
  /\ success' = TRUE
  /\ UNCHANGED <<phase, username, input, armed, workVars, worldVars, powered>>

Keys == Type \/ beginAuth \/ respondAuth \/ backToUser \/ ArmPower \/ FirePower

Goroutine(j) == RpcCall(j) \/ RpcDead(j) \/ SendResult(j)

Next ==
  \/ Keys
  \/ \E j \in Jobs : Goroutine(j)
  \/ TakeResult
  \/ WarpEnds

Spec == Init /\ [][Next]_vars

\* Frames keep coming and calls return; nobody has to press a key.
Fairness ==
  /\ \A j \in Jobs : WF_vars(Goroutine(j))
  /\ WF_vars(TakeResult)
  /\ WF_vars(WarpEnds)

FairSpec == Spec /\ Fairness

-----------------------------------------------------------------------------
\* The greeter leaves with success only when greetd has a session to start.
SuccessMeansStarted == success => conv = "started"

Undisturbed == powered = 0

Working(j) == job[j].op \in {"begin", "respond", "start", "save", "send"}

\* While no power key was used, the screen is busy exactly while one
\* authentication or start is on its way; the phases alone serialise the
\* goroutines (ui.go:202-259).
OneAtATime ==
  Undisturbed =>
    Cardinality({j \in Jobs : Working(j)}) + Len(resCh) = (IF phase = "busy" THEN 1 ELSE 0)

\* The user remembered is the one whose session greetd starts, although the
\* name is read from the form only when the success comes back (ui.go:446).
SavedUserIsStarted ==
  Undisturbed /\ saved # Nobody => conv = "started" /\ owner = saved

\* A password typed for one user is never the answer to another user's prompt,
\* however late the cancellation of an abandoned conversation comes.
PasswordGoesToItsUser ==
  [][\A j \in Jobs :
       Undisturbed /\ job[j].op = "respond" /\ job'[j] # job[j] /\ conv = "conversing"
         => owner = job[j].user]_vars

\* A busy screen becomes usable again unless the machine slept or went off.
BusyEnds ==
  phase = "busy" ~> phase # "busy" \/ machine # "on"

\* Once greetd has accepted the session the greeter leaves, which greetd waits
\* for, whether the state could be saved or not; a power key or a lost
\* connection may come between.
StartedIsEntered ==
  conv = "started" ~> done \/ powered > 0 \/ ~linked

\* "beginAuth submits the whole form as one pam conversation" (ui.go:401): the
\* password meets the conversation that was begun for it.
OneConversation ==
  [][\A j \in Jobs :
       Undisturbed /\ job[j].op = "respond" /\ job'[j] # job[j] /\ linked
         => conv = "conversing" /\ owner = job[j].user]_vars

\* "on success the machine is going away" (ui.go:520): a power action that
\* worked leaves no screen waiting for it.
PowerEndsTheGreeter ==
  phase = "busy" ~> phase # "busy" \/ machine = "off"
=============================================================================
