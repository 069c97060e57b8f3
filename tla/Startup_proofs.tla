--------------------------- MODULE Startup_proofs ---------------------------
(***************************************************************************)
(* Main comes to one display, whatever its parts do: for any starts,       *)
(* systems, screens and capacities.  What is proved of the console and of  *)
(* the scaling by themselves holds of them as main starts them.            *)
(*                                                                         *)
(* Then the webview, which has no specification of its own.  First what    *)
(* does not depend on what its texts say: the bridge with others' idle     *)
(* callbacks in its queue, the signal, and who can touch a deleted         *)
(* webview.  Then the page's promises.  That the texts keep the strings    *)
(* that are written into them, TextsSurvive, is a hypothesis there:        *)
(* json_parse, json_escape and the reader of JavaScript are recursive over *)
(* their texts, and TLC evaluates them for the strings of a run.           *)
(***************************************************************************)
EXTENDS Startup, VtSwitch_proofs, OutputScaleScreens_proofs

\* The mark in the environment is what has been executed; no step that needs a
\* display is come to without one; and off the console its Run has not begun, or
\* has come to its end.
MainInv ==
  /\ stage2 \in BOOLEAN /\ relaunches = IF stage2 THEN 1 ELSE 0
  /\ theme \in {"native", "web"}
  /\ step = "window" => haveCompositor
  /\ step \in {"scale", "serve", "webview"} => ~NoDisplay
  /\ step = "connect" /\ theme = "web" => ~NoDisplay
  /\ step # "metal" /\ status # "crashed" => at \in {"off", "returned"}
  /\ focus # "metal" => at = "off"
  /\ step # "exited" => status = "none"

StartupInv == MainInv /\ VtInv

LEMMA StartupInitInv == StartupInit => StartupInv
<1> SUFFICES ASSUME StartupInit PROVE StartupInv
  OBVIOUS
<1>1. VtInit
  BY DEF StartupInit
<1>2. PICK s \in Starts : theme = s.theme
  BY DEF StartupInit
<1>3. theme \in {"native", "web"}
  BY <1>2, StartsAssumption DEF Start
<1>4. MainInv
  BY <1>1, <1>3 DEF StartupInit, MainInv, VtInit
<1> QED BY <1>1, <1>4, VtInitInv DEF StartupInv

\* Cage is executed by a process without the mark, which it leaves behind.
LEMMA RelaunchInv ==
  ASSUME StartupInv, NEW from, relaunchUnderCage(from),
         from # "exited", from # "metal" \/ at \in {"off", "returned"}
  PROVE  MainInv'
<1> USE DEF StartupInv, MainInv, NoDisplay, env, vtVars, control
<1>1. CASE Exec(from)
  <2>1. /\ step = from /\ status' = status
        /\ ~stage2 /\ focus = "main" /\ stage2' = TRUE /\ relaunches' = relaunches + 1
        /\ step' = "flags" /\ UNCHANGED <<focus, at>>
    BY <1>1 DEF Exec, Go, Environ
  <2>2. PICK s \in Starts : theme' = s.theme
    BY <1>1 DEF Exec
  <2>3. theme' \in {"native", "web"}
    BY <2>2, StartsAssumption DEF Start
  <2> QED BY <2>1, <2>3
<1>2. CASE Exit(from, "gave up")
  <2>1. /\ step = from /\ step' = "exited" /\ status' = "gave up"
        /\ UNCHANGED <<focus, at, theme, haveCompositor, stage2, relaunches>>
    BY <1>2 DEF Exit, Go
  <2> QED BY <2>1
<1> QED BY <1>1, <1>2 DEF relaunchUnderCage

\* A native theme gives way to a web theme where there is a display.
LEMMA FallbackInv ==
  ASSUME StartupInv, NEW from, step = from, Fallback(from),
         from # "exited", from # "metal" \/ at \in {"off", "returned"}
  PROVE  MainInv'
<1>1. CASE NoDisplay
  BY <1>1, RelaunchInv DEF Fallback
<1>2. CASE ~NoDisplay
  <2>1. /\ step' = "scale" /\ theme' = "web"
        /\ UNCHANGED <<focus, devMode, at, status, haveCompositor, stage2, relaunches>>
    BY <1>2 DEF Fallback, Go, env, vtVars, control
  <2> QED BY <1>2, <2>1 DEF StartupInv, MainInv, NoDisplay
<1> QED BY <1>1, <1>2

\* Main goes on, and nothing else changes.
LEMMA OnInv ==
  ASSUME StartupInv, NEW from, NEW to, On(from, to),
         from \notin {"exited", "metal"}, to # "exited",
         to = "window" => haveCompositor,
         to \in {"scale", "serve", "webview"} => ~NoDisplay,
         to = "connect" /\ theme = "web" => ~NoDisplay
  PROVE  MainInv'
<1>1. /\ step = from /\ step' = to
      /\ UNCHANGED <<focus, devMode, at, status, theme, haveCompositor, stage2, relaunches>>
  BY DEF On, Go, env, vtVars, control
<1> QED BY <1>1 DEF StartupInv, MainInv, NoDisplay

\* Main ends.
LEMMA ExitInv ==
  ASSUME StartupInv, NEW from, NEW how, Exit(from, how),
         from # "exited", from # "metal" \/ at \in {"off", "returned"}
  PROVE  MainInv'
<1>1. /\ step = from /\ step' = "exited" /\ status' = how
      /\ UNCHANGED <<focus, devMode, at, theme, haveCompositor, stage2, relaunches>>
  BY DEF Exit, Go, env, vtVars, control
<1> QED BY <1>1 DEF StartupInv, MainInv

\* A step of main, whose parts are left as they are.
LEMMA MainStepInv ==
  ASSUME StartupInv,
         \/ Flags \/ connectGreetd \/ runNative \/ gtkwinRun \/ metalRun
         \/ MetalReturns \/ Scaled \/ Serve \/ WebviewEnds
  PROVE  MainInv'
<1> USE DEF StartupInv, MainInv
<1>1. CASE Flags
  <2>1. CASE needsWebview /\ NoDisplay
    BY <1>1, <2>1, RelaunchInv DEF Flags
  <2>2. CASE ~(needsWebview /\ NoDisplay)
    BY <1>1, <2>2, OnInv DEF Flags, needsWebview
  <2> QED BY <2>1, <2>2
<1>2. CASE connectGreetd
  <2>1. CASE theme = "native" /\ On("connect", "native")
    BY <2>1, OnInv
  <2>2. CASE theme # "native" /\ On("connect", "scale")
    BY <2>2, OnInv DEF On, Go
  <2>3. CASE Exit("connect", "gave up")
    BY <2>3, ExitInv
  <2> QED BY <1>2, <2>1, <2>2, <2>3 DEF connectGreetd
<1>3. CASE runNative
  <2>1. CASE haveCompositor /\ On("native", "window")
    BY <2>1, OnInv
  <2>2. CASE On("native", "metal")
    BY <2>2, OnInv
  <2>3. CASE step = "native" /\ Fallback("native")
    BY <2>3, FallbackInv
  <2> QED BY <1>3, <2>1, <2>2, <2>3 DEF runNative
<1>4. CASE gtkwinRun
  BY <1>4, ExitInv, FallbackInv DEF gtkwinRun
<1>5. CASE metalRun
  BY <1>5, ExitInv, FallbackInv DEF metalRun
<1>6. CASE MetalReturns
  BY <1>6, ExitInv, FallbackInv DEF MetalReturns
<1>7. CASE Scaled
  BY <1>7, OnInv DEF Scaled, On, Go
<1>8. CASE Serve
  <2>1. CASE On("serve", "webview")
    BY <2>1, OnInv DEF On, Go
  <2>2. CASE Exit("serve", "gave up")
    BY <2>2, ExitInv
  <2> QED BY <1>8, <2>1, <2>2 DEF Serve
<1>9. CASE WebviewEnds
  BY <1>9, ExitInv DEF WebviewEnds
<1> QED BY <1>1, <1>2, <1>3, <1>4, <1>5, <1>6, <1>7, <1>8, <1>9

\* None of these steps is one of Run.
LEMMA MainLeavesConsole ==
  ASSUME \/ Flags \/ connectGreetd \/ runNative \/ gtkwinRun \/ metalRun
         \/ MetalReturns \/ Scaled \/ Serve \/ WebviewEnds
  PROVE  UNCHANGED vtVars
  BY DEF Flags, connectGreetd, runNative, gtkwinRun, metalRun, MetalReturns, Scaled, Serve,
         WebviewEnds, On, Exit, Go, Fallback, relaunchUnderCage, Exec

\* The console is entered by main, and left by it, when Run says so.
LEMMA StepsVt == [StartupNext]_allVars => [VtNext]_vtVars
  BY MainLeavesConsole DEF StartupNext, MetalStep, ScaleStep, WebviewStep, allVars

LEMMA StartupNextInv == StartupInv /\ [StartupNext]_allVars => StartupInv'
<1> SUFFICES ASSUME StartupInv, [StartupNext]_allVars PROVE StartupInv'
  OBVIOUS
<1>1. VtInv'
  BY StepsVt, VtNextInv DEF StartupInv
<1>2. MainInv'
  <2>1. CASE MetalStep
    BY <2>1 DEF StartupInv, MainInv, MetalStep, env, stage, NoDisplay
  <2>2. CASE ScaleStep \/ WebviewStep
    BY <2>2 DEF StartupInv, MainInv, ScaleStep, WebviewStep, env, stage, vtVars, control,
                NoDisplay
  <2>3. CASE UNCHANGED allVars
    BY <2>3 DEF StartupInv, MainInv, allVars, env, stage, vtVars, control, NoDisplay
  <2> QED BY <2>1, <2>2, <2>3, MainStepInv DEF StartupNext
<1> QED BY <1>1, <1>2 DEF StartupInv

LEMMA StartupInvDisplay == StartupInv => OneDisplay
  BY DEF StartupInv, MainInv, OneDisplay, NoDisplay, VtInv, Guarded, Dropped

\* From every start, main relaunches itself once at most, comes to one display
\* or an end, and goes on from the console with the console as it was found
\* (main.go:30-167).
THEOREM ComesToOneDisplay == StartupSpec => []OneDisplay
<1>1. StartupSpec => []StartupInv
  BY StartupInitInv, StartupNextInv, PTL DEF StartupSpec
<1> QED BY <1>1, StartupInvDisplay, PTL

\* Started by main, the console theme is the one of VtSwitch.
THEOREM ConsoleAsStarted == StartupSpec => VtSpec
<1>1. StartupInit => VtInit
  BY DEF StartupInit
<1> QED BY <1>1, StepsVt, PTL DEF StartupSpec, VtSpec

\* Whichever way out of Run main takes it by, the console has its modes back and
\* the display is free (metal.go:49-96, vt.go:74).
THEOREM ConsoleGivenBack == StartupSpec => []ConsoleRestored
  BY ConsoleAsStarted, ConsoleComesBack, PTL

\* Nor does the handshake of a switch depend on how the console theme was come to:
\* the display is handed over, and what is typed elsewhere stays there
\* (metal.go:61-107, vt.go:74-104).
THEOREM ConsoleSwitches ==
  StartupSpec => /\ [](VtTypeOK /\ DisplayHandedOver /\ SwitchSettled /\ NoStuckModifier)
                 /\ KeysStayAway
  BY ConsoleAsStarted, ConsoleTypeCorrect, DisplayIsHandedOver, SwitchIsSettled,
     NoModifierSticks, KeysDoStayAway, PTL

-----------------------------------------------------------------------------
(* The scaling of the outputs, started by main. *)

\* None of main's own steps is one of the function or of the compositor.
LEMMA MainLeavesScaling ==
  ASSUME \/ Flags \/ connectGreetd \/ runNative \/ gtkwinRun \/ metalRun
         \/ MetalReturns \/ Scaled \/ Serve \/ WebviewEnds
  PROVE  UNCHANGED vars
  BY DEF Flags, connectGreetd, runNative, gtkwinRun, metalRun, MetalReturns, Scaled, Serve,
         WebviewEnds, On, Exit, Go, Fallback, relaunchUnderCage, Exec

LEMMA StepsScale == [StartupNext]_allVars => [Next]_vars
  BY MainLeavesScaling DEF StartupNext, MetalStep, ScaleStep, WebviewStep, allVars

\* What main starts is configure_output_scale as OutputScale has it (main.go:75).
THEOREM ScalingAsStarted == StartupSpec => Spec
<1>1. StartupInit => Init
  BY DEF StartupInit
<1> QED BY <1>1, StepsScale, PTL DEF StartupSpec, Spec

\* So started, it gives the compositor no cause to close the connection, reports what
\* the compositor has answered, and changes the scale of the screens that are on, all
\* of them, and nothing else (glue.c:127-236).
THEOREM ScalingIsSound ==
  StartupSpec => /\ [](TypeOK /\ NoProtocolError /\ ResultIsVerdict)
                 /\ OnlyScaleChanges
                 /\ AllScaled
  BY ScalingAsStarted, ScaleTypeCorrect, NoCauseToClose, ResultIsTrue,
     ScreensStayAsTheyAre, EveryScreenIsScaled, PTL

-----------------------------------------------------------------------------
(* GTK's idle queue, of which the bridge's indices are a part. *)

\* Where a queue has members of K.
Spots(q, K) == {i \in DOMAIN q : q[i] \in K}

LEMMA SpotsFinite ==
  ASSUME NEW T, NEW q \in Seq(T), NEW K
  PROVE  IsFiniteSet(Spots(q, K)) /\ Cardinality(Spots(q, K)) \in Nat
<1>1. DOMAIN q = 1..Len(q) /\ Len(q) \in Nat
  BY LenProperties
<1>2. IsFiniteSet(DOMAIN q)
  BY <1>1, FS_Interval
<1>3. Spots(q, K) \in SUBSET (DOMAIN q)
  BY DEF Spots
<1>4. IsFiniteSet(Spots(q, K))
  BY <1>2, <1>3, FS_Subset
<1> QED BY <1>4, FS_CardinalityType

\* One more at the end counts where it is a member of K.
LEMMA SpotsMore ==
  ASSUME NEW T, NEW q \in Seq(T), NEW e \in T, NEW K
  PROVE  Cardinality(Spots(Append(q, e), K)) =
           Cardinality(Spots(q, K)) + IF e \in K THEN 1 ELSE 0
<1> DEFINE last == Len(q) + 1
<1>1. /\ DOMAIN q = 1..Len(q) /\ Len(q) \in Nat /\ Len(Append(q, e)) = last
      /\ DOMAIN Append(q, e) = 1..last /\ Append(q, e)[last] = e
      /\ \A i \in 1..Len(q) : Append(q, e)[i] = q[i]
  BY LenProperties, AppendProperties
<1>2. last \notin Spots(q, K)
  BY <1>1 DEF Spots
<1>3. Spots(Append(q, e), K) = Spots(q, K) \union (IF e \in K THEN {last} ELSE {})
  <2>1. \A i : i \in 1..last <=> i \in 1..Len(q) \/ i = last
    BY <1>1
  <2> HIDE DEF last
  <2> QED BY <1>1, <2>1 DEF Spots
<1> HIDE DEF last
<1>4. CASE e \in K
  <2>1. Spots(Append(q, e), K) = Spots(q, K) \union {last}
    BY <1>3, <1>4
  <2> QED BY <1>2, <1>4, <2>1, SpotsFinite, FS_AddElement
<1>5. CASE e \notin K
  <2>1. Spots(Append(q, e), K) = Spots(q, K)
    BY <1>3, <1>5
  <2> QED BY <1>5, <2>1, SpotsFinite
<1> QED BY <1>4, <1>5

LEMMA SpotsSame ==
  ASSUME NEW T, NEW q \in Seq(T), NEW e \in T, NEW K, e \notin K
  PROVE  Cardinality(Spots(Append(q, e), K)) = Cardinality(Spots(q, K))
<1>1. Cardinality(Spots(q, K)) \in Nat
  BY SpotsFinite
<1> QED BY <1>1, SpotsMore

\* And the first one, when it is taken.
LEMMA SpotsLess ==
  ASSUME NEW T, NEW q \in Seq(T), q # <<>>, NEW K
  PROVE  Cardinality(Spots(Tail(q), K)) =
           Cardinality(Spots(q, K)) - IF Head(q) \in K THEN 1 ELSE 0
<1> DEFINE A == Spots(q, K) \ {1}
           B == Spots(Tail(q), K)
           f == [i \in A |-> i - 1]
<1>1. /\ DOMAIN q \subseteq Int /\ DOMAIN Tail(q) \subseteq Int /\ 1 \in DOMAIN q
      /\ Head(q) = q[1]
      /\ \A i \in DOMAIN Tail(q) : i + 1 \in DOMAIN q /\ Tail(q)[i] = q[i + 1]
      /\ \A i \in DOMAIN q : i # 1 => i - 1 \in DOMAIN Tail(q) /\ Tail(q)[i - 1] = q[i]
      /\ \A i \in DOMAIN Tail(q) : i >= 1
  <2>1. Tail(q) \in Seq(T)
    BY RestOf
  <2>2. DOMAIN Tail(q) = 1..Len(Tail(q)) /\ Len(Tail(q)) \in Nat
    BY <2>1, LenProperties
  <2> QED BY <2>2, RestOf
<1>2. ASSUME NEW i \in A PROVE i \in Int /\ f[i] = i - 1 /\ i - 1 \in B
  BY <1>1, <1>2 DEF Spots
<1>3. ASSUME NEW i \in B PROVE i + 1 \in A /\ f[i + 1] = i
  <2>1. i \in Int /\ i >= 1 /\ i + 1 \in DOMAIN q /\ q[i + 1] \in K
    BY <1>1, <1>3 DEF Spots
  <2>2. i + 1 # 1
    BY <2>1
  <2>3. i + 1 \in A
    BY <2>1, <2>2 DEF Spots
  <2>4. f[i + 1] = (i + 1) - 1
    BY <2>3
  <2> QED BY <2>1, <2>3, <2>4
<1>4. ExistsBijection(A, B)
  <2>1. f \in [A -> B]
    BY <1>2
  <2>2. \A i, k \in A : f[i] = f[k] => i = k
    <3> SUFFICES ASSUME NEW i \in A, NEW k \in A, f[i] = f[k] PROVE i = k
      OBVIOUS
    <3>1. i - 1 = k - 1 /\ i \in Int /\ k \in Int
      BY <1>2
    <3> QED BY <3>1
  <2>3. \A i \in B : \E k \in A : f[k] = i
    BY <1>3
  <2> HIDE DEF f, A, B
  <2>4. f \in Bijection(A, B)
    BY <2>1, <2>2, <2>3 DEF Bijection, Injection, Surjection, IsInjective
  <2> QED BY <2>4 DEF ExistsBijection
<1>5. /\ IsFiniteSet(A)
      /\ Cardinality(A) = Cardinality(Spots(q, K)) - IF 1 \in Spots(q, K) THEN 1 ELSE 0
  <2>1. IsFiniteSet(Spots(q, K)) /\ Cardinality(Spots(q, K)) \in Nat
    BY SpotsFinite
  <2> QED BY <2>1, FS_RemoveElement
<1>6. Cardinality(B) = Cardinality(A)
  <2> HIDE DEF A, B
  <2> QED BY <1>4, <1>5, FS_Bijection
<1>7. 1 \in Spots(q, K) <=> Head(q) \in K
  BY <1>1 DEF Spots
<1> QED BY <1>5, <1>6, <1>7

-----------------------------------------------------------------------------
(* The goroutines under the library. *)

\* What a step of the library is for the bridge.
More == {<<>>} \union {<<c>> : c \in Calls}

Bridges ==
  \/ \E c \in Calls : Engine!Call(c) \/ Engine!Handled(c)
  \/ \E j \in Engine!Jobs : Engine!DispatchOn(j)
  \/ \E more \in More : Engine!Run(more)
  \/ Engine!RunOther(<<>>)
  \/ \E o \in Other : Engine!PostOther(o)
  \/ UNCHANGED Engine!vars

\* What the idle queue is after one.
LEMMA QueueMore ==
  ASSUME NEW T, NEW q \in Seq(T), q # <<>>, NEW more, more = <<>> \/ \E c \in T : more = <<c>>
  PROVE  /\ Tail(q) \in Seq(T) /\ Tail(q) \o more \in Seq(T)
         /\ more = <<>> => Tail(q) \o more = Tail(q)
         /\ \A c \in T : more = <<c>> => Tail(q) \o more = Append(Tail(q), c)
<1>1. Tail(q) \in Seq(T)
  BY RestOf
<1>2. CASE more = <<>>
  BY <1>1, <1>2
<1>3. ASSUME NEW c \in T, more = <<c>>
      PROVE  Tail(q) \o more \in Seq(T) /\ Tail(q) \o more = Append(Tail(q), c)
  BY <1>1, <1>3
<1>4. \A c \in T : <<c>> # <<>>
  OBVIOUS
<1> QED BY <1>1, <1>2, <1>3, <1>4

\* The names of the callbacks.
LEMMA Callbacks ==
  /\ Calls \subseteq Engine!Jobs /\ NoJob \notin Engine!Jobs /\ Navigate \in Engine!Jobs
  /\ Navigate \notin Calls /\ Calls \subseteq Other /\ Quit \in Other /\ Depleted \in Other
  /\ Quit \notin Calls /\ Depleted \notin Calls /\ Quit # Depleted
  /\ \A o \in Other : o \notin Engine!Index
  /\ \A o \in Other : o \in Calls \/ o = Quit \/ o = Depleted
  /\ 0 \in Engine!Index /\ Engine!Index = 0..MaxIndex /\ MaxIndex \in Nat
  BY CallbacksAssumption, EngineAssumption DEF Engine!Jobs, Engine!Index

\* No step breaks the types of the bridge.
LEMMA BridgeTypes == Engine!TypeOK /\ Bridges => Engine!TypeOK'
<1> SUFFICES ASSUME Engine!TypeOK, Bridges PROVE Engine!TypeOK'
  OBVIOUS
<1> USE Callbacks DEF Engine!TypeOK, Engine!Goto
<1>1. ASSUME NEW c \in Calls, Engine!Call(c) PROVE Engine!TypeOK'
  BY <1>1 DEF Engine!Call
<1>2. ASSUME NEW c \in Calls, Engine!Handled(c) PROVE Engine!TypeOK'
  BY <1>2 DEF Engine!Handled
<1>3. ASSUME NEW j \in Engine!Jobs, Engine!Lock(j) PROVE Engine!TypeOK'
  BY <1>3 DEF Engine!Lock
<1>4. ASSUME NEW j \in Engine!Jobs, Engine!Skip(j) PROVE Engine!TypeOK'
  BY <1>4 DEF Engine!Skip
<1>5. ASSUME NEW j \in Engine!Jobs, Engine!Store(j) PROVE Engine!TypeOK'
  BY <1>5 DEF Engine!Store, Engine!Unlock
<1>6. ASSUME NEW j \in Engine!Jobs, Engine!Post(j) PROVE Engine!TypeOK'
  <2>1. posted' \in Seq(Engine!Index \union Other)
    BY <1>6 DEF Engine!Post
  <2> QED BY <1>6, <2>1 DEF Engine!Post
<1>7. ASSUME NEW more \in More, Engine!Run(more) PROVE Engine!TypeOK'
  <2>1. posted' \in Seq(Engine!Index \union Other)
    BY <1>7, QueueMore DEF Engine!Run, More
  <2>2. Head(posted) \in Engine!Index /\ dispatch[Head(posted)] \in Engine!Jobs \union {NoJob}
    BY <1>7 DEF Engine!Run
  <2>3. dispatch' \in [Engine!Index -> Engine!Jobs \union {NoJob}]
    BY <1>7 DEF Engine!Run, Engine!Take
  <2> DEFINE f == dispatch[Head(posted)]
  <2>4. Engine!Invoke(f)
    BY <1>7 DEF Engine!Run
  <2>5. CASE f = NoJob
    BY <2>4, <2>5, <1>7, <2>1, <2>3 DEF Engine!Invoke, Engine!Run
  <2>6. CASE f # NoJob
    <3>1. f \in Engine!Jobs /\ ran[f] + 1 \in Nat
      BY <2>2, <2>6
    <3>2. ran' = [ran EXCEPT ![f] = ran[f] + 1] /\ panicked' = panicked
      BY <2>4, <2>6 DEF Engine!Invoke
    <3>3. ran' \in [Engine!Jobs -> Nat]
      BY <3>1, <3>2
    <3> QED BY <3>2, <3>3, <1>7, <2>1, <2>3 DEF Engine!Run
  <2> QED BY <2>5, <2>6
<1>8. CASE Engine!RunOther(<<>>)
  <2>1. posted' \in Seq(Engine!Index \union Other)
    BY <1>8, QueueMore DEF Engine!RunOther
  <2> QED BY <1>8, <2>1 DEF Engine!RunOther
<1>9. ASSUME NEW o \in Other, Engine!PostOther(o) PROVE Engine!TypeOK'
  <2>1. posted' \in Seq(Engine!Index \union Other)
    BY <1>9 DEF Engine!PostOther
  <2> QED BY <1>9, <2>1 DEF Engine!PostOther
<1>10. CASE UNCHANGED Engine!vars
  BY <1>10 DEF Engine!vars
<1> QED
  BY <1>1, <1>2, <1>3, <1>4, <1>5, <1>6, <1>7, <1>8, <1>9, <1>10 DEF Bridges, Engine!DispatchOn

\* The indices that something is filed under, and the goroutines that have
\* filed theirs and not yet posted.
Filed   == {i \in Engine!Index : dispatch[i] # NoJob}
Posting == {j \in Engine!Jobs : webview_pc[j] = "post"}

\* A callback is filed by its own goroutine, before it runs, under one index.
Filing ==
  /\ \A i \in Engine!Index : dispatch[i] # NoJob =>
       /\ webview_pc[dispatch[i]] \in {"post", "sent"}
       /\ ran[dispatch[i]] = 0
  /\ \A i, k \in Engine!Index : dispatch[i] = dispatch[k] /\ dispatch[i] # NoJob => i = k

\* It stays there until it runs.
FiledUntilRun ==
  \A j \in Engine!Jobs : webview_pc[j] \in {"post", "sent"} =>
    Engine!Ran(j) \/ \E i \in Engine!Index : dispatch[i] = j

\* Whatever else is in the idle queue, the indices in it are as many as the
\* callbacks that are filed, but for those that are about to be posted.
AsManyPosted ==
  /\ IsFiniteSet(Posting)
  /\ Engine!Alive =>
       Cardinality(Filed) = Cardinality(Spots(posted, Engine!Index)) + Cardinality(Posting)

BridgeInv == Engine!TypeOK /\ Engine!SettledOnce /\ Filing /\ FiledUntilRun /\ AsManyPosted

\* There are finitely many indices.
LEMMA FiledFinite == IsFiniteSet(Filed) /\ Cardinality(Filed) \in Nat
<1>1. IsFiniteSet(Engine!Index)
  BY Callbacks, FS_Interval
<1>2. Filed \in SUBSET Engine!Index
  BY DEF Filed
<1>3. IsFiniteSet(Filed)
  BY <1>1, <1>2, FS_Subset
<1> QED BY <1>3, FS_CardinalityType

LEMMA SpotsPosted ==
  Engine!TypeOK => Cardinality(Spots(posted, Engine!Index)) \in Nat
  BY SpotsFinite DEF Engine!TypeOK

LEMMA BridgeInit == Engine!Init => BridgeInv
<1> SUFFICES ASSUME Engine!Init PROVE BridgeInv
  OBVIOUS
<1>1. Engine!TypeOK
  BY Callbacks DEF Engine!Init, Engine!TypeOK
<1>2. Engine!SettledOnce /\ Filing /\ FiledUntilRun
  BY DEF Engine!Init, Engine!SettledOnce, Engine!Ran, Filing, FiledUntilRun
<1>3. Filed = {} /\ Posting = {} /\ Spots(posted, Engine!Index) = {}
  BY DEF Engine!Init, Filed, Posting, Spots
<1>4. AsManyPosted
  BY <1>3, FS_EmptySet DEF AsManyPosted
<1> QED BY <1>1, <1>2, <1>4 DEF BridgeInv

\* Steps that file nothing, run nothing and post no index.
LEMMA QuietBridge ==
  ASSUME BridgeInv, Engine!TypeOK', UNCHANGED <<dispatch, ran, panicked>>,
         Cardinality(Spots(posted, Engine!Index))' = Cardinality(Spots(posted, Engine!Index)),
         \A j \in Engine!Jobs :
           \/ webview_pc'[j] = webview_pc[j]
           \/ webview_pc[j] \notin {"post", "sent"} /\ webview_pc'[j] \notin {"post", "sent"}
  PROVE  BridgeInv'
<1>1. Engine!SettledOnce'
  BY DEF BridgeInv, Engine!TypeOK, Engine!SettledOnce, Engine!Ran
<1>2. Filing'
  BY DEF BridgeInv, Engine!TypeOK, Filing
<1>3. FiledUntilRun'
  BY DEF BridgeInv, FiledUntilRun, Engine!Ran
<1>4. Filed' = Filed /\ Posting' = Posting
  BY DEF Filed, Posting
<1>5. AsManyPosted'
  BY <1>4 DEF BridgeInv, AsManyPosted, Engine!Alive
<1> QED BY <1>1, <1>2, <1>3, <1>5 DEF BridgeInv

\* A goroutine files its callback, under an index that is free.
LEMMA StoreBridge ==
  ASSUME BridgeInv, NEW j \in Engine!Jobs, Engine!Store(j) PROVE BridgeInv'
<1> USE Callbacks
<1>0. /\ Engine!TypeOK /\ Engine!TypeOK'
      /\ webview_pc[j] = "scan" /\ webview_pc' = [webview_pc EXCEPT ![j] = "post"]
      /\ dispatch[index] = NoJob /\ dispatch' = [dispatch EXCEPT ![index] = j]
      /\ index \in Engine!Index
      /\ UNCHANGED <<posted, ran, panicked>>
  BY BridgeTypes
  DEF BridgeInv, Bridges, Engine!DispatchOn, Engine!Store, Engine!Free, Engine!Goto, Engine!TypeOK
<1>1. Engine!SettledOnce'
  BY <1>0 DEF BridgeInv, Engine!TypeOK, Engine!SettledOnce, Engine!Ran
<1>2. ran[j] = 0
  <2>1. ran[j] \in Nat
    BY <1>0 DEF Engine!TypeOK
  <2>2. ~(ran[j] > 0)
    BY <1>0 DEF BridgeInv, Engine!SettledOnce, Engine!Ran
  <2> QED BY <2>1, <2>2
<1>3. \A i \in Engine!Index : dispatch[i] # j
  BY <1>0 DEF BridgeInv, Filing
<1>4. Filing'
  BY <1>0, <1>2, <1>3 DEF BridgeInv, Engine!TypeOK, Filing
<1>5. FiledUntilRun'
  <2> SUFFICES ASSUME NEW k \in Engine!Jobs, webview_pc'[k] \in {"post", "sent"}
               PROVE  Engine!Ran(k)' \/ \E i \in Engine!Index : dispatch'[i] = k
    BY DEF FiledUntilRun
  <2>1. CASE k = j
    BY <1>0, <2>1 DEF Engine!TypeOK
  <2>2. CASE k # j
    <3>1. Engine!Ran(k) \/ \E i \in Engine!Index : dispatch[i] = k
      BY <1>0, <2>2 DEF BridgeInv, FiledUntilRun, Engine!TypeOK
    <3> QED BY <1>0, <3>1 DEF Engine!Ran, Engine!TypeOK
  <2> QED BY <2>1, <2>2
<1>6. Filed' = Filed \union {index} /\ index \notin Filed
  BY <1>0 DEF Filed, Engine!TypeOK
<1>7. Posting' = Posting \union {j} /\ j \notin Posting
  BY <1>0 DEF Posting, Engine!TypeOK
<1>8. AsManyPosted'
  <2>1. IsFiniteSet(Posting) /\ Cardinality(Posting) \in Nat
    BY FS_CardinalityType DEF BridgeInv, AsManyPosted
  <2>2. Cardinality(Filed') = Cardinality(Filed) + 1
    BY <1>6, FiledFinite, FS_AddElement
  <2>3. IsFiniteSet(Posting') /\ Cardinality(Posting') = Cardinality(Posting) + 1
    BY <1>7, <2>1, FS_AddElement
  <2>4. Spots(posted, Engine!Index)' = Spots(posted, Engine!Index)
    BY <1>0 DEF Spots
  <2> QED BY <1>0, <2>1, <2>2, <2>3, <2>4, FiledFinite, SpotsPosted
          DEF BridgeInv, AsManyPosted, Engine!Alive
<1> QED BY <1>0, <1>1, <1>4, <1>5, <1>8 DEF BridgeInv

\* It posts an index, its own or another's.
LEMMA PostBridge ==
  ASSUME BridgeInv, NEW j \in Engine!Jobs, Engine!Post(j) PROVE BridgeInv'
<1>0. /\ Engine!TypeOK /\ Engine!TypeOK'
      /\ webview_pc[j] = "post" /\ webview_pc' = [webview_pc EXCEPT ![j] = "sent"]
      /\ posted' = Append(posted, index)
      /\ UNCHANGED <<dispatch, ran, panicked>>
  BY BridgeTypes DEF BridgeInv, Bridges, Engine!DispatchOn, Engine!Post, Engine!Goto
<1>1. Engine!SettledOnce'
  BY <1>0 DEF BridgeInv, Engine!TypeOK, Engine!SettledOnce, Engine!Ran
<1>2. Filing'
  BY <1>0 DEF BridgeInv, Engine!TypeOK, Filing
<1>3. FiledUntilRun'
  BY <1>0 DEF BridgeInv, Engine!TypeOK, FiledUntilRun, Engine!Ran
<1>4. Filed' = Filed /\ Posting' = Posting \ {j} /\ j \in Posting
  BY <1>0 DEF Filed, Posting, Engine!TypeOK
<1>5. AsManyPosted'
  <2>1. IsFiniteSet(Posting) /\ Cardinality(Posting) \in Nat
    BY FS_CardinalityType DEF BridgeInv, AsManyPosted
  <2>2. IsFiniteSet(Posting') /\ Cardinality(Posting') = Cardinality(Posting) - 1
    BY <1>4, <2>1, FS_RemoveElement
  <2>3. posted \in Seq(Engine!Index \union Other) /\ index \in Engine!Index
    BY <1>0 DEF Engine!TypeOK
  <2>4. Cardinality(Spots(posted', Engine!Index)) = Cardinality(Spots(posted, Engine!Index)) + 1
    BY <1>0, <2>3, SpotsMore
  <2>5. Spots(posted, Engine!Index)' = Spots(posted', Engine!Index)
    BY DEF Engine!Index
  <2> QED BY <1>0, <1>4, <2>1, <2>2, <2>4, <2>5, FiledFinite, SpotsPosted
          DEF BridgeInv, AsManyPosted, Engine!Alive
<1> QED BY <1>0, <1>1, <1>2, <1>3, <1>5 DEF BridgeInv

\* The main loop calls what is filed under the next index, or panics; the
\* callback can post another.
LEMMA RunBridge ==
  ASSUME BridgeInv, NEW more \in More, Engine!Run(more) PROVE BridgeInv'
<1> USE Callbacks
<1> DEFINE h == Head(posted)
           f == dispatch[h]
           Many == Cardinality(Spots(posted, Engine!Index))
<1>0. /\ Engine!TypeOK /\ Engine!TypeOK'
      /\ posted # <<>> /\ posted' = Tail(posted) \o more /\ h \in Engine!Index
      /\ dispatch' = [dispatch EXCEPT ![h] = NoJob]
      /\ Engine!Invoke(f) /\ Engine!Alive
      /\ UNCHANGED webview_pc
  BY BridgeTypes DEF BridgeInv, Bridges, Engine!Run, Engine!Take
<1>1. Posting' = Posting
  BY <1>0 DEF Posting
<1>q. Many \in Nat /\ Many' = Many - 1
  <2>1. posted \in Seq(Engine!Index \union Other)
    BY <1>0 DEF Engine!TypeOK
  <2>2. Many \in Nat
    BY <1>0, SpotsPosted
  <2>3. Cardinality(Spots(Tail(posted), Engine!Index)) = Many - 1
    BY <1>0, <2>1, SpotsLess
  <2>4. CASE more = <<>>
    <3>1. posted' = Tail(posted)
      BY <1>0, <2>1, <2>4, QueueMore
    <3> QED BY <2>2, <2>3, <3>1 DEF Spots, Engine!Index
  <2>5. ASSUME NEW c \in Calls, more = <<c>> PROVE Many' = Many - 1
    <3>1. c \in Engine!Index \union Other /\ c \notin Engine!Index
      OBVIOUS
    <3>2. Tail(posted) \in Seq(Engine!Index \union Other)
          /\ posted' = Append(Tail(posted), c)
      BY <1>0, <2>1, <2>5, <3>1, QueueMore
    <3>3. Cardinality(Spots(posted', Engine!Index)) =
            Cardinality(Spots(Tail(posted), Engine!Index))
      BY <3>1, <3>2, SpotsSame
    <3> QED BY <2>3, <3>3 DEF Spots, Engine!Index
  <2> QED BY <2>2, <2>4, <2>5 DEF More
<1> HIDE DEF Many
<1>2. CASE f = NoJob
  <2>1. dispatch' = dispatch /\ ran' = ran /\ panicked'
    BY <1>0, <1>2 DEF Engine!Invoke, Engine!TypeOK
  <2>2. Engine!SettledOnce' /\ Filing' /\ FiledUntilRun'
    BY <1>0, <2>1 DEF BridgeInv, Engine!SettledOnce, Filing, FiledUntilRun, Engine!Ran
  <2>3. AsManyPosted'
    BY <1>1, <2>1 DEF BridgeInv, AsManyPosted, Engine!Alive
  <2> QED BY <1>0, <2>2, <2>3 DEF BridgeInv
<1>3. CASE f # NoJob
  <2>1. /\ f \in Engine!Jobs /\ ran' = [ran EXCEPT ![f] = ran[f] + 1]
        /\ panicked' = panicked
    BY <1>0, <1>3 DEF Engine!Invoke, Engine!TypeOK
  <2>2. webview_pc[f] \in {"post", "sent"} /\ ran[f] = 0
    BY <1>0, <1>3 DEF BridgeInv, Filing
  <2>3. ran'[f] = 1 /\ \A j \in Engine!Jobs : j # f => ran'[j] = ran[j]
    BY <1>0, <2>1, <2>2 DEF Engine!TypeOK
  <2>4. Engine!SettledOnce'
    BY <1>0, <2>2, <2>3 DEF BridgeInv, Engine!SettledOnce, Engine!Ran
  <2>5. \A i \in Engine!Index : dispatch'[i] = IF i = h THEN NoJob ELSE dispatch[i]
    BY <1>0 DEF Engine!TypeOK
  <2>6. \A i \in Engine!Index : dispatch'[i] # NoJob =>
          dispatch[i] # NoJob /\ dispatch'[i] = dispatch[i] /\ dispatch[i] # f
    BY <1>0, <1>3, <2>5 DEF BridgeInv, Filing
  <2>7. Filing'
    <3>1. ASSUME NEW i \in Engine!Index, dispatch'[i] # NoJob
          PROVE  webview_pc'[dispatch'[i]] \in {"post", "sent"} /\ ran'[dispatch'[i]] = 0
      <4>1. dispatch[i] \in Engine!Jobs
        BY <1>0, <2>6, <3>1 DEF Engine!TypeOK
      <4> QED BY <1>0, <2>3, <2>6, <3>1, <4>1 DEF BridgeInv, Filing
    <3>2. \A i, k \in Engine!Index :
            dispatch'[i] = dispatch'[k] /\ dispatch'[i] # NoJob => i = k
      BY <2>6 DEF BridgeInv, Filing
    <3> QED BY <3>1, <3>2 DEF Filing
  <2>8. FiledUntilRun'
    <3> SUFFICES ASSUME NEW j \in Engine!Jobs, webview_pc[j] \in {"post", "sent"}
                 PROVE  Engine!Ran(j)' \/ \E i \in Engine!Index : dispatch'[i] = j
      BY <1>0 DEF FiledUntilRun
    <3>1. CASE j = f
      BY <2>3, <3>1 DEF Engine!Ran
    <3>2. CASE j # f
      BY <2>3, <2>5, <3>2 DEF BridgeInv, FiledUntilRun, Engine!Ran
    <3> QED BY <3>1, <3>2
  <2>9. Filed' = Filed \ {h} /\ h \in Filed
    BY <1>0, <1>3, <2>5 DEF Filed
  <2>10. AsManyPosted'
    <3>1. Cardinality(Filed') = Cardinality(Filed) - 1
      BY <2>9, FiledFinite, FS_RemoveElement
    <3>2. Cardinality(Posting) \in Nat /\ IsFiniteSet(Posting)
      BY FS_CardinalityType DEF BridgeInv, AsManyPosted
    <3>3. Cardinality(Filed) = Many + Cardinality(Posting)
      BY <1>0 DEF BridgeInv, AsManyPosted, Many
    <3>4. Cardinality(Filed') = Many' + Cardinality(Posting')
      BY <1>1, <1>q, <3>1, <3>2, <3>3, FiledFinite
    <3>5. IsFiniteSet(Posting')
      BY <1>1, <3>2
    <3> QED BY <3>4, <3>5 DEF AsManyPosted, Many
  <2> QED BY <1>0, <2>4, <2>7, <2>8, <2>10 DEF BridgeInv
<1> QED BY <1>2, <1>3

\* Other callbacks come and go.
LEMMA OtherBridge ==
  ASSUME BridgeInv, Engine!RunOther(<<>>) \/ \E o \in Other : Engine!PostOther(o)
  PROVE  BridgeInv'
<1>0. Engine!TypeOK /\ Engine!TypeOK' /\ posted \in Seq(Engine!Index \union Other)
  BY BridgeTypes DEF BridgeInv, Bridges, Engine!TypeOK
<1>q. Cardinality(Spots(posted, Engine!Index)) \in Nat
  BY <1>0, SpotsPosted
<1>1. CASE Engine!RunOther(<<>>)
  <2>1. posted # <<>> /\ Head(posted) \in Other /\ posted' = Tail(posted)
    BY <1>0, <1>1, QueueMore DEF Engine!RunOther
  <2>2. Cardinality(Spots(posted', Engine!Index)) = Cardinality(Spots(posted, Engine!Index))
    BY <1>0, <1>q, <2>1, Callbacks, SpotsLess
  <2>3. Spots(posted, Engine!Index)' = Spots(posted', Engine!Index)
    BY DEF Engine!Index
  <2>4. UNCHANGED <<dispatch, ran, panicked, webview_pc>>
    BY <1>1 DEF Engine!RunOther
  <2> QED BY <1>0, <2>2, <2>3, <2>4, QuietBridge
<1>2. ASSUME NEW o \in Other, Engine!PostOther(o) PROVE BridgeInv'
  <2>1. posted' = Append(posted, o)
    BY <1>2 DEF Engine!PostOther
  <2>2. Cardinality(Spots(posted', Engine!Index)) = Cardinality(Spots(posted, Engine!Index))
    BY <1>0, <1>q, <2>1, Callbacks, SpotsMore
  <2>3. Spots(posted, Engine!Index)' = Spots(posted', Engine!Index)
    BY DEF Engine!Index
  <2>4. UNCHANGED <<dispatch, ran, panicked, webview_pc>>
    BY <1>2 DEF Engine!PostOther
  <2> QED BY <1>0, <2>2, <2>3, <2>4, QuietBridge
<1> QED BY <1>1, <1>2

LEMMA BridgeNext == BridgeInv /\ Bridges => BridgeInv'
<1> SUFFICES ASSUME BridgeInv, Bridges PROVE BridgeInv'
  OBVIOUS
<1>0. Engine!TypeOK /\ Engine!TypeOK'
  BY BridgeTypes DEF BridgeInv
<1>q. posted' = posted =>
        Cardinality(Spots(posted, Engine!Index))' = Cardinality(Spots(posted, Engine!Index))
  BY DEF Spots, Engine!Index
<1>1. ASSUME NEW c \in Calls, Engine!Call(c) \/ Engine!Handled(c) PROVE BridgeInv'
  <2>1. \A j \in Engine!Jobs : j # c => webview_pc'[j] = webview_pc[j]
    BY <1>0, <1>1 DEF Engine!Call, Engine!Handled, Engine!Goto, Engine!TypeOK
  <2>2. webview_pc[c] \in {"idle", "handler"} /\ webview_pc'[c] \in {"handler", "lock"}
    BY <1>0, <1>1, Callbacks DEF Engine!Call, Engine!Handled, Engine!Goto, Engine!TypeOK
  <2>3. UNCHANGED <<dispatch, posted, ran, panicked>>
    BY <1>1 DEF Engine!Call, Engine!Handled
  <2> QED BY <1>0, <1>q, <2>1, <2>2, <2>3, QuietBridge
<1>2. ASSUME NEW j \in Engine!Jobs, Engine!Lock(j) PROVE BridgeInv'
  <2>1. \A k \in Engine!Jobs : k # j => webview_pc'[k] = webview_pc[k]
    BY <1>0, <1>2 DEF Engine!Lock, Engine!Goto, Engine!TypeOK
  <2>2. webview_pc[j] = "lock" /\ webview_pc'[j] = "scan"
    BY <1>0, <1>2 DEF Engine!Lock, Engine!Goto, Engine!TypeOK
  <2>3. UNCHANGED <<dispatch, posted, ran, panicked>>
    BY <1>2 DEF Engine!Lock
  <2> QED BY <1>0, <1>q, <2>1, <2>2, <2>3, QuietBridge
<1>3. ASSUME NEW j \in Engine!Jobs, Engine!Skip(j) PROVE BridgeInv'
  BY <1>0, <1>q, <1>3, QuietBridge DEF Engine!Skip
<1>4. CASE UNCHANGED Engine!vars
  BY <1>0, <1>q, <1>4, QuietBridge DEF Engine!vars
<1> QED
  BY <1>1, <1>2, <1>3, <1>4, StoreBridge, PostBridge, RunBridge, OtherBridge
  DEF Bridges, Engine!DispatchOn

-----------------------------------------------------------------------------
(* The library around them. *)

Within(q, e) == \E i \in DOMAIN q : q[i] = e

\* No member of K is in a queue twice.
Single(q, K) == \A i, j \in DOMAIN q : q[i] = q[j] /\ q[i] \in K => i = j

LEMMA WithinMore ==
  ASSUME NEW T, NEW q \in Seq(T), NEW e \in T
  PROVE  /\ \A x : Within(Append(q, e), x) <=> Within(q, x) \/ x = e
         /\ \A K : Single(q, K) /\ (e \notin K \/ ~Within(q, e)) => Single(Append(q, e), K)
<1> DEFINE last == Len(q) + 1
<1>1. /\ DOMAIN q = 1..Len(q) /\ Len(q) \in Nat
      /\ DOMAIN Append(q, e) = 1..last /\ Append(q, e)[last] = e
      /\ \A i \in 1..Len(q) : Append(q, e)[i] = q[i]
  BY LenProperties, AppendProperties
<1>2. \A i : i \in 1..last <=> i \in 1..Len(q) \/ i = last
  BY <1>1
<1> HIDE DEF last
<1>3. ASSUME NEW x PROVE Within(Append(q, e), x) <=> Within(q, x) \/ x = e
  BY <1>1, <1>2 DEF Within
<1>4. ASSUME NEW K, Single(q, K), e \notin K \/ ~Within(q, e) PROVE Single(Append(q, e), K)
  <2> SUFFICES ASSUME NEW i \in 1..last, NEW j \in 1..last,
                      Append(q, e)[i] = Append(q, e)[j], Append(q, e)[i] \in K
               PROVE  i = j
    BY <1>1 DEF Single
  <2>1. CASE i = last \/ j = last
    BY <1>1, <1>2, <1>4, <2>1 DEF Within
  <2>2. CASE i # last /\ j # last
    BY <1>1, <1>2, <1>4, <2>2 DEF Single
  <2> QED BY <2>1, <2>2
<1> QED BY <1>3, <1>4

LEMMA WithinLess ==
  ASSUME NEW T, NEW q \in Seq(T), q # <<>>
  PROVE  /\ \A x : Within(q, x) <=> x = Head(q) \/ Within(Tail(q), x)
         /\ \A K : Single(q, K) => Single(Tail(q), K)
         /\ \A K : Single(q, K) /\ Head(q) \in K => ~Within(Tail(q), Head(q))
<1>1. /\ Head(q) = q[1] /\ 1 \in DOMAIN q
      /\ DOMAIN q \subseteq Int /\ DOMAIN Tail(q) \subseteq Int
      /\ \A i \in DOMAIN Tail(q) : i + 1 \in DOMAIN q /\ Tail(q)[i] = q[i + 1]
      /\ \A i \in DOMAIN q : i # 1 => i - 1 \in DOMAIN Tail(q) /\ Tail(q)[i - 1] = q[i]
  BY RestOf
<1>2. \A i \in DOMAIN Tail(q) : i \in Int /\ i + 1 # 1
  <2>1. Tail(q) \in Seq(T)
    BY RestOf
  <2>2. DOMAIN Tail(q) = 1..Len(Tail(q)) /\ Len(Tail(q)) \in Nat
    BY <2>1, LenProperties
  <2> QED BY <2>2
<1>3. ASSUME NEW x PROVE Within(q, x) <=> x = Head(q) \/ Within(Tail(q), x)
  <2>1. ASSUME NEW i \in DOMAIN q, q[i] = x, x # Head(q) PROVE Within(Tail(q), x)
    <3>1. i - 1 \in DOMAIN Tail(q) /\ Tail(q)[i - 1] = x
      BY <1>1, <2>1
    <3> QED BY <3>1 DEF Within
  <2>2. ASSUME NEW i \in DOMAIN Tail(q), Tail(q)[i] = x PROVE Within(q, x)
    <3>1. i + 1 \in DOMAIN q /\ q[i + 1] = x
      BY <1>1, <2>2
    <3> QED BY <3>1 DEF Within
  <2> QED BY <1>1, <2>1, <2>2 DEF Within
<1>4. ASSUME NEW K, Single(q, K) PROVE Single(Tail(q), K)
  <2> SUFFICES ASSUME NEW i \in DOMAIN Tail(q), NEW j \in DOMAIN Tail(q),
                      Tail(q)[i] = Tail(q)[j], Tail(q)[i] \in K
               PROVE  i = j
    BY DEF Single
  <2>1. i + 1 = j + 1
    BY <1>1, <1>4 DEF Single
  <2> QED BY <1>2, <2>1
<1>5. ASSUME NEW K, Single(q, K), Head(q) \in K PROVE ~Within(Tail(q), Head(q))
  <2> SUFFICES ASSUME NEW i \in DOMAIN Tail(q), Tail(q)[i] = Head(q) PROVE FALSE
    BY DEF Within
  <2>1. i + 1 = 1
    BY <1>1, <1>5 DEF Single
  <2> QED BY <1>2, <2>1
<1> QED BY <1>3, <1>4, <1>5

\* What the page has posted and the library has not read.
PageMessage == [call : Calls, text : {Engine!Message(n, a) : n \in Nat, a \in Args}]

PageQueue == external \in Seq(PageMessage) /\ nextSeq \in Nat \ {0}

LEMMA EngineBridges == Engine!TypeOK /\ PageQueue /\ [Engine!EngineNext]_webview => Bridges
<1> SUFFICES ASSUME Engine!TypeOK, PageQueue, [Engine!EngineNext]_webview PROVE Bridges
  OBVIOUS
<1> USE DEF Engine!vars
<1>1. CASE Engine!OnMessage
  <2>1. external # <<>>
    BY <1>1 DEF Engine!OnMessage
  <2>2. Head(external) \in PageMessage
    BY <2>1, RestOf DEF PageQueue
  <2>3. Head(external).call \in Calls
    BY <2>2 DEF PageMessage
  <2>4. Engine!Call(Head(external).call) \/ UNCHANGED Engine!vars
    BY <1>1 DEF Engine!OnMessage
  <2> QED BY <2>3, <2>4 DEF Bridges
<1>2. CASE Engine!RunCallback
  <2>1. PICK more : Engine!Run(more) /\ (more = <<>> \/ \E c \in Calls : more = <<c>>)
    BY <1>2 DEF Engine!RunCallback
  <2> QED BY <2>1 DEF Bridges, More
<1>3. CASE Engine!RunResolve \/ Engine!RunQuit \/ Engine!RunDepleted
  BY <1>3 DEF Engine!RunResolve, Engine!RunQuit, Engine!RunDepleted, Bridges
<1>4. CASE Engine!Destroyed \/ Engine!Terminate \/ Engine!Destroy
  BY <1>4, Callbacks
  DEF Engine!Destroyed, Engine!Terminate, Engine!Destroy, Engine!on_window_destroyed,
      Engine!terminate_impl, Engine!dispatch_impl, Bridges
<1>5. ASSUME NEW c \in Calls, Engine!PageCall(c) \/ Engine!HandlerReturns(c) PROVE Bridges
  BY <1>5 DEF Engine!PageCall, Engine!HandlerReturns, Bridges
<1>6. ASSUME NEW j \in Engine!Jobs, Engine!Dispatching(j) PROVE Bridges
  BY <1>6 DEF Engine!Dispatching, Bridges
<1>7. CASE \/ Engine!webview_create \/ Engine!Bind \/ Engine!run_impl \/ Engine!Reload
           \/ Engine!Signal \/ Engine!Exit
  BY <1>7 DEF Engine!webview_create, Engine!Bind, Engine!run_impl, Engine!Reload,
              Engine!Signal, Engine!Exit, Bridges
<1>8. CASE UNCHANGED webview
  BY <1>8 DEF webview, Bridges
<1> QED
  BY <1>1, <1>2, <1>3, <1>4, <1>5, <1>6, <1>7, <1>8 DEF Engine!EngineNext, Engine!MainLoop

\* What the library has of the page's messages, step by step.
LEMMA PageQueueStep ==
  ASSUME PageQueue, [Engine!EngineNext]_webview
  PROVE  /\ PageQueue'
         /\ \/ external' = external
            \/ external' = <<>>
            \/ Engine!OnMessage /\ external' = Tail(external)
            \/ \E c \in Calls : Engine!PageCall(c)
<1> USE DEF PageQueue, Engine!Leave
<1>1. CASE Engine!OnMessage
  <2>1. external # <<>> /\ external' = Tail(external) /\ nextSeq' = nextSeq
    BY <1>1 DEF Engine!OnMessage, Engine!script
  <2> QED BY <1>1, <2>1, RestOf
<1>2. ASSUME NEW c \in Calls, Engine!PageCall(c) PROVE PageQueue'
  <2>1. PICK a \in Args :
          external' = Append(external, [call |-> c, text |-> Engine!Message(nextSeq, a)])
    BY <1>2 DEF Engine!PageCall
  <2>2. [call |-> c, text |-> Engine!Message(nextSeq, a)] \in PageMessage
    BY DEF PageMessage
  <2>3. external' \in Seq(PageMessage)
    BY <2>1, <2>2, AppendProperties
  <2>4. nextSeq' = nextSeq + 1
    BY <1>2 DEF Engine!PageCall
  <2> QED BY <2>3, <2>4
<1>3. CASE Engine!RunCallback
  BY <1>3 DEF Engine!RunCallback
<1>4. CASE Engine!RunResolve \/ Engine!RunQuit \/ Engine!RunDepleted
  BY <1>4 DEF Engine!RunResolve, Engine!RunQuit, Engine!RunDepleted, Engine!script
<1>5. CASE Engine!Destroyed \/ Engine!Destroy
  <2>1. external' = <<>> /\ nextSeq' = 1
    BY <1>5 DEF Engine!Destroyed, Engine!Destroy, Engine!DestroyWidget
  <2>2. <<>> \in Seq(PageMessage)
    OBVIOUS
  <2> QED BY <2>1, <2>2
<1>6. ASSUME NEW c \in Calls, Engine!HandlerReturns(c)
      PROVE  external' = external /\ nextSeq' = nextSeq
  BY <1>6 DEF Engine!HandlerReturns, Engine!script
<1>7. ASSUME NEW j \in Engine!Jobs, Engine!Dispatching(j)
      PROVE  external' = external /\ nextSeq' = nextSeq
  BY <1>7 DEF Engine!Dispatching, Engine!script
<1>8. CASE \/ Engine!webview_create \/ Engine!Bind \/ Engine!run_impl \/ Engine!Reload
           \/ Engine!Signal \/ Engine!Exit \/ Engine!Terminate
  BY <1>8 DEF Engine!webview_create, Engine!Bind, Engine!run_impl, Engine!Reload,
              Engine!Signal, Engine!Exit, Engine!Terminate, Engine!script
<1>9. CASE UNCHANGED webview
  BY <1>9 DEF webview
<1> QED
  BY <1>1, <1>2, <1>3, <1>4, <1>5, <1>6, <1>7, <1>8, <1>9 DEF Engine!EngineNext, Engine!MainLoop

\* Once the main loop has ended, whoever is under way was so then; and the page
\* that could call is gone before the loop turns again.
Overdue ==
  /\ main \in {"create", "bind", "started", "loop"} => touched = {}
  /\ main \in {"ended", "deplete", "deleted"} => Engine!UnderWay \subseteq late
  /\ main \in {"deplete", "deleted"} => external = <<>> /\ page = "blank" /\ ~m_webview
  /\ touched \subseteq late

\* A signal that has been taken has its callback in the queue, or had its effect.
SignalQueued ==
  /\ sig \in {"wait", "got", "done"}
  /\ main \in {"create", "bind"} => sig = "wait"
  /\ sig = "done" /\ main \in {"started", "loop"} => Within(posted, Quit)

\* But for a call, nobody begins anything.
LEMMA NobodyBegins ==
  ASSUME Engine!TypeOK, Bridges, ~\E c \in Calls : Engine!Call(c),
         sig' = sig \/ sig' = "done" \/ sig \in {"wait", "got"}
  PROVE  Engine!UnderWay' \subseteq Engine!UnderWay
<1> USE Callbacks DEF Engine!TypeOK, Engine!Goto
<1>1. ASSUME NEW k \in Engine!Jobs, webview_pc[k] \in {"idle", "sent"}
      PROVE  webview_pc'[k] = webview_pc[k]
  <2>1. ASSUME NEW c \in Calls, Engine!Handled(c) PROVE webview_pc'[k] = webview_pc[k]
    BY <1>1, <2>1 DEF Engine!Handled
  <2>2. ASSUME NEW j \in Engine!Jobs, Engine!DispatchOn(j)
        PROVE  webview_pc'[k] = webview_pc[k]
    <3>1. CASE Engine!Lock(j)
      BY <1>1, <3>1 DEF Engine!Lock
    <3>2. CASE Engine!Skip(j)
      BY <1>1, <3>2 DEF Engine!Skip
    <3>3. CASE Engine!Store(j)
      BY <1>1, <3>3 DEF Engine!Store
    <3>4. CASE Engine!Post(j)
      BY <1>1, <3>4 DEF Engine!Post
    <3> QED BY <2>2, <3>1, <3>2, <3>3, <3>4 DEF Engine!DispatchOn
  <2>3. ASSUME NEW more, Engine!Run(more) PROVE webview_pc' = webview_pc
    BY <2>3 DEF Engine!Run
  <2>4. CASE Engine!RunOther(<<>>) \/ UNCHANGED Engine!vars
    BY <2>4 DEF Engine!RunOther, Engine!vars
  <2>5. ASSUME NEW o, Engine!PostOther(o) PROVE webview_pc' = webview_pc
    BY <2>5 DEF Engine!PostOther
  <2> QED BY <2>1, <2>2, <2>3, <2>4, <2>5 DEF Bridges
<1>2. sig' # "done" => sig # "done"
  OBVIOUS
<1> QED BY <1>1, <1>2 DEF Engine!UnderWay, Engine!Jobs

LEMMA OverdueStep ==
  ASSUME Engine!TypeOK, Engine!TypeOK', PageQueue, SignalQueued, Overdue,
         [Engine!EngineNext]_webview
  PROVE  Overdue'
<1> USE DEF Overdue, Engine!ends, Engine!Turning, Engine!Running
<1>b. Bridges
  BY EngineBridges
<1>1. CASE Engine!OnMessage
  <2>1. main = "loop" /\ UNCHANGED <<main, touched, late>>
    BY <1>1 DEF Engine!OnMessage
  <2> QED BY <2>1
<1>2. CASE Engine!RunQuit
  <2>1. UNCHANGED <<webview_pc, sig, external, page, m_webview, touched>>
    BY <1>2 DEF Engine!RunQuit, Engine!RunOther, Engine!script, Engine!engine, Engine!window
  <2>2. Engine!UnderWay' = Engine!UnderWay
    BY <2>1 DEF Engine!UnderWay, Engine!Jobs
  <2>3. CASE main = "loop"
    BY <1>2, <2>1, <2>2, <2>3 DEF Engine!RunQuit
  <2>4. CASE main # "loop"
    BY <1>2, <2>1, <2>2, <2>4 DEF Engine!RunQuit
  <2> QED BY <2>3, <2>4
<1>3. ASSUME NEW j \in Engine!Jobs, Engine!Dispatching(j) PROVE Overdue'
  <2>1. /\ Engine!DispatchOn(j)
        /\ UNCHANGED <<sig, late, external, page, m_webview>>
    BY <1>3 DEF Engine!Dispatching, Engine!script, Engine!engine, Engine!window
  <2>2. Engine!UnderWay' \subseteq Engine!UnderWay
    <3>1. ~\E c \in Calls : Engine!Call(c)
      BY <2>1, Callbacks
      DEF Engine!DispatchOn, Engine!Call, Engine!Lock, Engine!Skip, Engine!Store, Engine!Post,
          Engine!Goto, Engine!TypeOK
    <3> QED BY <1>b, <2>1, <3>1, NobodyBegins
  <2>3. CASE main = "deleted" /\ webview_pc'[j] = "sent"
    <3>1. touched' = touched \union {j} /\ main' \in {"deleted", "crashed"}
      BY <1>3, <2>3 DEF Engine!Dispatching
    <3>2. webview_pc[j] \notin {"idle", "sent"}
      BY <2>1
      DEF Engine!DispatchOn, Engine!Lock, Engine!Skip, Engine!Store, Engine!Post, Engine!Goto
    <3>3. j \in late
      BY <2>3, <3>2 DEF Engine!UnderWay
    <3> QED BY <2>1, <2>2, <2>3, <3>1, <3>3
  <2>4. CASE ~(main = "deleted" /\ webview_pc'[j] = "sent")
    <3>1. UNCHANGED <<touched, main>>
      BY <1>3, <2>4 DEF Engine!Dispatching
    <3> QED BY <2>1, <2>2, <3>1
  <2> QED BY <2>3, <2>4
<1>4. CASE Engine!Terminate
  <2>1. /\ UNCHANGED <<webview_pc, late, external, page, m_webview>>
        /\ sig = "got" /\ sig' = "done"
    BY <1>4
    DEF Engine!Terminate, Engine!terminate_impl, Engine!dispatch_impl, Engine!PostOther,
        Engine!script, Engine!engine, Engine!window
  <2>2. Engine!UnderWay' \subseteq Engine!UnderWay /\ Quit \in Engine!UnderWay
    BY <2>1 DEF Engine!UnderWay, Engine!Jobs
  <2>3. CASE main = "deleted"
    <3>1. touched' = touched \union {Quit} /\ main' \in {"deleted", "crashed"}
      BY <1>4, <2>3 DEF Engine!Terminate, Engine!terminate_impl
    <3> QED BY <2>1, <2>2, <2>3, <3>1
  <2>4. CASE main # "deleted"
    <3>1. UNCHANGED <<touched, main>>
      BY <1>4, <2>4 DEF Engine!Terminate, Engine!terminate_impl
    <3> QED BY <2>1, <2>2, <3>1
  <2> QED BY <2>3, <2>4
<1>5. CASE Engine!Destroyed
  <2>1. main = "loop" /\ UNCHANGED <<main, touched, late>>
    BY <1>5 DEF Engine!Destroyed, Engine!on_window_destroyed, Engine!terminate_impl
  <2> QED BY <2>1
<1>6. CASE Engine!Destroy
  <2>1. /\ main = "ended" /\ main' = "deplete" /\ UNCHANGED <<webview_pc, sig, late, touched>>
        /\ external' = <<>> /\ page' = "blank" /\ ~m_webview'
    BY <1>6
    DEF Engine!Destroy, Engine!DestroyWidget, Engine!Leave, Engine!dispatch_impl,
        Engine!PostOther
  <2>2. Engine!UnderWay' = Engine!UnderWay
    BY <2>1 DEF Engine!UnderWay, Engine!Jobs
  <2> QED BY <2>1, <2>2
<1>7. CASE Engine!Signal
  <2>1. /\ UNCHANGED <<webview_pc, main, late, touched, external, page, m_webview>>
        /\ sig = "wait" /\ sig' = "got"
    BY <1>7 DEF Engine!Signal, Engine!script, Engine!engine, Engine!window, Engine!vars
  <2>2. Engine!UnderWay' = Engine!UnderWay
    BY <2>1 DEF Engine!UnderWay, Engine!Jobs
  <2> QED BY <2>1, <2>2
<1>8. ASSUME NEW c \in Calls, Engine!PageCall(c) PROVE Overdue'
  <2>1. /\ page = "ui" /\ UNCHANGED <<webview_pc, sig, main, late, touched>>
    BY <1>8 DEF Engine!PageCall, Engine!vars
  <2>2. Engine!UnderWay' = Engine!UnderWay
    BY <2>1 DEF Engine!UnderWay, Engine!Jobs
  <2> QED BY <2>1, <2>2
<1>9. ASSUME NEW c \in Calls, Engine!HandlerReturns(c) PROVE Overdue'
  <2>1. /\ UNCHANGED <<sig, main, late, touched, external, page, m_webview>>
        /\ Engine!Handled(c)
    BY <1>9 DEF Engine!HandlerReturns, Engine!script, Engine!engine, Engine!window
  <2>2. ~\E b \in Calls : Engine!Call(b)
    BY <2>1, Callbacks DEF Engine!Handled, Engine!Call, Engine!Goto, Engine!TypeOK
  <2>3. Engine!UnderWay' \subseteq Engine!UnderWay
    BY <1>b, <2>1, <2>2, NobodyBegins
  <2> QED BY <2>1, <2>3
<1>10. CASE Engine!Reload
  <2>1. page = "ui" /\ UNCHANGED <<webview_pc, sig, main, late, touched>>
    BY <1>10 DEF Engine!Reload, Engine!vars
  <2>2. Engine!UnderWay' = Engine!UnderWay
    BY <2>1 DEF Engine!UnderWay, Engine!Jobs
  <2> QED BY <2>1, <2>2
<1>11. CASE Engine!RunCallback
  <2>1. UNCHANGED <<webview_pc, sig, main, late, touched, external, m_webview>>
    BY <1>11 DEF Engine!RunCallback, Engine!Run, Engine!engine, Engine!window
  <2>2. ~m_webview => page' = page
    BY <1>11 DEF Engine!RunCallback
  <2>3. Engine!UnderWay' = Engine!UnderWay
    BY <2>1 DEF Engine!UnderWay, Engine!Jobs
  <2> QED BY <2>1, <2>2, <2>3
<1>12. CASE Engine!RunResolve
  <2>1. UNCHANGED <<webview_pc, sig, main, late, touched, external, page, m_webview>>
    BY <1>12 DEF Engine!RunResolve, Engine!RunOther, Engine!window
  <2>2. Engine!UnderWay' = Engine!UnderWay
    BY <2>1 DEF Engine!UnderWay, Engine!Jobs
  <2> QED BY <2>1, <2>2
<1>13. CASE Engine!RunDepleted
  <2>1. /\ UNCHANGED <<webview_pc, sig, late, touched, external, page, m_webview>>
        /\ main = "deplete" /\ main' = "deleted"
    BY <1>13 DEF Engine!RunDepleted, Engine!RunOther, Engine!script, Engine!engine, Engine!window
  <2>2. Engine!UnderWay' = Engine!UnderWay
    BY <2>1 DEF Engine!UnderWay, Engine!Jobs
  <2> QED BY <2>1, <2>2
<1>14. CASE Engine!webview_create \/ Engine!Bind \/ Engine!run_impl \/ Engine!Exit
  BY <1>14 DEF Engine!webview_create, Engine!Bind, Engine!run_impl, Engine!Exit
<1>15. CASE UNCHANGED webview
  <2>1. UNCHANGED <<webview_pc, sig, main, late, touched, external, page, m_webview>>
    BY <1>15 DEF webview
  <2>2. Engine!UnderWay' = Engine!UnderWay
    BY <2>1 DEF Engine!UnderWay, Engine!Jobs
  <2> QED BY <2>1, <2>2
<1> QED
  BY <1>1, <1>2, <1>3, <1>4, <1>5, <1>6, <1>7, <1>8, <1>9, <1>10, <1>11, <1>12, <1>13, <1>14,
     <1>15
  DEF Engine!EngineNext, Engine!MainLoop

\* What is in the idle queue is there until it is run.
LEMMA StaysQueued ==
  ASSUME Engine!TypeOK, Bridges, NEW o \in Other, Within(posted, o), Head(posted) # o
  PROVE  Within(posted', o)
<1>0. posted \in Seq(Engine!Index \union Other) /\ posted # <<>>
  BY DEF Engine!TypeOK, Within
<1>1. Within(Tail(posted), o) /\ Tail(posted) \in Seq(Engine!Index \union Other)
  BY <1>0, WithinLess, RestOf
<1>2. ASSUME NEW j \in Engine!Jobs, Engine!DispatchOn(j) PROVE Within(posted', o)
  <2>1. CASE Engine!Post(j)
    BY <1>0, <2>1, WithinMore DEF Engine!Post, Engine!TypeOK
  <2>2. CASE Engine!Lock(j) \/ Engine!Skip(j) \/ Engine!Store(j)
    BY <2>2 DEF Engine!Lock, Engine!Skip, Engine!Store
  <2> QED BY <1>2, <2>1, <2>2 DEF Engine!DispatchOn
<1>3. ASSUME NEW more \in More, Engine!Run(more) PROVE Within(posted', o)
  <2>1. CASE more = <<>>
    <3>1. posted' = Tail(posted)
      BY <1>0, <1>3, <2>1, QueueMore DEF Engine!Run
    <3> QED BY <1>1, <3>1
  <2>2. ASSUME NEW c \in Calls, more = <<c>> PROVE Within(posted', o)
    <3>1. c \in Engine!Index \union Other
      BY Callbacks
    <3>2. posted' = Append(Tail(posted), c)
      BY <1>0, <1>3, <2>2, <3>1, QueueMore DEF Engine!Run
    <3> QED BY <1>1, <3>1, <3>2, WithinMore
  <2> QED BY <2>1, <2>2 DEF More
<1>4. CASE Engine!RunOther(<<>>)
  BY <1>0, <1>1, <1>4, QueueMore DEF Engine!RunOther
<1>5. ASSUME NEW p \in Other, Engine!PostOther(p) PROVE Within(posted', o)
  BY <1>0, <1>5, WithinMore DEF Engine!PostOther
<1>6. CASE (\E c \in Calls : Engine!Call(c) \/ Engine!Handled(c)) \/ UNCHANGED Engine!vars
  BY <1>6 DEF Engine!Call, Engine!Handled, Engine!vars
<1> QED BY <1>2, <1>3, <1>4, <1>5, <1>6 DEF Bridges

LEMMA SignalQueuedStep ==
  ASSUME Engine!TypeOK, PageQueue, SignalQueued, [Engine!EngineNext]_webview
  PROVE  SignalQueued'
<1> USE DEF SignalQueued, Engine!ends, Engine!Turning, Engine!Running
<1>b. Bridges
  BY EngineBridges
<1>0. posted \in Seq(Engine!Index \union Other)
  BY DEF Engine!TypeOK
<1>q. ASSUME Within(posted, Quit), Head(posted) # Quit PROVE Within(posted', Quit)
  BY <1>b, <1>q, Callbacks, StaysQueued
<1>e. ASSUME Engine!PostOther(Quit) PROVE Within(posted', Quit)
  BY <1>0, <1>e, Callbacks, WithinMore DEF Engine!PostOther
<1>1. CASE Engine!Terminate
  <2>1. Engine!PostOther(Quit) /\ sig' = "done"
    BY <1>1 DEF Engine!Terminate, Engine!terminate_impl, Engine!dispatch_impl
  <2>2. main' \notin {"create", "bind"}
    BY <1>1 DEF Engine!Terminate, Engine!terminate_impl
  <2> QED BY <1>e, <2>1, <2>2
<1>2. CASE Engine!Destroyed
  <2>1. main' = main /\ main = "loop" /\ sig' = sig
    BY <1>2 DEF Engine!Destroyed, Engine!on_window_destroyed, Engine!terminate_impl
  <2>2. Engine!PostOther(Quit) \/ posted' = posted
    BY <1>2
    DEF Engine!Destroyed, Engine!on_window_destroyed, Engine!terminate_impl,
        Engine!dispatch_impl, Engine!vars
  <2> QED BY <1>e, <2>1, <2>2
<1>3. CASE Engine!RunQuit
  <2>1. sig' = sig /\ main' \notin {"create", "bind", "started", "loop"}
    BY <1>3 DEF Engine!RunQuit
  <2> QED BY <2>1
<1>4. CASE Engine!RunCallback \/ Engine!RunResolve
  <2>1. UNCHANGED <<sig, main>> /\ Head(posted) # Quit
    BY <1>4, Callbacks DEF Engine!RunCallback, Engine!RunResolve
  <2> QED BY <1>q, <2>1
<1>5. CASE Engine!RunDepleted \/ Engine!Destroy \/ Engine!Exit
  <2>1. sig' = sig /\ main' \in {"deleted", "deplete", "exited"}
    BY <1>5 DEF Engine!RunDepleted, Engine!Destroy, Engine!Exit
  <2> QED BY <2>1
<1>6. ASSUME NEW j \in Engine!Jobs, Engine!Dispatching(j) PROVE SignalQueued'
  <2>1. sig' = sig /\ (main' = main \/ main' = "crashed")
    BY <1>6 DEF Engine!Dispatching
  <2>2. posted' = posted \/ posted' = Append(posted, index)
    BY <1>6
    DEF Engine!Dispatching, Engine!DispatchOn, Engine!Lock, Engine!Skip, Engine!Store,
        Engine!Post
  <2>3. index \in Engine!Index \union Other
    BY DEF Engine!TypeOK
  <2>4. Within(posted, Quit) => Within(posted', Quit)
    <3>1. \A x : Within(Append(posted, index), x) <=> Within(posted, x) \/ x = index
      BY <1>0, <2>3, WithinMore
    <3> QED BY <2>2, <3>1
  <2> QED BY <2>1, <2>4
<1>7. ASSUME NEW c \in Calls, Engine!PageCall(c) \/ Engine!HandlerReturns(c)
      PROVE  SignalQueued'
  BY <1>7 DEF Engine!PageCall, Engine!HandlerReturns, Engine!Handled, Engine!vars
<1>8. CASE Engine!OnMessage
  BY <1>8 DEF Engine!OnMessage, Engine!Call, Engine!vars
<1>9. CASE Engine!run_impl \/ Engine!Reload \/ Engine!Signal
  BY <1>9 DEF Engine!run_impl, Engine!Reload, Engine!Signal, Engine!vars
<1>10. CASE Engine!webview_create \/ Engine!Bind
  BY <1>10 DEF Engine!webview_create, Engine!Bind
<1>11. CASE UNCHANGED webview
  BY <1>11 DEF webview
<1> QED
  BY <1>1, <1>2, <1>3, <1>4, <1>5, <1>6, <1>7, <1>8, <1>9, <1>10, <1>11
  DEF Engine!EngineNext, Engine!MainLoop

\* Of the library, whatever its texts.
WebviewInv == BridgeInv /\ PageQueue /\ Overdue /\ SignalQueued

LEMMA WebviewInit == Engine!EngineInit => WebviewInv
<1> SUFFICES ASSUME Engine!EngineInit PROVE WebviewInv
  OBVIOUS
<1>1. BridgeInv
  BY BridgeInit DEF Engine!EngineInit
<1>2. PageQueue
  BY DEF Engine!EngineInit, PageQueue
<1>3. Overdue /\ SignalQueued
  BY DEF Engine!EngineInit, Overdue, SignalQueued
<1> QED BY <1>1, <1>2, <1>3 DEF WebviewInv

LEMMA WebviewStepInv == WebviewInv /\ [Engine!EngineNext]_webview => WebviewInv'
<1> SUFFICES ASSUME WebviewInv, [Engine!EngineNext]_webview PROVE WebviewInv'
  OBVIOUS
<1>1. Engine!TypeOK /\ Bridges
  BY EngineBridges DEF WebviewInv, BridgeInv
<1>2. BridgeInv'
  BY <1>1, BridgeNext DEF WebviewInv
<1>3. Engine!TypeOK'
  BY <1>2 DEF BridgeInv
<1>4. PageQueue'
  BY PageQueueStep DEF WebviewInv
<1>5. Overdue' /\ SignalQueued'
  BY <1>1, <1>3, OverdueStep, SignalQueuedStep DEF WebviewInv
<1> QED BY <1>2, <1>4, <1>5 DEF WebviewInv

LEMMA MainLeavesWebview ==
  ASSUME \/ Flags \/ connectGreetd \/ runNative \/ gtkwinRun \/ metalRun
         \/ MetalReturns \/ Scaled \/ Serve \/ WebviewEnds
  PROVE  UNCHANGED webview
  BY DEF Flags, connectGreetd, runNative, gtkwinRun, metalRun, MetalReturns, Scaled, Serve,
         WebviewEnds, On, Exit, Go, Fallback, relaunchUnderCage, Exec

LEMMA StepsWebview == [StartupNext]_allVars => [Engine!EngineNext]_webview
  BY MainLeavesWebview DEF StartupNext, MetalStep, ScaleStep, WebviewStep, allVars

LEMMA WebviewInvariance == StartupSpec => []WebviewInv
<1>1. StartupInit => WebviewInv
  BY WebviewInit DEF StartupInit
<1>2. WebviewInv /\ [StartupNext]_allVars => WebviewInv'
  BY StepsWebview, WebviewStepInv
<1> QED BY <1>1, <1>2, PTL DEF StartupSpec

\* A webview that has been deleted is touched only by goroutines that were under
\* way when the main loop ended (webview.go:139-147, main.go:112-118).
THEOREM OnlyTheLateTouch == StartupSpec => []OnlyLateTouch
<1>1. WebviewInv => OnlyLateTouch
  BY DEF WebviewInv, Overdue, OnlyLateTouch, Engine!OnlyLateTouch
<1> QED BY <1>1, WebviewInvariance, PTL

\* A signal ends the main loop, whenever it comes: also before the loop has started,
\* and whatever is in the queue before it (main.go:112-118).
THEOREM SignalIsObeyed == StartupSpec => []SignalObeyed
<1>1. WebviewInv => SignalObeyed
  BY DEF WebviewInv, SignalQueued, Within, SignalObeyed, Engine!SignalObeyed
<1> QED BY <1>1, WebviewInvariance, PTL

\* With all that the library posts besides, no callback of dispatchOn runs twice, or
\* before its handler has returned (webview.go:139-159).
THEOREM AnswersGoOnce == StartupSpec => []Engine!SettledOnce
<1>1. WebviewInv => Engine!SettledOnce
  BY DEF WebviewInv, BridgeInv
<1> QED BY <1>1, WebviewInvariance, PTL

-----------------------------------------------------------------------------
(* The page's calls. *)

\* A step that is none of a call's own: it begins none, answers none and has none in
\* the queue that it would move.
SameCalls ==
  /\ \A c \in Calls :
       /\ webview_pc'[c] = "idle" <=> webview_pc[c] = "idle"
       /\ webview_pc'[c] = "handler" <=> webview_pc[c] = "handler"
       /\ ran'[c] = ran[c]
       /\ Within(posted', c) <=> Within(posted, c)
  /\ Single(posted, Calls) => Single(posted', Calls)

LEMMA SamePosted ==
  ASSUME Engine!TypeOK,
         \/ posted' = posted
         \/ \E o : o \notin Calls /\ o \in Engine!Index \union Other /\ posted' = Append(posted, o)
         \/ posted # <<>> /\ Head(posted) \notin Calls /\ posted' = Tail(posted)
  PROVE  /\ \A c \in Calls : Within(posted', c) <=> Within(posted, c)
         /\ Single(posted, Calls) => Single(posted', Calls)
<1>0. posted \in Seq(Engine!Index \union Other)
  BY DEF Engine!TypeOK
<1>1. CASE posted' = posted
  BY <1>1
<1>2. ASSUME NEW o, o \notin Calls, o \in Engine!Index \union Other, posted' = Append(posted, o)
      PROVE  /\ \A c \in Calls : Within(posted', c) <=> Within(posted, c)
             /\ Single(posted, Calls) => Single(posted', Calls)
  BY <1>0, <1>2, WithinMore
<1>3. CASE posted # <<>> /\ Head(posted) \notin Calls /\ posted' = Tail(posted)
  BY <1>0, <1>3, WithinLess
<1> QED BY <1>1, <1>2, <1>3

LEMMA SameDispatching ==
  ASSUME Engine!TypeOK, NEW j \in Engine!Jobs, Engine!DispatchOn(j) PROVE SameCalls
<1> USE Callbacks DEF Engine!TypeOK, Engine!Goto
<1>1. CASE Engine!Lock(j)
  <2>1. UNCHANGED <<posted, ran>>
    BY <1>1 DEF Engine!Lock
  <2> QED BY <1>1, <2>1, SamePosted DEF Engine!Lock, SameCalls
<1>2. CASE Engine!Skip(j)
  BY <1>2, SamePosted DEF Engine!Skip, SameCalls
<1>3. CASE Engine!Store(j)
  <2>1. UNCHANGED <<posted, ran>>
    BY <1>3 DEF Engine!Store
  <2> QED BY <1>3, <2>1, SamePosted DEF Engine!Store, SameCalls
<1>4. CASE Engine!Post(j)
  <2>1. /\ \A c \in Calls : Within(posted', c) <=> Within(posted, c)
        /\ Single(posted, Calls) => Single(posted', Calls)
    <3>1. posted' = Append(posted, index) /\ index \in Engine!Index /\ index \notin Calls
      BY <1>4 DEF Engine!Post
    <3> QED BY <3>1, SamePosted
  <2> QED BY <1>4, <2>1 DEF Engine!Post, SameCalls
<1> QED BY <1>1, <1>2, <1>3, <1>4 DEF Engine!DispatchOn

\* Neither a panic nor the navigation is one.
LEMMA SameRun ==
  ASSUME BridgeInv, Engine!Run(<<>>), dispatch[Head(posted)] \notin Calls PROVE SameCalls
<1> DEFINE f == dispatch[Head(posted)]
<1>0. Engine!TypeOK
  BY DEF BridgeInv
<1>1. /\ posted # <<>> /\ Head(posted) \in Engine!Index /\ posted' = Tail(posted)
      /\ Engine!Invoke(f) /\ UNCHANGED webview_pc
  BY <1>0, QueueMore DEF Engine!Run, Engine!TypeOK
<1>2. Head(posted) \notin Calls
  BY <1>1, Callbacks
<1>3. /\ \A c \in Calls : Within(posted', c) <=> Within(posted, c)
      /\ Single(posted, Calls) => Single(posted', Calls)
  BY <1>0, <1>1, <1>2, SamePosted
<1>4. \A c \in Calls : ran'[c] = ran[c]
  <2>1. ran' = ran \/ ran' = [ran EXCEPT ![f] = @ + 1]
    BY <1>1 DEF Engine!Invoke
  <2> QED BY <1>0, <2>1, Callbacks DEF Engine!TypeOK
<1> QED BY <1>1, <1>3, <1>4 DEF SameCalls

LEMMA SameOther ==
  ASSUME Engine!TypeOK,
         \/ Engine!RunOther(<<>>) /\ Head(posted) \notin Calls
         \/ Engine!PostOther(Quit) \/ Engine!PostOther(Depleted)
         \/ UNCHANGED Engine!vars
  PROVE  SameCalls
<1>0. UNCHANGED <<webview_pc, ran>>
  BY DEF Engine!RunOther, Engine!PostOther, Engine!vars
<1>1. /\ \A c \in Calls : Within(posted', c) <=> Within(posted, c)
      /\ Single(posted, Calls) => Single(posted', Calls)
  <2>1. CASE Engine!RunOther(<<>>) /\ Head(posted) \notin Calls
    <3>1. posted # <<>> /\ posted' = Tail(posted)
      BY <2>1, QueueMore DEF Engine!RunOther, Engine!TypeOK
    <3> QED BY <2>1, <3>1, SamePosted
  <2>2. CASE Engine!PostOther(Quit)
    <3>1. posted' = Append(posted, Quit) /\ Quit \notin Calls /\ Quit \in Engine!Index \union Other
      BY <2>2, Callbacks DEF Engine!PostOther
    <3> QED BY <3>1, SamePosted
  <2>3. CASE Engine!PostOther(Depleted)
    <3>1. /\ posted' = Append(posted, Depleted)
          /\ Depleted \notin Calls /\ Depleted \in Engine!Index \union Other
      BY <2>3, Callbacks DEF Engine!PostOther
    <3> QED BY <3>1, SamePosted
  <2>4. CASE UNCHANGED Engine!vars
    BY <2>4, SamePosted DEF Engine!vars
  <2> QED BY <2>1, <2>2, <2>3, <2>4
<1> QED BY <1>0, <1>1 DEF SameCalls

\* What a step may be for the page and its calls.
Elsewhere ==
  SameCalls /\ UNCHANGED <<page, nextSeq, RPC, promise, external, id, arg, request, reply>>

Leaving ==
  /\ SameCalls /\ \E to : Engine!Leave(to)
  /\ external' = external \/ external' = <<>>
  /\ UNCHANGED <<id, arg, request, reply>>

Returning(f) ==
  /\ f = dispatch[Head(posted)] /\ Engine!Run(<<f>>)
  /\ UNCHANGED <<page, nextSeq, RPC, promise, external, id, arg, request, reply>>

LEMMA PageKinds ==
  ASSUME BridgeInv, [Engine!EngineNext]_webview
  PROVE  \/ Elsewhere \/ Leaving \/ Engine!OnMessage \/ Engine!RunResolve
         \/ \E c \in Calls : Engine!PageCall(c) \/ Engine!HandlerReturns(c) \/ Returning(c)
<1>0. Engine!TypeOK
  BY DEF BridgeInv
<1> USE DEF Engine!values, Engine!script
<1>1. CASE Engine!RunCallback
  <2> DEFINE f == dispatch[Head(posted)]
  <2>1. CASE f \in Calls
    <3>1. Returning(f)
      BY <1>1, <2>1, Callbacks DEF Engine!RunCallback, Returning
    <3> QED BY <2>1, <3>1
  <2>2. CASE f \notin Calls
    <3>1. Engine!Run(<<>>)
      BY <1>1, <2>2 DEF Engine!RunCallback
    <3>2. SameCalls
      BY <2>2, <3>1, SameRun
    <3>3. UNCHANGED <<external, id, arg, request, reply>>
      BY <1>1 DEF Engine!RunCallback
    <3>4. Engine!Leave("ui") \/ UNCHANGED <<page, nextSeq, RPC, promise>>
      BY <1>1 DEF Engine!RunCallback
    <3> QED BY <3>2, <3>3, <3>4 DEF Elsewhere, Leaving
  <2> QED BY <2>1, <2>2
<1>2. CASE Engine!RunQuit \/ Engine!RunDepleted
  <2>1. Engine!RunOther(<<>>) /\ Head(posted) \notin Calls
    BY <1>2, Callbacks DEF Engine!RunQuit, Engine!RunDepleted
  <2>2. UNCHANGED <<page, nextSeq, RPC, promise, external, id, arg, request, reply>>
    BY <1>2 DEF Engine!RunQuit, Engine!RunDepleted
  <2> QED BY <1>0, <2>1, <2>2, SameOther DEF Elsewhere
<1>3. CASE Engine!Destroyed
  <2>1. Engine!PostOther(Quit) \/ UNCHANGED Engine!vars
    BY <1>3
    DEF Engine!Destroyed, Engine!on_window_destroyed, Engine!terminate_impl,
        Engine!dispatch_impl
  <2>2. Engine!Leave("blank") /\ external' = <<>> /\ UNCHANGED <<id, arg, request, reply>>
    BY <1>3 DEF Engine!Destroyed
  <2> QED BY <1>0, <2>1, <2>2, SameOther DEF Leaving
<1>4. CASE Engine!Destroy
  <2>1. Engine!PostOther(Depleted)
    BY <1>4 DEF Engine!Destroy, Engine!dispatch_impl
  <2>2. Engine!Leave("blank") /\ external' = <<>> /\ UNCHANGED <<id, arg, request, reply>>
    BY <1>4 DEF Engine!Destroy, Engine!DestroyWidget
  <2> QED BY <1>0, <2>1, <2>2, SameOther DEF Leaving
<1>5. CASE Engine!Terminate
  <2>1. Engine!PostOther(Quit)
    BY <1>5 DEF Engine!Terminate, Engine!terminate_impl, Engine!dispatch_impl
  <2>2. UNCHANGED <<page, nextSeq, RPC, promise, external, id, arg, request, reply>>
    BY <1>5 DEF Engine!Terminate
  <2> QED BY <1>0, <2>1, <2>2, SameOther DEF Elsewhere
<1>6. CASE Engine!Reload
  <2>1. Engine!Leave("ui") /\ UNCHANGED Engine!vars
        /\ UNCHANGED <<external, id, arg, request, reply>>
    BY <1>6 DEF Engine!Reload
  <2> QED BY <1>0, <2>1, SameOther DEF Leaving
<1>7. ASSUME NEW j \in Engine!Jobs, Engine!Dispatching(j) PROVE Elsewhere
  <2>1. Engine!DispatchOn(j)
        /\ UNCHANGED <<page, nextSeq, RPC, promise, external, id, arg, request, reply>>
    BY <1>7 DEF Engine!Dispatching
  <2> QED BY <1>0, <2>1, SameDispatching DEF Elsewhere
<1>8. CASE \/ Engine!webview_create \/ Engine!Bind \/ Engine!run_impl
           \/ Engine!Signal \/ Engine!Exit
  <2>1. UNCHANGED Engine!vars
        /\ UNCHANGED <<page, nextSeq, RPC, promise, external, id, arg, request, reply>>
    BY <1>8 DEF Engine!webview_create, Engine!Bind, Engine!run_impl, Engine!Signal, Engine!Exit
  <2> QED BY <1>0, <2>1, SameOther DEF Elsewhere
<1>9. CASE UNCHANGED webview
  <2>1. UNCHANGED Engine!vars
        /\ UNCHANGED <<page, nextSeq, RPC, promise, external, id, arg, request, reply>>
    BY <1>9 DEF webview, Engine!vars
  <2> QED BY <1>0, <2>1, SameOther DEF Elsewhere
<1> QED
  BY <1>1, <1>2, <1>3, <1>4, <1>5, <1>6, <1>7, <1>8, <1>9 DEF Engine!EngineNext, Engine!MainLoop

-----------------------------------------------------------------------------
(* The window and the library. *)

\* Where there is a WebKit library under a name that is looked for, it is found, and it
\* has the function that is asked for.
LEMMA Library ==
  ASSUME system \in Systems, loaded_lib \in system.links \union {Engine!Nil}
  PROVE  /\ Engine!get_webkit_library \in system.links \union {Engine!Nil}
         /\ system.links # {} => Engine!get_webkit_library # Engine!Nil
         /\ Engine!eval_symbol \in Engine!webkit_symbols
<1> DEFINE names == {"libwebkit2gtk-4.1.so", "libwebkit2gtk-4.0.so"}
           found == {i \in {1, 2} : Engine!LibNames[i] \in system.links}
           first == CHOOSE i \in found : \A j \in found : i <= j
<1>1. system.links \subseteq names /\ Engine!Nil \notin names
  BY EngineAssumption DEF Engine!Nil
<1>2. /\ DOMAIN Engine!LibNames = {1, 2}
      /\ Engine!LibNames[1] = "libwebkit2gtk-4.1.so"
      /\ Engine!LibNames[2] = "libwebkit2gtk-4.0.so"
  BY DEF Engine!LibNames
<1>3. {i \in DOMAIN Engine!LibNames : Engine!is_loaded(Engine!LibNames[i])} = found
  BY <1>2 DEF Engine!is_loaded
<1>4. found # {} => first \in found
  <2> SUFFICES ASSUME found # {} PROVE \E i \in found : \A j \in found : i <= j
    OBVIOUS
  <2>1. CASE 1 \in found
    BY <2>1
  <2>2. CASE 1 \notin found
    BY <2>2
  <2> QED BY <2>1, <2>2
<1>5. found = {} => system.links = {}
  BY <1>1, <1>2
<1>6. found # {} => /\ Engine!load_library(Engine!LibNames[first]) \in system.links
                    /\ Engine!load_library(Engine!LibNames[first]) # Engine!Nil
  BY <1>1, <1>4 DEF Engine!load_library
<1>7. /\ Engine!get_webkit_library \in system.links \union {Engine!Nil}
      /\ system.links # {} => Engine!get_webkit_library # Engine!Nil
  <2>1. Engine!get_webkit_library =
          IF loaded_lib # Engine!Nil THEN loaded_lib
          ELSE IF found = {} THEN Engine!Nil ELSE Engine!load_library(Engine!LibNames[first])
    BY <1>3 DEF Engine!get_webkit_library
  <2> HIDE DEF found, first
  <2>2. CASE loaded_lib # Engine!Nil
    BY <2>1, <2>2
  <2>3. CASE loaded_lib = Engine!Nil /\ found = {}
    BY <1>5, <2>1, <2>3
  <2>4. CASE loaded_lib = Engine!Nil /\ found # {}
    BY <1>6, <2>1, <2>4
  <2> QED BY <2>2, <2>3, <2>4
<1>8. Engine!eval_symbol \in Engine!webkit_symbols
  BY DEF Engine!eval_symbol, Engine!webkit_symbols
<1> QED BY <1>7, <1>8

\* A page is only in a web view, of a window that is there, and it starts with the
\* scripts that the library has for it.
Window ==
  /\ main \in {"create", "bind", "started", "loop", "ended", "deplete", "deleted", "exited",
               "crashed"}
  /\ sig \in {"wait", "got", "done"}
  /\ m_window \in BOOLEAN /\ m_webview \in BOOLEAN /\ (m_webview => m_window)
  /\ window_ref_count = IF m_window THEN 1 ELSE 0
  /\ bindings \subseteq {Engine!Name} /\ scripts \subseteq {"external", "rpc"}
  /\ system \in Systems /\ loaded_lib \in system.links \union {Engine!Nil}
  /\ page \in {"blank", "ui"}
  /\ main = "create" => ~m_window /\ scripts = {} /\ bindings = {}
  /\ main = "bind" => scripts = {"external"} /\ bindings = {}
  /\ main \notin {"create", "bind", "crashed"} =>
       bindings = {Engine!Name} /\ scripts = {"external", "rpc"}
  /\ page = "ui" => m_webview /\ bindings = {Engine!Name} /\ scripts = {"external", "rpc"}

LEMMA WindowInit == Engine!EngineInit => Window
  BY DEF Engine!EngineInit, Window

LEMMA WindowStep ==
  ASSUME Window, [Engine!EngineNext]_webview PROVE Window' /\ system' = system
<1> USE DEF Window, Engine!window, Engine!engine, Engine!script, Engine!ends
<1>1. CASE Engine!webview_create
  <2>1. CASE Engine!gtk_webkit_engine
    <3>1. /\ m_window' = TRUE /\ m_webview' = TRUE /\ window_ref_count' = window_ref_count + 1
          /\ scripts' = scripts \union {"external"} /\ UNCHANGED <<bindings, system, loaded_lib>>
      BY <2>1 DEF Engine!gtk_webkit_engine, Engine!inc_window_count, Engine!init_impl
    <3>2. /\ main = "create" /\ main' \in {"bind", "crashed"} /\ UNCHANGED <<sig, page>>
          /\ main' = "crashed" => UNCHANGED Engine!engine
      BY <1>1 DEF Engine!webview_create
    <3>3. main' = "bind"
      BY <3>1, <3>2
    <3>4. window_ref_count' = 1
      BY <3>1, <3>2
    <3> QED BY <3>1, <3>2, <3>3, <3>4
  <2>2. CASE ~Engine!gtk_webkit_engine
    <3>1. UNCHANGED <<Engine!engine, sig, page>> /\ main' = "crashed"
      BY <1>1, <2>2 DEF Engine!webview_create
    <3> QED BY <3>1
  <2> QED BY <2>1, <2>2
<1>2. CASE Engine!Bind
  <2>1. /\ loaded_lib' = Engine!get_webkit_library
        /\ UNCHANGED <<m_window, m_webview, window_ref_count, system>>
    BY <1>2 DEF Engine!Bind, Engine!bind, Engine!eval_impl
  <2>2. /\ main = "bind" /\ main' = "started" /\ UNCHANGED <<sig, page>>
        /\ bindings' = bindings \union {Engine!Name} /\ scripts' = scripts \union {"rpc"}
    BY <1>2 DEF Engine!Bind, Engine!bind, Engine!init_impl
  <2> QED BY <2>1, <2>2, Library
<1>3. CASE Engine!run_impl \/ Engine!Signal \/ Engine!Exit \/ Engine!Reload \/ Engine!OnMessage
  BY <1>3
  DEF Engine!run_impl, Engine!Signal, Engine!Exit, Engine!Reload, Engine!Leave, Engine!OnMessage
<1>4. CASE Engine!RunCallback
  BY <1>4 DEF Engine!RunCallback, Engine!Leave, Engine!Turning
<1>5. CASE Engine!RunResolve
  <2>1. loaded_lib' = Engine!get_webkit_library
    BY <1>5 DEF Engine!RunResolve, Engine!eval_impl
  <2>2. UNCHANGED <<main, sig, m_window, m_webview, window_ref_count, bindings, scripts,
                    system, page>>
    BY <1>5 DEF Engine!RunResolve
  <2> QED BY <2>1, <2>2, Library
<1>6. CASE Engine!RunQuit \/ Engine!RunDepleted
  BY <1>6 DEF Engine!RunQuit, Engine!RunDepleted, Engine!Turning
<1>7. CASE Engine!Destroyed
  <2>1. /\ main = "loop" /\ m_window /\ m_window' = FALSE /\ m_webview' = FALSE
        /\ UNCHANGED <<bindings, scripts, system, loaded_lib, sig>> /\ page' = "blank"
    BY <1>7 DEF Engine!Destroyed, Engine!Leave
  <2>2. window_ref_count' = 0
    BY <1>7, <2>1 DEF Engine!Destroyed, Engine!on_window_destroyed, Engine!dec_window_count
  <2>3. main' = "loop"
    BY <1>7, <2>1 DEF Engine!Destroyed, Engine!on_window_destroyed, Engine!terminate_impl
  <2> QED BY <2>1, <2>2, <2>3
<1>8. CASE Engine!Terminate
  BY <1>8 DEF Engine!Terminate, Engine!terminate_impl
<1>9. CASE Engine!Destroy
  <2>1. /\ main = "ended" /\ main' = "deplete" /\ m_window' = FALSE /\ m_webview' = FALSE
        /\ UNCHANGED <<bindings, scripts, system, loaded_lib, sig>> /\ page' = "blank"
    BY <1>9 DEF Engine!Destroy, Engine!DestroyWidget, Engine!Leave
  <2>2. window_ref_count' = 0
    BY <1>9 DEF Engine!Destroy, Engine!dec_window_count
  <2> QED BY <2>1, <2>2
<1>10. ASSUME NEW c \in Calls, Engine!PageCall(c) \/ Engine!HandlerReturns(c)
       PROVE  Window' /\ system' = system
  <2>1. UNCHANGED <<Engine!engine, page, main, sig>>
    BY <1>10 DEF Engine!PageCall, Engine!HandlerReturns
  <2> QED BY <2>1
<1>11. ASSUME NEW j \in Engine!Jobs, Engine!Dispatching(j)
       PROVE  Window' /\ system' = system
  BY <1>11 DEF Engine!Dispatching, Engine!Running
<1>12. CASE UNCHANGED webview
  BY <1>12 DEF webview
<1> QED
  BY <1>1, <1>2, <1>3, <1>4, <1>5, <1>6, <1>7, <1>8, <1>9, <1>10, <1>11, <1>12
  DEF Engine!EngineNext, Engine!MainLoop

-----------------------------------------------------------------------------
(* The promises of the page. *)

\* c has been called; its promise is open.
Called(c)  == promise[c].status # "none"
Pending(c) == promise[c].status = "pending"

CalledOnes == {c \in Calls : Called(c)}

\* The promise that is kept under n is c's own, if it is still open.
Under(c, n) == n \in Engine!Seqs /\ (Pending(c) => RPC[n] = c)

\* A promise is open exactly while it is kept, under one number that has been given
\* out by the page that is loaded; there are numbers for all calls.
Numbers ==
  /\ promise = [c \in Calls |-> promise[c]]
  /\ \A c \in Calls : promise[c].status \in {"none", "pending", "gone", "resolved", "rejected"}
  /\ RPC \in [Engine!Seqs -> Calls \union {NoJob}]
  /\ nextSeq \in Nat \ {0} /\ nextSeq <= Cardinality(CalledOnes) + 1
  /\ \A n \in Engine!Seqs : RPC[n] # NoJob => n < nextSeq /\ Pending(RPC[n])
  /\ \A n, k \in Engine!Seqs : RPC[n] = RPC[k] /\ RPC[n] # NoJob => n = k
  /\ \A c \in Calls : Pending(c) => page = "ui" /\ \E n \in Engine!Seqs : RPC[n] = c

LEMMA CallsAreFinite ==
  /\ IsFiniteSet(Calls) /\ Cardinality(Calls) \in 0..4 /\ NoJob \notin Calls
  /\ Engine!Seqs = 1..4
  /\ IsFiniteSet(CalledOnes) /\ Cardinality(CalledOnes) \in Nat
<1>1. IsFiniteSet(Calls) /\ Cardinality(Calls) \in 0..4 /\ NoJob \notin Calls
  BY EngineAssumption, CallbacksAssumption, FS_CardinalityType
<1>2. CalledOnes \in SUBSET Calls
  BY DEF CalledOnes
<1>3. IsFiniteSet(CalledOnes)
  BY <1>1, <1>2, FS_Subset
<1>4. Cardinality(CalledOnes) \in Nat
  BY <1>3, FS_CardinalityType
<1>5. Engine!Seqs = 1..4
  BY DEF Engine!Seqs, Engine!Digits
<1> QED BY <1>1, <1>3, <1>4, <1>5

LEMMA NumbersInit == Engine!EngineInit => Numbers
<1> SUFFICES ASSUME Engine!EngineInit PROVE Numbers
  OBVIOUS
<1>1. /\ promise = [c \in Calls |-> Engine!Stated("none")] /\ nextSeq = 1
      /\ RPC = [n \in Engine!Seqs |-> NoJob]
  BY DEF Engine!EngineInit
<1>2. \A c \in Calls : promise[c].status = "none"
  BY <1>1 DEF Engine!Stated
<1> QED BY <1>1, <1>2, CallsAreFinite DEF Numbers, Pending

\* When a page is left, no promise is open any more, and nothing else becomes of them.
LEMMA Left ==
  ASSUME Numbers, Leaving
  PROVE  /\ \A c \in Calls : ~Pending(c)' /\ (Called(c)' <=> Called(c))
         /\ \A c \in Calls : ~Pending(c) => promise'[c] = promise[c]
         /\ \A c \in Calls : Pending(c) => promise'[c].status = "gone"
         /\ Numbers'
<1>1. /\ nextSeq' = 1 /\ RPC' = [n \in Engine!Seqs |-> NoJob]
      /\ promise' = [c \in Calls |->
                       IF Pending(c) THEN Engine!Stated("gone") ELSE promise[c]]
  BY DEF Leaving, Engine!Leave, Pending
<1>2. \A c \in Calls : promise'[c] = IF Pending(c) THEN Engine!Stated("gone") ELSE promise[c]
  BY <1>1
<1>3. Engine!Stated("gone").status = "gone"
  BY DEF Engine!Stated
<1>4. /\ \A c \in Calls : ~Pending(c)' /\ (Called(c)' <=> Called(c))
      /\ \A c \in Calls : ~Pending(c) => promise'[c] = promise[c]
      /\ \A c \in Calls : Pending(c) => promise'[c].status = "gone"
  BY <1>2, <1>3 DEF Pending, Called
<1>5. promise' = [c \in Calls |-> promise'[c]]
  BY <1>1
<1>6. \A c \in Calls :
        promise'[c].status \in {"none", "pending", "gone", "resolved", "rejected"}
  BY <1>2, <1>3 DEF Numbers
<1>7. Cardinality(CalledOnes)' \in Nat
  <2>1. CalledOnes' = CalledOnes
    BY <1>4 DEF CalledOnes
  <2> QED BY <2>1, CallsAreFinite
<1>8. \A n \in Engine!Seqs : RPC'[n] = NoJob
  BY <1>1
<1>9. RPC' \in [Engine!Seqs -> Calls \union {NoJob}]
  BY <1>1
<1> QED BY <1>1, <1>4, <1>5, <1>6, <1>7, <1>8, <1>9 DEF Numbers

\* A call of the page gets a number of its own.
LEMMA CalledBy ==
  ASSUME Numbers, NEW c \in Calls, Engine!PageCall(c)
  PROVE  /\ ~Called(c) /\ Pending(c)' /\ \A d \in Calls : d # c => promise'[d] = promise[d]
         /\ nextSeq \in Engine!Seqs /\ RPC[nextSeq] = NoJob
         /\ RPC' = [RPC EXCEPT ![nextSeq] = c]
         /\ Numbers'
<1>1. /\ page = "ui" /\ page' = page /\ promise[c].status = "none" /\ nextSeq' = nextSeq + 1
      /\ RPC' = [RPC EXCEPT ![nextSeq] = c]
      /\ promise' = [promise EXCEPT ![c] = Engine!Stated("pending")]
  BY DEF Engine!PageCall
<1>2. promise'[c] = Engine!Stated("pending") /\ \A d \in Calls : d # c => promise'[d] = promise[d]
  BY <1>1 DEF Numbers
<1>3. Engine!Stated("pending").status = "pending"
  BY DEF Engine!Stated
<1>4. /\ c \in Calls \ CalledOnes /\ CalledOnes' = CalledOnes \union {c}
      /\ CalledOnes \subseteq Calls
  BY <1>1, <1>2, <1>3 DEF CalledOnes, Called
<1>5. Cardinality(CalledOnes)' = Cardinality(CalledOnes) + 1
  BY <1>4, CallsAreFinite, FS_AddElement
<1>6. Cardinality(CalledOnes) + 1 <= Cardinality(Calls)
  <2>1. IsFiniteSet(Calls) /\ CalledOnes' \in SUBSET Calls
    BY <1>4, CallsAreFinite
  <2>2. Cardinality(CalledOnes)' <= Cardinality(Calls)
    BY <2>1, FS_Subset
  <2> QED BY <1>5, <2>2
<1>7. nextSeq \in Engine!Seqs
  BY <1>6, CallsAreFinite DEF Numbers
<1>8. RPC[nextSeq] = NoJob
  BY <1>7 DEF Numbers
<1>9. RPC'[nextSeq] = c /\ \A n \in Engine!Seqs : n # nextSeq => RPC'[n] = RPC[n]
  BY <1>1, <1>7 DEF Numbers
<1>10. ~Called(c) /\ Pending(c)' /\ ~Pending(c)
  BY <1>1, <1>2, <1>3 DEF Called, Pending
<1>11. promise' = [d \in Calls |-> promise'[d]]
       /\ \A d \in Calls :
            promise'[d].status \in {"none", "pending", "gone", "resolved", "rejected"}
  BY <1>1, <1>2, <1>3 DEF Numbers
<1>12. RPC' \in [Engine!Seqs -> Calls \union {NoJob}]
  BY <1>1, <1>7 DEF Numbers
<1>13. \A n \in Engine!Seqs : n < nextSeq + 1 <=> n < nextSeq \/ n = nextSeq
  BY CallsAreFinite DEF Numbers
<1>14. \A n \in Engine!Seqs :
         RPC'[n] # NoJob => n < nextSeq' /\ promise'[RPC'[n]].status = "pending"
  <2> SUFFICES ASSUME NEW n \in Engine!Seqs, RPC'[n] # NoJob
               PROVE  n < nextSeq' /\ promise'[RPC'[n]].status = "pending"
    OBVIOUS
  <2>1. CASE n = nextSeq
    BY <1>1, <1>9, <1>10, <1>13, <2>1 DEF Pending
  <2>2. CASE n # nextSeq
    <3>1. RPC'[n] = RPC[n] /\ n < nextSeq /\ Pending(RPC[n]) /\ RPC[n] \in Calls
      BY <1>9, <2>2 DEF Numbers
    <3>2. promise'[RPC[n]].status = "pending"
      BY <1>2, <1>10, <3>1 DEF Pending
    <3> QED BY <1>1, <1>13, <3>1, <3>2
  <2> QED BY <2>1, <2>2
<1>15. \A n \in Engine!Seqs : RPC[n] # c
  BY <1>10, CallsAreFinite DEF Numbers
<1>16. \A n, k \in Engine!Seqs : RPC'[n] = RPC'[k] /\ RPC'[n] # NoJob => n = k
  BY <1>9, <1>15 DEF Numbers
<1>17. \A d \in Calls : Pending(d)' => page' = "ui" /\ \E n \in Engine!Seqs : RPC'[n] = d
  <2>1. \A d \in Calls : d # c /\ Pending(d)' => Pending(d)
    BY <1>2 DEF Pending
  <2>2. \A d \in Calls : d # c /\ Pending(d)' => \E n \in Engine!Seqs : RPC'[n] = d
    <3> SUFFICES ASSUME NEW d \in Calls, d # c, Pending(d) PROVE \E n \in Engine!Seqs : RPC'[n] = d
      BY <2>1
    <3>1. PICK n \in Engine!Seqs : RPC[n] = d
      BY DEF Numbers
    <3>2. n # nextSeq
      BY <1>8, <3>1, CallsAreFinite
    <3> QED BY <1>9, <3>1, <3>2
  <2> QED BY <1>1, <1>7, <1>9, <2>2
<1>18. nextSeq' \in Nat \ {0} /\ nextSeq' <= Cardinality(CalledOnes)' + 1
  BY <1>1, <1>5, CallsAreFinite DEF Numbers
<1>19. Numbers'
  BY <1>11, <1>12, <1>14, <1>16, <1>17, <1>18 DEF Numbers, Pending
<1> QED BY <1>1, <1>2, <1>7, <1>8, <1>10, <1>19

-----------------------------------------------------------------------------
(* The strings of a call. *)

Values ==
  /\ id = [c \in Calls |-> id[c]] /\ arg = [c \in Calls |-> arg[c]]
  /\ request = [c \in Calls |-> request[c]] /\ reply = [c \in Calls |-> reply[c]]

\* A call's handler has what the page called with, and the number of its promise.
HandlerOf(c) ==
  /\ request[c] = Engine!Decoded(arg[c])
  /\ webview_pc[c] # "handler" => reply[c] = Respond(request[c])
  /\ \E n : Under(c, n) /\ id[c] = <<Engine!Digits[n]>>

\* A message is of a call whose handler has not been looked for.
InTransit(i) ==
  LET c == external[i].call
  IN  /\ c \in Calls /\ webview_pc[c] = "idle" /\ Called(c)
      /\ \E n : Under(c, n) /\ external[i].text = Engine!Message(n, arg[c])

Strings ==
  /\ \A c \in Calls : Called(c) => arg[c] \in Args
  /\ \A c \in Calls : webview_pc[c] # "idle" => Called(c) /\ HandlerOf(c)
  /\ \A i \in DOMAIN external : InTransit(i)
  /\ \A i, k \in DOMAIN external : external[i].call = external[k].call => i = k

\* An answer that is posted is of a call that has been handled, and as long as no page
\* has been left with a promise open, it has not settled that promise yet.
Answers ==
  /\ Single(posted, Calls)
  /\ \A c \in Calls : Within(posted, c) => Engine!Ran(c)
  /\ Engine!NoneGone =>
       \A c \in Calls : Engine!Settled(c) =>
         /\ Engine!Ran(c) /\ ~Within(posted, c)
         /\ promise[c] = [status |-> "resolved", value |-> reply[c]]

\* Of an open promise there is the message, the handler or the answer, if answers
\* are evaluated at all.
OnItsWay(c) ==
  /\ webview_pc[c] = "idle" => \E i \in DOMAIN external : external[i].call = c
  /\ Engine!Ran(c) => Within(posted, c)

Outstanding ==
  system.links # {} => \A c \in Calls : Pending(c) => OnItsWay(c)

PageInv == Numbers /\ Values /\ Strings /\ Answers /\ Outstanding

LEMMA PageInit == Engine!EngineInit => PageInv
<1> SUFFICES ASSUME Engine!EngineInit PROVE PageInv
  OBVIOUS
<1>1. /\ promise = [c \in Calls |-> Engine!Stated("none")]
      /\ posted = <<>> /\ external = <<>>
      /\ \A c \in Calls : webview_pc[c] = "idle"
  BY Callbacks DEF Engine!EngineInit, Engine!Init
<1>2. \A c \in Calls : ~Called(c) /\ ~Pending(c) /\ ~Engine!Settled(c)
  BY <1>1 DEF Engine!Stated, Called, Pending, Engine!Settled
<1>3. Values
  BY DEF Engine!EngineInit, Values
<1>4. Strings
  BY <1>1, <1>2 DEF Strings
<1>5. Answers
  BY <1>1, <1>2 DEF Answers, Single, Within
<1>6. Outstanding
  BY <1>2 DEF Outstanding
<1> QED BY <1>3, <1>4, <1>5, <1>6, NumbersInit DEF PageInv

\* Steps that are no call's.
LEMMA PageElsewhere ==
  ASSUME PageInv, Elsewhere, system' = system PROVE PageInv'
<1>0. /\ UNCHANGED <<page, nextSeq, RPC, promise, external, id, arg, request, reply, system>>
      /\ \A c \in Calls :
           /\ webview_pc'[c] = "idle" <=> webview_pc[c] = "idle"
           /\ webview_pc'[c] = "handler" <=> webview_pc[c] = "handler"
           /\ ran'[c] = ran[c]
           /\ Within(posted', c) <=> Within(posted, c)
      /\ Single(posted, Calls) => Single(posted', Calls)
  BY DEF Elsewhere, SameCalls
<1>1. Numbers' /\ Values'
  <2>1. CalledOnes' = CalledOnes
    BY <1>0 DEF CalledOnes, Called
  <2>2. Cardinality(CalledOnes)' = Cardinality(CalledOnes)
    BY <2>1
  <2>3. Numbers'
    BY <1>0, <2>2 DEF PageInv, Numbers, Pending
  <2>4. Values'
    BY <1>0 DEF PageInv, Values
  <2> QED BY <2>3, <2>4
<1>2. Strings'
  BY <1>0 DEF PageInv, Strings, HandlerOf, InTransit, Called, Under, Pending
<1>3. Answers'
  BY <1>0 DEF PageInv, Answers, Engine!Ran, Engine!NoneGone, Engine!Settled
<1>4. Outstanding'
  BY <1>0 DEF PageInv, Outstanding, OnItsWay, Engine!Ran, Pending
<1> QED BY <1>1, <1>2, <1>3, <1>4 DEF PageInv

\* Leaving the page.
LEMMA PageLeaving ==
  ASSUME PageInv, Leaving PROVE PageInv'
<1>0. /\ UNCHANGED <<id, arg, request, reply>>
      /\ external' = external \/ external' = <<>>
      /\ \A c \in Calls :
           /\ webview_pc'[c] = "idle" <=> webview_pc[c] = "idle"
           /\ webview_pc'[c] = "handler" <=> webview_pc[c] = "handler"
           /\ ran'[c] = ran[c]
           /\ Within(posted', c) <=> Within(posted, c)
      /\ Single(posted, Calls) => Single(posted', Calls)
  BY DEF Leaving, SameCalls
<1>1. /\ \A c \in Calls : ~Pending(c)' /\ (Called(c)' <=> Called(c))
      /\ \A c \in Calls : ~Pending(c) => promise'[c] = promise[c]
      /\ \A c \in Calls : Pending(c) => promise'[c].status = "gone"
      /\ Numbers'
  BY Left DEF PageInv
<1>2. Values'
  BY <1>0 DEF PageInv, Values
<1>u. \A c \in Calls : \A n : Under(c, n) => Under(c, n)'
  BY <1>1 DEF Under
<1>3. Strings'
  <2>1. ASSUME NEW c \in Calls, HandlerOf(c) PROVE HandlerOf(c)'
    BY <1>0, <1>u, <2>1 DEF HandlerOf
  <2>2. ASSUME NEW i \in DOMAIN external, external' = external, InTransit(i)
        PROVE  InTransit(i)'
    <3>1. external[i].call \in Calls
      BY <2>2 DEF InTransit
    <3> QED BY <1>0, <1>1, <1>u, <2>2, <3>1 DEF InTransit
  <2>3. \A c \in Calls : /\ Called(c)' => arg'[c] \in Args
                         /\ webview_pc'[c] # "idle" => Called(c)' /\ HandlerOf(c)'
    BY <1>0, <1>1, <2>1 DEF PageInv, Strings
  <2>4. CASE external' = external
    BY <2>2, <2>3, <2>4 DEF PageInv, Strings
  <2>5. CASE external' = <<>>
    BY <2>3, <2>5 DEF Strings
  <2> QED BY <1>0, <2>4, <2>5
<1>4. Answers'
  <2>1. \A c \in Calls : Engine!Settled(c)' => promise'[c] = promise[c] /\ Engine!Settled(c)
    BY <1>1 DEF Engine!Settled, Pending
  <2>2. Engine!NoneGone' => Engine!NoneGone
    BY <1>1 DEF Engine!NoneGone, Pending
  <2> QED BY <1>0, <2>1, <2>2 DEF PageInv, Answers, Engine!Ran
<1>5. Outstanding'
  BY <1>1 DEF Outstanding
<1> QED BY <1>1, <1>2, <1>3, <1>4, <1>5 DEF PageInv

\* A call of the page posts one message.
LEMMA PageCalled ==
  ASSUME BridgeInv, PageQueue, PageInv, NEW c \in Calls, Engine!PageCall(c) PROVE PageInv'
<1>0. PICK a \in Args :
        /\ arg' = [arg EXCEPT ![c] = a]
        /\ external' = Append(external, [call |-> c, text |-> Engine!Message(nextSeq, a)])
  BY DEF Engine!PageCall
<1>1. /\ ~Called(c) /\ Pending(c)' /\ \A d \in Calls : d # c => promise'[d] = promise[d]
      /\ nextSeq \in Engine!Seqs /\ RPC[nextSeq] = NoJob
      /\ RPC' = [RPC EXCEPT ![nextSeq] = c]
      /\ Numbers'
  BY CalledBy DEF PageInv
<1>2. UNCHANGED <<posted, webview_pc, ran, id, request, reply, system>>
  BY DEF Engine!PageCall, Engine!vars, Engine!engine
<1>3. arg'[c] = a /\ \A d \in Calls : d # c => arg'[d] = arg[d]
  BY <1>0 DEF PageInv, Values
<1>4. RPC'[nextSeq] = c /\ \A n \in Engine!Seqs : n # nextSeq => RPC'[n] = RPC[n]
  BY <1>1 DEF PageInv, Numbers
<1>5. /\ Called(c)'
      /\ \A d \in Calls : d # c => (Called(d)' <=> Called(d)) /\ (Pending(d)' <=> Pending(d))
  BY <1>1 DEF Called, Pending
<1>6. \A d \in Calls : \A n : d # c /\ Under(d, n) => Under(d, n)'
  <2> SUFFICES ASSUME NEW d \in Calls, NEW n, d # c, Under(d, n), Pending(d)
               PROVE  RPC'[n] = d
    BY <1>5 DEF Under
  <2>1. n \in Engine!Seqs /\ RPC[n] = d /\ d # NoJob
    BY CallsAreFinite DEF Under
  <2> QED BY <1>1, <1>4, <2>1
<1>n. PICK number, last : number = nextSeq /\ last = Len(external) + 1
  OBVIOUS
<1>7. Under(c, number)'
  BY <1>1, <1>4, <1>n DEF Under
<1>8. webview_pc[c] = "idle"
  BY <1>1 DEF PageInv, Strings
<1>9. Values'
  BY <1>0, <1>2 DEF PageInv, Values
<1>10. /\ Len(external) \in Nat /\ DOMAIN external = 1..Len(external)
       /\ DOMAIN external' = 1..(Len(external) + 1)
       /\ external'[last] = [call |-> c, text |-> Engine!Message(number, a)]
       /\ \A i \in 1..Len(external) : external'[i] = external[i]
  <2>1. external \in Seq(PageMessage)
    BY DEF PageQueue
  <2> DEFINE msg == [call |-> c, text |-> Engine!Message(nextSeq, a)]
  <2>2. /\ Len(external) \in Nat /\ DOMAIN external = 1..Len(external)
        /\ DOMAIN Append(external, msg) = 1..(Len(external) + 1)
        /\ Append(external, msg)[Len(external) + 1] = msg
        /\ \A i \in 1..Len(external) : Append(external, msg)[i] = external[i]
    <3> HIDE DEF msg
    <3> QED BY <2>1
  <2> QED BY <1>0, <1>n, <2>2
<1>11. \A d \in Calls : webview_pc[d] # "idle" => Called(d)' /\ HandlerOf(d)'
  <2> SUFFICES ASSUME NEW d \in Calls, webview_pc[d] # "idle" PROVE Called(d)' /\ HandlerOf(d)'
    OBVIOUS
  <2>1. d # c /\ Called(d) /\ HandlerOf(d)
    BY <1>8 DEF PageInv, Strings
  <2> QED BY <1>2, <1>3, <1>5, <1>6, <2>1 DEF HandlerOf
<1>12. \A i \in DOMAIN external : external'[i].call # c /\ InTransit(i)'
  <2> SUFFICES ASSUME NEW i \in DOMAIN external
               PROVE  external'[i].call # c /\ InTransit(i)'
    OBVIOUS
  <2>1. external'[i] = external[i] /\ InTransit(i)
    BY <1>10 DEF PageInv, Strings
  <2>d. PICK d : d = external[i].call
    OBVIOUS
  <2>2. d \in Calls /\ d # c /\ webview_pc[d] = "idle" /\ Called(d)
    BY <1>1, <2>1, <2>d DEF InTransit
  <2>3. PICK n : Under(d, n) /\ external[i].text = Engine!Message(n, arg[d])
    BY <2>1, <2>d DEF InTransit
  <2>4. Under(d, n)' /\ external[i].text = Engine!Message(n, arg'[d])
    BY <1>3, <1>6, <2>2, <2>3
  <2> QED BY <1>2, <1>5, <2>1, <2>2, <2>4, <2>d DEF InTransit
<1>13. InTransit(last)'
  BY <1>2, <1>3, <1>5, <1>7, <1>8, <1>10 DEF InTransit
<1>14. Strings'
  <2>1. \A d \in Calls : Called(d)' => arg'[d] \in Args
    BY <1>3, <1>5 DEF PageInv, Strings
  <2>2. \A i \in DOMAIN external' : i \in DOMAIN external \/ i = last
    BY <1>10, <1>n
  <2>3. \A i \in DOMAIN external' : InTransit(i)'
    BY <1>12, <1>13, <2>2
  <2>4. external'[last].call = c
    BY <1>10
  <2>5. \A i, k \in DOMAIN external' : external'[i].call = external'[k].call => i = k
    BY <1>10, <1>12, <2>2, <2>4 DEF PageInv, Strings
  <2> QED BY <1>2, <1>11, <2>1, <2>3, <2>5 DEF Strings
<1>15. Answers'
  <2>1. \A d \in Calls : Engine!Settled(d)' => d # c /\ Engine!Settled(d)
    BY <1>1 DEF Engine!Settled, Pending
  <2>2. Engine!NoneGone' => Engine!NoneGone
    BY <1>1 DEF Engine!NoneGone, Called
  <2> QED BY <1>1, <1>2, <2>1, <2>2 DEF PageInv, Answers, Engine!Ran, Single, Within
<1>16. Outstanding'
  <2>1. OnItsWay(c)'
    <3>1. \E i \in DOMAIN external' : external'[i].call = c
      BY <1>10, <1>n
    <3>2. ~Engine!Ran(c)'
      BY <1>2, <1>8, Callbacks DEF BridgeInv, Engine!SettledOnce, Engine!Ran
    <3> QED BY <3>1, <3>2 DEF OnItsWay
  <2>2. ASSUME NEW d \in Calls, OnItsWay(d) PROVE OnItsWay(d)'
    <3>1. \A i \in DOMAIN external : i \in DOMAIN external' /\ external'[i] = external[i]
      BY <1>10
    <3> QED BY <1>2, <2>2, <3>1 DEF OnItsWay, Engine!Ran, Within
  <2> QED BY <1>2, <1>5, <2>1, <2>2 DEF PageInv, Outstanding
<1> QED BY <1>1, <1>9, <1>14, <1>15, <1>16 DEF PageInv

\* A message is taken for what it is: its method is the one that is bound, its number
\* is its promise's, and its argument the page's.
LEMMA PageMessages ==
  ASSUME TextsSurvive, BridgeInv, PageQueue, Window, PageInv, Engine!OnMessage PROVE PageInv'
<1>1. external # <<>> /\ external \in Seq(PageMessage) /\ external' = Tail(external)
  BY DEF PageQueue, Engine!OnMessage
<1>2. /\ 1 \in DOMAIN external /\ Head(external) = external[1]
      /\ \A i \in DOMAIN external' : i + 1 \in DOMAIN external /\ external'[i] = external[i + 1]
      /\ \A i \in DOMAIN external :
           i # 1 => i - 1 \in DOMAIN external' /\ external'[i - 1] = external[i]
      /\ DOMAIN external \subseteq Int /\ DOMAIN external' \subseteq Nat \ {0}
  <2>1. Tail(external) \in Seq(PageMessage)
    BY <1>1
  <2>2. DOMAIN Tail(external) = 1..Len(Tail(external)) /\ Len(Tail(external)) \in Nat
    BY <2>1, LenProperties
  <2>3. /\ DOMAIN external = 1..Len(external) /\ Len(external) \in Nat
        /\ Len(Tail(external)) = Len(external) - 1 /\ Len(external) # 0
        /\ Head(external) = external[1]
        /\ \A i \in 1..Len(Tail(external)) : Tail(external)[i] = external[i + 1]
    BY <1>1
  <2> QED BY <1>1, <2>2, <2>3
<1>3. PICK c : c = external[1].call
  OBVIOUS
<1>4. c \in Calls /\ webview_pc[c] = "idle" /\ Called(c) /\ arg[c] \in Args
  BY <1>2, <1>3 DEF PageInv, Strings, InTransit
<1>5. PICK n : Under(c, n) /\ external[1].text = Engine!Message(n, arg[c])
  BY <1>2, <1>3 DEF PageInv, Strings, InTransit
<1>6. UNCHANGED <<page, nextSeq, RPC, promise, arg, reply, system, posted, ran>>
  BY DEF Engine!OnMessage, Engine!script, Engine!engine, Engine!Call, Engine!vars
<1>p. /\ \A d \in Calls : (Called(d)' <=> Called(d)) /\ (Pending(d)' <=> Pending(d))
      /\ \A d : \A k : Under(d, k)' <=> Under(d, k)
      /\ Cardinality(CalledOnes)' = Cardinality(CalledOnes)
  <2>1. CalledOnes' = CalledOnes
    BY <1>6 DEF CalledOnes, Called
  <2> QED BY <1>6, <2>1 DEF Called, Pending, Under
<1>7. Numbers'
  BY <1>6, <1>p DEF PageInv, Numbers, Pending
<1>8. Answers'
  BY <1>6 DEF PageInv, Answers, Engine!Ran, Engine!NoneGone, Engine!Settled, Single, Within
<1>9. \A i \in DOMAIN external' : external'[i].call # c
  BY <1>2, <1>3 DEF PageInv, Strings
<1>10. \A i, k \in DOMAIN external' : external'[i].call = external'[k].call => i = k
  <2> SUFFICES ASSUME NEW i \in DOMAIN external', NEW k \in DOMAIN external',
                      external'[i].call = external'[k].call
               PROVE  i = k
    OBVIOUS
  <2>1. /\ i + 1 \in DOMAIN external /\ k + 1 \in DOMAIN external
        /\ external[i + 1].call = external[k + 1].call
    BY <1>2
  <2>2. i + 1 = k + 1
    BY <2>1 DEF PageInv, Strings
  <2> QED BY <1>2, <2>2
<1>11. ASSUME \A d \in Calls : d # c => (webview_pc'[d] = "idle" <=> webview_pc[d] = "idle")
       PROVE  \A i \in DOMAIN external' : InTransit(i)'
  <2> SUFFICES ASSUME NEW i \in DOMAIN external' PROVE InTransit(i)'
    OBVIOUS
  <2>1. PICK k : k = i + 1
    OBVIOUS
  <2>2. k \in DOMAIN external /\ external'[i] = external[k] /\ InTransit(k) /\ external[k].call # c
    BY <1>2, <1>9, <2>1 DEF PageInv, Strings
  <2> QED BY <1>6, <1>11, <1>p, <2>2 DEF InTransit
<1>12. CASE Engine!Name \in bindings
  <2>1. /\ Engine!json_parse(external[1].text, <<"method">>, 0) = Engine!Name
        /\ Engine!json_parse(external[1].text, <<"id">>, 0) = <<Engine!Digits[n]>>
        /\ Engine!FirstArg(Engine!json_parse(external[1].text, <<"params">>, 0)) =
             Engine!Decoded(arg[c])
    BY <1>4, <1>5 DEF TextsSurvive, Engine!TextSurvives, Under
  <2>2. /\ id' = [id EXCEPT ![c] = <<Engine!Digits[n]>>]
        /\ request' = [request EXCEPT ![c] = Engine!Decoded(arg[c])]
        /\ Engine!Call(c)
    BY <1>2, <1>3, <1>12, <2>1 DEF Engine!OnMessage, Engine!GoString
  <2>3. /\ id'[c] = <<Engine!Digits[n]>> /\ request'[c] = Engine!Decoded(arg[c])
        /\ \A d \in Calls : d # c => id'[d] = id[d] /\ request'[d] = request[d]
        /\ Values'
    BY <1>4, <1>6, <2>2 DEF PageInv, Values
  <2>4. webview_pc'[c] = "handler" /\ \A d \in Calls : d # c => webview_pc'[d] = webview_pc[d]
    BY <1>4, <2>2, Callbacks DEF Engine!Call, Engine!Goto, BridgeInv, Engine!TypeOK
  <2>5. HandlerOf(c)'
    BY <1>5, <1>6, <1>p, <2>3, <2>4 DEF HandlerOf
  <2>6. \A d \in Calls : d # c /\ HandlerOf(d) => HandlerOf(d)'
    BY <1>6, <1>p, <2>3, <2>4 DEF HandlerOf
  <2>7. Strings'
    <3>1. \A d \in Calls : Called(d)' => arg'[d] \in Args
      BY <1>6, <1>p DEF PageInv, Strings
    <3>2. \A d \in Calls : webview_pc'[d] # "idle" => Called(d)' /\ HandlerOf(d)'
      BY <1>4, <1>p, <2>4, <2>5, <2>6 DEF PageInv, Strings
    <3>3. \A i \in DOMAIN external' : InTransit(i)'
      BY <1>11, <2>4
    <3> QED BY <1>10, <3>1, <3>2, <3>3 DEF Strings
  <2>8. Outstanding'
    <3>1. OnItsWay(c)'
      BY <1>4, <1>6, <2>4, Callbacks DEF OnItsWay, BridgeInv, Engine!SettledOnce, Engine!Ran
    <3>2. ASSUME NEW d \in Calls, d # c, OnItsWay(d) PROVE OnItsWay(d)'
      <4>1. ASSUME NEW i \in DOMAIN external, external[i].call = d
            PROVE  \E k \in DOMAIN external' : external'[k].call = d
        BY <1>2, <1>3, <3>2, <4>1
      <4> QED BY <1>6, <2>4, <3>2, <4>1 DEF OnItsWay, Engine!Ran, Within
    <3> QED BY <1>6, <1>p, <3>1, <3>2 DEF PageInv, Outstanding
  <2> QED BY <1>7, <1>8, <2>3, <2>7, <2>8 DEF PageInv
<1>13. CASE Engine!Name \notin bindings
  <2>1. Engine!json_parse(external[1].text, <<"method">>, 0) = Engine!Name
    BY <1>4, <1>5 DEF TextsSurvive, Engine!TextSurvives, Under
  <2>2. UNCHANGED <<id, request, webview_pc>>
    BY <1>2, <1>13, <2>1 DEF Engine!OnMessage, Engine!vars
  <2>3. Values'
    BY <1>6, <2>2 DEF PageInv, Values
  <2>4. Strings'
    <3>1. \A d \in Calls : HandlerOf(d) => HandlerOf(d)'
      BY <1>6, <1>p, <2>2 DEF HandlerOf
    <3>2. \A i \in DOMAIN external' : InTransit(i)'
      BY <1>11, <2>2
    <3> QED BY <1>6, <1>10, <1>p, <2>2, <3>1, <3>2 DEF PageInv, Strings
  <2>5. \A d \in Calls : ~Pending(d)
    BY <1>13 DEF PageInv, Numbers, Window
  <2>6. Outstanding'
    BY <1>p, <2>5 DEF Outstanding
  <2> QED BY <1>7, <1>8, <2>3, <2>4, <2>6 DEF PageInv
<1> QED BY <1>12, <1>13

\* A handler returns what it makes of its request.
LEMMA PageHandled ==
  ASSUME BridgeInv, PageInv, NEW c \in Calls, Engine!HandlerReturns(c) PROVE PageInv'
<1>1. /\ webview_pc[c] = "handler" /\ webview_pc' = [webview_pc EXCEPT ![c] = "lock"]
      /\ UNCHANGED <<posted, ran>>
      /\ reply' = [reply EXCEPT ![c] = Respond(request[c])]
  BY DEF Engine!HandlerReturns, Engine!Handled, Engine!Goto
<1>2. UNCHANGED <<page, nextSeq, RPC, promise, external, id, arg, request, system>>
  BY DEF Engine!HandlerReturns, Engine!script, Engine!engine
<1>3. /\ webview_pc'[c] = "lock" /\ \A d \in Calls : d # c => webview_pc'[d] = webview_pc[d]
      /\ reply'[c] = Respond(request[c]) /\ \A d \in Calls : d # c => reply'[d] = reply[d]
  BY <1>1, Callbacks DEF BridgeInv, Engine!TypeOK, PageInv, Values
<1>4. /\ \A d \in Calls : (Called(d)' <=> Called(d)) /\ (Pending(d)' <=> Pending(d))
      /\ \A d : \A k : Under(d, k)' <=> Under(d, k)
      /\ Cardinality(CalledOnes)' = Cardinality(CalledOnes)
  <2>1. CalledOnes' = CalledOnes
    BY <1>2 DEF CalledOnes, Called
  <2> QED BY <1>2, <2>1 DEF Called, Pending, Under
<1>5. Numbers'
  BY <1>2, <1>4 DEF PageInv, Numbers, Pending
<1>6. Values'
  BY <1>1, <1>2 DEF PageInv, Values
<1>7. Strings'
  <2>1. \A d \in Calls : HandlerOf(d) => HandlerOf(d)'
    BY <1>2, <1>3, <1>4 DEF HandlerOf
  <2>2. \A d \in Calls : webview_pc'[d] # "idle" => Called(d)' /\ HandlerOf(d)'
    BY <1>1, <1>3, <1>4, <2>1 DEF PageInv, Strings
  <2>3. \A i \in DOMAIN external : InTransit(i) => InTransit(i)'
    BY <1>1, <1>2, <1>3, <1>4 DEF InTransit
  <2> QED BY <1>2, <1>4, <2>2, <2>3 DEF PageInv, Strings
<1>8. Answers'
  <2>1. ~Engine!Ran(c)
    BY <1>1, Callbacks DEF BridgeInv, Engine!SettledOnce
  <2> QED BY <1>1, <1>2, <1>3, <2>1
      DEF PageInv, Answers, Engine!Ran, Engine!NoneGone, Engine!Settled, Single, Within
<1>9. Outstanding'
  <2>1. \A d \in Calls : OnItsWay(d) => OnItsWay(d)'
    BY <1>1, <1>2, <1>3 DEF OnItsWay, Engine!Ran, Within
  <2> QED BY <1>2, <1>4, <2>1 DEF PageInv, Outstanding
<1> QED BY <1>5, <1>6, <1>7, <1>8, <1>9 DEF PageInv

\* A callback of dispatchOn posts its answer, once.
LEMMA PageReturned ==
  ASSUME BridgeInv, PageInv, NEW c \in Calls, Returning(c), system' = system PROVE PageInv'
<1>1. /\ c = dispatch[Head(posted)] /\ Engine!Run(<<c>>)
      /\ UNCHANGED <<page, nextSeq, RPC, promise, external, id, arg, request, reply>>
  BY DEF Returning
<1>2. /\ posted \in Seq(Engine!Index \union Other) /\ posted # <<>>
      /\ Head(posted) \in Engine!Index /\ UNCHANGED webview_pc
      /\ c \in Engine!Index \union Other
  BY <1>1, Callbacks DEF Engine!Run, BridgeInv, Engine!TypeOK
<1>3. posted' = Append(Tail(posted), c) /\ Tail(posted) \in Seq(Engine!Index \union Other)
  BY <1>1, <1>2, QueueMore DEF Engine!Run
<1>4. ran' = [ran EXCEPT ![c] = @ + 1] /\ ran[c] = 0 /\ webview_pc[c] \in {"post", "sent"}
  BY <1>1, <1>2, Callbacks DEF Engine!Run, Engine!Invoke, BridgeInv, Filing
<1>5. /\ ran'[c] = 1 /\ \A d \in Calls : d # c => ran'[d] = ran[d]
  BY <1>4, Callbacks DEF BridgeInv, Engine!TypeOK
<1>6. \A d \in Calls : Engine!Ran(d)' <=> Engine!Ran(d) \/ d = c
  BY <1>5 DEF Engine!Ran
<1>7. ~Engine!Ran(c) /\ ~Within(posted, c)
  BY <1>4 DEF Engine!Ran, PageInv, Answers
<1>8. \A d \in Calls : Within(posted', d) <=> Within(posted, d) \/ d = c
  <2>1. \A x : Within(posted', x) <=> Within(Tail(posted), x) \/ x = c
    <3>1. Tail(posted) \in Seq(Engine!Index \union Other) /\ c \in Engine!Index \union Other
      BY <1>2, <1>3
    <3>2. \A x : Within(Append(Tail(posted), c), x) <=> Within(Tail(posted), x) \/ x = c
      BY <3>1, WithinMore
    <3> QED BY <1>3, <3>2
  <2>2. \A x : Within(posted, x) <=> x = Head(posted) \/ Within(Tail(posted), x)
    BY <1>2, WithinLess
  <2>3. \A d \in Calls : d # Head(posted)
    BY <1>2, Callbacks
  <2> QED BY <2>1, <2>2, <2>3
<1>9. Single(posted', Calls)
  <2>1. Single(Tail(posted), Calls)
    BY <1>2, WithinLess DEF PageInv, Answers
  <2>2. ~Within(Tail(posted), c)
    BY <1>2, <1>7, WithinLess
  <2> QED BY <1>2, <1>3, <2>1, <2>2, WithinMore
<1>10. Numbers' /\ Values'
  <2>1. CalledOnes' = CalledOnes
    BY <1>1 DEF CalledOnes, Called
  <2>2. Cardinality(CalledOnes)' = Cardinality(CalledOnes)
    BY <2>1
  <2>3. Numbers'
    BY <1>1, <2>2 DEF PageInv, Numbers, Pending
  <2>4. Values'
    BY <1>1 DEF PageInv, Values
  <2> QED BY <2>3, <2>4
<1>11. Strings'
  BY <1>1, <1>2 DEF PageInv, Strings, HandlerOf, InTransit, Called, Under, Pending
<1>12. Answers'
  BY <1>1, <1>6, <1>7, <1>8, <1>9 DEF PageInv, Answers, Engine!NoneGone, Engine!Settled
<1>13. Outstanding'
  <2>1. \A d \in Calls : OnItsWay(d) => OnItsWay(d)'
    BY <1>1, <1>2, <1>6, <1>8 DEF OnItsWay
  <2> QED BY <1>1, <2>1 DEF PageInv, Outstanding, Pending
<1> QED BY <1>10, <1>11, <1>12, <1>13 DEF PageInv

\* An answer settles the promise that is kept under its number, with the string of its
\* own handler; if the number is the promise's, that is the call's own.
LEMMA PageResolved ==
  ASSUME TextsSurvive, BridgeInv, Window, PageInv, Engine!RunResolve, system' = system
  PROVE  PageInv'
<1>1. /\ posted \in Seq(Engine!Index \union Other) /\ posted # <<>> /\ Head(posted) \in Calls
      /\ posted' = Tail(posted)
      /\ UNCHANGED <<webview_pc, ran, page, nextSeq, external, id, arg, request, reply>>
  <2>1. posted \in Seq(Engine!Index \union Other)
    BY DEF BridgeInv, Engine!TypeOK
  <2>2. Engine!RunOther(<<>>) /\ Head(posted) \in Calls
        /\ UNCHANGED <<page, nextSeq, external, id, arg, request, reply>>
    BY DEF Engine!RunResolve, Engine!values
  <2> QED BY <2>1, <2>2, QueueMore DEF Engine!RunOther
<1>2. PICK c \in Calls : c = Head(posted)
  BY <1>1
<1>3. /\ \A d \in Calls : Within(posted', d) => Within(posted, d)
      /\ \A d \in Calls : d # c => (Within(posted', d) <=> Within(posted, d))
      /\ Within(posted, c) /\ ~Within(posted', c) /\ Single(posted', Calls)
  <2>1. \A x : Within(posted, x) <=> x = Head(posted) \/ Within(posted', x)
    BY <1>1, WithinLess
  <2>2. Single(posted', Calls) /\ ~Within(posted', c)
    BY <1>1, <1>2, WithinLess DEF PageInv, Answers
  <2> QED BY <1>2, <2>1, <2>2
<1>4. Engine!Ran(c) /\ webview_pc[c] # "idle" /\ webview_pc[c] # "handler" /\ Called(c)
  <2>1. Engine!Ran(c)
    BY <1>3 DEF PageInv, Answers
  <2>2. webview_pc[c] \in {"post", "sent"}
    BY <2>1, Callbacks DEF BridgeInv, Engine!SettledOnce
  <2> QED BY <2>1, <2>2 DEF PageInv, Strings
<1>5. PICK n : Under(c, n) /\ id[c] = <<Engine!Digits[n]>>
  BY <1>4 DEF PageInv, Strings, HandlerOf
<1>6. n \in Engine!Seqs /\ Engine!SeqOf(c) = n
  <2>1. n \in 1..4 /\ Engine!Seqs = 1..4
    BY <1>5, CallsAreFinite DEF Under
  <2>2. \A k \in 1..4 : Engine!Digits[k] = Engine!Digits[n] => k = n
    BY <2>1 DEF Engine!Digits
  <2>3. \A k \in Engine!Seqs : <<Engine!Digits[k]>> = id[c] <=> k = n
    BY <1>5, <2>1, <2>2
  <2>4. Engine!SeqOf(c) = CHOOSE k \in Engine!Seqs : <<Engine!Digits[k]>> = id[c]
    BY DEF Engine!SeqOf
  <2> QED BY <2>1, <2>3, <2>4
<1>7. Engine!Result(reply[c]) = reply[c] /\ reply[c] # Engine!Malformed
  <2>1. reply[c] = Respond(Engine!Decoded(arg[c])) /\ arg[c] \in Args
    BY <1>4 DEF PageInv, Strings, HandlerOf
  <2> QED BY <1>6, <2>1 DEF TextsSurvive, Engine!TextSurvives
<1>8. Engine!eval_impl(Engine!Settle(n, reply[c]), UNCHANGED <<RPC, promise>>)
  BY <1>2, <1>6, <1>7 DEF Engine!RunResolve
<1>v. Values'
  BY <1>1 DEF PageInv, Values
<1>9. CASE UNCHANGED <<RPC, promise>> /\ (Pending(c) => system.links = {})
  <2>1. CalledOnes' = CalledOnes
    BY <1>9 DEF CalledOnes, Called
  <2>2. Cardinality(CalledOnes)' = Cardinality(CalledOnes)
    BY <2>1
  <2>3. Numbers'
    BY <1>1, <1>9, <2>2 DEF PageInv, Numbers, Pending
  <2>4. Strings'
    BY <1>1, <1>9 DEF PageInv, Strings, HandlerOf, InTransit, Called, Under, Pending
  <2>5. Answers'
    BY <1>1, <1>3, <1>9 DEF PageInv, Answers, Engine!Ran, Engine!NoneGone, Engine!Settled
  <2>6. Outstanding'
    <3>1. \A d \in Calls : d # c /\ OnItsWay(d) => OnItsWay(d)'
      BY <1>1, <1>3 DEF OnItsWay, Engine!Ran
    <3> QED BY <1>9, <3>1 DEF PageInv, Outstanding, Pending
  <2> QED BY <1>v, <2>3, <2>4, <2>5, <2>6 DEF PageInv
<1>10. ASSUME NEW d \in Calls, RPC[n] = d,
              RPC' = [RPC EXCEPT ![n] = NoJob],
              promise' = [promise EXCEPT ![d] = [status |-> "resolved", value |-> reply[c]]]
       PROVE  PageInv'
  <2>1. Pending(d) /\ (Pending(c) => d = c)
    BY <1>5, <1>6, <1>10, CallsAreFinite DEF PageInv, Numbers, Under
  <2>2. /\ RPC'[n] = NoJob /\ \A k \in Engine!Seqs : k # n => RPC'[k] = RPC[k] /\ RPC[k] # d
        /\ RPC' \in [Engine!Seqs -> Calls \union {NoJob}]
    BY <1>6, <1>10, CallsAreFinite DEF PageInv, Numbers
  <2>3. /\ promise'[d] = [status |-> "resolved", value |-> reply[c]]
        /\ \A e \in Calls : e # d => promise'[e] = promise[e]
        /\ promise' = [e \in Calls |-> promise'[e]]
    BY <1>10 DEF PageInv, Numbers
  <2>4. /\ promise'[d].status = "resolved"
        /\ \A e \in Calls :
             promise'[e].status \in {"none", "pending", "gone", "resolved", "rejected"}
    BY <2>3 DEF PageInv, Numbers
  <2>5. /\ \A e \in Calls : Pending(e)' <=> Pending(e) /\ e # d
        /\ \A e \in Calls : Called(e)' <=> Called(e)
    BY <2>1, <2>3, <2>4 DEF Pending, Called
  <2>6. \A e \in Calls : \A k : Under(e, k) => Under(e, k)'
    <3> SUFFICES ASSUME NEW e \in Calls, NEW k \in Engine!Seqs, RPC[k] = e, e # d
                 PROVE  RPC'[k] = e
      BY <2>5 DEF Under
    <3> QED BY <1>10, <2>2
  <2>7. Numbers'
    <3>1. CalledOnes' = CalledOnes
      BY <2>5 DEF CalledOnes
    <3>2. Cardinality(CalledOnes)' = Cardinality(CalledOnes)
      BY <3>1
    <3>3. \A k \in Engine!Seqs :
            RPC'[k] # NoJob => k < nextSeq' /\ promise'[RPC'[k]].status = "pending"
      <4> SUFFICES ASSUME NEW k \in Engine!Seqs, RPC'[k] # NoJob
                   PROVE  k < nextSeq' /\ promise'[RPC'[k]].status = "pending"
        OBVIOUS
      <4>1. k # n /\ RPC'[k] = RPC[k] /\ RPC[k] # d /\ RPC[k] \in Calls
        BY <2>2 DEF PageInv, Numbers
      <4>2. k < nextSeq /\ promise[RPC[k]].status = "pending"
        BY <4>1 DEF PageInv, Numbers, Pending
      <4> QED BY <1>1, <2>3, <4>1, <4>2
    <3>4. \A k, l \in Engine!Seqs : RPC'[k] = RPC'[l] /\ RPC'[k] # NoJob => k = l
      BY <2>2 DEF PageInv, Numbers
    <3>5. \A e \in Calls : Pending(e)' => page' = "ui" /\ \E k \in Engine!Seqs : RPC'[k] = e
      <4> SUFFICES ASSUME NEW e \in Calls, Pending(e), e # d
                   PROVE  page' = "ui" /\ \E k \in Engine!Seqs : RPC'[k] = e
        BY <2>5
      <4>1. PICK k \in Engine!Seqs : RPC[k] = e
        BY DEF PageInv, Numbers
      <4>2. RPC'[k] = e
        BY <1>10, <2>2, <4>1
      <4> QED BY <1>1, <4>2 DEF PageInv, Numbers
    <3> QED BY <1>1, <2>2, <2>3, <2>4, <3>2, <3>3, <3>4, <3>5 DEF PageInv, Numbers, Pending
  <2>8. Strings'
    <3>1. \A e \in Calls : HandlerOf(e) => HandlerOf(e)'
      BY <1>1, <2>6 DEF HandlerOf
    <3>2. \A i \in DOMAIN external : InTransit(i) => InTransit(i)'
      BY <1>1, <2>5, <2>6 DEF InTransit
    <3> QED BY <1>1, <2>5, <3>1, <3>2 DEF PageInv, Strings
  <2>9. Answers'
    <3>1. Engine!NoneGone' => Engine!NoneGone
      BY <2>1, <2>3 DEF Engine!NoneGone, Pending
    <3>2. \A e \in Calls : Within(posted', e) => Engine!Ran(e)'
      BY <1>1, <1>3 DEF PageInv, Answers, Engine!Ran
    <3>3. ASSUME Engine!NoneGone', NEW e \in Calls, Engine!Settled(e)'
          PROVE  /\ Engine!Ran(e)' /\ ~Within(posted', e)
                 /\ promise'[e] = [status |-> "resolved", value |-> reply'[e]]
      <4>1. Engine!NoneGone /\ ~Engine!Settled(c)
        BY <1>3, <3>1, <3>3 DEF PageInv, Answers
      <4>2. Pending(c)
        BY <1>4, <4>1
        DEF PageInv, Numbers, Engine!NoneGone, Engine!Settled, Pending, Called
      <4>3. d = c
        BY <2>1, <4>2
      <4>4. CASE e = c
        BY <1>1, <1>3, <1>4, <2>3, <4>3, <4>4 DEF Engine!Ran
      <4>5. CASE e # c
        <5>1. promise'[e] = promise[e] /\ Engine!Settled(e)
          BY <2>3, <3>3, <4>3, <4>5 DEF Engine!Settled
        <5>2. /\ Engine!Ran(e) /\ ~Within(posted, e)
              /\ promise[e] = [status |-> "resolved", value |-> reply[e]]
          BY <4>1, <5>1 DEF PageInv, Answers
        <5> QED BY <1>1, <1>3, <5>1, <5>2 DEF Engine!Ran
      <4> QED BY <4>4, <4>5
    <3> QED BY <1>3, <3>2, <3>3 DEF Answers
  <2>10. Outstanding'
    <3>1. \A e \in Calls : e # c /\ OnItsWay(e) => OnItsWay(e)'
      BY <1>1, <1>3 DEF OnItsWay, Engine!Ran
    <3>2. ~Pending(c)'
      BY <2>1, <2>5
    <3> QED BY <2>5, <3>1, <3>2 DEF PageInv, Outstanding
  <2> QED BY <1>v, <2>7, <2>8, <2>9, <2>10 DEF PageInv
<1>11. \/ UNCHANGED <<RPC, promise>> /\ (Pending(c) => system.links = {})
       \/ \E d \in Calls :
            /\ RPC[n] = d /\ RPC' = [RPC EXCEPT ![n] = NoJob]
            /\ promise' = [promise EXCEPT ![d] = [status |-> "resolved", value |-> reply[c]]]
  <2>1. Pending(c) /\ system.links # {} =>
          /\ Engine!get(Engine!get_webkit_library, Engine!eval_symbol, Engine!webkit_symbols)
          /\ m_webview
    <3>1. Pending(c) => m_webview
      BY DEF PageInv, Numbers, Window
    <3>2. system.links # {} =>
            Engine!get(Engine!get_webkit_library, Engine!eval_symbol, Engine!webkit_symbols)
      BY Library DEF Window, Engine!get
    <3> QED BY <3>1, <3>2
  <2>2. CASE Engine!Settle(n, reply[c])
    <3>1. CASE RPC[n] = NoJob
      <4>1. ~Pending(c)
        BY <1>5, <3>1, CallsAreFinite DEF Under
      <4>2. UNCHANGED <<RPC, promise>>
        BY <2>2, <3>1 DEF Engine!Settle
      <4> QED BY <4>1, <4>2
    <3>2. CASE RPC[n] # NoJob
      <4>1. RPC[n] \in Calls
        BY <1>6, <3>2 DEF PageInv, Numbers
      <4>2. /\ RPC' = [RPC EXCEPT ![n] = NoJob]
            /\ promise' = [promise EXCEPT ![RPC[n]] = [status |-> "resolved", value |-> reply[c]]]
        BY <1>7, <2>2, <3>2 DEF Engine!Settle, Engine!TakeOut
      <4> QED BY <4>1, <4>2
    <3> QED BY <3>1, <3>2
  <2>3. CASE ~Engine!Settle(n, reply[c])
    <3>1. /\ UNCHANGED <<RPC, promise>>
          /\ ~(/\ Engine!get(Engine!get_webkit_library, Engine!eval_symbol, Engine!webkit_symbols)
               /\ m_webview)
      BY <1>8, <2>3 DEF Engine!eval_impl
    <3> QED BY <2>1, <3>1
  <2> QED BY <2>2, <2>3
<1> QED BY <1>9, <1>10, <1>11

\* All that the page's answers rest on.
CallInv == WebviewInv /\ Window /\ PageInv

LEMMA CallInit == Engine!EngineInit => CallInv
  BY WebviewInit, WindowInit, PageInit DEF CallInv

LEMMA CallStep ==
  ASSUME TextsSurvive, CallInv, [Engine!EngineNext]_webview PROVE CallInv'
<1>1. BridgeInv /\ PageQueue /\ Window /\ PageInv
  BY DEF CallInv, WebviewInv
<1>2. WebviewInv'
  BY WebviewStepInv DEF CallInv
<1>3. Window' /\ system' = system
  BY <1>1, WindowStep
<1>4. \/ Elsewhere \/ Leaving \/ Engine!OnMessage \/ Engine!RunResolve
      \/ \E c \in Calls : Engine!PageCall(c) \/ Engine!HandlerReturns(c) \/ Returning(c)
  BY <1>1, PageKinds
<1>5. CASE Elsewhere
  BY <1>1, <1>2, <1>3, <1>5, PageElsewhere DEF CallInv
<1>6. CASE Leaving
  BY <1>1, <1>2, <1>3, <1>6, PageLeaving DEF CallInv
<1>7. CASE Engine!OnMessage
  BY <1>1, <1>2, <1>3, <1>7, PageMessages DEF CallInv
<1>8. CASE Engine!RunResolve
  BY <1>1, <1>2, <1>3, <1>8, PageResolved DEF CallInv
<1>9. ASSUME NEW c \in Calls, Engine!PageCall(c) PROVE CallInv'
  BY <1>1, <1>2, <1>3, <1>9, PageCalled DEF CallInv
<1>10. ASSUME NEW c \in Calls, Engine!HandlerReturns(c) PROVE CallInv'
  BY <1>1, <1>2, <1>3, <1>10, PageHandled DEF CallInv
<1>11. ASSUME NEW c \in Calls, Returning(c) PROVE CallInv'
  BY <1>1, <1>2, <1>3, <1>11, PageReturned DEF CallInv
<1> QED BY <1>4, <1>5, <1>6, <1>7, <1>8, <1>9, <1>10, <1>11

LEMMA CallInvariance ==
  ASSUME TextsSurvive PROVE StartupSpec => []CallInv
<1>1. StartupInit => CallInv
  BY CallInit DEF StartupInit
<1>2. CallInv /\ [StartupNext]_allVars => CallInv'
  BY StepsWebview, CallStep
<1> QED BY <1>1, <1>2, PTL DEF StartupSpec

\* If the texts keep the strings, then while no page is left with a call out, a promise
\* that is settled has been by its own handler's answer, however the goroutines mix
\* their indices up (webview.h:935-1001, webview.go:139-187).
THEOREM AnswersAreOwn ==
  ASSUME TextsSurvive PROVE StartupSpec => []OwnAnswer
<1>1. CallInv => OwnAnswer
  BY DEF CallInv, PageInv, Answers, OwnAnswer, Engine!OwnAnswer
<1> QED BY <1>1, CallInvariance, PTL

\* If the texts keep the strings, every handler gets what its page called with
\* (webview.h:1003-1023).
THEOREM RequestsAreIntact ==
  ASSUME TextsSurvive PROVE StartupSpec => []RequestIntact
<1>1. CallInv => RequestIntact
  BY DEF CallInv, PageInv, Strings, HandlerOf, RequestIntact, Engine!RequestIntact
<1> QED BY <1>1, CallInvariance, PTL

\* When nothing is posted and no goroutine is in dispatchOn, what was filed has run.
LEMMA NothingFiled ==
  ASSUME BridgeInv, posted = <<>>, Engine!Alive,
         \A j \in Engine!Jobs : webview_pc[j] \in {"idle", "sent"}
  PROVE  \A j \in Engine!Jobs : webview_pc[j] = "sent" => Engine!Ran(j)
<1>1. Posting = {} /\ Spots(posted, Engine!Index) = {}
  BY DEF Posting, Spots
<1>2. Cardinality(Filed) = 0
  <2>1. Cardinality({}) = 0
    BY FS_EmptySet
  <2>2. Cardinality(Filed) = Cardinality(Spots(posted, Engine!Index)) + Cardinality(Posting)
    BY DEF BridgeInv, AsManyPosted
  <2> QED BY <1>1, <2>1, <2>2
<1>3. Filed = {}
  BY <1>2, FiledFinite, FS_EmptySet
<1>4. \A i \in Engine!Index : dispatch[i] = NoJob
  BY <1>3 DEF Filed
<1> QED BY <1>4, Callbacks DEF BridgeInv, FiledUntilRun

\* If the texts keep the strings, no promise is left open when there is nothing left to
\* do, wherever WebKit is to be had (webview.h:812-844, 935-1001, webview.go:139-187).
THEOREM CallsAreAnswered ==
  ASSUME TextsSurvive PROVE StartupSpec => []Answered
<1>1. CallInv => Answered
  <2> SUFFICES ASSUME CallInv, Engine!Idle, Engine!Alive, system.links # {},
                      NEW c \in Calls, Pending(c)
               PROVE  FALSE
    BY DEF Answered, Engine!Answered, Pending
  <2>1. OnItsWay(c)
    BY DEF CallInv, PageInv, Outstanding
  <2>2. /\ posted = <<>> /\ external = <<>>
        /\ \A j \in Engine!Jobs : webview_pc[j] \in {"idle", "sent"}
    BY DEF Engine!Idle
  <2>3. webview_pc[c] = "sent"
    BY <2>1, <2>2, Callbacks DEF OnItsWay
  <2>4. Engine!Ran(c)
    BY <2>2, <2>3, NothingFiled, Callbacks DEF CallInv, WebviewInv
  <2> QED BY <2>1, <2>2, <2>4 DEF OnItsWay, Within
<1> QED BY <1>1, CallInvariance, PTL

\* Where main is, and how it has ended.
MainPlace ==
  /\ \E s \in Starts : s.focus = focus /\ s.devMode = devMode
  /\ step \in {"flags", "connect", "native", "metal", "window", "scale", "serve", "webview",
               "exited"}
  /\ status \in {"none", "done", "gave up", "crashed"}
  /\ step = "exited" <=> status # "none"
  /\ haveCompositor \in BOOLEAN

LEMMA MainPlaceInit == StartupInit => MainPlace
<1> SUFFICES ASSUME StartupInit PROVE MainPlace
  OBVIOUS
<1>1. PICK s \in Starts : /\ focus = s.focus /\ devMode = s.devMode
                          /\ haveCompositor = s.haveCompositor
  BY DEF StartupInit
<1>2. haveCompositor \in BOOLEAN
  BY <1>1, StartsAssumption DEF Start
<1> QED BY <1>1, <1>2 DEF StartupInit, MainPlace

LEMMA MainPlaceStep == MainPlace /\ [StartupNext]_allVars => MainPlace'
<1> SUFFICES ASSUME MainPlace, [StartupNext]_allVars PROVE MainPlace'
  OBVIOUS
<1> DEFINE places == {"flags", "connect", "native", "metal", "window", "scale", "serve",
                      "webview"}
<1>1. ASSUME NEW from \in places, NEW to \in places, On(from, to) PROVE MainPlace'
  <2>1. /\ step = from /\ step' = to /\ UNCHANGED <<focus, devMode, status, haveCompositor>>
    BY <1>1 DEF On, Go, env
  <2> QED BY <2>1 DEF MainPlace
<1>2. ASSUME NEW from, NEW how \in {"done", "gave up", "crashed"}, Exit(from, how)
      PROVE  MainPlace'
  <2>1. /\ step' = "exited" /\ status' = how /\ UNCHANGED <<focus, devMode, haveCompositor>>
    BY <1>2 DEF Exit, Go, env
  <2> QED BY <2>1 DEF MainPlace
<1>3. ASSUME NEW from \in places, relaunchUnderCage(from) PROVE MainPlace'
  <2>1. CASE Exec(from)
    <3>1. /\ step = from /\ step' = "flags" /\ UNCHANGED <<focus, devMode, status>>
          /\ haveCompositor' \in BOOLEAN
      BY <2>1 DEF Exec, Go, env
    <3> QED BY <3>1 DEF MainPlace
  <2> QED BY <1>2, <1>3, <2>1 DEF relaunchUnderCage
<1>4. ASSUME NEW from \in places, Fallback(from) PROVE MainPlace'
  <2>1. CASE NoDisplay
    BY <1>3, <1>4, <2>1 DEF Fallback
  <2>2. CASE ~NoDisplay
    <3>1. /\ step = from /\ step' = "scale"
          /\ UNCHANGED <<focus, devMode, status, haveCompositor>>
      BY <1>4, <2>2 DEF Fallback, Go, env
    <3> QED BY <3>1 DEF MainPlace
  <2> QED BY <2>1, <2>2
<1>5. CASE Flags
  BY <1>1, <1>3, <1>5 DEF Flags
<1>6. CASE connectGreetd
  <2>1. CASE On("connect", "native") \/ On("connect", "scale")
    BY <1>1, <2>1
  <2>2. CASE Exit("connect", "gave up")
    BY <1>2, <2>2
  <2> QED BY <1>6, <2>1, <2>2 DEF connectGreetd
<1>7. CASE runNative
  <2>1. CASE On("native", "window") \/ On("native", "metal")
    BY <1>1, <2>1
  <2>2. CASE Fallback("native")
    BY <1>4, <2>2
  <2> QED BY <1>7, <2>1, <2>2 DEF runNative
<1>8. CASE gtkwinRun
  BY <1>2, <1>4, <1>8 DEF gtkwinRun
<1>9. CASE metalRun
  BY <1>2, <1>4, <1>9 DEF metalRun
<1>10. CASE MetalReturns
  BY <1>2, <1>4, <1>10 DEF MetalReturns
<1>11. CASE Scaled \/ Serve
  BY <1>1, <1>2, <1>11 DEF Scaled, Serve
<1>12. CASE WebviewEnds
  BY <1>2, <1>12 DEF WebviewEnds
<1>13. CASE MetalStep \/ ScaleStep \/ WebviewStep \/ UNCHANGED allVars
  <2>1. UNCHANGED <<focus, devMode, step, status, haveCompositor>>
    BY <1>13 DEF MetalStep, ScaleStep, WebviewStep, allVars, env, stage
  <2> QED BY <2>1 DEF MainPlace
<1> QED
  BY <1>5, <1>6, <1>7, <1>8, <1>9, <1>10, <1>11, <1>12, <1>13 DEF StartupNext

\* The types of the webview.
LEMMA WebviewTypes == CallInv => Engine!EngineTypeOK
<1> SUFFICES ASSUME CallInv PROVE Engine!EngineTypeOK
  OBVIOUS
<1>1. Engine!TypeOK /\ Window /\ Numbers
  BY DEF CallInv, WebviewInv, BridgeInv, PageInv
<1>2. nextSeq \in 1..(Len(Engine!Digits) + 1)
  <2>1. CalledOnes \in SUBSET Calls
    BY DEF CalledOnes
  <2>2. Cardinality(CalledOnes) <= Cardinality(Calls)
    BY <2>1, CallsAreFinite, FS_Subset
  <2>3. nextSeq \in 1..5
    BY <1>1, <2>2, CallsAreFinite DEF Numbers
  <2>4. Len(Engine!Digits) = 4
    BY DEF Engine!Digits
  <2> QED BY <2>3, <2>4
<1>3. \A c \in Calls : promise[c].status = "pending" <=> \E n \in Engine!Seqs : RPC[n] = c
  BY <1>1, CallsAreFinite DEF Numbers, Pending
<1> QED BY <1>1, <1>2, <1>3 DEF Engine!EngineTypeOK, Window, Numbers

\* Types of main and of all its parts (main.go:30-167).
THEOREM StartupTypeCorrect ==
  ASSUME TextsSurvive PROVE StartupSpec => []StartupTypeOK
<1>1. StartupSpec => []StartupInv
  BY StartupInitInv, StartupNextInv, PTL DEF StartupSpec
<1>2. StartupSpec => []MainPlace
  BY MainPlaceInit, MainPlaceStep, PTL DEF StartupSpec
<1>3. StartupInv /\ MainPlace /\ TypeOK /\ VtTypeOK /\ Engine!EngineTypeOK => StartupTypeOK
  <2>1. StartupInv => /\ stage2 \in BOOLEAN /\ theme \in {"native", "web"}
                      /\ stage2 <=> relaunches > 0
    BY DEF StartupInv, MainInv
  <2> QED BY <2>1 DEF MainPlace, StartupTypeOK
<1> QED
  BY <1>1, <1>2, <1>3, ScalingIsSound, ConsoleSwitches, CallInvariance, WebviewTypes, PTL
=============================================================================
