------------------------------- MODULE Startup -------------------------------
(***************************************************************************)
(* cmd/greetdeez/main.go: main, from its flags to the display it comes up  *)
(* on, and on it the native theme of the bare console (VtSwitch), the      *)
(* scaling of the outputs (OutputScale), and the webview (Engine).  A web  *)
(* theme needs a compositor: without one, main executes cage, which starts *)
(* the greeter again.  A native theme that fails falls back to a web       *)
(* theme.                                                                  *)
(*                                                                         *)
(* Each part is long, and they run one after the other.  So a behaviour    *)
(* follows one of them step by step, its "focus", and ends with it; the    *)
(* others are one step of main with every outcome that they have.  With    *)
(* the focus on "main" all of them are.                                    *)
(*                                                                         *)
(* A theme stands for all that decides between a native screen and a web   *)
(* view.  Cage, greetd and the window of gtkwin are external; a part that  *)
(* goes on for ever is a greeter that waits for its user.                  *)
(***************************************************************************)
EXTENDS OutputScale, VtSwitch

CONSTANTS Calls, Navigate, NoJob, MaxIndex, Other, Quit, Depleted, Args,
          Respond(_), Systems, MaxReloads  \* see WebviewBridge and WebviewEngine

CONSTANT Starts  \* the starts to be followed, see Start

\* main
VARIABLES
  focus,           \* the part that is followed
  step,            \* where main is
  status,          \* how it has ended
  theme,           \* of the config, until main falls back
  devMode,         \* its flag
  haveCompositor,  \* WAYLAND_DISPLAY or DISPLAY is set
  stage2,          \* GREETDEEZ_STAGE2 is
  relaunches       \* times that cage was executed

\* the webview's
VARIABLES
  m, index, dispatch, posted, webview_pc, ran, panicked,
  main, sig, m_window, m_webview, window_ref_count, bindings, scripts, system, dmabuf,
  loaded_lib, reloads, page, nextSeq, RPC, promise, external, id, arg, request, reply,
  late, touched

Engine == INSTANCE WebviewEngine WITH pc <- webview_pc

webview ==
  <<m, index, dispatch, posted, webview_pc, ran, panicked,
    main, sig, m_window, m_webview, window_ref_count, bindings, scripts, system, dmabuf,
    loaded_lib, reloads, page, nextSeq, RPC, promise, external, id, arg, request, reply,
    late, touched>>
env     == <<focus, devMode>>
stage   == <<step, status, theme, haveCompositor, stage2, relaunches>>
allVars == <<env, stage, vtVars, vars, webview>>

Start == [focus: {"main", "metal", "scale", "webview"}, theme: {"native", "web"},
          devMode: BOOLEAN, haveCompositor: BOOLEAN]

ASSUME StartsAssumption == Starts \subseteq Start

ASSUME CallbacksAssumption ==
  /\ NoJob \notin Calls \union {Navigate} /\ Navigate \notin Calls
  /\ Other = Calls \union {Quit, Depleted} /\ Quit # Depleted
  /\ {Quit, Depleted} \intersect Calls = {} /\ Other \intersect (0..MaxIndex) = {}

\* Digits are given for so many calls; no other library's name is looked for.
ASSUME EngineAssumption ==
  /\ MaxIndex \in Nat /\ IsFiniteSet(Calls) /\ Cardinality(Calls) <= 4
  /\ \A s \in Systems : s.links \subseteq {"libwebkit2gtk-4.1.so", "libwebkit2gtk-4.0.so"}

StartupTypeOK ==
  /\ \E s \in Starts : s.focus = focus /\ s.devMode = devMode
  /\ step \in {"flags", "connect", "native", "metal", "window", "scale", "serve", "webview",
               "exited"}
  /\ status \in {"none", "done", "gave up", "crashed"}
  /\ step = "exited" <=> status # "none"
  /\ theme \in {"native", "web"} /\ haveCompositor \in BOOLEAN /\ stage2 \in BOOLEAN
  /\ stage2 <=> relaunches > 0
  /\ TypeOK /\ VtTypeOK /\ Engine!EngineTypeOK

\* What a part starts from is settled where it is not followed.
StartupInit ==
  /\ \E s \in Starts :
       /\ focus = s.focus /\ theme = s.theme
       /\ devMode = s.devMode /\ haveCompositor = s.haveCompositor
  /\ step = "flags" /\ status = "none" /\ stage2 = FALSE /\ relaunches = 0
  /\ VtInit
  /\ focus = "metal" \/ master = "nobody"
  /\ Init
  /\ focus = "scale" \/
       /\ scale = CHOOSE s \in Scales : TRUE
       /\ offered = CHOOSE v \in Versions : TRUE
       /\ plugged = {} /\ output = [h \in Heads |-> Screen(h, FALSE, NoMode)]
  /\ Engine!EngineInit
  /\ focus = "webview" \/ system = CHOOSE s \in Systems : TRUE

-----------------------------------------------------------------------------
\* Operators named Faulty... are variants of the definition that follows them,
\* each with one plausible bug; no specification uses them.

Go(from, to) ==
  /\ step = from
  /\ step' = to
  /\ UNCHANGED <<env, vtVars, vars, webview>>

On(from, to) == Go(from, to) /\ UNCHANGED <<status, theme, haveCompositor, stage2, relaunches>>

Exit(from, how) ==
  /\ Go(from, "exited")
  /\ status' = how
  /\ UNCHANGED <<theme, haveCompositor, stage2, relaunches>>

NoDisplay == ~devMode /\ ~haveCompositor

\* The mark is not left in the environment.
FaultyEnviron == UNCHANGED stage2

Environ == stage2' = TRUE

\* In the place of the greeter there is cage, and a new greeter under it, which
\* should find a compositor.  What comes after is followed with the focus on main.
Exec(from) ==
  /\ ~stage2
  /\ focus = "main"
  /\ Go(from, "flags")
  /\ Environ
  /\ relaunches' = relaunches + 1
  /\ haveCompositor' \in BOOLEAN
  /\ theme' \in {s.theme : s \in {t \in Starts : t.focus = "main"}}
  /\ UNCHANGED status

\* Cage may not be installed.
relaunchUnderCage(from) == Exec(from) \/ Exit(from, "gave up")

needsWebview == theme = "web"

Flags ==
  IF needsWebview /\ NoDisplay THEN relaunchUnderCage("flags") ELSE On("flags", "connect")

connectGreetd ==
  \/ On("connect", IF theme = "native" THEN "native" ELSE "scale")
  \/ ~devMode /\ Exit("connect", "gave up")

-----------------------------------------------------------------------------
\* A native theme has failed.
Fallback(from) ==
  IF NoDisplay
  THEN relaunchUnderCage(from)
  ELSE /\ Go(from, "scale")
       /\ theme' = "web"
       /\ UNCHANGED <<status, haveCompositor, stage2, relaunches>>

\* runNative: the socket, and runMetal
runNative ==
  \/ On("native", IF haveCompositor THEN "window" ELSE "metal")
  \/ step = "native" /\ Fallback("native")

gtkwinRun == Exit("window", "done") \/ (step = "window" /\ Fallback("window"))

metalRun ==
  /\ step = "metal" /\ focus # "metal"
  /\ Exit("metal", "done") \/ Exit("metal", "crashed") \/ Fallback("metal")

\* metal.Run as VtSwitch has it.  Where it is killed, that is the end.
MetalStep ==
  /\ step = "metal" /\ focus = "metal"
  /\ VtNext
  /\ UNCHANGED <<env, stage, vars, webview>>

MetalReturns ==
  /\ step = "metal" /\ focus = "metal"
  /\ \/ at = "returned" /\ outcome = "done" /\ Exit("metal", "done")
     \/ at = "returned" /\ outcome = "failed" /\ Fallback("metal")

-----------------------------------------------------------------------------
\* ConfigureOutputScale, whose result is only logged; without the focus on it,
\* also for its being left out
ScaleStep ==
  /\ step = "scale" /\ focus = "scale"
  /\ Next
  /\ UNCHANGED <<env, stage, vtVars, webview>>

Scaled ==
  /\ focus # "scale"
  /\ On("scale", "serve")

\* resolveUIFS, serveUI
Serve == On("serve", "webview") \/ Exit("serve", "gave up")

\* New, Bind and Run, and what is deferred
WebviewStep ==
  /\ step = "webview" /\ focus = "webview"
  /\ Engine!EngineNext
  /\ UNCHANGED <<env, stage, vtVars, vars>>

WebviewEnds ==
  /\ focus # "webview"
  /\ Exit("webview", "done") \/ Exit("webview", "crashed")

StartupNext ==
  \/ Flags \/ connectGreetd \/ runNative \/ gtkwinRun \/ metalRun \/ MetalReturns
  \/ Scaled \/ Serve \/ WebviewEnds
  \/ MetalStep \/ ScaleStep \/ WebviewStep

StartupSpec == StartupInit /\ [][StartupNext]_allVars

-----------------------------------------------------------------------------
\* A start comes to one display, or to an end.  Cage is executed once at most,
\* also when it brings no compositor up; a webview is never made without one;
\* and when main goes on from the console, to cage or to the end of a process
\* that has not been killed, the console is as it was found.
OneDisplay ==
  /\ relaunches <= 1
  /\ step \in {"window", "scale", "serve", "webview"} => ~NoDisplay
  /\ step # "metal" /\ status # "crashed" =>
       /\ vtmode = "auto" /\ kdmode = "text" /\ kbmode = "old"
       /\ master # "ours"

\* The promises of the webview, where it is started by main: see WebviewEngine.
\* A promise is settled with what its own handler returned.
OwnAnswer == Engine!OwnAnswer

\* A handler gets the string that the page called with.
RequestIntact == Engine!RequestIntact

\* No string of a call is changed by the texts that it travels in.
TextsSurvive == \A a \in Args : Engine!TextSurvives(a)

\* Only goroutines that were under way when the main loop ended can touch the
\* deleted webview.
OnlyLateTouch == Engine!OnlyLateTouch

\* No promise is left open when there is nothing left to do for the page.
Answered == Engine!Answered

\* A signal ends the greeter, whenever it comes.
SignalObeyed == Engine!SignalObeyed
=============================================================================
