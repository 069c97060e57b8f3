# Verification of GreetDeez

GreetDeez is a login screen for [greetd](https://sr.ht/~kennylevinsen/greetd/). This directory
holds TLA+ models of the parts of it that are concurrent, can fail half way or depend on the
order of messages, the TLC configurations that check them on small instances, and theorems about
them that TLAPS proves for every value of the constants. Paths below are relative to `src/`.

    tlc -config MCGreeterServer.cfg MCGreeterServer.tla     check a run (PROJECT.json lists them)
    tlapm GreeterServer_proofs.tla                          check the proofs of a module

## 1. Inventory

| Component | State | Operations | Interacts with | What makes it correct |
|---|---|---|---|---|
| greetd client `internal/greetd/client.go` | one socket, a timeout | `roundTrip` behind `CreateSession`, `PostAuthResponse`, `StartSession`, `CancelSession`; the loop `Authenticate` | greetd, by requests and replies without ids | each reply is read by whoever asked for it |
| greeter server `internal/server/server.go` | the mutex, the client | `Login`, `Authenticate`, `BeginAuth`, `RespondAuth`, `CancelAuth`, `StartSession`; queries; `SaveState`; `ExecutePowerAction` | client, state store, front ends | what a handler reports is what greetd did to the user named; no password goes elsewhere; no conversation is left over; every call returns |
| state store `internal/state` | a file and its temporary sibling | `Load`, `Save` | server; two goroutines may call at once | the file is an atomic register over crashes |
| webview bridge `pkg/webview`, with the library `webview.h` it carries | mutex, index, two callback maps, GTK's idle queue; bindings, window, the page's promises | `Bind` handler, `dispatchOn`, main-loop callback; `bind`, `resolve`, `eval`, JSON both ways, `terminate`, the destructor | pages (promises), dispatcher, main | each promise settles once, with its own answer; a signal ends the greeter; nothing uses a deleted webview |
| RPC `pkg/rpc` | a connection with a mutex; handler table | `Call`, `ServeSocket`, `DispatchRaw` | native theme, server | one call at a time, each with its own answer |
| native screen `ui/metal/ui.go` | phase, form, result channel | keys, mouse, `Update`; goroutines per call | RPC | one login at a time; no stuck screen; leaves when greetd has the session |
| VT and DRM `ui/metal/{metal,vt,drm}.go` | who owns the display, modes of the console | `Run`, `setupVT`, `takeControl`, `Pause`, `Resume`, `restore`, signals | kernel | holds the display only while its VT is shown; restores the console on every path |
| input `ui/metal/{input,mouse,keymap}.go` | bounded channels, modifiers | `readLoop`, the VT chord | kernel, screen | modifiers agree with the keyboard; keys of other VTs stay away |
| start-up `cmd/greetdeez/main.go`, `internal/config` | environment | choice of theme and display, relaunch under cage, fallback | all | relaunches at most once, ends in one display or an exit |
| sessions, outputs `internal/sessions`, `pkg/outputs` | none | `List`, `Pick` | server, display | pure functions with an order and tie-breaks |
| output scaling `pkg/binds/glue.c` with the wlr protocol code | the static record `S` | `configure_output_scale` and its listeners | compositor | changes the scale and nothing else, on every screen that is on |
| web themes `ui/minimal`, `ui/cyber` | a form | calls to the server | bridge | - |
| drawing, generators, packaging | - | - | - | not modelled |

The hard parts are: replies that name no request under deadlines that do not close the connection;
front ends that interleave the steps of a login on one conversation; a global index read outside
its mutex; a file name shared by concurrent writers and processes that are killed at will; a screen
whose only guard against concurrent logins is its phase; a console that must come back from every
way out, and VT switches whose signals, keys and display cross each other; answers that take two
turns of a main loop which may end in between; screens that change while they are configured.
`PROJECT.json` lists each hazard with its line and the properties that cover it, or with a note that says
why none does.

## 2. Modules

| Module | Models | Role |
|---|---|---|
| `Greetd` | greetd and the socket (external) | the session under configuration, PAM, request and reply queues, exit |
| `GreetdClient` | `internal/greetd/client.go` | what a round trip sends and can return |
| `GreeterServer` | `internal/server/server.go` | the handlers, one action for each reply that is read; composes the two above |
| `MCGreeterServer` | - | TLC instance of `StepwiseServer`, with symmetry |
| `StepwiseServer` | - | `GreeterServer` with the history that maps the steps of a login to `AuthService` |
| `GreeterServer_proofs` | - | theorems |
| `StateRegister` | - | the register that the state file promises to be |
| `StateStore` | `internal/state/state.go` | one action per system call, kill at any point; refines `StateRegister` |
| `MCStateStore` | - | TLC instance: a short and a long state |
| `StateStore_proofs` | - | theorems, the refinement among them |
| `WebviewBridge` | `pkg/webview/webview.go` | goroutines in `dispatchOn`, the main loop |
| `WebviewBridge_proofs` | - | theorems |
| `AuthService` | the handlers of `server.go`, each one step | what a stepwise front end relies on |
| `MetalUI` | `ui/metal/ui.go`, `ui/metal/client.go` | the native screen, composed with `AuthService` |
| `MetalUI_proofs` | - | theorems |
| `Json` | `webview.h` 481-770 | the library's JSON, as functions, beside JSON as JavaScript and Go have it |
| `WebviewEngine` | `webview.h` for GTK, `glue.c` of `pkg/webview` | the library around `WebviewBridge`, from a page's call to its promise and to the destructor |
| `OutputScale` | `pkg/binds/glue.c`, the wlr protocol tables and header | `configure_output_scale` against a compositor |
| `VtSwitch` | `ui/metal/metal.go`, `vt.go`, parts of `drm.go`, `input.go` and `ui.go` | the native theme on the bare console |
| `OutputScale_proofs`, `OutputScaleScreens_proofs` | - | theorems: the result; the effect on the screens |
| `VtSwitch_proofs` | - | theorems: the console comes back, switches, keys |
| `Startup` | `cmd/greetdeez/main.go` | composes the three above as main does |
| `Startup_proofs` | - | theorems: main, its parts as main starts them, the webview |
| `MCStartup` | - | TLC instance: starts, systems, strings; evaluates `TextsSurvive` |

### GreeterServer

`mu` is `Server.mu` (the holder), `stage` the request whose reply the holder awaits, `call` what
each front end has called. A handler that got the mutex alternates between reading a reply and
writing the next request, with no other state read in between, so these two are one action:
`AfterCancel`, `AfterAuthFlattened` (the loop in `Client.Authenticate`, for `Authenticate` and
`Login`), `AfterAuthStep` (the loop in `advance`), `AfterAbort`, `AfterStart`. `Lock` takes the
mutex and writes the first request, `RefuseStart` is the early return of `startSessionLocked`. The
names of `Stage` follow the requests. `verdict` and the `to` field of replies are history: they are
read by properties only. greetd serves one request at a time, may die at any point, and
PAM decides freely, except that a secret prompt is satisfied only by its user's password.

`GreetdClient` keeps what makes the client hard: a deadline that passes (`RecvTimeout`) returns an
error *and leaves the reply in the stream*. Framing and JSON are left out, so a deadline in the
middle of a frame is not covered. The development mode (no greetd) is not modelled.

`StepwiseServer` relates this to `AuthService`, where each handler is one step, and on which `MetalUI` is
built. Inside a handler greetd's session passes through states that `AuthService` does not have, and what
the handler before has left is gone before it is known how this one ends; so history variables (`conv`,
`with`, `prompt`) keep how the last handler to return has left the conversation. `HandlersAreAtomic` says
that each handler that returns has done to these what `AuthService` says, with the outcome that it
reports. It is stated for as long as no front end has called `Authenticate` or `Login` (these leave a
failed session uncancelled, which `AuthService` does not have), no deadline was missed and greetd runs;
`stepwise` records whether all of this still holds. The history is only written, so it restricts nothing:
the run `greeter_server` checks the whole server with it.

### StateStore

`path` and `tmp` are the two names, `content` the inodes they may lead to. `Save` is the sequence
open-and-truncate, write, rename, with an error possible at each; `Load` is open, then read. All
calls die with the process (`Restart`). "torn" stands for any content that is not the whole of one
state. A `Load` whose read fails on an existing file, and power loss without a sync, are left out.

### WebviewBridge

`dispatchOn` is split at `Lock`, each turn of the scan (`Skip`), `Store` with the unlock, and
`Post`, which reads the index again. The sections of the main loop that hold the mutex are one
step. Every job is dispatched once; `MaxIndex` is large enough never to be met.

GTK's idle queue also holds callbacks that are not `dispatchOn`'s (`PostOther`, `RunOther`), and a
callback can post more of them (`more`): the bridge alone has none, `WebviewEngine` builds on them.

### WebviewEngine and Json

`posted` of the bridge is GTK's idle queue, and holds three kinds of entries: an index of
`dispatchOn`, a call `c` for the evaluation that `resolve` has posted for it, and the callbacks of
`terminate` and of the destructor. `main` is where the main thread is; it turns the loop in `loop`
and in `deplete` (the destructor waiting for its own callback, `deplete_run_loop_event_queue`).
`page`, `nextSeq`, `RPC` and `promise` are the page's side of the script that `bind` injects. A
promise goes through the texts that the code makes: the message is written by the page, taken apart
by `json_parse`, the answer is written by Go, quoted by `json_escape`, and read twice by the page.
Texts are sequences of symbolic characters: those that either parser treats alike are one character.
A number is written by `Digits`, which has four of them, more than any instance has calls; `GoString`
is the copy that the bridge makes of the C string it is given.
`json_parse_c` is a fold of `Step` over the text, with the state names of the code; `Read` and
`Written` are JSON as its definition has it, and external. Whether anything is evaluated at all
depends on `get_webkit_library` finding the WebKit that is linked under one of two names, and on the
function of its version being there. `Systems` are the systems that are tried.

### OutputScale

`pc` follows `configure_output_scale` through its three round trips; `manager`, `serial`, `heads` and
`config_result` are `S`. The listeners are one action each, on the head of the event queue; the
events that the code ignores but libwayland must still be able to decode are in the tables of the
protocol code, and one of a newer version breaks the connection. The compositor is external: it
announces its heads one by one, answers in its own time, closes the connection where the protocol
has an error (`UNCONFIGURED_HEAD`, `INVALID_MODE`, ...), and its screens may come, go, change or die
with it meanwhile. The head objects are numbered in the order of their announcement, which loses
nothing: they have no other property at first.

### VtSwitch

`at` is the program counter of `Run`: the steps up to the loop, the parts of a turn of the loop, and
what is deferred. `guard`, `away`, `vtCh`, `kbCh`, `chord`, `mods` are its variables and those of the
keyboard; `active`, `switching`, `vtmode`, `kdmode`, `kbmode`, `sigs` and `master` are the kernel's.
Pending signals are a set, as in Unix, and of two the runtime delivers SIGUSR1 first. `held` is the
key that the user's finger is on, `dropped` that a full channel has lost a key, `unaware` that the
kernel has let a switch go, or lost the signal for it, that the greeter cannot have known of.
Whoever showed the VT before, a boot splash for one, may still have the card when it is opened. The code
ignores a `SET_MASTER` that fails (drm.go:240), so `Run` goes on without the master (`denied`); the kernel
may refuse it later too, to one that has never had it. Choosing a card, frame buffers, page flips and
the pointer are left out; presenting is a step that needs the master and may fail.

### Startup

`main` is short, and its parts are long and run one after the other. So a behaviour follows one of
them step by step, its `focus`, and the others are one step of main with each outcome that they
have: with the focus on `main`, all start configurations, the relaunch and the fallbacks; with it on
`metal`, `scale` or `webview` a start that leads there. `Starts` is the set of these. A behaviour ends
with the part it follows, but for the console theme, after which main goes on to its end or gives up.

### MetalUI

`job[j]` is a goroutine, with what it does next and what the form held when it was started;
`resCh` is the channel of results. `Update` drains the channel in a loop, one result per step here:
keys between two results of one frame only stand for a result that comes a little later. The time
since the first press of a power key is abstract (`ArmPower` both arms and disarms). Focus,
chosen session, messages and drawing are left out; which field is edited is free.

## 3. Runs

| Run | Expect | Question | Bounds |
|---|---|---|---|
| `greeter_server` | pass | all login handlers, two front ends: what is in flight, does every report match greetd, and is each handler of a stepwise login one step of `AuthService` | 2 users, 2 callers, 2 PAM messages per conversation, 1 missed deadline |
| `greeter_server_live` | pass | does every call return | 1 user, 2 callers, 1 message, 1 missed deadline |
| `greeter_server_timeout` | violation | `authenticate` validates credentials (README.md:252) | 1 user, 1 caller |
| `state_store` | pass | is the file a register, one writer | 2 states of different length, 2 readers, 4 inodes |
| `state_store_overlap` | violation | "Save writes state file atomically" (state.go:36) | 2 writers |
| `webview_bridge` | pass | promises settle once, no silent loss | 3 calls and the navigation |
| `webview_bridge_race` | violation | "Dispatch runs f on main thread" (webview.go:51) | 2 calls |
| `metal_ui` | pass | passwords, remembered names, exit | 2 users, 2 goroutines, 1 power action |
| `metal_ui_live` | pass | the screen comes back, the greeter leaves | 1 user |
| `metal_ui_cancel` | violation | "submits the whole form as one pam conversation" (ui.go:401) | no power action |
| `metal_ui_suspend` | violation | "the machine is going away" (ui.go:520) | 1 power action |
| `startup` | pass | does main come to one display, and do the console, the outputs and the webview keep their promises there | see below |

Why these bounds are enough. Two users and two callers give every mix of one's steps with
another's; a third adds only more of the same waiting. Two PAM messages give a prompt after an
answer and an info line between prompts. One missed deadline shifts the stream, which every later
round trip then sees. Four inodes serve both names and two readers at once. Two goroutines let a
late cancel meet a login; a third would be a second late cancel. The theorems of section 5 hold
without these bounds.

The run `startup` has 1.6 million states, most of them on the console and with the compositor. Its
bounds: three heads where `S` has room for two (`MAX_HEADS`), two modes where it has room for one, so
that both overflow; two serials (`MaxSerial`), so that one change comes at any moment; managers of
version 0, 3 and 5, that is none, older and newer than the tables; scales of zero, of one that rounds
to zero, and of 1.5. Two signals fit `vtCh` (the code has 4) and one key fits `kbCh` (64), so that
both overflow soon; a larger instance of `VtSwitch` alone (2 keys, 4 signals, 3.4 million states) gave the
same answer. Two calls of the page, one reload, one string that needs every kind of escape and one
with a DEL; three systems: a WebKit that is found and evaluates, an old one, and one that is not found.
`MCStartup` also has TLC evaluate `TextsSurvive` for these strings: what is written into a text is read
out of it again.
`CHECK_DEADLOCK FALSE`, because a greeter that has ended stops. The run is about safety: what "must
happen in the end" is stated of the states in which nothing is left to do (`Answered`,
`SignalObeyed`, `SwitchSettled`), which needs no fairness.

Its properties and what they are about:

- *Console.* `ConsoleRestored`: on every way out of `Run`, its own panic included, the console has its
  modes back and the display is free. `DisplayHandedOver`: no DRM master while another VT is shown.
  `SwitchSettled`: when all signals are read, no switch waits for the greeter, and it is parked, without
  the display, exactly when another VT is shown. `KeysStayAway`, `NoStuckModifier`: keys typed elsewhere do not reach the
  form, and no modifier stays down.
- *Outputs.* `OnlyScaleChanges`: whatever is read half-way, what is applied changes no mode and turns
  nothing on or off, because an old `S` has an old serial. `AllScaled`: a success leaves no screen
  out. `NoProtocolError`, `ResultIsVerdict`: the compositor has no reason to cut the client off, and
  the result is its verdict.
- *Webview.* `OwnAnswer`, `RequestIntact`: a handler gets what the page sent, and the promise what that
  handler returned, character for character. `Answered`: none stays open. `SignalObeyed`: a signal at
  any time ends the loop. `OnlyLateTouch`: only goroutines that were under way when the loop ended can
  touch the deleted webview.
- *Main.* `OneDisplay`: one relaunch at most, no webview without a display, and the console as it was
  found when main goes on.

What these properties except, or say nothing of, because the code does otherwise. A property that has
such an exception does not cover the hazard behind it, and `PROJECT.json` has that with a note:

- A greeter that opened the card of another goes on without the display: at its first frame, which
  fails, it gives the console back (`denied`; drm.go:240).
- A greeter that is left again before it has read that it was back acknowledges the wrong request, and
  the display goes without its knowing (`unaware`; metal.go:85, also a switch before `takeControl`,
  and a fifth unread signal, metal.go:61). Keys still queued when the display comes back reach the form.
- A full key channel drops the release of a modifier, which stays down (`dropped`; input.go:128).
- SIGTERM between `setupVT` and `Notify`, or a panic of another goroutine than Run's (metal.go:49),
  leaves the console in graphics mode.
- A page that is loaded again with a call out counts from 1 again, and the old answer settles a new
  promise (webview.h:931). A DEL in a parameter makes it empty (webview.h:546).
- A system that has WebKit only under a versioned name evaluates nothing, in silence (webview.h:1418).
- Goroutines that are under way when the loop ends may use the webview after `Destroy` (webview.go:145).
- `webview_create` may return NULL, which `New` does not look at (webview.go:93).
- More heads than `S` has room for are left out of the configuration, which is a protocol error.
- `configure_output_scale` returns 0 also when the connection was lost or the answer came after the
  round trip, which is logged as nothing to do; and -1 also when the configuration failed, which is
  logged as no connection (glue.c:128, binds.go:149). A compositor that hangs keeps the greeter
  waiting for ever (glue.c:140).

What the violations show:

- *Missed deadline.* `roundTrip` gives up and keeps the connection. The late "success" of a
  `cancel_session` is read as the answer to `create_session`, and `Authenticate` reports success for
  a user whom greetd never verified. `ReplyLag` states the underlying fact: the lag is exactly the
  number of deadlines ever missed and never shrinks.
- *Overlapping saves.* `SaveState` takes no mutex and all saves use one temporary name, so one can
  truncate the file that another is about to rename.
- *Index read after unlock.* Two goroutines post the same index: one callback is lost, and calling
  the missing one panics. The themes make four concurrent calls when they load.
- *Late cancel.* `backToUser` does not wait for its cancel, which may fall into the next login.
- *Suspend.* After a successful suspend the screen stays busy.

Properties of `MetalUI` that say `Undisturbed` hold while no power key was used. They are false
otherwise: a power action that fails makes the form usable while an authentication is on its way
(ui.go:366). What holds whatever is pressed is `SuccessMeansStarted`.

Two front ends that step through logins at once share the server's one conversation: an answer goes
to whichever was begun last (server.go:74). `AuthService` says so too, and no property denies it; a greeter
has one front end.

## 4. Fairness

`GreeterServer`: weak fairness of greetd's answers and of a handler that can go on; strong fairness
of taking the mutex, because `sync.Mutex` hands itself to a waiter that has starved. greetd need not
exit, no deadline need pass, and no front end need call. `WebviewBridge`: the same for goroutines
and the mutex; strong fairness of the main loop, whose callback also waits for the mutex. `MetalUI`:
weak fairness of goroutines (every call has a deadline), of draining (each frame) and of the end of
the warp; no key is ever fair. A panic or a power-off stops everything. `Startup` states no fairness:
most of what it waits for is a compositor, a kernel or a user, which owe it nothing.

## 5. Proofs

`GreeterServer_proofs`. The inductive invariant `IInv` joins the types, `Locking` (a handler holds
the mutex exactly while it has a stage and a call), `Closed` (nothing is queued at a dead greetd),
`ReplyLag`, and, while no deadline was missed, `SyncInv`: the one message in flight belongs to the
holder's current request (`InFlight`), and the holder's stage fixes what greetd's session can be
(`HolderKnows`). The last is needed because the properties of interest speak of one moment, such as a
password being served, and follow only from what every earlier reply in the same handler
established. The theorems are type correctness, `ReplyLag`, `AnswersMatch` (which only the theorem states),
`CreateFindsNoConversation`, `PasswordGoesToItsUser`, `SavedUserWasStarted`, for any finite or
infinite sets of users and callers and any bounds. `ReportsMatchGreetd` and `NothingLeftBehind` are
about steps: a handler returns only by reading the reply to its own last request, and `HolderKnows`
says what greetd has done by then.

The same module has the refinement. `LeftInv` says, while `stepwise` holds, how far the holder of the mutex has come from where the
last handler left off: while it has not been served, the conversation is as it was left (`AsIs`); an
answer that was accepted was one that the conversation that was left could accept (`Answerable`); a
session that was started is out of everyone's reach (`OutOfReach`). `HandlersAreOneStep` proves
`HandlersAreAtomic`, and `ServerIsAuthService` that the server implements `AuthService` in every behaviour in
which `stepwise` stays true, for any users and callers. So as long as greetd runs and answers in time, what `MetalUI_proofs` shows of the native
screen over `AuthService` is not lost to the round trips inside a handler.

`StateStore_proofs`. `Writing` says how far a `Save` has got with the temporary file, `Settled` that
a file that readers can reach is whole and not the temporary one. Type correctness holds for any number
of overlapping calls; `FileStaysWhole` and `Refinement` (every step of the store is a step of the
register, or leaves it alone) assume `OneWriter`, that calls of `Save` do not overlap, and the run
`state_store_overlap` shows that they cannot do without.

`WebviewBridge_proofs`. Goroutines may post one another's indices, so no index can be said to lead to
its own promise; what holds is a count. `IInv` joins the types, `SettledOnce`, `Filing` (a callback is
filed by its own goroutine, before it runs, under one index), `FiledUntilRun` and `Counted`: while no
nil function was called, as many callbacks are filed as indices are posted or about to be. When
everything posted has been taken nothing is left filed, and every callback that was filed has
run: `NoSilentLoss`. The theorems hold for any calls and any `MaxIndex`.

`MetalUI_proofs`. `Truthful` follows the news of a started session from greetd through goroutines and
the channel to the screen, and holds whatever is pressed: it gives `SuccessMeansStarted`. While no power
key was used, `Serial` says that the screen is busy exactly while one goroutine works or its one result is
in the channel, and `SameUser` that all of it is for the name in the form; `CountedOn` are the places that
need the conversation to be that user's, a late cancel among those that do not. From them come
`OneAtATime`, `SavedUserIsStarted` and `PasswordGoesToItsUser`, for any users and numbers of goroutines.

`VtSwitch_proofs`. `Guarded` says that the console differs from how it was found only while `guard` is
"ok", and that no way out comes to its end with it; `Dropped` that the DRM master is given up before
the console is. Both hold in every step of `Run`, of the kernel, and of a panic, and give
`ConsoleRestored`. `Hand` ties the steps of a switch together: which signal is on its way for a switch that
waits, that the last unread signal is about the VT that is shown, and that `away` is what the last signal
read has said, and that the master is the greeter's while it is shown, unless it was refused when the
card was opened (`MasterHere`). It needs to know that the console is under process control whenever another VT is shown
or a switch waits, which is why the switch before `takeControl` has to be excepted (`unaware`).
`DisplayHandedOver` and `SwitchSettled` follow. `KeyInv` is about the other channel: what is in it was
typed on the greeter's VT while that is shown, presses and releases of a modifier alternate unless one was
dropped, and a modifier that is taken as down is down or its release is still to be read. All for any
capacities of the two channels, zero included (`CapAssumption`).

`OutputScale_proofs` has the types, which say that `S` stays within its arrays, and the tokens: the registry,
the two callbacks and the configuration are each asked for once and answered once, so the result can only
be the verdict. `OutputScaleScreens_proofs` has the argument that the code rests on: whatever the compositor
says of a head is followed by a `done` with a newer serial (`Dones`). So where `S.serial` is the serial that
the compositor has, nothing is pending, and as the last event about a head is right (`LastIsRight`,
`Described`), so is its entry (`Copied`), and each head has one (`Named`, `Listed`, `Ordered`). A
configuration that is applied is one with the current serial: it names every head, in the state that it is in,
and changes the scale alone. `NoProtocolError`, `OnlyScaleChanges` and `AllScaled` hold for any heads and
modes, versions and bounds. `HeadsAssumption` asks for finitely many modes and at least one.

`Startup_proofs`. `MainInv` ties the mark in the environment to the number of relaunches, and each step
of main to there being a display where it needs one; with the invariant of the console it gives
`OneDisplay`. `ConsoleAsStarted` and `ScalingAsStarted` show that `Startup` implements `VtSwitch` and
`OutputScale`: main's steps leave them alone. So what is proved of these holds of what main starts
(`ConsoleGivenBack`, `ConsoleSwitches`, `ScalingIsSound`).

The webview has no specification of its own, and its theorems are about `StartupSpec`. `BridgeInv` is the
invariant of `WebviewBridge` with others' callbacks in the same queue; `Overdue` is that no goroutine begins
a dispatch once the loop has ended, `SignalQueued` that a signal is on its way to the loop from the moment
that it comes. They give `OnlyLateTouch` and `SignalObeyed`, and `SettledOnce` in this larger system, for any
texts. For the page's calls, `PageInv` follows one string: a number is used once for each page
(`Numbers`), a promise, a message, a request and an answer each have what the last of them had (`Values`,
`Strings`, `Answers`), and a promise that is not settled has something under way for it (`Outstanding`).
`PageKinds` sorts the steps of the library by what they mean for a call, so that each of the five is shown
for a few kinds of step. `OwnAnswer`, `RequestIntact`, `Answered` and the types follow under the hypothesis
`TextsSurvive`: for each string of the instance, the parsers and writers in between give back what was
written. That is an induction over texts, which stays with TLC. `StartsAssumption` says that the starts are of the
type of a start, `CallbacksAssumption` that calls, indices and the library's own callbacks are told apart, and
`EngineAssumption` that a page makes no more calls than there are digits and that WebKit is linked, if at
all, under the two names that the code looks for or a versioned one.

Only model-checked: the liveness of `GreeterServer`, `WebviewBridge` and `MetalUI` (`EveryCallReturns`,
`AnsweredOrPanic`, `AnsweredUnlessOverlap`, `BusyEnds`, `StartedIsEntered`), which is beyond this prover; and
`TextsSurvive`. `Json` is written with recursive functions, so that modules that use it can hold theorems,
but what its folds compute for every text is out of reach.

## 6. Not modelled

- The engines for macOS and Windows in `webview.h` (1459-3495): not compiled on Linux, the only system
  that greetd runs on.
- `unbind`, `set_html`, `stop`, `test`, custom modes and the rest of the protocol's requests: never
  called. Window title, size, title bar and fullscreen: calls without state.
- `pkg/rpc`'s socket: the deadline that leaves a late reply to the next call is the same as greetd's.
- `sessions.List`, `outputs.Pick`: pure functions of the disk and the screens.
- Drawing, fonts, effects, the web pages, the generators, packaging.

## 7. Plan

1. *(done)* the core: greetd, client and server; state store with its register; webview bridge;
   native screen over the atomic service.
2. *(done)* `Startup` with `VtSwitch`, `OutputScale`, `WebviewEngine` and `Json`.
3. *(done)* Theorems: every invariant and action property of the runs.
4. *(done)* `GreeterServer`, for stepwise front ends and while no deadline is missed, implements
   `AuthService`.
5. `SocketRpc`: one call in flight per connection, its deadline, the bound on frames.
6. `SessionList`: `List`, `Pick`, `parseExecString` and the preselection against reference definitions.
