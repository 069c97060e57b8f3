---------------------------- MODULE WebviewEngine ----------------------------
(***************************************************************************)
(* The web themes' way through the webview library, from the call of a     *)
(* page to the promise that it gets: webview.h as it is built for GTK and  *)
(* WebKit, glue.c, and main.go, around the goroutines of WebviewBridge.    *)
(*                                                                         *)
(* An answer takes two turns of the main loop: dispatchOn's callback calls *)
(* webview_return, and that posts the evaluation of a script.  Between     *)
(* them the page may be left, the window may close, and the loop may end;  *)
(* the destructor then runs what is still posted against null pointers.    *)
(*                                                                         *)
(* WebKit, the page and the go runtime are external.  What a script does   *)
(* is done when it is evaluated; what a page posts arrives in order.  Of   *)
(* the handler, DispatchRaw, no more is left than the string it answers.   *)
(***************************************************************************)
EXTENDS WebviewBridge, Json

CONSTANTS
  Quit,       \* the idle callback that terminate posts
  Depleted,   \* the one that the destructor waits for
  Args,       \* strings that a page calls with
  Respond(_), \* what the handler answers to a request
  Systems,    \* the systems it may run on, see System
  MaxReloads  \* bound: how often the page is left for another

Nil == "nullptr"

\* What the library looks at outside of itself: names that dlopen finds the
\* loaded WebKit under, its minor version, the windowing system, the driver.
System ==
  [links: SUBSET STRING, wkminor: Nat, WAYLAND_DISPLAY: BOOLEAN,
   gdk_x11: BOOLEAN, nvidia: BOOLEAN]

VARIABLES
  main,        \* where the main thread is; "loop" and "deplete" turn the main loop
  sig,         \* its goroutine that waits for a signal
  m_window,    \* whether there is a window
  m_webview,   \* whether there is a web view
  window_ref_count,
  bindings,    \* names that webview_bind was called with
  scripts,     \* scripts that every page starts with
  system,      \* where it runs
  dmabuf,      \* whether WebKit may use its DMA-BUF renderer
  loaded_lib,  \* the one that get_webkit_library found
  reloads,     \* pages left
  page,        \* the page that is loaded
  nextSeq,     \* RPC.nextSeq of the page
  RPC,         \* RPC[seq]: the call whose promise is kept under seq
  promise,     \* promise[c]: what has become of the promise of c
  external,    \* messages from the page
  id,          \* id[c]: the sequence number that c's handler was called with
  arg,         \* arg[c]: what the page called with
  request,     \* request[c]: what c's handler was called with
  reply,       \* reply[c]: what it returned
  late,        \* goroutines that were under way when the main loop ended
  touched      \* goroutines that used the webview after it was deleted

window == <<m_window, m_webview, window_ref_count>>
engine == <<window, bindings, scripts, system, dmabuf, loaded_lib>>
script == <<page, nextSeq, RPC, promise, reloads>>
values == <<id, arg, request, reply>>
ends   == <<main, sig, late, touched>>
all    == <<vars, engine, script, external, values, ends>>

Name == <<"__greetdeez_rpc__">>

Digits    == <<"1", "2", "3", "4">>  \* bound: pages do not count any further
Seqs      == DOMAIN Digits
Stated(s) == [status |-> s, value |-> <<>>]

EngineTypeOK ==
  /\ TypeOK
  /\ main \in {"create", "bind", "started", "loop", "ended", "deplete", "deleted", "exited", "crashed"}
  /\ sig \in {"wait", "got", "done"}
  /\ m_window \in BOOLEAN /\ m_webview \in BOOLEAN /\ m_webview => m_window
  /\ window_ref_count = (IF m_window THEN 1 ELSE 0)
  /\ bindings \subseteq {Name} /\ scripts \subseteq {"external", "rpc"}
  /\ system \in Systems /\ loaded_lib \in system.links \union {Nil}
  /\ page \in {"blank", "ui"} /\ nextSeq \in 1..(Len(Digits) + 1)
  /\ RPC \in [Seqs -> Calls \union {NoJob}]
  /\ \A c \in Calls : promise[c].status \in {"none", "pending", "gone", "resolved", "rejected"}
  /\ \A c \in Calls : promise[c].status = "pending" <=> \E n \in Seqs : RPC[n] = c
  /\ page = "ui" => m_webview /\ bindings = {Name} /\ scripts = {"external", "rpc"}

EngineInit ==
  /\ Init
  /\ main = "create" /\ sig = "wait" /\ late = {} /\ touched = {}
  /\ m_window = FALSE /\ m_webview = FALSE /\ window_ref_count = 0
  /\ bindings = {} /\ scripts = {}
  /\ system \in Systems /\ dmabuf = TRUE /\ loaded_lib = Nil
  /\ reloads = 0 /\ page = "blank" /\ nextSeq = 1 /\ RPC = [n \in Seqs |-> NoJob]
  /\ promise = [c \in Calls |-> Stated("none")]
  /\ external = <<>>
  /\ id = [c \in Calls |-> <<>>] /\ arg = [c \in Calls |-> <<>>]
  /\ request = [c \in Calls |-> <<>>] /\ reply = [c \in Calls |-> <<>>]

-----------------------------------------------------------------------------
\* Operators named Faulty... are variants of the definition that follows them,
\* each with one plausible bug; no specification uses them.

\* The WebKit library

is_loaded(name)     == name \in system.links
load_library(name)  == IF name \in system.links THEN name ELSE Nil
get(lib, symbol, symbols) == lib # Nil /\ symbol \in symbols

LibNames == <<"libwebkit2gtk-4.1.so", "libwebkit2gtk-4.0.so">>

\* The search never takes place.
Faulty_get_webkit_library == loaded_lib

\* A library that has been loaded is kept.
get_webkit_library ==
  IF loaded_lib # Nil THEN loaded_lib
  ELSE LET found == {i \in DOMAIN LibNames : is_loaded(LibNames[i])}
       IN  IF found = {} THEN Nil
           ELSE load_library(LibNames[CHOOSE i \in found : \A j \in found : i <= j])

\* The functions that a WebKit of this version has (external).
webkit_symbols ==
  {"webkit_web_view_run_javascript"}
  \union IF system.wkminor >= 40 THEN {"webkit_web_view_evaluate_javascript"} ELSE {}

\* The one that is asked for.
eval_symbol ==
  IF system.wkminor >= 40
  THEN "webkit_web_view_evaluate_javascript" ELSE "webkit_web_view_run_javascript"

\* Where there is no function to call, nothing is evaluated, and nothing is said
\* of it.  On a null web view WebKit does nothing.
eval_impl(Effect, Nothing) ==
  /\ loaded_lib' = get_webkit_library
  /\ IF get(get_webkit_library, eval_symbol, webkit_symbols) /\ m_webview
     THEN Effect ELSE Nothing

init_impl(js) == scripts' = scripts \union {js}

\* WebKit's renderer is switched off for a driver that it does not work with.
is_wayland_display == system.WAYLAND_DISPLAY

is_webkit_dmabuf_bugged ==
  /\ system.wkminor >= 42
  /\ dmabuf
  /\ ~is_wayland_display
  /\ system.gdk_x11
  /\ system.nvidia

apply_webkit_dmabuf_workaround == dmabuf' = (dmabuf /\ ~is_webkit_dmabuf_bugged)

-----------------------------------------------------------------------------
\* The context of the page is gone, and its promises with it.
Leave(to) ==
  /\ page' = to
  /\ nextSeq' = 1
  /\ RPC' = [n \in Seqs |-> NoJob]
  /\ promise' = [c \in Calls |->
                   IF promise[c].status = "pending" THEN Stated("gone") ELSE promise[c]]

Running == main \in {"started", "loop", "ended", "deplete", "deleted"} /\ Alive

Turning == main \in {"loop", "deplete"} /\ Alive

inc_window_count == window_ref_count' = window_ref_count + 1

dec_window_count ==
  window_ref_count' = IF window_ref_count > 0 THEN window_ref_count - 1 ELSE 0

\* The constructor.
gtk_webkit_engine ==
  /\ m_window' = TRUE /\ m_webview' = TRUE
  /\ inc_window_count
  /\ apply_webkit_dmabuf_workaround
  /\ init_impl("external")
  /\ UNCHANGED <<bindings, system, loaded_lib>>

\* Where GTK cannot be initialized there is no webview, and main calls through
\* the null pointer.
webview_create ==
  /\ main = "create"
  /\ \/ gtk_webkit_engine /\ main' = "bind"
     \/ UNCHANGED engine /\ main' = "crashed"
  /\ UNCHANGED <<vars, script, external, values, sig, late, touched>>

\* The script is for all pages to be loaded, and for this one, which is empty.
bind(name) ==
  /\ name \notin bindings
  /\ bindings' = bindings \union {name}
  /\ init_impl("rpc")
  /\ eval_impl(TRUE, TRUE)
  /\ UNCHANGED <<window, system, dmabuf>>

\* Then main starts its two goroutines.
Bind ==
  /\ main = "bind"
  /\ main' = "started"
  /\ bind(Name)
  /\ UNCHANGED <<vars, script, external, values, sig, late, touched>>

\* gtk_main
run_impl ==
  /\ main = "started" /\ Alive
  /\ main' = "loop"
  /\ UNCHANGED <<vars, engine, script, external, values, sig, late, touched>>

-----------------------------------------------------------------------------
\* The page (external, but for the script that bind injects)

\* The text that is posted for the call number n with the argument a.
Message(n, a) ==
  <<"{", Quote, "id", Quote, ":", Digits[n], ",", Quote, "method", Quote, ":">> \o Written(Name)
  \o <<",", Quote, "params", Quote, ":", "[">> \o Written(a) \o <<"]", "}">>

\* The promise is kept under the next number before the message is posted.
PageCall(c) ==
  /\ page = "ui" /\ Alive
  /\ promise[c].status = "none"
  /\ \E a \in Args :
       /\ arg' = [arg EXCEPT ![c] = a]
       /\ external' = Append(external, [call |-> c, text |-> Message(nextSeq, a)])
  /\ RPC' = [RPC EXCEPT ![nextSeq] = c]
  /\ nextSeq' = nextSeq + 1
  /\ promise' = [promise EXCEPT ![c] = Stated("pending")]
  /\ UNCHANGED <<vars, engine, page, reloads, id, request, reply, ends>>

\* The user, or the page itself, has it loaded again.
Reload ==
  /\ page = "ui" /\ Alive
  /\ reloads < MaxReloads
  /\ reloads' = reloads + 1
  /\ Leave("ui")
  /\ UNCHANGED <<vars, engine, external, values, ends>>

\* What go makes of the parameters: no string, the empty string (external).
FirstArg(t) ==
  IF Len(t) > 2 THEN Read(SubSeq(t, 2, Len(t) - 1)) ELSE <<>>

\* The strings stay the library's, which writes the next message over them.
FaultyGoString(c, callID, params) ==
  /\ id' = [d \in Calls |-> callID]
  /\ request' = [d \in Calls |-> params]

\* They are copied before the goroutine is started.
GoString(c, callID, params) ==
  /\ id' = [id EXCEPT ![c] = callID]
  /\ request' = [request EXCEPT ![c] = params]

\* on_message: a name that is not bound is ignored.
OnMessage ==
  /\ Turning /\ external # <<>>
  /\ LET msg == Head(external).text
         c   == Head(external).call
     IN  IF json_parse(msg, <<"method">>, 0) \in bindings
         THEN /\ GoString(c, json_parse(msg, <<"id">>, 0),
                             FirstArg(json_parse(msg, <<"params">>, 0)))
              /\ Call(c)
         ELSE UNCHANGED <<id, request, vars>>
  /\ external' = Tail(external)
  /\ UNCHANGED <<engine, script, arg, reply, ends>>

HandlerReturns(c) ==
  /\ Running
  /\ Handled(c)
  /\ reply' = [reply EXCEPT ![c] = Respond(request[c])]
  /\ UNCHANGED <<engine, script, external, id, arg, request, ends>>

\* dispatchOn.  A pointer to the webview is all that a goroutine has: once it
\* is deleted, posting may crash, or leave a callback that nothing will run.
Dispatching(j) ==
  /\ Running
  /\ DispatchOn(j)
  /\ IF main = "deleted" /\ pc'[j] = "sent"
     THEN /\ touched' = touched \union {j}
          /\ main' \in {"deleted", "crashed"}
     ELSE UNCHANGED <<touched, main>>
  /\ UNCHANGED <<engine, script, external, values, sig, late>>

-----------------------------------------------------------------------------
\* The main loop

\* A callback of dispatchOn: navigate, or webview_return, whose resolve posts
\* the evaluation; it captures the number and the result.
RunCallback ==
  /\ Turning
  /\ posted # <<>> /\ Head(posted) \in Index
  /\ LET f == dispatch[Head(posted)]
     IN  /\ Run(IF f \in Calls THEN <<f>> ELSE <<>>)
         /\ IF f = Navigate /\ m_webview
            THEN Leave("ui")
            ELSE UNCHANGED <<page, nextSeq, RPC, promise>>
  /\ UNCHANGED <<engine, reloads, external, values, ends>>

\* The number is the newest that the page has used.
FaultySeqOf(c) == IF nextSeq = 1 THEN 1 ELSE nextSeq - 1

SeqOf(c) == CHOOSE n \in Seqs : <<Digits[n]>> = id[c]

\* What the script of resolve makes of the answer r, by way of two texts.
Result(r) == Read(Read(json_escape(Written(r))))

TakeOut(seq) == RPC' = [RPC EXCEPT ![seq] = NoJob]

\* The script takes the promise that is kept under seq, and fails when there is
\* none.
Settle(seq, result) ==
  IF RPC[seq] = NoJob
  THEN UNCHANGED <<RPC, promise>>
  ELSE /\ TakeOut(seq)
       /\ promise' = [promise EXCEPT ![RPC[seq]] =
                        IF result = Malformed THEN Stated("rejected")
                        ELSE [status |-> "resolved", value |-> result]]

RunResolve ==
  /\ Turning
  /\ posted # <<>> /\ Head(posted) \in Calls
  /\ RunOther(<<>>)
  /\ LET c == Head(posted)
     IN  eval_impl(Settle(SeqOf(c), Result(reply[c])), UNCHANGED <<RPC, promise>>)
  /\ UNCHANGED <<window, bindings, scripts, system, dmabuf, page, nextSeq, reloads, external,
                 values, ends>>

UnderWay == {j \in Jobs : pc[j] \notin {"idle", "sent"}}
            \union {s \in {Quit} : sig # "done"}

\* gtk_main_quit.  In the destructor there is no main loop to quit.
RunQuit ==
  /\ Turning
  /\ posted # <<>> /\ Head(posted) = Quit
  /\ RunOther(<<>>)
  /\ IF main = "loop"
     THEN main' = "ended" /\ late' = UnderWay
     ELSE UNCHANGED <<main, late>>
  /\ UNCHANGED <<engine, script, external, values, sig, touched>>

dispatch_impl(f) == PostOther(f)

\* gtk_main_quit is called at once.
Faulty_terminate_impl ==
  /\ UNCHANGED <<vars, touched>>
  /\ main' = IF main = "loop" THEN "ended" ELSE main

terminate_impl ==
  /\ dispatch_impl(Quit)
  /\ IF main = "deleted"
     THEN touched' = touched \union {Quit} /\ main' \in {"deleted", "crashed"}
     ELSE UNCHANGED <<touched, main>>

\* The last window to go ends the main loop, unless the destructor closes it.
on_window_destroyed(skip_termination) ==
  /\ dec_window_count
  /\ IF window_ref_count <= 1 /\ ~skip_termination
     THEN terminate_impl
     ELSE UNCHANGED <<vars, touched, main>>

\* The "destroy" signal of the window, which the compositor has closed.
Destroyed ==
  /\ main = "loop" /\ m_window
  /\ m_window' = FALSE /\ m_webview' = FALSE
  /\ on_window_destroyed(FALSE)
  /\ Leave("blank")
  /\ external' = <<>>
  /\ UNCHANGED <<bindings, scripts, system, dmabuf, loaded_lib, reloads, values, sig, late>>

\* A signal for the greeter, and the goroutine that terminates the webview.
Signal ==
  /\ Running /\ sig = "wait"
  /\ sig' = "got"
  /\ UNCHANGED <<vars, engine, script, external, values, main, late, touched>>

Terminate ==
  /\ Running /\ sig = "got"
  /\ sig' = "done"
  /\ terminate_impl
  /\ UNCHANGED <<engine, script, external, values, late>>

-----------------------------------------------------------------------------
\* The widget is left to the window.
FaultyDestroyWidget == UNCHANGED <<m_webview, page, nextSeq, RPC, promise, external>>

DestroyWidget ==
  /\ m_webview' = FALSE
  /\ Leave("blank")
  /\ external' = <<>>

\* The destructor, up to the loop in which deplete_run_loop_event_queue waits
\* for its own callback.  With its handlers disconnected, the window that it
\* closes ends nothing.
Destroy ==
  /\ main = "ended"
  /\ main' = "deplete"
  /\ DestroyWidget
  /\ m_window' = FALSE
  /\ IF m_window THEN dec_window_count ELSE UNCHANGED window_ref_count
  /\ dispatch_impl(Depleted)
  /\ UNCHANGED <<bindings, scripts, system, dmabuf, loaded_lib, reloads, values, sig, late, touched>>

RunDepleted ==
  /\ main = "deplete"
  /\ posted # <<>> /\ Head(posted) = Depleted
  /\ RunOther(<<>>)
  /\ main' = "deleted"
  /\ UNCHANGED <<engine, script, external, values, sig, late, touched>>

Exit ==
  /\ main = "deleted" /\ Alive
  /\ main' = "exited"
  /\ UNCHANGED <<vars, engine, script, external, values, sig, late, touched>>

MainLoop == RunCallback \/ RunResolve \/ RunQuit \/ RunDepleted

EngineNext ==
  \/ webview_create \/ Bind \/ run_impl \/ Reload \/ OnMessage \/ MainLoop
  \/ Destroyed \/ Signal \/ Terminate \/ Destroy \/ Exit
  \/ \E c \in Calls : PageCall(c) \/ HandlerReturns(c)
  \/ \E j \in Jobs : Dispatching(j)

EngineSpec == EngineInit /\ [][EngineNext]_all

-----------------------------------------------------------------------------
Settled(c) == promise[c].status \in {"resolved", "rejected"}

NoneGone == \A c \in Calls : promise[c].status # "gone"

\* A promise is settled after its own handler has returned, with the string
\* that this handler returned, whatever else is out.  Pages that are left with
\* a call out are excepted: the next page counts its calls from 1 again, and
\* an old answer settles the new promise that has its number.
OwnAnswer ==
  NoneGone => \A c \in Calls : Settled(c) =>
                /\ Ran(c)
                /\ promise[c] = [status |-> "resolved", value |-> reply[c]]

\* The parser refuses a DEL, which a page may well send.
Decoded(a) == IF \E i \in DOMAIN a : a[i] = "DEL" THEN <<>> ELSE a

\* A handler gets the string that the page called with, or, where that has a
\* DEL, the empty one.
RequestIntact == \A c \in Calls : pc[c] # "idle" => request[c] = Decoded(arg[c])

\* The strings of a call with a are not changed by the texts that they travel in:
\* of the page's message json_parse gives the number, the name and the argument, of
\* the escaped answer the script makes the string that the handler returned, and
\* never takes one for an error.
TextSurvives(a) ==
  LET answer == Respond(Decoded(a))
  IN  /\ \A n \in Seqs :
           /\ json_parse(Message(n, a), <<"id">>, 0) = <<Digits[n]>>
           /\ json_parse(Message(n, a), <<"method">>, 0) = Name
           /\ FirstArg(json_parse(Message(n, a), <<"params">>, 0)) = Decoded(a)
      /\ Result(answer) = answer /\ answer # Malformed

\* Who touches the deleted webview had been under way when the main loop ended:
\* a greeter that ends with no call out and after its signal does not.
OnlyLateTouch == touched \subseteq late

\* Nothing is left to be done for the page.
Idle ==
  /\ posted = <<>> /\ external = <<>>
  /\ \A j \in Jobs : pc[j] \in {"idle", "sent"}

\* While the greeter lives, no promise is left open by a page's call: not by a
\* message that is taken for another, nor by an index that is posted twice, nor
\* by an answer that is kept under another's number.  Excepted is a system that
\* does not have the WebKit library under its plain name: there, nothing is
\* ever evaluated, and nothing is said of it.
Answered ==
  Idle /\ main = "loop" /\ Alive /\ system.links # {} =>
    \A c \in Calls : promise[c].status # "pending"

\* A signal is obeyed, also when it comes before the main loop has started:
\* the greeter is not left running once all is done that was posted.
SignalObeyed ==
  sig = "done" /\ posted = <<>> => main \notin {"started", "loop"}
=============================================================================
