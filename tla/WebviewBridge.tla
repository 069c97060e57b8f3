---------------------------- MODULE WebviewBridge ----------------------------
(***************************************************************************)
(* pkg/webview/webview.go: how goroutines hand callbacks to the GTK main   *)
(* loop.  A page's call runs its handler on a goroutine of its own; the    *)
(* answer must go back on the main loop, so dispatchOn files a callback    *)
(* under an index and posts the index.  The index is a global of all       *)
(* goroutines, and dispatchOn reads it again after it has given up the     *)
(* mutex (line 145).                                                       *)
(*                                                                         *)
(* One action per step between lock, unlock and that read.  The idle queue *)
(* of GTK is first in, first out, and shared with callbacks of others;     *)
(* sections of the main loop that hold the mutex do not block inside and   *)
(* are one step.                                                           *)
(***************************************************************************)
EXTENDS Naturals, Sequences, FiniteSets

CONSTANTS
  Calls,     \* the calls the page makes, each of them once
  Navigate,  \* the callback that main dispatches to load the page
  NoJob,     \* an index nothing is filed under; nobody holds the mutex
  MaxIndex,  \* bound of index; one per job is never exceeded
  Other      \* idle callbacks that do not come from dispatchOn

Jobs  == Calls \union {Navigate}
Index == 0..MaxIndex

ASSUME JobsAssumption ==
  NoJob \notin Jobs /\ Navigate \notin Calls /\ Other \intersect Index = {}

ASSUME MaxIndexAssumption == MaxIndex \in Nat

VARIABLES
  m,         \* the mutex: the job whose goroutine holds it
  index,     \* the global index
  dispatch,  \* dispatch[i]: the callback filed under i
  posted,    \* the main loop's idle queue, where an index stands for
             \* _webviewDispatchGoCallback with it
  pc,        \* pc[j]: where j's goroutine is
  ran,       \* ran[j]: how often j's callback ran
  panicked   \* the main loop called a nil function: the process is gone

vars == <<m, index, dispatch, posted, pc, ran, panicked>>

TypeOK ==
  /\ m \in Jobs \union {NoJob}
  /\ index \in Index
  /\ dispatch \in [Index -> Jobs \union {NoJob}]
  /\ posted \in Seq(Index \union Other)
  /\ pc \in [Jobs -> {"idle", "handler", "lock", "scan", "post", "sent"}]
  /\ ran \in [Jobs -> Nat]
  /\ panicked \in BOOLEAN
  /\ \A j \in Jobs : m = j <=> pc[j] = "scan"

Init ==
  /\ m = NoJob
  /\ index = 0
  /\ dispatch = [i \in Index |-> NoJob]
  /\ posted = <<>>
  /\ pc = [j \in Jobs |-> IF j = Navigate THEN "lock" ELSE "idle"]
  /\ ran = [j \in Jobs |-> 0]
  /\ panicked = FALSE

-----------------------------------------------------------------------------
\* Operators named Faulty... are variants of the definition that follows them,
\* each with one plausible bug; no specification uses them.

Alive == ~panicked

Goto(j, from, to) ==
  /\ Alive
  /\ pc[j] = from
  /\ pc' = [pc EXCEPT ![j] = to]

\* The loaded page makes a call: the main loop looks the handler up and starts
\* a goroutine.
Call(c) ==
  /\ ran[Navigate] > 0
  /\ m = NoJob
  /\ Goto(c, "idle", "handler")
  /\ UNCHANGED <<m, index, dispatch, posted, ran, panicked>>

\* The handler returns, and its goroutine enters dispatchOn.
Handled(c) ==
  /\ Goto(c, "handler", "lock")
  /\ UNCHANGED <<m, index, dispatch, posted, ran, panicked>>

Lock(j) ==
  /\ m = NoJob
  /\ m' = j
  /\ Goto(j, "lock", "scan")
  /\ UNCHANGED <<index, dispatch, posted, ran, panicked>>

\* Every index counts as free.
FaultyFree(i) == i \in Index

Free(i) == dispatch[i] = NoJob

Skip(j) ==
  /\ Alive
  /\ pc[j] = "scan"
  /\ ~Free(index)
  /\ index < MaxIndex
  /\ index' = index + 1
  /\ UNCHANGED <<m, dispatch, posted, pc, ran, panicked>>

\* An early return that keeps the mutex.
FaultyUnlock == UNCHANGED m

Unlock == m' = NoJob

Store(j) ==
  /\ Free(index)
  /\ dispatch' = [dispatch EXCEPT ![index] = j]
  /\ Unlock
  /\ Goto(j, "scan", "post")
  /\ UNCHANGED <<index, posted, ran, panicked>>

\* The index read here need not be the one j is filed under.
Post(j) ==
  /\ posted' = Append(posted, index)
  /\ Goto(j, "post", "sent")
  /\ UNCHANGED <<m, index, dispatch, ran, panicked>>

\* A callback is left on file when it is taken.
FaultyTake(i) == UNCHANGED dispatch

Take(i) == dispatch' = [dispatch EXCEPT ![i] = NoJob]

\* A missing callback is ignored.
FaultyInvoke(f) ==
  /\ ran' = IF f = NoJob THEN ran ELSE [ran EXCEPT ![f] = @ + 1]
  /\ UNCHANGED panicked

Invoke(f) ==
  IF f = NoJob
  THEN /\ panicked' = TRUE
       /\ UNCHANGED ran
  ELSE /\ ran' = [ran EXCEPT ![f] = @ + 1]
       /\ UNCHANGED panicked

\* The main loop takes the next index, and calls what is filed under it, which
\* can post others in its turn.
Run(more) ==
  /\ Alive
  /\ posted # <<>> /\ Head(posted) \in Index
  /\ m = NoJob
  /\ posted' = Tail(posted) \o more
  /\ Take(Head(posted))
  /\ Invoke(dispatch[Head(posted)])
  /\ UNCHANGED <<m, index, pc>>

\* The main loop runs an idle callback of another.
RunOther(more) ==
  /\ Alive
  /\ posted # <<>> /\ Head(posted) \in Other
  /\ posted' = Tail(posted) \o more
  /\ UNCHANGED <<m, index, dispatch, pc, ran, panicked>>

PostOther(o) ==
  /\ Alive
  /\ posted' = Append(posted, o)
  /\ UNCHANGED <<m, index, dispatch, pc, ran, panicked>>

DispatchOn(j) == Lock(j) \/ Skip(j) \/ Store(j) \/ Post(j)

\* The bridge alone: nobody else posts, and a callback does nothing more.
Next ==
  \/ \E c \in Calls : Call(c) \/ Handled(c)
  \/ \E j \in Jobs : DispatchOn(j)
  \/ Run(<<>>)

Spec == Init /\ [][Next]_vars

\* A handler returns, a goroutine that can go on does, the mutex is handed to
\* whoever waits longest, and the main loop keeps turning.
Fairness ==
  /\ \A c \in Calls : WF_vars(Handled(c))
  /\ \A j \in Jobs : /\ WF_vars(Skip(j) \/ Store(j) \/ Post(j))
                     /\ SF_vars(Lock(j))
  /\ SF_vars(Run(<<>>))

FairSpec == Spec /\ Fairness

-----------------------------------------------------------------------------
Ran(j) == ran[j] > 0

\* A promise of the page is settled at most once, and not before its handler
\* has returned, even when goroutines post one another's indices.
SettledOnce ==
  \A j \in Jobs : /\ ran[j] <= 1
                  /\ Ran(j) => pc[j] \in {"post", "sent"}

\* No answer is lost in silence: when everything posted has been taken, and
\* the process still lives, every callback that was filed has run.
NoSilentLoss ==
  posted = <<>> /\ Alive /\ (\A j \in Jobs : pc[j] # "post") =>
    \A j \in Jobs : pc[j] = "sent" => Ran(j)

\* Whatever the goroutines do, a call is answered or the process dies.
AnsweredOrPanic ==
  \A j \in Jobs : pc[j] \in {"handler", "lock"} ~> Ran(j) \/ ~Alive

\* A goroutine is in dispatchOn while another is about to read the index.
Overlap ==
  \E j, k \in Jobs : j # k /\ pc[j] = "post" /\ pc[k] \in {"scan", "post"}

\* As long as no two goroutines are in dispatchOn at once, every call is
\* answered, in particular the ones a page makes one after the other.
AnsweredUnlessOverlap ==
  []~Overlap => \A j \in Jobs : pc[j] \in {"handler", "lock"} ~> Ran(j)

\* "Dispatch runs f on main thread" (webview.go:51).
DispatchRuns == \A j \in Jobs : pc[j] = "lock" ~> Ran(j)
=============================================================================
