----------------------------- MODULE StateStore -----------------------------
(***************************************************************************)
(* internal/state/state.go: the state file, written beside its place and   *)
(* renamed into it.  Save is not one step: other calls, and the death of   *)
(* the process (greetd ends the greeter when the session starts), come     *)
(* between its system calls.  Login saves under the server's mutex,        *)
(* SaveState without it, so several calls of Save may overlap.             *)
(*                                                                         *)
(* A name leads to an inode and an open file keeps its inode, whatever     *)
(* happens to the name.  A power cut is not modelled: Save does not sync.  *)
(***************************************************************************)
EXTENDS Naturals

CONSTANTS
  States,   \* the states that may be saved
  Length,   \* Length[s]: the size of s as JSON
  Default,  \* the empty State
  Writers, Readers,
  Inodes,   \* bound: files that exist at once; past it, creating one fails
  NoInode,  \* a name that does not exist, a file that is not open
  Nothing   \* a call with no result yet

ASSUME StatesAssumption == States \intersect {"empty", "torn", Nothing} = {}

ASSUME LengthAssumption == Length \in [States -> Nat]

ASSUME NoInodeAssumption == NoInode \notin Inodes

ASSUME NothingAssumption == Nothing \notin States \union {Default, "ok", "error"}

VARIABLES
  path, tmp,     \* the inode each of the two names leads to
  content,       \* content[i]: what inode i holds
  pc,            \* pc[w]: the next system call of w's Save
  saving,        \* saving[w]: the state w saves
  fd,            \* fd[w]: the inode w writes to
  rd,            \* rd[r]: the inode r's Load has opened
  result,        \* result[w]: what w's last Save returned
  got            \* got[r]: what r's last Load returned

names == <<path, tmp>>
vars  == <<names, content, pc, saving, fd, rd, result, got>>

\* "torn" is whatever is not the whole of one state.
Content == States \union {"empty", "torn"}

TypeOK ==
  /\ path \in Inodes \union {NoInode}
  /\ tmp \in Inodes \union {NoInode}
  /\ content \in [Inodes -> Content]
  /\ pc \in [Writers -> {"idle", "open", "write", "rename"}]
  /\ saving \in [Writers -> States \union {Nothing}]
  /\ fd \in [Writers -> Inodes \union {NoInode}]
  /\ rd \in [Readers -> Inodes \union {NoInode}]
  /\ result \in [Writers -> {"ok", "error", Nothing}]
  /\ got \in [Readers -> States \union {Default, Nothing}]
  /\ \A w \in Writers : /\ pc[w] = "idle" <=> saving[w] = Nothing
                        /\ fd[w] # NoInode <=> pc[w] \in {"write", "rename"}

Init ==
  /\ path = NoInode
  /\ tmp = NoInode
  /\ content = [i \in Inodes |-> "empty"]
  /\ pc = [w \in Writers |-> "idle"]
  /\ saving = [w \in Writers |-> Nothing]
  /\ fd = [w \in Writers |-> NoInode]
  /\ rd = [r \in Readers |-> NoInode]
  /\ result = [w \in Writers |-> Nothing]
  /\ got = [r \in Readers |-> Nothing]

-----------------------------------------------------------------------------
\* Operators named Faulty... are variants of the definition that follows them,
\* each with one plausible bug; no specification uses them.

\* Writing s at the start of a file: a longer state leaves its tail behind.
Overlay(old, s) ==
  CASE old = "empty"  -> {s}
    [] old = "torn"   -> {s, "torn"}
    [] old \in States -> {IF Length[old] > Length[s] THEN "torn" ELSE s}

\* Load: a missing file, and one that does not parse, give the empty state.
Parse(c) == IF c \in States THEN c ELSE Default

Used == {path, tmp} \union {fd[w] : w \in Writers} \union {rd[r] : r \in Readers}

\* The descriptor is left open.
FaultyReturn(w, v) ==
  /\ pc' = [pc EXCEPT ![w] = "idle"]
  /\ saving' = [saving EXCEPT ![w] = Nothing]
  /\ result' = [result EXCEPT ![w] = v]
  /\ UNCHANGED fd

Return(w, v) ==
  /\ pc' = [pc EXCEPT ![w] = "idle"]
  /\ saving' = [saving EXCEPT ![w] = Nothing]
  /\ fd' = [fd EXCEPT ![w] = NoInode]
  /\ result' = [result EXCEPT ![w] = v]

Save(w) ==
  /\ pc[w] = "idle"
  /\ \E s \in States : saving' = [saving EXCEPT ![w] = s]
  /\ pc' = [pc EXCEPT ![w] = "open"]
  /\ result' = [result EXCEPT ![w] = Nothing]
  /\ UNCHANGED <<names, content, fd, rd, got>>

\* The state file itself is opened, not a file beside it.
FaultyTarget(i) == path' = i /\ UNCHANGED tmp

Target(i) == tmp' = i /\ UNCHANGED path

\* os.WriteFile opens the temporary file, cuts it to nothing or creates it ...
Open(w) ==
  /\ pc[w] = "open"
  /\ \E i \in Inodes :
       /\ IF tmp = NoInode THEN i \notin Used ELSE i = tmp
       /\ Target(i)
       /\ fd' = [fd EXCEPT ![w] = i]
       /\ content' = [content EXCEPT ![i] = "empty"]
  /\ pc' = [pc EXCEPT ![w] = "write"]
  /\ UNCHANGED <<saving, rd, result, got>>

\* ... and writes the state with one write.
Write(w) ==
  /\ pc[w] = "write"
  /\ \E c \in Overlay(content[fd[w]], saving[w]) :
       content' = [content EXCEPT ![fd[w]] = c]
  /\ pc' = [pc EXCEPT ![w] = "rename"]
  /\ UNCHANGED <<names, saving, fd, rd, result, got>>

\* os.Rename moves whatever now has the temporary name.
Rename(w) ==
  /\ pc[w] = "rename"
  /\ tmp # NoInode
  /\ path' = tmp
  /\ tmp' = NoInode
  /\ Return(w, "ok")
  /\ UNCHANGED <<content, rd, got>>

\* MkdirAll, the open, the write (perhaps half done) or the rename fails.
Fail(w) ==
  /\ pc[w] # "idle"
  /\ \/ UNCHANGED content
     \/ /\ pc[w] = "write"
        /\ content' = [content EXCEPT ![fd[w]] = "torn"]
  /\ Return(w, "error")
  /\ UNCHANGED <<names, rd, got>>

\* os.ReadFile opens the file, if there is one ...
LoadOpen(r) ==
  /\ rd[r] = NoInode
  /\ rd' = [rd EXCEPT ![r] = path]
  /\ got' = [got EXCEPT ![r] = IF path = NoInode THEN Default ELSE Nothing]
  /\ UNCHANGED <<names, content, pc, saving, fd, result>>

\* ... and reads what it holds by then.
LoadRead(r) ==
  /\ rd[r] # NoInode
  /\ rd' = [rd EXCEPT ![r] = NoInode]
  /\ got' = [got EXCEPT ![r] = Parse(content[rd[r]])]
  /\ UNCHANGED <<names, content, pc, saving, fd, result>>

\* The greeter is killed and started again; the files are as they were.
Restart ==
  /\ pc' = [w \in Writers |-> "idle"]
  /\ saving' = [w \in Writers |-> Nothing]
  /\ fd' = [w \in Writers |-> NoInode]
  /\ rd' = [r \in Readers |-> NoInode]
  /\ result' = [w \in Writers |-> Nothing]
  /\ got' = [r \in Readers |-> Nothing]
  /\ UNCHANGED <<names, content>>

Next ==
  \/ \E w \in Writers : Save(w) \/ Open(w) \/ Write(w) \/ Rename(w) \/ Fail(w)
  \/ \E r \in Readers : LoadOpen(r) \/ LoadRead(r)
  \/ Restart

Spec == Init /\ [][Next]_vars

-----------------------------------------------------------------------------
\* The register the file stands for: a Load that has opened the file is bound
\* to what it opened.
Value == IF path = NoInode THEN Default ELSE Parse(content[path])

Loaded == [r \in Readers |-> IF rd[r] = NoInode THEN got[r] ELSE Parse(content[rd[r]])]

Register == INSTANCE StateRegister WITH value <- Value, loaded <- Loaded

\* With one Save at a time the file is that register, whatever fails and
\* whenever the greeter is killed (state.go:19, 36): no Load sees a state half
\* written, a Save that fails changes nothing, one that succeeds is not lost.
AtomicRegister == Register!Spec

\* "Save writes state file atomically" (state.go:36): the state file always
\* holds the whole of one state.
FileIsWhole == path # NoInode => content[path] \in States
=============================================================================
