-------------------------- MODULE StateStore_proofs --------------------------
(***************************************************************************)
(* With one Save at a time, the state file implements the register of      *)
(* StateRegister, for any number of readers, states and inodes.            *)
(***************************************************************************)
EXTENDS StateStore, TLAPS

\* No two calls of Save overlap.
OneWriter == \A v, w \in Writers : v = w

\* What a Save in progress has done: the file it writes to is the temporary
\* one, empty at first and the state being saved before the rename.
Writing ==
  \A w \in Writers :
    /\ pc[w] \in {"write", "rename"} => tmp = fd[w]
    /\ pc[w] = "write"  => content[fd[w]] = "empty"
    /\ pc[w] = "rename" => content[fd[w]] = saving[w]

\* A file that readers can reach is whole, and nobody writes to it.
Published(i) == i # tmp /\ content[i] \in States

Settled ==
  /\ path # NoInode => Published(path)
  /\ \A r \in Readers : rd[r] # NoInode => Published(rd[r])

IInv == TypeOK /\ Writing /\ Settled

\* The invariant holds initially: there is no file and no call.
LEMMA InitInv == Init => IInv
  BY NoInodeAssumption DEF Init, IInv, TypeOK, Writing, Settled, Content

\* No step of any number of writers breaks the types.
LEMMA TypeStep == TypeOK /\ [Next]_vars => TypeOK'
<1> SUFFICES ASSUME TypeOK, [Next]_vars PROVE TypeOK'
  OBVIOUS
<1>1. ASSUME NEW w \in Writers, Save(w) PROVE TypeOK'
  BY <1>1, StatesAssumption DEF TypeOK, Save, names
<1>2. ASSUME NEW w \in Writers, Open(w) PROVE TypeOK'
  BY <1>2, NoInodeAssumption DEF TypeOK, Open, Target, Content
<1>3. ASSUME NEW w \in Writers, Write(w) PROVE TypeOK'
  <2>1. fd[w] \in Inodes /\ saving[w] \in States
    BY <1>3 DEF TypeOK, Write
  <2>2. Overlay(content[fd[w]], saving[w]) \subseteq Content
    BY <2>1 DEF TypeOK, Overlay, Content
  <2> QED BY <1>3, <2>1, <2>2 DEF TypeOK, Write, names
<1>4. ASSUME NEW w \in Writers, Rename(w) PROVE TypeOK'
  BY <1>4, NoInodeAssumption DEF TypeOK, Rename, Return
<1>5. ASSUME NEW w \in Writers, Fail(w) PROVE TypeOK'
  BY <1>5, NoInodeAssumption DEF TypeOK, Fail, Return, Content, names
<1>6. ASSUME NEW r \in Readers, LoadOpen(r) \/ LoadRead(r) PROVE TypeOK'
  <2>1. Parse(content[rd[r]]) \in States \union {Default}
    BY DEF Parse
  <2> QED BY <1>6, <2>1 DEF TypeOK, LoadOpen, LoadRead, names
<1>7. CASE Restart
  BY <1>7 DEF TypeOK, Restart, names
<1>8. CASE UNCHANGED vars
  BY <1>8 DEF TypeOK, vars, names
<1> QED BY <1>1, <1>2, <1>3, <1>4, <1>5, <1>6, <1>7, <1>8 DEF Next

\* The types hold in every state, however many calls of Save overlap
\* (state.go:37-55).
THEOREM TypeCorrect == Spec => []TypeOK
<1>1. Init => TypeOK
  BY InitInv DEF IInv
<1> QED BY <1>1, TypeStep, PTL DEF Spec

\* A call of Save begins: it has touched nothing yet.
LEMMA SaveInv == \A w \in Writers : IInv /\ Save(w) => IInv'
<1> SUFFICES ASSUME NEW w \in Writers, IInv, Save(w) PROVE IInv'
  OBVIOUS
<1>1. TypeOK'
  BY TypeStep DEF IInv, Next
<1>2. Writing'
  BY DEF IInv, TypeOK, Writing, Save, names
<1>3. Settled'
  BY DEF IInv, Settled, Published, Save, names
<1> QED BY <1>1, <1>2, <1>3 DEF IInv

\* Opening the temporary file touches a file that no reader can reach.
LEMMA OpenInv == ASSUME OneWriter PROVE \A w \in Writers : IInv /\ Open(w) => IInv'
<1> SUFFICES ASSUME NEW w \in Writers, IInv, Open(w) PROVE IInv'
  OBVIOUS
<1> PICK i \in Inodes : /\ IF tmp = NoInode THEN i \notin Used ELSE i = tmp
                        /\ Target(i)
                        /\ fd' = [fd EXCEPT ![w] = i]
                        /\ content' = [content EXCEPT ![i] = "empty"]
  BY DEF Open
<1> USE DEF Target
<1>0. i # NoInode
  BY NoInodeAssumption
<1>1. TypeOK'
  BY TypeStep DEF IInv, Next
<1>2. Writing'
  BY <1>0 DEF IInv, TypeOK, Writing, Open, OneWriter
<1>3. i # path /\ \A r \in Readers : i # rd[r]
  BY <1>0 DEF IInv, Settled, Published, Used
<1>4. Settled'
  BY <1>3 DEF IInv, TypeOK, Settled, Published, Open
<1> QED BY <1>1, <1>2, <1>4 DEF IInv

\* Writing fills the temporary file with the state being saved.
LEMMA WriteInv == ASSUME OneWriter PROVE \A w \in Writers : IInv /\ Write(w) => IInv'
<1> SUFFICES ASSUME NEW w \in Writers, IInv, Write(w) PROVE IInv'
  OBVIOUS
<1>1. /\ fd[w] \in Inodes
      /\ tmp = fd[w]
      /\ saving[w] \in States
      /\ content[fd[w]] = "empty"
  BY DEF Write, IInv, TypeOK, Writing
<1>2. Overlay(content[fd[w]], saving[w]) = {saving[w]}
  BY <1>1, StatesAssumption DEF Overlay
<1>3. content' = [content EXCEPT ![fd[w]] = saving[w]]
  BY <1>2 DEF Write
<1>4. TypeOK'
  BY TypeStep DEF IInv, Next
<1>5. Writing'
  BY <1>1, <1>3 DEF IInv, TypeOK, Writing, Write, OneWriter, names
<1>6. Settled'
  BY <1>1, <1>3 DEF IInv, TypeOK, Settled, Published, Write, names
<1> QED BY <1>4, <1>5, <1>6 DEF IInv

\* The rename publishes the file that was written, under no other name.
LEMMA RenameInv == ASSUME OneWriter PROVE \A w \in Writers : IInv /\ Rename(w) => IInv'
<1> SUFFICES ASSUME NEW w \in Writers, IInv, Rename(w) PROVE IInv'
  OBVIOUS
<1>1. tmp \in Inodes /\ content[tmp] \in States
  BY DEF IInv, TypeOK, Writing, Rename
<1>2. TypeOK'
  BY TypeStep DEF IInv, Next
<1>3. Writing'
  BY DEF IInv, TypeOK, Writing, Rename, Return, OneWriter
<1>4. Settled'
  BY <1>1, NoInodeAssumption DEF IInv, TypeOK, Settled, Published, Rename, Return
<1> QED BY <1>2, <1>3, <1>4 DEF IInv

\* A Save that fails leaves at most a torn temporary file.
LEMMA FailInv == ASSUME OneWriter PROVE \A w \in Writers : IInv /\ Fail(w) => IInv'
<1> SUFFICES ASSUME NEW w \in Writers, IInv, Fail(w) PROVE IInv'
  OBVIOUS
<1>1. TypeOK'
  BY TypeStep DEF IInv, Next
<1>2. Writing'
  BY DEF IInv, TypeOK, Writing, Fail, Return, OneWriter, names
<1>3. Settled'
  BY NoInodeAssumption DEF IInv, TypeOK, Writing, Settled, Published, Fail, Return, names
<1> QED BY <1>1, <1>2, <1>3 DEF IInv

\* A Load opens the state file or reads the one it has opened.
LEMMA LoadInv == \A r \in Readers : IInv /\ (LoadOpen(r) \/ LoadRead(r)) => IInv'
<1> SUFFICES ASSUME NEW r \in Readers, IInv, LoadOpen(r) \/ LoadRead(r) PROVE IInv'
  OBVIOUS
<1>1. TypeOK'
  BY TypeStep DEF IInv, Next
<1>2. Writing'
  BY DEF IInv, TypeOK, Writing, LoadOpen, LoadRead, names
<1>3. Settled'
  BY DEF IInv, TypeOK, Settled, Published, LoadOpen, LoadRead, names
<1> QED BY <1>1, <1>2, <1>3 DEF IInv

\* A restart forgets every call and keeps the files.
LEMMA RestartInv == IInv /\ Restart => IInv'
<1> SUFFICES ASSUME IInv, Restart PROVE IInv'
  OBVIOUS
<1>1. TypeOK'
  BY TypeStep DEF IInv, Next
<1>2. Writing' /\ Settled'
  BY DEF IInv, Writing, Settled, Published, Restart, names
<1> QED BY <1>1, <1>2 DEF IInv

\* Every step keeps the invariant.
LEMMA NextInv == ASSUME OneWriter PROVE IInv /\ [Next]_vars => IInv'
<1> SUFFICES ASSUME IInv, [Next]_vars PROVE IInv'
  OBVIOUS
<1>1. ASSUME NEW w \in Writers, Save(w) \/ Open(w) \/ Write(w) \/ Rename(w) \/ Fail(w)
      PROVE IInv'
  BY <1>1, SaveInv, OpenInv, WriteInv, RenameInv, FailInv
<1>2. ASSUME NEW r \in Readers, LoadOpen(r) \/ LoadRead(r) PROVE IInv'
  BY <1>2, LoadInv
<1>3. CASE Restart
  BY <1>3, RestartInv
<1>4. CASE UNCHANGED vars
  BY <1>4 DEF IInv, TypeOK, Writing, Settled, Published, vars, names
<1> QED BY <1>1, <1>2, <1>3, <1>4 DEF Next

\* "Save writes state file atomically" (state.go:36): no state in which the
\* file is there and does not hold the whole of one saved state.
THEOREM FileStaysWhole == ASSUME OneWriter PROVE Spec => []FileIsWhole
<1>1. IInv => FileIsWhole
  BY DEF IInv, Settled, Published, FileIsWhole
<1> QED BY <1>1, InitInv, NextInv, PTL DEF Spec

\* The initial state of the store is that of the register.
LEMMA InitRefines == Init => Register!Init
  BY DEF Init, Register!Init, Value, Loaded

\* Every step of the store is a step of the register or leaves it as it is;
\* the register changes at the rename, and a Load reads it when it opens.
LEMMA NextRefines ==
  ASSUME OneWriter
  PROVE  IInv /\ [Next]_vars => [Register!Next]_(Register!registerVars)
<1> SUFFICES ASSUME IInv, [Next]_vars
             PROVE  Register!Next \/ UNCHANGED Register!registerVars
  OBVIOUS
<1> USE DEF Register!registerVars
\* What a step leaves alone of the files readers can reach, it leaves alone of
\* the register.
<1>a. ASSUME path' = path, rd' = rd, got' = got,
             path # NoInode => content'[path] = content[path],
             \A r \in Readers : rd[r] # NoInode => content'[rd[r]] = content[rd[r]]
      PROVE  Value' = Value /\ Loaded' = Loaded
  BY <1>a DEF Value, Loaded, Parse
<1>1. ASSUME NEW w \in Writers, Save(w) PROVE Register!Save(w)
  BY <1>1, <1>a DEF IInv, TypeOK, Save, Register!Save, names
<1>2. ASSUME NEW w \in Writers, Open(w) PROVE UNCHANGED Register!registerVars
  <2> PICK i \in Inodes : /\ IF tmp = NoInode THEN i \notin Used ELSE i = tmp
                          /\ Target(i)
                          /\ content' = [content EXCEPT ![i] = "empty"]
    BY <1>2 DEF Open
  <2>1. i # path /\ \A r \in Readers : i # rd[r]
    BY NoInodeAssumption DEF IInv, Settled, Published, Used
  <2> QED BY <1>2, <1>a, <2>1 DEF IInv, TypeOK, Open, Target
<1>3. ASSUME NEW w \in Writers, Write(w) PROVE UNCHANGED Register!registerVars
  <2> PICK c : content' = [content EXCEPT ![fd[w]] = c]
    BY <1>3 DEF Write
  <2>1. fd[w] = tmp
    BY <1>3 DEF Write, IInv, Writing
  <2> QED BY <1>3, <1>a, <2>1 DEF IInv, TypeOK, Settled, Published, Write, names
<1>4. ASSUME NEW w \in Writers, Rename(w) PROVE Register!Stored(w)
  <2>1. saving[w] \in States /\ content[tmp] = saving[w]
    BY <1>4 DEF IInv, TypeOK, Writing, Rename
  <2>2. Value' = saving[w]
    BY <1>4, <2>1 DEF Rename, Value, Parse
  <2>3. Loaded' = Loaded
    BY <1>4 DEF Rename, Loaded, Parse
  <2> QED BY <1>4, <2>1, <2>2, <2>3, StatesAssumption DEF Rename, Return, Register!Stored
<1>5. ASSUME NEW w \in Writers, Fail(w) PROVE Register!NotStored(w)
  <2>1. saving[w] # Nothing
    BY <1>5 DEF IInv, TypeOK, Fail
  <2>2. Value' = Value /\ Loaded' = Loaded
    <3>1. CASE UNCHANGED content
      BY <1>5, <1>a, <3>1 DEF Fail, names
    <3>2. CASE pc[w] = "write" /\ content' = [content EXCEPT ![fd[w]] = "torn"]
      <4>1. fd[w] = tmp
        BY <3>2 DEF IInv, Writing
      <4> QED BY <1>5, <1>a, <3>2, <4>1 DEF IInv, TypeOK, Settled, Published, Fail, names
    <3> QED BY <1>5, <3>1, <3>2 DEF Fail
  <2> QED BY <1>5, <2>1, <2>2 DEF Fail, Return, Register!NotStored
<1>6. ASSUME NEW r \in Readers, LoadOpen(r) PROVE Register!Load(r)
  <2>1. Value' = Value
    BY <1>6 DEF LoadOpen, Value, Parse, names
  <2>2. Loaded' = [Loaded EXCEPT ![r] = Value]
    BY <1>6 DEF IInv, TypeOK, LoadOpen, Loaded, Value, Parse, names
  <2> QED BY <1>6, <2>1, <2>2 DEF LoadOpen, Register!Load
<1>7. ASSUME NEW r \in Readers, LoadRead(r) PROVE UNCHANGED Register!registerVars
  <2>1. Value' = Value
    BY <1>7 DEF LoadRead, Value, Parse, names
  <2>2. Loaded' = Loaded
    BY <1>7 DEF IInv, TypeOK, LoadRead, Loaded, Parse, names
  <2> QED BY <1>7, <2>1, <2>2 DEF LoadRead
<1>8. ASSUME Restart PROVE Register!Restart
  <2>1. Value' = Value
    BY <1>8 DEF Restart, Value, Parse, names
  <2>2. Loaded' = [r \in Readers |-> Nothing]
    BY <1>8 DEF Restart, Loaded
  <2> QED BY <1>8, <2>1, <2>2 DEF Restart, Register!Restart
<1>9. CASE UNCHANGED vars
  BY <1>9, <1>a DEF vars, names
<1> QED
  BY <1>1, <1>2, <1>3, <1>4, <1>5, <1>6, <1>7, <1>8, <1>9 DEF Next, Register!Next

\* With one Save at a time the state file is an atomic register that a kill of
\* the greeter between any two system calls leaves intact (state.go:19, 36).
THEOREM Refinement == ASSUME OneWriter PROVE Spec => AtomicRegister
  BY InitInv, NextInv, InitRefines, NextRefines, PTL
     DEF Spec, AtomicRegister, Register!Spec

=============================================================================
