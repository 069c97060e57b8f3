------------------------ MODULE WebviewBridge_proofs ------------------------
(***************************************************************************)
(* Whatever goroutines do to one another's indices, no promise is settled  *)
(* twice, and no answer is lost without a panic, for any calls and any     *)
(* bound on the index.                                                     *)
(***************************************************************************)
EXTENDS WebviewBridge, FiniteSetTheorems, TLAPS

\* The indices that something is filed under, and the goroutines that have
\* filed theirs and not yet posted.
Filed   == {i \in Index : dispatch[i] # NoJob}
Posting == {j \in Jobs : pc[j] = "post"}

\* A callback is filed by its own goroutine, before it runs, under one index.
Filing ==
  /\ \A i \in Index : dispatch[i] # NoJob =>
       /\ pc[dispatch[i]] \in {"post", "sent"}
       /\ ran[dispatch[i]] = 0
  /\ \A i, k \in Index : dispatch[i] = dispatch[k] /\ dispatch[i] # NoJob => i = k

\* It stays there until it runs.
FiledUntilRun ==
  \A j \in Jobs : pc[j] \in {"post", "sent"} => Ran(j) \/ \E i \in Index : dispatch[i] = j

\* Until a nil function is called, what is filed is as much as what has been
\* posted or will be, even if it is not the same.
Counted ==
  /\ IsFiniteSet(Posting)
  /\ Alive => Cardinality(Filed) = Len(posted) + Cardinality(Posting)

IInv == TypeOK /\ SettledOnce /\ Filing /\ FiledUntilRun /\ Counted

\* There are finitely many indices.
LEMMA FiledFinite ==
  IsFiniteSet(Filed) /\ Cardinality(Filed) \in Nat
<1>1. IsFiniteSet(Index)
  BY MaxIndexAssumption, FS_Interval DEF Index
<1>2. Filed \in SUBSET Index
  BY DEF Filed
<1>3. IsFiniteSet(Filed)
  BY <1>1, <1>2, FS_Subset
<1> QED BY <1>3, FS_CardinalityType

LEMMA InitInv == Init => IInv
<1> SUFFICES ASSUME Init PROVE IInv
  OBVIOUS
<1>1. TypeOK
  BY JobsAssumption, MaxIndexAssumption DEF Init, TypeOK, Jobs, Index
<1>2. SettledOnce /\ Filing /\ FiledUntilRun
  BY DEF Init, SettledOnce, Ran, Filing, FiledUntilRun, Jobs
<1>3. Filed = {} /\ Posting = {} /\ Len(posted) = 0
  BY DEF Init, Filed, Posting, Jobs
<1>4. Counted
  BY <1>3, FS_EmptySet DEF Counted
<1> QED BY <1>1, <1>2, <1>4 DEF IInv

\* No step breaks the types.
LEMMA TypeStep == TypeOK /\ [Next]_vars => TypeOK'
<1> SUFFICES ASSUME TypeOK, [Next]_vars PROVE TypeOK'
  OBVIOUS
<1> USE JobsAssumption, MaxIndexAssumption DEF TypeOK, Goto
<1>1. ASSUME NEW c \in Calls, Call(c) PROVE TypeOK'
  BY <1>1 DEF Call, Jobs
<1>2. ASSUME NEW c \in Calls, Handled(c) PROVE TypeOK'
  BY <1>2 DEF Handled, Jobs
<1>3. ASSUME NEW j \in Jobs, Lock(j) PROVE TypeOK'
  BY <1>3 DEF Lock
<1>4. ASSUME NEW j \in Jobs, Skip(j) PROVE TypeOK'
  BY <1>4 DEF Skip, Index
<1>5. ASSUME NEW j \in Jobs, Store(j) PROVE TypeOK'
  BY <1>5 DEF Store, Unlock
<1>6. ASSUME NEW j \in Jobs, Post(j) PROVE TypeOK'
  <2>1. posted' \in Seq(Index \union Other)
    BY <1>6 DEF Post
  <2> QED BY <1>6, <2>1 DEF Post
<1>7. CASE Run(<<>>)
  <2>1. posted' \in Seq(Index \union Other)
    BY <1>7 DEF Run
  <2>2. Head(posted) \in Index /\ dispatch[Head(posted)] \in Jobs \union {NoJob}
    BY <1>7 DEF Run
  <2>3. dispatch' \in [Index -> Jobs \union {NoJob}]
    BY <1>7 DEF Run, Take
  <2> DEFINE f == dispatch[Head(posted)]
  <2>4. Invoke(f)
    BY <1>7 DEF Run
  <2>5. CASE f = NoJob
    BY <2>4, <2>5, <1>7, <2>1, <2>3 DEF Invoke, Run
  <2>6. CASE f # NoJob
    <3>1. f \in Jobs /\ ran[f] + 1 \in Nat
      BY <2>2, <2>6
    <3>2. ran' = [ran EXCEPT ![f] = ran[f] + 1] /\ panicked' = panicked
      BY <2>4, <2>6 DEF Invoke
    <3>3. ran' \in [Jobs -> Nat]
      BY <3>1, <3>2
    <3> QED BY <3>2, <3>3, <1>7, <2>1, <2>3 DEF Run
  <2> QED BY <2>5, <2>6
<1>8. CASE UNCHANGED vars
  BY <1>8 DEF vars
<1> QED BY <1>1, <1>2, <1>3, <1>4, <1>5, <1>6, <1>7, <1>8 DEF Next, DispatchOn

\* Types of the bridge, for any calls (webview.go:83-159).
THEOREM TypeCorrect == Spec => []TypeOK
<1>1. Init => TypeOK
  BY InitInv DEF IInv
<1> QED BY <1>1, TypeStep, PTL DEF Spec

-----------------------------------------------------------------------------
\* Steps that file, post and run nothing.
LEMMA QuietInv ==
  ASSUME IInv, TypeOK', UNCHANGED <<dispatch, posted, ran, panicked>>,
         \A j \in Jobs : \/ pc'[j] = pc[j]
                         \/ pc[j] \notin {"post", "sent"} /\ pc'[j] \notin {"post", "sent"}
  PROVE  IInv'
<1>1. SettledOnce'
  BY DEF IInv, TypeOK, SettledOnce, Ran
<1>2. Filing'
  BY DEF IInv, TypeOK, Filing
<1>3. FiledUntilRun'
  BY DEF IInv, FiledUntilRun, Ran
<1>4. Filed' = Filed /\ Posting' = Posting
  BY DEF Filed, Posting
<1>5. Counted'
  BY <1>4 DEF IInv, Counted, Alive
<1> QED BY <1>1, <1>2, <1>3, <1>5 DEF IInv

\* A goroutine files its callback, under an index that is free.
LEMMA StoreInv == \A j \in Jobs : IInv /\ Store(j) => IInv'
<1> SUFFICES ASSUME NEW j \in Jobs, IInv, Store(j) PROVE IInv'
  OBVIOUS
<1> USE JobsAssumption
<1>0. /\ TypeOK /\ TypeOK'
      /\ pc[j] = "scan" /\ pc' = [pc EXCEPT ![j] = "post"]
      /\ dispatch[index] = NoJob /\ dispatch' = [dispatch EXCEPT ![index] = j]
      /\ index \in Index
      /\ UNCHANGED <<posted, ran, panicked>>
  BY TypeStep DEF IInv, Next, DispatchOn, Store, Free, Goto, TypeOK
<1>1. SettledOnce'
  BY <1>0 DEF IInv, TypeOK, SettledOnce, Ran
<1>2. ran[j] = 0
  BY <1>0 DEF IInv, TypeOK, SettledOnce, Ran
<1>3. \A i \in Index : dispatch[i] # j
  BY <1>0 DEF IInv, Filing
<1>4. Filing'
  BY <1>0, <1>2, <1>3 DEF IInv, TypeOK, Filing
<1>5. FiledUntilRun'
  <2> SUFFICES ASSUME NEW k \in Jobs, pc'[k] \in {"post", "sent"}
               PROVE  Ran(k)' \/ \E i \in Index : dispatch'[i] = k
    BY DEF FiledUntilRun
  <2>1. CASE k = j
    BY <1>0, <2>1 DEF TypeOK
  <2>2. CASE k # j
    <3>1. Ran(k) \/ \E i \in Index : dispatch[i] = k
      BY <1>0, <2>2 DEF IInv, FiledUntilRun, TypeOK
    <3> QED BY <1>0, <3>1 DEF Ran, TypeOK
  <2> QED BY <2>1, <2>2
<1>6. Filed' = Filed \union {index} /\ index \notin Filed
  BY <1>0 DEF Filed, TypeOK
<1>7. Posting' = Posting \union {j} /\ j \notin Posting
  BY <1>0 DEF Posting, TypeOK
<1>8. Counted'
  <2>1. IsFiniteSet(Posting) /\ Cardinality(Posting) \in Nat
    BY FS_CardinalityType DEF IInv, Counted
  <2>2. Cardinality(Filed') = Cardinality(Filed) + 1
    BY <1>6, FiledFinite, FS_AddElement
  <2>3. IsFiniteSet(Posting') /\ Cardinality(Posting') = Cardinality(Posting) + 1
    BY <1>7, <2>1, FS_AddElement
  <2>4. Len(posted) \in Nat
    BY <1>0 DEF TypeOK
  <2> QED BY <1>0, <2>1, <2>2, <2>3, <2>4, FiledFinite DEF IInv, Counted, Alive
<1> QED BY <1>0, <1>1, <1>4, <1>5, <1>8 DEF IInv

\* It posts an index, its own or another's.
LEMMA PostInv == \A j \in Jobs : IInv /\ Post(j) => IInv'
<1> SUFFICES ASSUME NEW j \in Jobs, IInv, Post(j) PROVE IInv'
  OBVIOUS
<1>0. /\ TypeOK /\ TypeOK'
      /\ pc[j] = "post" /\ pc' = [pc EXCEPT ![j] = "sent"]
      /\ posted' = Append(posted, index)
      /\ UNCHANGED <<dispatch, ran, panicked>>
  BY TypeStep DEF IInv, Next, DispatchOn, Post, Goto
<1>1. SettledOnce'
  BY <1>0 DEF IInv, TypeOK, SettledOnce, Ran
<1>2. Filing'
  BY <1>0 DEF IInv, TypeOK, Filing
<1>3. FiledUntilRun'
  BY <1>0 DEF IInv, TypeOK, FiledUntilRun, Ran
<1>4. Filed' = Filed /\ Posting' = Posting \ {j} /\ j \in Posting
  BY <1>0 DEF Filed, Posting, TypeOK
<1>5. Counted'
  <2>1. IsFiniteSet(Posting) /\ Cardinality(Posting) \in Nat
    BY FS_CardinalityType DEF IInv, Counted
  <2>2. IsFiniteSet(Posting') /\ Cardinality(Posting') = Cardinality(Posting) - 1
    BY <1>4, <2>1, FS_RemoveElement
  <2>3. Len(posted) \in Nat /\ Len(posted') = Len(posted) + 1
    BY <1>0 DEF TypeOK
  <2> QED BY <1>0, <1>4, <2>1, <2>2, <2>3, FiledFinite DEF IInv, Counted, Alive
<1> QED BY <1>0, <1>1, <1>2, <1>3, <1>5 DEF IInv

\* The main loop calls what is filed under the next index, or panics.
LEMMA RunInv == IInv /\ Run(<<>>) => IInv'
<1> SUFFICES ASSUME IInv, Run(<<>>) PROVE IInv'
  OBVIOUS
<1> USE JobsAssumption
<1> DEFINE h == Head(posted)
           f == dispatch[h]
<1>0. /\ TypeOK /\ TypeOK'
      /\ posted # <<>> /\ posted' = Tail(posted) /\ h \in Index
      /\ dispatch' = [dispatch EXCEPT ![h] = NoJob]
      /\ Invoke(f) /\ Alive
      /\ UNCHANGED pc
  <2>1. TypeOK /\ TypeOK'
    BY TypeStep DEF IInv, Next
  <2>2. Tail(posted) \o <<>> = Tail(posted)
    BY <2>1 DEF TypeOK, Run
  <2> QED BY <2>1, <2>2 DEF Run, Take
<1>1. Posting' = Posting
  BY <1>0 DEF Posting
<1>2. CASE f = NoJob
  <2>1. dispatch' = dispatch /\ ran' = ran /\ panicked'
    BY <1>0, <1>2 DEF Invoke, TypeOK
  <2>2. SettledOnce' /\ Filing' /\ FiledUntilRun'
    BY <1>0, <2>1 DEF IInv, SettledOnce, Filing, FiledUntilRun, Ran
  <2>3. Counted'
    BY <1>1, <2>1 DEF IInv, Counted, Alive
  <2> QED BY <1>0, <2>2, <2>3 DEF IInv
<1>3. CASE f # NoJob
  <2>1. f \in Jobs /\ ran' = [ran EXCEPT ![f] = ran[f] + 1] /\ panicked' = panicked
    BY <1>0, <1>3 DEF Invoke, TypeOK
  <2>2. pc[f] \in {"post", "sent"} /\ ran[f] = 0
    BY <1>0, <1>3 DEF IInv, Filing
  <2>3. ran'[f] = 1 /\ \A j \in Jobs : j # f => ran'[j] = ran[j]
    BY <1>0, <2>1, <2>2 DEF TypeOK
  <2>4. SettledOnce'
    BY <1>0, <2>2, <2>3 DEF IInv, SettledOnce, Ran
  <2>5. \A i \in Index : dispatch'[i] = IF i = h THEN NoJob ELSE dispatch[i]
    BY <1>0 DEF TypeOK
  <2>6. \A i \in Index : dispatch'[i] # NoJob =>
          dispatch[i] # NoJob /\ dispatch'[i] = dispatch[i] /\ dispatch[i] # f
    BY <1>0, <1>3, <2>5 DEF IInv, Filing
  <2>7. Filing'
    <3>1. ASSUME NEW i \in Index, dispatch'[i] # NoJob
          PROVE  pc'[dispatch'[i]] \in {"post", "sent"} /\ ran'[dispatch'[i]] = 0
      <4>1. dispatch[i] \in Jobs
        BY <1>0, <2>6, <3>1 DEF TypeOK
      <4> QED BY <1>0, <2>3, <2>6, <3>1, <4>1 DEF IInv, Filing
    <3>2. \A i, k \in Index : dispatch'[i] = dispatch'[k] /\ dispatch'[i] # NoJob => i = k
      BY <2>6 DEF IInv, Filing
    <3> QED BY <3>1, <3>2 DEF Filing
  <2>8. FiledUntilRun'
    <3> SUFFICES ASSUME NEW j \in Jobs, pc[j] \in {"post", "sent"}
                 PROVE  Ran(j)' \/ \E i \in Index : dispatch'[i] = j
      BY <1>0 DEF FiledUntilRun
    <3>1. CASE j = f
      BY <2>3, <3>1 DEF Ran
    <3>2. CASE j # f
      BY <2>3, <2>5, <3>2 DEF IInv, FiledUntilRun, Ran
    <3> QED BY <3>1, <3>2
  <2>9. Filed' = Filed \ {h} /\ h \in Filed
    BY <1>0, <1>3, <2>5 DEF Filed
  <2>10. Counted'
    <3>1. Cardinality(Filed') = Cardinality(Filed) - 1
      BY <2>9, FiledFinite, FS_RemoveElement
    <3>2. Len(posted) \in Nat /\ Len(posted') = Len(posted) - 1
      BY <1>0 DEF TypeOK
    <3>3. Cardinality(Posting) \in Nat
      BY FS_CardinalityType DEF IInv, Counted
    <3> QED BY <1>0, <1>1, <2>1, <3>1, <3>2, <3>3, FiledFinite DEF IInv, Counted, Alive
  <2> QED BY <1>0, <2>4, <2>7, <2>8, <2>10 DEF IInv
<1> QED BY <1>2, <1>3

\* Every step preserves the invariant.
LEMMA NextInv == IInv /\ [Next]_vars => IInv'
<1> SUFFICES ASSUME IInv, [Next]_vars PROVE IInv'
  OBVIOUS
<1>0. TypeOK /\ TypeOK'
  BY TypeStep DEF IInv
<1>1. ASSUME NEW c \in Calls, Call(c) \/ Handled(c) PROVE IInv'
  <2>1. \A j \in Jobs : j # c => pc'[j] = pc[j]
    BY <1>0, <1>1 DEF Call, Handled, Goto, TypeOK
  <2>2. pc[c] \in {"idle", "handler"} /\ pc'[c] \in {"handler", "lock"}
    BY <1>0, <1>1 DEF Call, Handled, Goto, TypeOK, Jobs
  <2>3. UNCHANGED <<dispatch, posted, ran, panicked>>
    BY <1>1 DEF Call, Handled
  <2> QED BY <1>0, <2>1, <2>2, <2>3, QuietInv
<1>2. ASSUME NEW j \in Jobs, Lock(j) PROVE IInv'
  <2>1. \A k \in Jobs : k # j => pc'[k] = pc[k]
    BY <1>0, <1>2 DEF Lock, Goto, TypeOK
  <2>2. pc[j] = "lock" /\ pc'[j] = "scan"
    BY <1>0, <1>2 DEF Lock, Goto, TypeOK
  <2>3. UNCHANGED <<dispatch, posted, ran, panicked>>
    BY <1>2 DEF Lock
  <2> QED BY <1>0, <2>1, <2>2, <2>3, QuietInv
<1>3. ASSUME NEW j \in Jobs, Skip(j) PROVE IInv'
  BY <1>0, <1>3, QuietInv DEF Skip
<1>4. CASE UNCHANGED vars
  BY <1>0, <1>4, QuietInv DEF vars
<1> QED BY <1>1, <1>2, <1>3, <1>4, StoreInv, PostInv, RunInv DEF Next, DispatchOn

\* The invariant holds in every state.
THEOREM Invariant == Spec => []IInv
  BY InitInv, NextInv, PTL DEF Spec

\* A promise is settled at most once, and after its handler has returned,
\* whichever index its goroutine has posted (webview.go:139-159).
THEOREM NeverTwice == Spec => []SettledOnce
<1>1. IInv => SettledOnce
  BY DEF IInv
<1> QED BY <1>1, Invariant, PTL

\* An answer that is lost takes the process with it (webview.go:153-159).
THEOREM LossPanics == Spec => []NoSilentLoss
<1>1. IInv => NoSilentLoss
  <2> SUFFICES ASSUME IInv, posted = <<>>, Alive, \A j \in Jobs : pc[j] # "post",
                      NEW j \in Jobs, pc[j] = "sent"
               PROVE  Ran(j)
    BY DEF NoSilentLoss
  <2>1. Posting = {} /\ Len(posted) = 0
    BY DEF Posting
  <2>2. Cardinality(Filed) = 0
    BY <2>1, FS_EmptySet DEF IInv, Counted
  <2>3. Filed = {}
    BY <2>2, FiledFinite, FS_EmptySet
  <2> QED BY <2>3, JobsAssumption DEF IInv, FiledUntilRun, Filed
<1> QED BY <1>1, Invariant, PTL
=============================================================================
