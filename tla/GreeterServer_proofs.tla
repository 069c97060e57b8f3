------------------------ MODULE GreeterServer_proofs ------------------------
(***************************************************************************)
(* Machine-checked proofs about GreeterServer, for every set of users and  *)
(* callers and for every bound; and that its handlers, for front ends that *)
(* step through a login, implement those of AuthService.                   *)
(***************************************************************************)
EXTENDS StepwiseServer, SequenceTheorems, TLAPS

-----------------------------------------------------------------------------
(* Sequences used as queues. *)

\* Appending to a queue: its length, and its head, which changes only if it was empty.
LEMMA Enqueue ==
  ASSUME NEW S, NEW s \in Seq(S), NEW e \in S
  PROVE  /\ Append(s, e) \in Seq(S)
         /\ Append(s, e) # <<>>
         /\ Len(Append(s, e)) = Len(s) + 1
         /\ Head(Append(s, e)) = IF s = <<>> THEN e ELSE Head(s)
  <1>1. /\ Append(s, e) \in Seq(S)
        /\ Append(s, e) # <<>>
        /\ Len(Append(s, e)) = Len(s) + 1
    BY AppendProperties
  <1>2. Head(Append(s, e)) = IF s = <<>> THEN e ELSE Head(s)
    BY HeadTailAppend
  <1>3. QED
    BY <1>1, <1>2

\* Only the empty queue has length zero.
LEMMA EmptyQueue ==
  ASSUME NEW S, NEW s \in Seq(S)
  PROVE  /\ Len(s) \in Nat
         /\ s = <<>> <=> Len(s) = 0
  BY EmptySeq, LenProperties

\* Taking the head off a queue.
LEMMA Dequeue ==
  ASSUME NEW S, NEW s \in Seq(S), s # <<>>
  PROVE  /\ Head(s) \in S
         /\ Tail(s) \in Seq(S)
         /\ Len(Tail(s)) = Len(s) - 1
         /\ Len(s) = 1 => Tail(s) = <<>>
  <1>1. /\ Head(s) \in S
        /\ Tail(s) \in Seq(S)
        /\ Len(Tail(s)) = Len(s) - 1
    BY HeadTailProperties
  <1>2. Len(s) = 1 => Tail(s) = <<>>
    <2>1. Tail(s) = <<>> <=> Len(Tail(s)) = 0
      BY <1>1, EmptyQueue, Zenon
    <2>2. QED
      BY <1>1, <2>1
  <1>3. QED
    BY <1>1, <1>2

-----------------------------------------------------------------------------
(* Type correctness. *)

\* What greetd does to the channel when it serves a request.
LEMMA ServeChannel ==
  ASSUME TypeOK, Serve
  PROVE  /\ reqs # <<>>
         /\ Head(reqs) \in Request
         /\ reqs' = Tail(reqs)
         /\ reqs' \in Seq(Request)
         /\ up' = up
         /\ \E t \in ReplyType : reps' = Append(reps, [type |-> t, to |-> Head(reqs).op])
         /\ reps' \in Seq(Reply)
  <1>1. reqs \in Seq(Request) /\ reps \in Seq(Reply)
    BY DEF TypeOK, ClientTypeOK, GreetdTypeOK
  <1>2. reqs # <<>>
    BY DEF Serve, ServeCreate, ServePost, ServeStart, ServeCancel, Serving
  <1>3. Head(reqs) \in Request /\ Tail(reqs) \in Seq(Request)
    BY <1>1, <1>2, Dequeue
  <1>4. \E t \in ReplyType : Answer(t)
    BY DEF Serve, ServeCreate, ServePost, ServeStart, ServeCancel, Pam, Reject, ReplyType
  <1>5. PICK t \in ReplyType : Answer(t)
    BY <1>4
  <1>6. [type |-> t, to |-> Head(reqs).op] \in Reply
    BY <1>3 DEF Reply, Request
  <1>7. Append(reps, [type |-> t, to |-> Head(reqs).op]) \in Seq(Reply)
    BY <1>1, <1>6, Enqueue
  <1>8. QED
    BY <1>2, <1>3, <1>5, <1>7 DEF Answer

\* What greetd does to the session it has under configuration.
LEMMA ServeSession ==
  ASSUME TypeOK, Serve
  PROVE  /\ session' \in Phase
         /\ owner' \in Arg
         /\ asked' \in Question \union {"none"}
         /\ asks' \in 0..MaxAsks
  <1> USE MaxAsksAssumption DEF Phase
  <1>1. /\ session \in Phase
        /\ owner \in Arg
        /\ asked \in Question \union {"none"}
        /\ asks \in 0..MaxAsks
    BY DEF TypeOK, ClientTypeOK, GreetdTypeOK
  <1>2. Head(reqs).arg \in Arg
    BY ServeChannel DEF Request
  <1>3. ASSUME NEW n \in 0..MaxAsks, Pam(n)
        PROVE  /\ session' \in Phase
               /\ asked' \in Question \union {"none"}
               /\ asks' \in 0..MaxAsks
    BY <1>3 DEF Pam
  <1>4. CASE ServeCreate
    BY <1>1, <1>2, <1>3, <1>4 DEF ServeCreate, Reject, pamVars
  <1>5. CASE ServePost
    BY <1>1, <1>3, <1>5 DEF ServePost, Reject, pamVars
  <1>6. CASE ServeStart
    BY <1>1, <1>6 DEF ServeStart, Reject, pamVars
  <1>7. CASE ServeCancel
    BY <1>1, <1>7 DEF ServeCancel, pamVars, Arg
  <1>8. QED
    BY <1>4, <1>5, <1>6, <1>7 DEF Serve

\* Reading a reply, or failing to, keeps the queue of replies and its type.
LEMMA RecvTypes ==
  ASSUME TypeOK, NEW o \in Outcome, Recv(o)
  PROVE  /\ UNCHANGED <<session, owner, asked, asks, up>>
         /\ reps' \in Seq(Reply)
         /\ timeouts' \in 0..MaxTimeouts
  <1>1. reps \in Seq(Reply) /\ timeouts \in 0..MaxTimeouts
    BY DEF TypeOK, ClientTypeOK, GreetdTypeOK
  <1>2. UNCHANGED <<session, owner, asked, asks, up>>
    BY DEF Recv, pamVars
  <1>3. CASE RecvReply(o)
    BY <1>1, <1>2, <1>3, Dequeue DEF RecvReply
  <1>4. CASE RecvTimeout(o)
    BY <1>1, <1>2, <1>4, MaxTimeoutsAssumption DEF RecvTimeout
  <1>5. CASE RecvClosed(o)
    BY <1>1, <1>2, <1>5 DEF RecvClosed
  <1>6. QED
    BY <1>2, <1>3, <1>4, <1>5 DEF Recv

\* A request the server writes joins the queue while greetd runs.
LEMMA SendTypes ==
  ASSUME TypeOK, NEW r \in Request, Send(r)
  PROVE  reqs' \in Seq(Request)
  <1>1. reqs \in Seq(Request)
    BY DEF TypeOK, ClientTypeOK, GreetdTypeOK
  <1>2. QED
    BY <1>1, Enqueue DEF Send

\* What the server asks of greetd and where the answer takes it.
LEMMA AskTypes ==
  ASSUME TypeOK, NEW s \in Stage, NEW r \in Request, Ask(s, r)
  PROVE  /\ reqs' \in Seq(Request)
         /\ stage' \in Stage
         /\ UNCHANGED <<mu, call, verdict>>
  BY SendTypes DEF Ask

\* What a handler that returns leaves: no mutex, no stage, no call.
LEMMA ReturnTypes ==
  ASSUME TypeOK, NEW c \in Callers, NEW v \in Verdict, Return(c, v)
  PROVE  /\ reqs' \in Seq(Request)
         /\ stage' = "none"
         /\ mu' = Nobody
         /\ call' \in [Callers -> Call]
         /\ call' = [call EXCEPT ![c] = NoCall]
         /\ verdict' = v
  <1>1. NoCall \in Call
    BY DEF NoCall, MkCall, Call, Arg
  <1>2. reqs \in Seq(Request) /\ call \in [Callers -> Call]
    BY DEF TypeOK, ClientTypeOK, GreetdTypeOK
  <1>3. QED
    BY <1>1, <1>2 DEF Return, Release

\* Every request the server can write is well formed.
LEMMA RequestTypes ==
  ASSUME NEW k \in Call, NEW s \in Stage
  PROVE  /\ RequestOf(s, k) \in Request
         /\ PostAuthResponse(k.secret) \in Request
         /\ PostAuthResponse(NoArg) \in Request
         /\ StartSession \in Request
         /\ CancelSession \in Request
  BY DEF Call, RequestOf, CreateSession, PostAuthResponse, StartSession, CancelSession,
         Request, RequestOp, Arg

-----------------------------------------------------------------------------
(***************************************************************************)
(* The inductive invariant.  The safety properties speak of a reply being  *)
(* read, or of a saved user; what makes them hold is what the holder of    *)
(* the mutex, the channel and greetd's session have in common while the    *)
(* request is still under way.                                             *)
(***************************************************************************)
StageOps(s) ==
  CASE s = "cancel" -> {"Authenticate", "Login", "BeginAuth", "CancelAuth"}
    [] s = "create" -> {"Authenticate", "Login", "BeginAuth"}
    [] s = "post"   -> {"Authenticate", "Login", "BeginAuth", "RespondAuth"}
    [] s = "start"  -> {"Login", "StartSession"}
    [] s = "abort"  -> {"BeginAuth", "RespondAuth"}
    [] OTHER        -> {}

\* The mutex is held exactly while a reply is awaited, by a call of that kind.
Locking ==
  /\ mu = Nobody <=> stage = "none"
  /\ mu # Nobody => call[mu].op \in StageOps(stage)

\* A greetd that is gone has no request left to serve.
Closed == ~up => reqs = <<>>

\* In sync, the only message in the channel belongs to the stage.
InFlight ==
  /\ Len(reqs) + Len(reps) <= IF mu = Nobody THEN 0 ELSE 1
  /\ reqs # <<>> => Head(reqs).op = OpOf(stage)
  /\ reps # <<>> => Head(reps).to = OpOf(stage)

\* In sync, greetd is where the holder's next decision takes it to be.
HolderKnows ==
  /\ stage = "create" /\ reqs # <<>> =>
       session \in {"idle", "started"} /\ Head(reqs).arg = call[mu].user
  /\ stage = "create" /\ reps # <<>> /\ Head(reps).type # "error" => owner = call[mu].user
  /\ stage \in {"create", "post"} /\ reps # <<>> =>
       /\ Head(reps).type \in Question => session = "conversing"
       /\ Head(reps).type = "success"  => session = "ready"
  /\ stage = "post" /\ call[mu].op # "RespondAuth" => owner = call[mu].user
  /\ stage = "start" /\ call[mu].op = "Login" => owner = call[mu].user
  /\ stage = "start" /\ reps # <<>> /\ Head(reps).type = "success" => session = "started"
  /\ stage \in {"cancel", "abort"} /\ reps # <<>> => session \in {"idle", "started"}

SyncInv == InFlight /\ HolderKnows /\ SavedUserWasStarted

IInv == TypeOK /\ Locking /\ Closed /\ ReplyLag /\ (InSync => SyncInv)

\* The initial state satisfies it.
LEMMA InitInv == Init => IInv
  <1> SUFFICES ASSUME Init PROVE IInv
    OBVIOUS
  <1> USE DEF Init, ClientInit, GreetdInit
  <1>1. TypeOK
    <2>1. NoCall \in Call
      BY DEF NoCall, MkCall, Call, Arg
    <2>2. reqs \in Seq(Request) /\ reps \in Seq(Reply)
      BY EmptySeq
    <2>3. QED
      BY <2>1, <2>2, MaxAsksAssumption, MaxTimeoutsAssumption
         DEF TypeOK, ClientTypeOK, GreetdTypeOK, Phase, Arg, Stage, Verdict
  <1>2. Locking /\ Closed
    BY DEF Locking, Closed
  <1>3. Len(reqs) = 0 /\ Len(reps) = 0
    BY EmptySeq
  <1>4. ReplyLag
    BY <1>3 DEF ReplyLag
  <1>5. SyncInv
    BY <1>3 DEF SyncInv, InFlight, HolderKnows, SavedUserWasStarted
  <1>6. QED
    BY <1>1, <1>2, <1>4, <1>5 DEF IInv

-----------------------------------------------------------------------------
(* What the holder of the mutex does, as far as the channel goes. *)

\* Reading a reply takes one message out of the channel, or a deadline is
\* missed; in sync the channel is empty afterwards.
LEMMA Received ==
  ASSUME IInv, mu # Nobody, NEW o \in Outcome, Recv(o)
  PROVE  /\ up => Len(reqs) + Len(reps') = timeouts'
         /\ InSync' => /\ InSync
                       /\ reqs = <<>>
                       /\ reps' = <<>>
                       /\ \/ reps # <<>> /\ o = Head(reps).type
                          \/ o = "failed" /\ reps = <<>> /\ ~up
  <1>1. /\ reqs \in Seq(Request)
        /\ reps \in Seq(Reply)
        /\ timeouts \in 0..MaxTimeouts
    BY DEF IInv, TypeOK, ClientTypeOK, GreetdTypeOK
  <1>2. /\ Len(reqs) \in Nat /\ (reqs = <<>> <=> Len(reqs) = 0)
        /\ Len(reps) \in Nat /\ (reps = <<>> <=> Len(reps) = 0)
    BY <1>1, EmptyQueue
  <1>3. up => Len(reqs) + Len(reps) = timeouts + 1
    BY DEF IInv, ReplyLag
  <1>4. InSync => Len(reqs) + Len(reps) <= 1
    BY DEF IInv, SyncInv, InFlight
  <1>5. ~up => reqs = <<>>
    BY DEF IInv, Closed
  <1>6. CASE RecvReply(o)
    <2>1. reps # <<>> /\ o = Head(reps).type /\ reps' = Tail(reps) /\ timeouts' = timeouts
      BY <1>6 DEF RecvReply
    <2>2. /\ Len(reps') = Len(reps) - 1
          /\ Len(reps) = 1 => reps' = <<>>
      BY <1>1, <2>1, Dequeue
    <2>3. InSync' => InSync
      BY <2>1 DEF InSync
    <2>4. QED
      BY <1>1, <1>2, <1>3, <1>4, <2>1, <2>2, <2>3
  <1>7. CASE RecvTimeout(o)
    <2>1. up /\ timeouts' = timeouts + 1 /\ reps' = reps
      BY <1>7 DEF RecvTimeout
    <2>2. ~InSync'
      BY <1>1, <2>1 DEF InSync
    <2>3. QED
      BY <1>1, <1>2, <1>3, <2>1, <2>2
  <1>8. CASE RecvClosed(o)
    BY <1>5, <1>8 DEF RecvClosed, InSync
  <1>9. QED
    BY <1>6, <1>7, <1>8 DEF Recv

\* Going on with a further request: everything but what the new stage knows
\* of greetd's session, which the caller of the lemma has to show.
LEMMA AskPreserves ==
  ASSUME IInv, NEW c \in Callers, Holds(c), NEW o \in Outcome, Recv(o),
         NEW s \in Stage \ {"none"}, NEW r \in Request, Ask(s, r),
         r.op = OpOf(s), call[c].op \in StageOps(s), UNCHANGED saved
  PROVE  /\ TypeOK' /\ Locking' /\ Closed' /\ ReplyLag'
         /\ UNCHANGED <<session, owner, mu, call>>
         /\ stage' = s
         /\ InSync' => InFlight' /\ reps' = <<>> /\ (reqs' # <<>> => Head(reqs') = r)
  <1>0. TypeOK
    BY DEF IInv
  <1>1. mu = c /\ mu # Nobody
    BY CallersAssumption DEF Holds
  <1>2. /\ UNCHANGED <<session, owner, asked, asks, up>>
        /\ reps' \in Seq(Reply)
        /\ timeouts' \in 0..MaxTimeouts
    BY <1>0, RecvTypes
  <1>3. /\ reqs' \in Seq(Request)
        /\ stage' = s
        /\ UNCHANGED <<mu, call, verdict>>
    BY <1>0, AskTypes DEF Ask
  <1>4. TypeOK'
    BY <1>0, <1>2, <1>3 DEF TypeOK, ClientTypeOK, GreetdTypeOK
  <1>5. Locking'
    BY <1>1, <1>3 DEF Locking
  <1>6. reqs' = IF up THEN Append(reqs, r) ELSE reqs
    BY DEF Ask, Send
  <1>7. Closed'
    BY <1>2, <1>6 DEF IInv, Closed
  <1>8. reqs \in Seq(Request)
    BY <1>0 DEF TypeOK, ClientTypeOK, GreetdTypeOK
  <1>9. /\ Len(Append(reqs, r)) = Len(reqs) + 1
        /\ Append(reqs, r) # <<>>
        /\ Head(Append(reqs, r)) = IF reqs = <<>> THEN r ELSE Head(reqs)
    BY <1>8, Enqueue
  <1>10. /\ Len(reqs) \in Nat /\ (reqs = <<>> <=> Len(reqs) = 0)
         /\ Len(reps') \in Nat /\ (reps' = <<>> <=> Len(reps') = 0)
    BY <1>2, <1>8, EmptyQueue
  <1>11. /\ up => Len(reqs) + Len(reps') = timeouts'
         /\ InSync' => reqs = <<>> /\ reps' = <<>>
    BY <1>1, Received
  <1>12. ReplyLag'
    <2>1. timeouts' \in Nat
      BY <1>2, MaxTimeoutsAssumption
    <2>2. up' => Len(reqs') + Len(reps') = timeouts' + 1
      BY <1>2, <1>6, <1>9, <1>10, <1>11, <2>1
    <2>3. QED
      BY <1>1, <1>3, <2>2 DEF ReplyLag
  <1>13. InSync' => InFlight' /\ reps' = <<>> /\ (reqs' # <<>> => Head(reqs') = r)
    <2>1. SUFFICES ASSUME InSync'
                   PROVE  InFlight' /\ reps' = <<>> /\ (reqs' # <<>> => Head(reqs') = r)
      OBVIOUS
    <2>2. Len(reqs') + Len(reps') <= 1
      BY <1>6, <1>9, <1>10, <1>11, <2>1
    <2>3. reps' = <<>> /\ (reqs' # <<>> => Head(reqs') = r)
      BY <1>6, <1>9, <1>11, <2>1
    <2>4. QED
      BY <1>1, <1>3, <2>2, <2>3 DEF InFlight
  <1>14. QED
    BY <1>2, <1>3, <1>4, <1>5, <1>7, <1>12, <1>13

\* Returning to the front end: the channel is empty in sync, and nothing is
\* known of greetd any more.
LEMMA ReturnPreserves ==
  ASSUME IInv, NEW c \in Callers, Holds(c), NEW o \in Outcome, Recv(o),
         NEW v \in Verdict, Return(c, v), saved' \in Users \union {NoArg}
  PROVE  /\ TypeOK' /\ Locking' /\ Closed' /\ ReplyLag'
         /\ UNCHANGED <<session, owner>>
         /\ InSync' => InFlight' /\ HolderKnows'
  <1>0. TypeOK
    BY DEF IInv
  <1>1. mu = c /\ mu # Nobody
    BY CallersAssumption DEF Holds
  <1>2. /\ UNCHANGED <<session, owner, asked, asks, up>>
        /\ reps' \in Seq(Reply)
        /\ timeouts' \in 0..MaxTimeouts
    BY <1>0, RecvTypes
  <1>3. /\ reqs' \in Seq(Request)
        /\ stage' = "none"
        /\ mu' = Nobody
        /\ call' \in [Callers -> Call]
        /\ verdict' = v
    BY <1>0, ReturnTypes
  <1>4. reqs' = reqs
    BY DEF Return
  <1>5. TypeOK'
    BY <1>0, <1>2, <1>3 DEF TypeOK, ClientTypeOK, GreetdTypeOK, Stage
  <1>6. Locking' /\ Closed'
    BY <1>2, <1>3, <1>4 DEF Locking, Closed, IInv
  <1>7. /\ up => Len(reqs) + Len(reps') = timeouts'
        /\ InSync' => reqs = <<>> /\ reps' = <<>>
    BY <1>1, Received
  <1>8. ReplyLag'
    BY <1>2, <1>3, <1>4, <1>7, MaxTimeoutsAssumption DEF ReplyLag
  <1>9. ASSUME InSync' PROVE InFlight' /\ HolderKnows'
    <2>1. Len(reqs') = 0 /\ Len(reps') = 0 /\ reqs' = <<>> /\ reps' = <<>>
      BY <1>4, <1>7, <1>9, EmptySeq
    <2>2. QED
      BY <1>3, <2>1 DEF InFlight, HolderKnows
  <1>10. QED
    BY <1>2, <1>5, <1>6, <1>8, <1>9

-----------------------------------------------------------------------------
(* Every step preserves the invariant. *)

\* What Received says of the session and the user saved, for a step that
\* leaves both alone.
LEMMA SavedStays ==
  ASSUME IInv, NEW c \in Callers, Holds(c), NEW o \in Outcome, Recv(o),
         UNCHANGED <<session, owner, saved>>
  PROVE  InSync' => SavedUserWasStarted'
  <1>1. mu # Nobody
    BY CallersAssumption DEF Holds
  <1>2. InSync' => InSync
    BY <1>1, Received
  <1>3. QED
    BY <1>2 DEF IInv, SyncInv, SavedUserWasStarted

\* After the first cancel_session: a CancelAuth returns, the others create
\* their session, greetd being free.
LEMMA AfterCancelInv ==
  ASSUME IInv, NEW c \in Callers, AfterCancel(c)
  PROVE  IInv'
  <1>1. PICK o \in Outcome : Recv(o)
    BY DEF AfterCancel
  <1>2. Holds(c) /\ stage = "cancel" /\ UNCHANGED saved /\ mu = c /\ mu # Nobody
    BY CallersAssumption DEF AfterCancel, Holds
  <1>3. TypeOK /\ call[c] \in Call /\ saved \in Users \union {NoArg}
    BY DEF IInv, TypeOK
  <1>4. CASE call[c].op = "CancelAuth"
    <2>1. Return(c, "ok")
      BY <1>4 DEF AfterCancel
    <2>2. /\ TypeOK' /\ Locking' /\ Closed' /\ ReplyLag'
          /\ UNCHANGED <<session, owner>>
          /\ InSync' => InFlight' /\ HolderKnows'
      BY <1>1, <1>2, <1>3, <2>1, ReturnPreserves DEF Verdict
    <2>3. InSync' => SavedUserWasStarted'
      BY <1>1, <1>2, <2>2, SavedStays
    <2>4. QED
      BY <2>2, <2>3 DEF IInv, SyncInv
  <1>5. CASE call[c].op # "CancelAuth"
    <2> DEFINE r == RequestOf("create", call[c])
    <2>1. Ask("create", r)
      BY <1>5 DEF AfterCancel
    <2>2. r \in Request /\ r.op = OpOf("create") /\ r.arg = call[c].user
      BY <1>3, RequestTypes DEF RequestOf, CreateSession, OpOf, Stage
    <2>3. call[c].op \in StageOps("create")
      BY <1>2, <1>5 DEF IInv, Locking, StageOps
    <2> HIDE DEF r
    <2>4. /\ TypeOK' /\ Locking' /\ Closed' /\ ReplyLag'
          /\ UNCHANGED <<session, owner, mu, call>>
          /\ stage' = "create"
          /\ InSync' => InFlight' /\ reps' = <<>> /\ (reqs' # <<>> => Head(reqs') = r)
      BY <1>1, <1>2, <2>1, <2>2, <2>3, AskPreserves DEF Stage
    <2>5. InSync' => SavedUserWasStarted'
      BY <1>1, <1>2, <2>4, SavedStays
    <2>6. ASSUME InSync', reqs' # <<>> PROVE session \in {"idle", "started"}
      <3>1. up
        BY <1>1, <1>2, <2>4, <2>6, RecvTypes, <1>3 DEF Closed
      <3>2. InSync /\ reps # <<>>
        BY <1>1, <1>2, <2>6, <3>1, Received
      <3>3. QED
        BY <1>2, <3>2 DEF IInv, SyncInv, HolderKnows
    <2>7. InSync' => HolderKnows'
      BY <1>2, <2>2, <2>4, <2>6 DEF HolderKnows
    <2>8. QED
      BY <2>4, <2>5, <2>7 DEF IInv, SyncInv
  <1>6. QED
    BY <1>4, <1>5

\* The last cancel_session of a failed conversation: the step returns.
LEMMA AfterAbortInv ==
  ASSUME IInv, NEW c \in Callers, AfterAbort(c)
  PROVE  IInv'
  <1>1. PICK o \in Outcome : Recv(o)
    BY DEF AfterAbort
  <1>2. Holds(c) /\ UNCHANGED saved /\ Return(c, "failed")
    BY DEF AfterAbort
  <1>3. saved \in Users \union {NoArg}
    BY DEF IInv, TypeOK
  <1>4. /\ TypeOK' /\ Locking' /\ Closed' /\ ReplyLag'
        /\ UNCHANGED <<session, owner>>
        /\ InSync' => InFlight' /\ HolderKnows'
    BY <1>1, <1>2, <1>3, ReturnPreserves DEF Verdict
  <1>5. InSync' => SavedUserWasStarted'
    BY <1>1, <1>2, <1>4, SavedStays
  <1>6. QED
    BY <1>4, <1>5 DEF IInv, SyncInv

\* A step that returns after reading a reply, and leaves saved alone.
LEMMA ReturnInv ==
  ASSUME IInv, NEW c \in Callers, Holds(c), NEW o \in Outcome, Recv(o),
         NEW v \in Verdict, Return(c, v), UNCHANGED saved
  PROVE  IInv'
  <1>1. saved' \in Users \union {NoArg}
    BY DEF IInv, TypeOK
  <1>2. /\ TypeOK' /\ Locking' /\ Closed' /\ ReplyLag'
        /\ UNCHANGED <<session, owner>>
        /\ InSync' => InFlight' /\ HolderKnows'
    BY <1>1, ReturnPreserves
  <1>3. InSync' => SavedUserWasStarted'
    BY <1>2, SavedStays
  <1>4. QED
    BY <1>2, <1>3 DEF IInv, SyncInv

\* A step that posts an answer, starts the session or gives up: what greetd
\* has for an owner is the user of the call, or the call named none.
LEMMA AskInv ==
  ASSUME IInv, NEW c \in Callers, Holds(c), NEW o \in Outcome, Recv(o),
         NEW s \in {"post", "start", "abort"}, NEW r \in Request, Ask(s, r),
         r.op = OpOf(s), call[c].op \in StageOps(s), UNCHANGED saved,
         InSync' /\ s # "abort" /\ call[c].op \notin {"RespondAuth", "StartSession"}
           => owner = call[c].user
  PROVE  IInv'
  <1>1. mu = c
    BY DEF Holds
  <1>2. /\ TypeOK' /\ Locking' /\ Closed' /\ ReplyLag'
        /\ UNCHANGED <<session, owner, mu, call>>
        /\ stage' = s
        /\ InSync' => InFlight' /\ reps' = <<>> /\ (reqs' # <<>> => Head(reqs') = r)
    BY AskPreserves DEF Stage
  <1>3. InSync' => SavedUserWasStarted'
    BY <1>2, SavedStays
  <1>4. InSync' => HolderKnows'
    <2>1. SUFFICES ASSUME InSync' PROVE HolderKnows'
      OBVIOUS
    <2>2. reps' = <<>> /\ stage' = s /\ owner' = owner /\ call'[mu'] = call[c]
      BY <1>1, <1>2, <2>1
    <2>3. /\ s = "post" /\ call[c].op # "RespondAuth" => owner = call[c].user
          /\ s = "start" /\ call[c].op = "Login" => owner = call[c].user
      BY <2>1 DEF StageOps
    <2>4. QED
      BY <2>2, <2>3 DEF HolderKnows
  <1>5. QED
    BY <1>2, <1>3, <1>4 DEF IInv, SyncInv

\* In sync, an answer other than an error, read by a call that opened the
\* conversation, is about that call's user.
LEMMA AnswerIsAboutUser ==
  ASSUME IInv, NEW c \in Callers, Holds(c), NEW o \in Outcome, Recv(o), InSync',
         o \notin {"error", "failed"}, stage \in {"create", "post"},
         call[c].op # "RespondAuth"
  PROVE  owner = call[c].user
  <1>1. mu = c /\ mu # Nobody
    BY CallersAssumption DEF Holds
  <1>2. InSync /\ reps # <<>> /\ o = Head(reps).type
    BY <1>1, Received
  <1>3. HolderKnows
    BY <1>2 DEF IInv, SyncInv
  <1>4. QED
    BY <1>1, <1>2, <1>3 DEF HolderKnows

\* The password loop of Authenticate and Login.
LEMMA AfterAuthFlattenedInv ==
  ASSUME IInv, NEW c \in Callers, AfterAuthFlattened(c)
  PROVE  IInv'
  <1>1. PICK o \in Outcome : Recv(o) /\ AdvanceFlattened(c, o)
    BY DEF AfterAuthFlattened
  <1>2. /\ Holds(c) /\ stage \in {"create", "post"} /\ Flattened(call[c])
        /\ UNCHANGED saved
    BY DEF AfterAuthFlattened
  <1>3. call[c] \in Call /\ call[c].secret \in Arg
    BY DEF IInv, TypeOK, Call
  <1>4. o \notin {"error", "failed"} => (InSync' => owner = call[c].user)
    BY <1>1, <1>2, AnswerIsAboutUser DEF Flattened
  <1>5. CASE o \in Question /\ PostFlattened(c, o)
    <2> DEFINE r == PostAuthResponse(IF o = "secret" THEN call[c].secret ELSE NoArg)
    <2>1. Ask("post", r)
      BY <1>5 DEF PostFlattened
    <2>2. r \in Request /\ r.op = OpOf("post")
      BY <1>3 DEF PostAuthResponse, Request, RequestOp, OpOf, Arg
    <2>3. call[c].op \in StageOps("post")
      BY <1>2 DEF Flattened, StageOps
    <2>4. o \notin {"error", "failed"}
      BY <1>5 DEF Question
    <2> HIDE DEF r
    <2>5. QED
      BY <1>1, <1>2, <1>4, <2>1, <2>2, <2>3, <2>4, AskInv
  <1>6. CASE o = "success" /\ Authenticated(c)
    <2>1. CASE \E v \in Verdict : Return(c, v)
      BY <1>1, <1>2, <2>1, ReturnInv
    <2>2. CASE call[c].op = "Login" /\ Ask("start", StartSession)
      <3>1. StartSession \in Request /\ StartSession.op = OpOf("start")
        BY DEF StartSession, Request, RequestOp, OpOf, Arg
      <3>2. call[c].op \in StageOps("start")
        BY <2>2 DEF StageOps
      <3>3. QED
        BY <1>1, <1>2, <1>4, <1>6, <2>2, <3>1, <3>2, AskInv
    <2>3. QED
      BY <1>6, <2>1, <2>2 DEF Authenticated, Verdict
  <1>7. CASE o \in {"error", "failed"} /\ Return(c, "failed")
    BY <1>1, <1>2, <1>7, ReturnInv DEF Verdict
  <1>8. QED
    BY <1>1, <1>5, <1>6, <1>7 DEF AdvanceFlattened

\* The interactive loop of BeginAuth and RespondAuth.
LEMMA AfterAuthStepInv ==
  ASSUME IInv, NEW c \in Callers, AfterAuthStep(c)
  PROVE  IInv'
  <1>1. PICK o \in Outcome :
          /\ Recv(o)
          /\ \/ Advance(c, o)
             \/ o \in {"error", "failed"} /\ GiveUp(c)
    BY DEF AfterAuthStep
  <1>2. /\ Holds(c) /\ stage \in {"create", "post"} /\ ~Flattened(call[c])
        /\ UNCHANGED saved /\ mu = c /\ mu # Nobody
    BY CallersAssumption DEF AfterAuthStep, Holds
  <1>3. call[c].op \in {"BeginAuth", "RespondAuth"}
    BY <1>2 DEF IInv, Locking, StageOps, Flattened
  <1>4. CASE \E v \in Verdict : Return(c, v)
    BY <1>1, <1>2, <1>4, ReturnInv
  <1>5. CASE o = "info" /\ Ask("post", PostAuthResponse(NoArg))
    <2>1. PostAuthResponse(NoArg) \in Request /\ PostAuthResponse(NoArg).op = OpOf("post")
      BY DEF PostAuthResponse, Request, RequestOp, OpOf, Arg
    <2>2. call[c].op \in StageOps("post")
      BY <1>3 DEF StageOps
    <2>3. InSync' /\ call[c].op # "RespondAuth" => owner = call[c].user
      BY <1>1, <1>2, <1>5, AnswerIsAboutUser
    <2>4. QED
      BY <1>1, <1>2, <1>5, <2>1, <2>2, <2>3, AskInv
  <1>6. CASE GiveUp(c)
    <2>1. CancelSession \in Request /\ CancelSession.op = OpOf("abort")
      BY DEF CancelSession, Request, RequestOp, OpOf, Arg
    <2>2. call[c].op \in StageOps("abort")
      BY <1>3 DEF StageOps
    <2>3. QED
      BY <1>1, <1>2, <1>6, <2>1, <2>2, AskInv DEF GiveUp
  <1>7. QED
    BY <1>1, <1>4, <1>5, <1>6 DEF Advance, Verdict

\* start_session came back.
LEMMA AfterStartInv ==
  ASSUME IInv, NEW c \in Callers, AfterStart(c)
  PROVE  IInv'
  <1>1. PICK o \in Outcome :
          /\ Recv(o)
          /\ Remember(c, o)
          /\ Return(c, IF o = "success" THEN "ok" ELSE "failed")
    BY DEF AfterStart
  <1>2. Holds(c) /\ stage = "start" /\ mu = c /\ mu # Nobody
    BY CallersAssumption DEF AfterStart, Holds
  <1>3. saved' \in Users \union {NoArg}
    BY <1>1 DEF IInv, TypeOK, Call, Remember
  <1>4. /\ TypeOK' /\ Locking' /\ Closed' /\ ReplyLag'
        /\ UNCHANGED <<session, owner>>
        /\ InSync' => InFlight' /\ HolderKnows'
    <2> DEFINE v == IF o = "success" THEN "ok" ELSE "failed"
    <2>1. v \in Verdict /\ Return(c, v)
      BY <1>1 DEF Verdict
    <2> HIDE DEF v
    <2>2. QED
      BY <1>1, <1>2, <1>3, <2>1, ReturnPreserves
  <1>5. InSync' => SavedUserWasStarted'
    <2>1. CASE saved' = saved
      BY <1>1, <1>2, <1>4, <2>1, SavedStays
    <2>2. CASE saved' # saved
      <3>1. o = "success" /\ call[c].op = "Login" /\ saved' = call[c].user
        BY <1>1, <2>2 DEF Remember
      <3>2. ASSUME InSync' PROVE session = "started" /\ owner = call[c].user
        <4>1. InSync /\ reps # <<>> /\ o = Head(reps).type
          BY <1>1, <1>2, <3>1, <3>2, Received
        <4>2. QED
          BY <1>2, <3>1, <4>1 DEF IInv, SyncInv, HolderKnows
      <3>3. QED
        BY <1>4, <3>1, <3>2 DEF SavedUserWasStarted
    <2>3. QED
      BY <2>1, <2>2
  <1>6. QED
    BY <1>4, <1>5 DEF IInv, SyncInv

\* Taking the mutex and writing the first request.
LEMMA LockInv ==
  ASSUME IInv, NEW c \in Callers, Lock(c)
  PROVE  IInv'
  <1> DEFINE r == RequestOf(FirstStage(call[c]), call[c])
  <1>1. /\ mu = Nobody /\ stage = "none" /\ mu' = c /\ mu' # Nobody
        /\ call[c].op # "none" /\ call[c].op \in CallOp
        /\ stage' = FirstStage(call[c])
        /\ verdict' = "none"
        /\ reqs' = IF up THEN Append(reqs, r) ELSE reqs
        /\ UNCHANGED <<session, owner, asked, asks, up, reps, timeouts, call, saved>>
    BY CallersAssumption
       DEF Lock, Waiting, Idle, IInv, Locking, TypeOK, Call, CallOp, Send, pamVars
  <1>2. FirstStage(call[c]) \in {"cancel", "post", "start"}
    BY DEF FirstStage
  <1>3. r \in Request
    BY <1>2, RequestTypes DEF IInv, TypeOK, Stage
  <1>4. r.op = OpOf(FirstStage(call[c])) /\ call[c].op \in StageOps(FirstStage(call[c]))
    BY <1>1, <1>2
       DEF FirstStage, RequestOf, PostAuthResponse, StartSession, CancelSession, OpOf,
           StageOps, CallOp
  <1> HIDE DEF r
  <1>5. /\ reqs \in Seq(Request) /\ Len(reqs) \in Nat /\ (reqs = <<>> <=> Len(reqs) = 0)
        /\ reps \in Seq(Reply) /\ Len(reps) \in Nat /\ (reps = <<>> <=> Len(reps) = 0)
    BY EmptyQueue DEF IInv, TypeOK, ClientTypeOK, GreetdTypeOK
  <1>6. /\ Append(reqs, r) \in Seq(Request)
        /\ Append(reqs, r) # <<>>
        /\ Len(Append(reqs, r)) = Len(reqs) + 1
        /\ Head(Append(reqs, r)) = IF reqs = <<>> THEN r ELSE Head(reqs)
    BY <1>3, <1>5, Enqueue
  <1>7. TypeOK'
    BY <1>1, <1>2, <1>5, <1>6
       DEF IInv, TypeOK, ClientTypeOK, GreetdTypeOK, Stage, Verdict
  <1>8. Locking' /\ Closed'
    BY <1>1, <1>2, <1>4, <1>6 DEF IInv, Locking, Closed
  <1>9. ReplyLag'
    <2>1. timeouts \in Nat
      BY MaxTimeoutsAssumption DEF IInv, TypeOK, ClientTypeOK
    <2>2. up => Len(reqs) + Len(reps) = timeouts
      BY <1>1, <2>1 DEF IInv, ReplyLag
    <2>3. up' => Len(reqs') + Len(reps') = timeouts' + 1
      BY <1>1, <1>5, <1>6, <2>1, <2>2
    <2>4. QED
      BY <1>1, <2>3 DEF ReplyLag
  <1>10. ASSUME InSync' PROVE SyncInv'
    <2>1. InSync
      BY <1>1, <1>10 DEF InSync
    <2>2. Len(reqs) = 0 /\ Len(reps) = 0
      BY <1>1, <1>5, <2>1 DEF IInv, SyncInv, InFlight
    <2>3. /\ reps' = <<>>
          /\ Len(reqs') + Len(reps') <= 1
          /\ reqs' # <<>> => Head(reqs') = r
      BY <1>1, <1>5, <1>6, <2>2
    <2>4. InFlight'
      BY <1>1, <1>4, <2>3 DEF InFlight
    <2>5. HolderKnows'
      BY <1>1, <1>2, <1>4, <2>3 DEF HolderKnows, FirstStage
    <2>6. SavedUserWasStarted'
      BY <1>1, <2>1 DEF IInv, SyncInv, SavedUserWasStarted
    <2>7. QED
      BY <2>4, <2>5, <2>6 DEF SyncInv
  <1>11. QED
    BY <1>7, <1>8, <1>9, <1>10 DEF IInv

\* A step that neither touches the channel nor greetd, nor the holder's call.
LEMMA ChannelUntouched ==
  ASSUME IInv, TypeOK', UNCHANGED <<connVars, mu, stage, saved>>,
         mu # Nobody => call'[mu] = call[mu]
  PROVE  IInv'
  <1> USE DEF connVars, greetdVars
  <1>1. Locking' /\ Closed' /\ ReplyLag'
    BY DEF IInv, Locking, Closed, ReplyLag
  <1>2. stage # "none" => call'[mu'] = call[mu]
    BY DEF IInv, Locking
  <1>3. ASSUME InSync' PROVE SyncInv'
    <2>1. InSync /\ SyncInv
      BY <1>3 DEF InSync, IInv
    <2>2. InFlight' /\ SavedUserWasStarted'
      BY <2>1 DEF InFlight, SavedUserWasStarted, SyncInv, InSync
    <2>3. HolderKnows'
      BY <1>2, <2>1 DEF SyncInv, HolderKnows
    <2>4. QED
      BY <2>2, <2>3 DEF SyncInv
  <1>4. QED
    BY <1>1, <1>3 DEF IInv

\* A call that waits for the mutex disturbs nothing.
LEMMA InvokeInv ==
  ASSUME IInv, NEW c \in Callers, Invoke(c)
  PROVE  IInv'
  <1>1. PICK k \in CallInput : call' = [call EXCEPT ![c] = k]
    BY DEF Invoke
  <1>2. Idle(c) /\ UNCHANGED <<connVars, mu, stage, verdict, saved>>
    BY DEF Invoke
  <1>3. k \in Call
    BY DEF CallInput
  <1>4. TypeOK'
    BY <1>1, <1>2, <1>3
       DEF IInv, TypeOK, ClientTypeOK, GreetdTypeOK, connVars, greetdVars
  <1>5. mu # Nobody => mu # c
    BY <1>2 DEF IInv, Locking, StageOps, Idle
  <1>6. mu # Nobody => call'[mu] = call[mu]
    BY <1>1, <1>5 DEF IInv, TypeOK
  <1>7. QED
    BY <1>2, <1>4, <1>6, ChannelUntouched

\* A StartSession that is refused takes and gives back the mutex unseen.
LEMMA RefuseStartInv ==
  ASSUME IInv, NEW c \in Callers, RefuseStart(c)
  PROVE  IInv'
  <1>1. /\ mu = Nobody /\ Return(c, "failed")
        /\ UNCHANGED <<pamVars, up, reps, timeouts, saved>>
    BY DEF RefuseStart, Waiting
  <1>2. TypeOK
    BY DEF IInv
  <1>3. /\ reqs' = reqs /\ stage' = "none" /\ mu' = Nobody
        /\ call' \in [Callers -> Call] /\ verdict' = "failed"
    BY <1>1, <1>2, ReturnTypes DEF Return, Verdict
  <1>4. UNCHANGED <<connVars, mu, stage, saved>>
    BY <1>1, <1>3 DEF connVars, greetdVars, pamVars, IInv, Locking
  <1>5. TypeOK'
    BY <1>2, <1>3, <1>4
       DEF TypeOK, ClientTypeOK, GreetdTypeOK, connVars, greetdVars, Verdict
  <1>6. QED
    BY <1>1, <1>4, <1>5, ChannelUntouched

\* greetd serves a request: in sync it is the holder's only one, and its
\* reply tells the holder where the session stands.
LEMMA ServeInv ==
  ASSUME IInv, Serve, UNCHANGED <<timeouts, serverVars>>
  PROVE  IInv'
  <1>0. TypeOK /\ UNCHANGED <<timeouts, mu, stage, call, verdict, saved>>
    BY DEF IInv, serverVars
  <1>1. /\ reqs # <<>> /\ Head(reqs) \in Request
        /\ reqs' = Tail(reqs) /\ reqs' \in Seq(Request) /\ reps' \in Seq(Reply)
        /\ up' = up
    BY <1>0, ServeChannel
  <1>2. PICK t \in ReplyType : reps' = Append(reps, [type |-> t, to |-> Head(reqs).op])
    BY <1>0, ServeChannel
  <1>3. TypeOK'
    BY <1>0, <1>1, ServeSession DEF TypeOK, ClientTypeOK, GreetdTypeOK
  <1>4. /\ reqs \in Seq(Request) /\ Len(reqs) \in Nat /\ Len(reqs) # 0
        /\ reps \in Seq(Reply) /\ Len(reps) \in Nat /\ (reps = <<>> <=> Len(reps) = 0)
    BY <1>1, EmptyQueue DEF IInv, TypeOK, ClientTypeOK, GreetdTypeOK
  <1>5. [type |-> t, to |-> Head(reqs).op] \in Reply
    BY <1>1 DEF Reply, Request
  <1>6. /\ Len(reqs') = Len(reqs) - 1
        /\ Len(reqs) = 1 => reqs' = <<>>
        /\ Len(reps') = Len(reps) + 1
        /\ reps = <<>> => Head(reps') = [type |-> t, to |-> Head(reqs).op]
    <2>1. /\ Len(Tail(reqs)) = Len(reqs) - 1
          /\ Len(reqs) = 1 => Tail(reqs) = <<>>
      BY <1>1, <1>4, Dequeue
    <2>2. /\ Len(reps') = Len(reps) + 1
          /\ Head(reps') = IF reps = <<>> THEN [type |-> t, to |-> Head(reqs).op] ELSE Head(reps)
      BY <1>2, <1>4, <1>5, Enqueue
    <2>3. QED
      BY <1>1, <2>1, <2>2
  <1>7. Locking' /\ Closed'
    BY <1>0, <1>1 DEF IInv, Locking, Closed
  <1>8. ReplyLag'
    BY <1>0, <1>1, <1>4, <1>6 DEF IInv, ReplyLag
  <1>9. ASSUME InSync' PROVE SyncInv'
    <2>1. InSync /\ SyncInv
      BY <1>0, <1>9 DEF InSync, IInv
    <2>2. /\ Len(reqs) = 1 /\ reps = <<>> /\ mu # Nobody /\ stage # "none"
          /\ Head(reqs).op = OpOf(stage) /\ stage \in Stage
      <3>1. /\ Len(reqs) + Len(reps) <= IF mu = Nobody THEN 0 ELSE 1
            /\ Head(reqs).op = OpOf(stage)
        BY <1>1, <2>1 DEF SyncInv, InFlight
      <3>2. mu # Nobody /\ Len(reqs) = 1 /\ Len(reps) = 0
        <4>1. ASSUME NEW m \in Nat, NEW n \in Nat, m # 0, m + n <= IF mu = Nobody THEN 0 ELSE 1
              PROVE  mu # Nobody /\ m = 1 /\ n = 0
          BY <4>1
        <4>2. QED
          BY <1>4, <3>1, <4>1
      <3>3. QED
        BY <1>4, <3>1, <3>2 DEF IInv, Locking, TypeOK
    <2>3. /\ reqs' = <<>> /\ Len(reqs') = 0 /\ Len(reps') = 1
          /\ Head(reps') = [type |-> t, to |-> Head(reqs).op]
          /\ Head(reps').type = t
      BY <1>4, <1>6, <2>2
    <2>4. InFlight'
      BY <1>0, <2>2, <2>3 DEF InFlight
    <2>5. SavedUserWasStarted'
      BY <1>0, <2>1
         DEF SavedUserWasStarted, SyncInv, InSync, Serve, ServeCreate, ServePost, ServeStart,
             ServeCancel, Reject, pamVars
    <2>6. \A u \in ReplyType : Answer(u) => u = t
      <3>1. SUFFICES ASSUME NEW u \in ReplyType, Answer(u) PROVE u = t
        OBVIOUS
      <3>2. [type |-> u, to |-> Head(reqs).op] \in Reply
        BY <1>1 DEF Reply, Request
      <3>3. Head(reps') = [type |-> u, to |-> Head(reqs).op]
        BY <1>4, <2>2, <3>1, <3>2, Enqueue DEF Answer
      <3>4. QED
        BY <2>3, <3>3
    <2>7. HolderKnows'
      <3>1. HolderKnows
        BY <2>1 DEF SyncInv
      <3>2. ASSUME NEW n, Pam(n)
            PROVE  /\ t \in Question => session' = "conversing"
                   /\ t = "success" => session' = "ready"
        BY <2>6, <3>2 DEF Pam, ReplyType, Question
      <3>3. Reject => t = "error"
        BY <2>6 DEF Reject, ReplyType
      <3>4. CASE stage = "create"
        <4>1. ServeCreate
          BY <2>2, <3>4 DEF OpOf, Serve, ServeCreate, ServePost, ServeStart, ServeCancel, Serving
        <4>2. session \in {"idle", "started"} /\ Head(reqs).arg = call[mu].user
          BY <1>1, <3>1, <3>4 DEF HolderKnows
        <4>3. /\ t # "error" => owner' = call[mu].user
              /\ t \in Question => session' = "conversing"
              /\ t = "success" => session' = "ready"
          BY <3>2, <3>3, <4>1, <4>2 DEF ServeCreate, Question
        <4>4. QED
          BY <1>0, <2>3, <3>4, <4>3 DEF HolderKnows
      <3>5. CASE stage = "post"
        <4>1. ServePost
          BY <2>2, <3>5 DEF OpOf, Serve, ServeCreate, ServePost, ServeStart, ServeCancel, Serving
        <4>2. Answer("error") => t = "error"
          BY <2>6 DEF ReplyType
        <4>3. /\ t \in Question => session' = "conversing"
              /\ t = "success" => session' = "ready"
          BY <3>2, <3>3, <4>1, <4>2 DEF ServePost, Question
        <4>4. owner' = owner
          BY <4>1 DEF ServePost, Reject, pamVars
        <4>5. call[mu].op # "RespondAuth" => owner = call[mu].user
          BY <3>1, <3>5 DEF HolderKnows
        <4>6. QED
          BY <1>0, <2>3, <3>5, <4>3, <4>4, <4>5 DEF HolderKnows
      <3>6. CASE stage = "start"
        <4>1. ServeStart
          BY <2>2, <3>6 DEF OpOf, Serve, ServeCreate, ServePost, ServeStart, ServeCancel, Serving
        <4>2. owner' = owner /\ (t = "success" => session' = "started")
          BY <3>3, <4>1 DEF ServeStart, Reject, pamVars
        <4>3. call[mu].op = "Login" => owner = call[mu].user
          BY <3>1, <3>6 DEF HolderKnows
        <4>4. QED
          BY <1>0, <2>3, <3>6, <4>2, <4>3 DEF HolderKnows
      <3>7. CASE stage \in {"cancel", "abort"}
        <4>1. ServeCancel
          BY <2>2, <3>7 DEF OpOf, Serve, ServeCreate, ServePost, ServeStart, ServeCancel, Serving
        <4>2. session' \in {"idle", "started"}
          BY <4>1 DEF ServeCancel, pamVars
        <4>3. QED
          BY <1>0, <2>3, <3>7, <4>2 DEF HolderKnows
      <3>8. QED
        BY <2>2, <3>4, <3>5, <3>6, <3>7 DEF Stage
    <2>8. QED
      BY <2>4, <2>5, <2>7 DEF SyncInv
  <1>10. QED
    BY <1>3, <1>7, <1>8, <1>9 DEF IInv

\* greetd goes away: what it has not read is lost.
LEMMA GreetdExitInv ==
  ASSUME IInv, GreetdExit, UNCHANGED <<timeouts, serverVars>>
  PROVE  IInv'
  <1>1. /\ UNCHANGED <<timeouts, mu, stage, call, verdict, saved, session, owner, asked, asks, reps>>
        /\ reqs' = <<>> /\ up' = FALSE
    BY DEF GreetdExit, serverVars, pamVars
  <1>2. reqs' \in Seq(Request) /\ Len(reqs') = 0
    BY <1>1, EmptySeq
  <1>3. TypeOK'
    BY <1>1, <1>2 DEF IInv, TypeOK, ClientTypeOK, GreetdTypeOK
  <1>4. Locking' /\ Closed' /\ ReplyLag'
    BY <1>1 DEF IInv, Locking, Closed, ReplyLag
  <1>5. ASSUME InSync' PROVE SyncInv'
    <2>1. InSync /\ SyncInv
      BY <1>1, <1>5 DEF InSync, IInv
    <2>2. Len(reqs) \in Nat /\ Len(reps) \in Nat
      BY EmptyQueue DEF IInv, TypeOK, ClientTypeOK, GreetdTypeOK
    <2>3. InFlight'
      BY <1>1, <1>2, <2>1, <2>2 DEF SyncInv, InFlight
    <2>4. HolderKnows' /\ SavedUserWasStarted'
      BY <1>1, <2>1 DEF SyncInv, HolderKnows, SavedUserWasStarted
    <2>5. QED
      BY <2>3, <2>4 DEF SyncInv
  <1>6. QED
    BY <1>3, <1>4, <1>5 DEF IInv

\* Every step of the greeter and of greetd keeps the inductive invariant.
LEMMA NextInv == IInv /\ [Next]_vars => IInv'
  <1> SUFFICES ASSUME IInv, [Next]_vars PROVE IInv'
    OBVIOUS
  <1>1. CASE Daemon
    BY <1>1, ServeInv, GreetdExitInv DEF Daemon
  <1>2. ASSUME NEW c \in Callers, Invoke(c) PROVE IInv'
    BY <1>2, InvokeInv
  <1>3. ASSUME NEW c \in Callers, Lock(c) PROVE IInv'
    BY <1>3, LockInv
  <1>4. ASSUME NEW c \in Callers, RefuseStart(c) PROVE IInv'
    BY <1>4, RefuseStartInv
  <1>5. ASSUME NEW c \in Callers, Step(c) PROVE IInv'
    BY <1>5, AfterCancelInv, AfterAuthFlattenedInv, AfterAuthStepInv, AfterAbortInv,
       AfterStartInv DEF Step
  <1>6. CASE UNCHANGED vars
    <2>1. UNCHANGED <<connVars, mu, stage, call, verdict, saved>>
      BY <1>6 DEF vars, serverVars
    <2>2. TypeOK'
      BY <2>1 DEF IInv, TypeOK, ClientTypeOK, GreetdTypeOK, connVars, greetdVars
    <2>3. QED
      BY <2>1, <2>2, ChannelUntouched
  <1>7. QED
    BY <1>1, <1>2, <1>3, <1>4, <1>5, <1>6 DEF Next

-----------------------------------------------------------------------------
(* The theorems. *)

\* The inductive invariant holds in every state; the properties follow from it.
THEOREM Invariance == Spec => []IInv
  BY InitInv, NextInv, PTL DEF Spec

\* Type correctness of the greeter, its connection and greetd's session.
THEOREM TypeCorrect == Spec => []TypeOK
  <1>1. IInv => TypeOK
    BY DEF IInv
  <1>2. QED
    BY <1>1, Invariance, PTL

\* At any time the channel holds one message per deadline ever missed, and one
\* more while a handler runs: the lag never shrinks (client.go:121-135).
THEOREM Lag == Spec => []ReplyLag
  <1>1. IInv => ReplyLag
    BY DEF IInv
  <1>2. QED
    BY <1>1, Invariance, PTL

\* Until a deadline is missed, a handler only reads the answer to the request
\* it has just written.
THEOREM Matching == Spec => []AnswersMatch
  <1>1. IInv => AnswersMatch
    BY DEF IInv, SyncInv, InFlight, AnswersMatch
  <1>2. QED
    BY <1>1, Invariance, PTL

\* Until a deadline is missed, greetd is never asked to configure a session
\* over another one.
THEOREM CreateIsFree == Spec => []CreateFindsNoConversation
  <1>1. ASSUME IInv PROVE CreateFindsNoConversation
    <2>1. SUFFICES ASSUME InSync, Serving("create_session")
                   PROVE  session \in {"idle", "started"}
      BY DEF CreateFindsNoConversation
    <2>2. reqs # <<>> /\ OpOf(stage) = "create_session" /\ HolderKnows
      BY <1>1, <2>1 DEF IInv, SyncInv, InFlight, Serving
    <2>3. stage = "create"
      BY <2>2 DEF OpOf
    <2>4. QED
      BY <2>2, <2>3 DEF HolderKnows
  <1>2. QED
    BY <1>1, Invariance, PTL

\* Until a deadline is missed, the password of an Authenticate or a Login is
\* posted into a conversation of the user it was given for.
THEOREM PasswordIsTheirs == Spec => []PasswordGoesToItsUser
  <1>1. ASSUME IInv PROVE PasswordGoesToItsUser
    <2>1. SUFFICES ASSUME InSync, mu # Nobody, Serving("post_auth_message_response"),
                          Flattened(call[mu])
                   PROVE  owner = call[mu].user
      BY DEF PasswordGoesToItsUser
    <2>2. reqs # <<>> /\ OpOf(stage) = "post_auth_message_response" /\ HolderKnows
      BY <1>1, <2>1 DEF IInv, SyncInv, InFlight, Serving
    <2>3. stage = "post"
      BY <2>2 DEF OpOf
    <2>4. QED
      BY <2>1, <2>2, <2>3 DEF HolderKnows, Flattened
  <1>2. QED
    BY <1>1, Invariance, PTL

\* Until a deadline is missed, the user Login remembered is the one whose
\* session greetd has started.
THEOREM SavedUserRuns == Spec => []SavedUserWasStarted
  <1>1. IInv => SavedUserWasStarted
    BY DEF IInv, SyncInv, SavedUserWasStarted
  <1>2. QED
    BY <1>1, Invariance, PTL

-----------------------------------------------------------------------------
(* What a handler reports. *)

\* A call returns by a step of its own.
LEMMA ReturnStep ==
  ASSUME IInv, [Next]_vars, NEW c \in Callers, ~Idle(c), Idle(c)'
  PROVE  Step(c) \/ RefuseStart(c)
  <1>1. call \in [Callers -> Call] /\ call[c].op # "none" /\ call'[c].op = "none"
    BY DEF IInv, TypeOK, Idle
  <1>2. call' # call
    BY <1>1
  <1>3. ~Daemon /\ ~UNCHANGED vars
    BY <1>2 DEF Daemon, vars, serverVars
  <1>4. PICK d \in Callers : Invoke(d) \/ Lock(d) \/ RefuseStart(d) \/ Step(d)
    BY <1>3 DEF Next
  <1>5. ~Lock(d)
    BY <1>2 DEF Lock
  <1>6. ~Invoke(d)
    <2>1. SUFFICES ASSUME Invoke(d) PROVE FALSE
      OBVIOUS
    <2>2. PICK k \in CallInput : call' = [call EXCEPT ![d] = k]
      BY <2>1 DEF Invoke
    <2>3. k.op # "none" /\ d # c
      BY <1>1, <2>1, <2>2 DEF CallInput, Invoke, Idle
    <2>4. QED
      BY <1>1, <2>2, <2>3
  <1>7. d # c => call'[c] = call[c]
    <2>1. \A v : Return(d, v) => call' = [call EXCEPT ![d] = NoCall]
      BY DEF Return, Release
    <2>2. \A s, r : Ask(s, r) => call' = call
      BY DEF Ask
    <2>3. call' = call \/ call' = [call EXCEPT ![d] = NoCall]
      BY <1>4, <1>5, <1>6, <2>1, <2>2
         DEF RefuseStart, Step, AfterCancel, AfterAuthFlattened, AdvanceFlattened, PostFlattened,
             Authenticated, AfterAuthStep, Advance, GiveUp, AfterAbort, AfterStart
    <2>4. QED
      BY <1>1, <2>3
  <1>8. QED
    BY <1>1, <1>4, <1>5, <1>6, <1>7

\* It returns on an answer, and in sync the answer is what the session tells.
LEMMA AnswerTells ==
  ASSUME IInv, NEW c \in Callers, Holds(c), NEW o \in Outcome, Recv(o), InSync'
  PROVE  /\ stage \in {"create", "post"} =>
              /\ o \in Question => session' = "conversing"
              /\ o = "success"  => session' = "ready"
              /\ o \notin {"error", "failed"} /\ call[c].op # "RespondAuth" =>
                   owner' = call[c].user
         /\ stage = "start" /\ o = "success" =>
              /\ session' = "started"
              /\ call[c].op = "Login" => owner' = call[c].user
         /\ stage \in {"cancel", "abort"} /\ up' => session' \in {"idle", "started"}
  <1>1. mu = c /\ mu # Nobody
    BY CallersAssumption DEF Holds
  <1>2. /\ InSync
        /\ \/ reps # <<>> /\ o = Head(reps).type
           \/ o = "failed" /\ ~up
    BY <1>1, Received
  <1>3. HolderKnows
    BY <1>2 DEF IInv, SyncInv
  <1>4. UNCHANGED <<session, owner, up>>
    BY RecvTypes DEF IInv
  <1>5. "failed" \notin Question /\ "error" \notin Question /\ "success" \notin Question
    BY DEF Question
  <1>6. QED
    BY <1>1, <1>2, <1>3, <1>4, <1>5 DEF HolderKnows

\* Every way out of a handler.
LEMMA ReportStep ==
  ASSUME IInv, [Next]_vars, NEW c \in Callers, ~Idle(c), Idle(c)', InSync'
  PROVE  ReportMatchesGreetd(c) /\ (up' /\ MustClear(c) => session' \in {"idle", "started"})
  <1>1. call[c] \in Call /\ Idle(c) # Idle(c)'
    BY DEF IInv, TypeOK
  <1>2. \A s, r : ~Ask(s, r)
    <2>1. SUFFICES ASSUME NEW s, NEW r, Ask(s, r) PROVE FALSE
      OBVIOUS
    <2>2. QED
      BY <1>1, <2>1 DEF Ask, Idle
  <1>3. \A v : Return(c, v) => verdict' = v
    BY DEF Return, Release
  <1> USE DEF ReportMatchesGreetd, MustClear, Returns
  <1>4. CASE RefuseStart(c)
    BY <1>3, <1>4 DEF RefuseStart
  <1>5. CASE AfterCancel(c)
    <2>1. PICK o \in Outcome : Recv(o)
      BY <1>5 DEF AfterCancel
    <2>2. Holds(c) /\ stage = "cancel" /\ call[c].op = "CancelAuth" /\ verdict' = "ok"
      BY <1>2, <1>3, <1>5 DEF AfterCancel
    <2>3. QED
      BY <2>1, <2>2, AnswerTells
  <1>6. CASE AfterAuthFlattened(c)
    <2>1. PICK o \in Outcome : Recv(o) /\ AdvanceFlattened(c, o)
      BY <1>6 DEF AfterAuthFlattened
    <2>2. /\ Holds(c) /\ stage \in {"create", "post"}
          /\ call[c].op \in {"Authenticate", "Login"}
      BY <1>6 DEF AfterAuthFlattened, Flattened
    <2>3. \/ o = "success" /\ call[c].op = "Authenticate" /\ verdict' = "ok"
          \/ verdict' = "failed"
      BY <1>2, <1>3, <2>1 DEF AdvanceFlattened, PostFlattened, Authenticated
    <2>4. QED
      BY <2>1, <2>2, <2>3, AnswerTells
  <1>7. CASE AfterAuthStep(c)
    <2>1. PICK o \in Outcome :
            /\ Recv(o)
            /\ \/ Advance(c, o)
               \/ o \in {"error", "failed"} /\ GiveUp(c)
      BY <1>7 DEF AfterAuthStep
    <2>2. /\ Holds(c) /\ mu = c /\ mu # Nobody /\ stage \in {"create", "post"}
          /\ ~Flattened(call[c])
      BY <1>7, CallersAssumption DEF AfterAuthStep, Holds
    <2>3. call[c].op \in {"BeginAuth", "RespondAuth"}
      BY <2>2 DEF IInv, Locking, StageOps, Flattened
    <2>4. \/ o \in {"secret", "visible"} /\ verdict' = "prompt"
          \/ o = "success" /\ verdict' = "ok"
      BY <1>2, <1>3, <2>1 DEF Advance, GiveUp
    <2>5. QED
      BY <2>1, <2>2, <2>3, <2>4, AnswerTells DEF Question
  <1>8. CASE AfterAbort(c)
    <2>1. PICK o \in Outcome : Recv(o)
      BY <1>8 DEF AfterAbort
    <2>2. Holds(c) /\ stage = "abort" /\ verdict' = "failed"
      BY <1>3, <1>8 DEF AfterAbort
    <2>3. QED
      BY <2>1, <2>2, AnswerTells
  <1>9. CASE AfterStart(c)
    <2>1. PICK o \in Outcome :
            Recv(o) /\ verdict' = (IF o = "success" THEN "ok" ELSE "failed")
      BY <1>3, <1>9 DEF AfterStart
    <2>2. Holds(c) /\ mu = c /\ mu # Nobody /\ stage = "start"
      BY <1>9, CallersAssumption DEF AfterStart, Holds
    <2>3. call[c].op \in {"Login", "StartSession"}
      BY <2>2 DEF IInv, Locking, StageOps
    <2>4. QED
      BY <2>1, <2>2, <2>3, AnswerTells
  <1>10. QED
    BY <1>4, <1>5, <1>6, <1>7, <1>8, <1>9, ReturnStep DEF Step

\* Until a deadline is missed, a handler that reports a success, or a prompt, tells
\* what greetd has done, for the user of that call (server.go:61-216).
THEOREM ReportsAreTrue == Spec => ReportsMatchGreetd
  <1>1. IInv /\ [Next]_vars =>
          [\A c \in Callers : InSync' => ReportMatchesGreetd(c)]_vars
    <2>1. SUFFICES ASSUME IInv, [Next]_vars, NEW c \in Callers, InSync'
                   PROVE  ReportMatchesGreetd(c)
      OBVIOUS
    <2>2. CASE ~Idle(c) /\ Idle(c)'
      BY <2>1, <2>2, ReportStep
    <2>3. CASE ~(~Idle(c) /\ Idle(c)')
      BY <2>3 DEF ReportMatchesGreetd, Returns
    <2>4. QED
      BY <2>2, <2>3
  <1>2. QED
    BY <1>1, Invariance, PTL DEF Spec, ReportsMatchGreetd

\* Until a deadline is missed, and while greetd runs, a step of a login that fails
\* and a cancel leave no conversation behind (server.go:88-139).
THEOREM NothingStaysBehind == Spec => NothingLeftBehind
  <1>1. IInv /\ [Next]_vars =>
          [\A c \in Callers :
             InSync' /\ up' /\ MustClear(c) => session' \in {"idle", "started"}]_vars
    <2>1. SUFFICES ASSUME IInv, [Next]_vars, NEW c \in Callers, InSync', up', MustClear(c)
                   PROVE  session' \in {"idle", "started"}
      OBVIOUS
    <2>2. ~Idle(c) /\ Idle(c)'
      BY <2>1 DEF MustClear, Returns
    <2>3. QED
      BY <2>1, <2>2, ReportStep
  <1>2. QED
    BY <1>1, Invariance, PTL DEF Spec, NothingLeftBehind

-----------------------------------------------------------------------------
(* The handlers as AuthService has them. *)

\* A step after which the rule still holds.
Noted == IF \E c \in Callers : Returning(c) THEN AsIs' ELSE UNCHANGED left

StepwiseNext ==
  /\ Next
  /\ stepwise /\ Stepwise' /\ InSync' /\ up'
  /\ Noted

LEMMA StepwiseOrNothing ==
  ASSUME [Next /\ Recorded]_<<vars, history>>, stepwise'
  PROVE  stepwise /\ [StepwiseNext]_<<vars, left>>
<1>1. CASE UNCHANGED <<vars, history>>
  BY <1>1 DEF history
<1>2. CASE Next /\ Recorded
  BY <1>2 DEF Recorded, StepwiseNext, Noted, AsIs, left
<1> QED BY <1>1, <1>2

\* The one message in flight.
LEMMA OneMessage ==
  ASSUME IInv, Steady
  PROVE  /\ InFlight /\ HolderKnows
         /\ reqs # <<>> => mu # Nobody /\ reps = <<>>
         /\ reps # <<>> => mu # Nobody /\ reqs = <<>>
<1>1. InFlight /\ HolderKnows
  BY DEF IInv, Steady, SyncInv
<1>2. /\ Len(reqs) \in Nat /\ (reqs = <<>> <=> Len(reqs) = 0)
      /\ Len(reps) \in Nat /\ (reps = <<>> <=> Len(reps) = 0)
  BY EmptyQueue DEF IInv, TypeOK, ClientTypeOK, GreetdTypeOK
<1>3. Len(reqs) + Len(reps) <= IF mu = Nobody THEN 0 ELSE 1
  BY <1>1 DEF InFlight
<1>4. ASSUME NEW m \in Nat, NEW n \in Nat, m + n <= IF mu = Nobody THEN 0 ELSE 1
      PROVE  (m # 0 => mu # Nobody /\ n = 0) /\ (n # 0 => mu # Nobody /\ m = 0)
  BY <1>4
<1> QED BY <1>1, <1>2, <1>3, <1>4

\* greetd serves the holder's request, and its reply is then the message in flight.
LEMMA ServeAnswers ==
  ASSUME IInv, Steady, Serve
  PROVE  /\ mu # Nobody /\ stage \in Stage \ {"none"} /\ Head(reqs) \in Request
         /\ Head(reqs).op = OpOf(stage)
         /\ reqs # <<>> /\ reqs' = <<>> /\ reps' # <<>> /\ up' = up
         /\ \A t \in ReplyType : Answer(t) => Head(reps').type = t
<1>0. TypeOK
  BY DEF IInv
<1>1. /\ reqs # <<>> /\ Head(reqs) \in Request /\ reqs' = Tail(reqs) /\ up' = up
      /\ \E t \in ReplyType : reps' = Append(reps, [type |-> t, to |-> Head(reqs).op])
  BY <1>0, ServeChannel
<1>2. mu # Nobody /\ reps = <<>> /\ Head(reqs).op = OpOf(stage)
  BY <1>1, OneMessage DEF InFlight
<1>3. stage \in Stage \ {"none"}
  BY <1>2 DEF IInv, Locking, TypeOK
<1>4. reqs \in Seq(Request) /\ reps \in Seq(Reply) /\ Len(reqs) \in Nat /\ Len(reqs) # 0
  BY <1>0, <1>1, EmptyQueue DEF TypeOK, ClientTypeOK, GreetdTypeOK
<1>5. reqs' = <<>>
  <2>1. Len(reqs) + Len(reps) <= 1 /\ Len(reps) = 0
    BY <1>2, EmptySeq, OneMessage DEF InFlight
  <2>2. \A m \in Nat : m # 0 /\ m + 0 <= 1 => m = 1
    OBVIOUS
  <2>3. Len(reqs) = 1
    BY <1>4, <2>1, <2>2
  <2> QED BY <1>1, <1>4, <2>3, Dequeue
<1>6. ASSUME NEW t \in ReplyType
      PROVE  LET q == Append(reps, [type |-> t, to |-> Head(reqs).op])
             IN  q # <<>> /\ Head(q).type = t
  <2> DEFINE e == [type |-> t, to |-> Head(reqs).op]
  <2>1. e \in Reply /\ e.type = t
    BY <1>1 DEF Reply, Request
  <2> HIDE DEF e
  <2>2. Append(reps, e) # <<>> /\ Head(Append(reps, e)) = e
    BY <1>2, <1>4, <2>1, Enqueue
  <2> QED BY <2>1, <2>2 DEF e
<1>7. reps' # <<>>
  BY <1>1, <1>6
<1>8. \A t \in ReplyType : Answer(t) => Head(reps').type = t
  BY <1>6 DEF Answer
<1> QED BY <1>1, <1>2, <1>3, <1>5, <1>7, <1>8

\* Once the conversation was left as started, the session is.
LEMMA LeftAsStarted ==
  ASSUME Steady, conv = "started"
  PROVE  session = "started"
  BY DEF Steady, OutOfReach, AsIs, Conversation

\* greetd serves the holder's request.
LEMMA ServeLeft ==
  ASSUME IInv, Steady, Serve, UNCHANGED <<timeouts, serverVars, left>>
  PROVE  Steady'
<1>1. UNCHANGED <<timeouts, mu, stage, call, conv, with, prompt>>
  BY DEF serverVars, left
<1>2. /\ mu # Nobody /\ stage \in Stage \ {"none"} /\ Head(reqs) \in Request
      /\ Head(reqs).op = OpOf(stage)
      /\ reqs # <<>> /\ reqs' = <<>> /\ reps' # <<>> /\ up' = up
      /\ \A t \in ReplyType : Answer(t) => Head(reps').type = t
  BY ServeAnswers
<1>3. /\ Stepwise /\ InSync /\ up /\ Asking /\ OutOfReach /\ Progress
      /\ session \in Phase
  BY DEF Steady, IInv, TypeOK, ClientTypeOK, GreetdTypeOK
<1>4. Stepwise' /\ InSync' /\ up'
  BY <1>1, <1>2, <1>3 DEF Stepwise, InSync, Idle
<1>5. ASSUME NEW n, Pam(n)
      PROVE  /\ session' \in {"conversing", "ready", "failed"}
             /\ Head(reps').type \in Question => asked' = Head(reps').type
             /\ Head(reps').type = "success" => asked' = "none"
             /\ Head(reps').type = "error" \/ session' # "failed"
  BY <1>2, <1>5 DEF Pam, ReplyType, Question
<1>6. Reject => /\ Head(reps').type = "error"
                /\ UNCHANGED <<session, owner, asked>>
  BY <1>2 DEF Reject, ReplyType, pamVars
<1>7. "error" \notin Question /\ "success" \notin Question
  BY DEF Question
<1>8. CASE stage = "create"
  <2>1. ServeCreate
    BY <1>2, <1>8 DEF OpOf, Serve, ServeCreate, ServePost, ServeStart, ServeCancel, Serving
  <2>2. CASE Reject
    <3>1. UNCHANGED <<session, owner, asked>> /\ Head(reps').type = "error"
      BY <1>6, <2>2
    <3>2. Asking'
      BY <1>1, <1>3, <1>7, <3>1 DEF Asking
    <3>3. OutOfReach' /\ Progress'
      BY <1>1, <1>2, <1>3, <1>8, <3>1 DEF OutOfReach, AsIs, Conversation, Progress
    <3> QED BY <1>4, <3>2, <3>3 DEF Steady
  <2>3. CASE session = "idle" /\ owner' = Head(reqs).arg /\ Pam(0)
    <3>1. call[mu] \in Call /\ Head(reqs).arg = call[mu].user
      BY <1>2, <1>8, OneMessage DEF HolderKnows, IInv, TypeOK
    <3>2. owner' \in Users \union {NoArg}
      BY <2>3, <3>1 DEF Call
    <3>3. Asking'
      BY <1>1, <1>3, <1>5, <2>3, <3>2 DEF Asking
    <3>4. conv # "started" /\ session' # "started"
      BY <1>5, <2>3, LeftAsStarted
    <3>5. OutOfReach' /\ Progress'
      BY <1>1, <1>2, <1>8, <3>4 DEF OutOfReach, Progress
    <3> QED BY <1>4, <3>3, <3>5 DEF Steady
  <2> QED BY <2>1, <2>2, <2>3 DEF ServeCreate
<1>9. CASE stage = "post"
  <2>1. ServePost
    BY <1>2, <1>9 DEF OpOf, Serve, ServeCreate, ServePost, ServeStart, ServeCancel, Serving
  <2>2. CASE Reject
    <3>1. UNCHANGED <<session, owner, asked>> /\ Head(reps').type = "error"
      BY <1>6, <2>2
    <3>2. Asking'
      BY <1>1, <1>3, <1>7, <3>1 DEF Asking
    <3>3. OutOfReach' /\ Progress'
      BY <1>1, <1>2, <1>3, <1>9, <3>1 DEF OutOfReach, AsIs, Conversation, Progress
    <3> QED BY <1>4, <3>2, <3>3 DEF Steady
  <2>3. CASE session = "conversing" /\ ~Reject
    <3>1. /\ owner' = owner
          /\ session' \in {"conversing", "ready", "failed"}
          /\ Head(reps').type \in Question => asked' = Head(reps').type
          /\ Head(reps').type = "success" => asked' = "none"
      BY <1>2, <1>5, <1>7, <2>1, <2>3 DEF ServePost, ReplyType
    <3>2. asked = "secret" => Head(reqs).arg = owner \/ Head(reps').type = "error"
      BY <1>2, <2>1, <2>3 DEF ServePost, ReplyType
    <3>3. Asking'
      BY <1>1, <1>3, <3>1 DEF Asking
    <3>4. conv # "started" /\ session' # "started"
      BY <2>3, <3>1, LeftAsStarted
    <3>5. call[mu].op = "RespondAuth" /\ Head(reps').type # "error" => Answerable(call[mu])
      BY <1>2, <1>3, <1>9, <2>3, <3>2 DEF Progress, AsIs, Conversation, Answerable
    <3>6. OutOfReach' /\ Progress'
      BY <1>1, <1>2, <1>9, <3>1, <3>4, <3>5 DEF OutOfReach, Progress, Answerable
    <3> QED BY <1>4, <3>3, <3>6 DEF Steady
  <2> QED BY <2>1, <2>2, <2>3 DEF ServePost
<1>10. CASE stage = "start"
  <2>1. ServeStart
    BY <1>2, <1>10 DEF OpOf, Serve, ServeCreate, ServePost, ServeStart, ServeCancel, Serving
  <2>2. AsIs
    BY <1>2, <1>3, <1>10 DEF Progress
  <2>3. UNCHANGED <<owner, asked>>
    BY <1>6, <2>1 DEF ServeStart
  <2>4. \/ session' = session /\ Head(reps').type = "error"
        \/ session = "ready" /\ session' = "started" /\ Head(reps').type = "success"
    BY <1>2, <1>6, <2>1 DEF ServeStart, ReplyType
  <2>5. Asking'
    BY <1>1, <1>3, <1>10, <2>3, <2>4 DEF Asking
  <2>6. OutOfReach' /\ Progress'
    BY <1>1, <1>2, <1>10, <2>2, <2>3, <2>4 DEF OutOfReach, AsIs, Conversation, Progress
  <2> QED BY <1>4, <2>5, <2>6 DEF Steady
<1>11. CASE stage \in {"cancel", "abort"}
  <2>1. ServeCancel
    BY <1>2, <1>11 DEF OpOf, Serve, ServeCreate, ServePost, ServeStart, ServeCancel, Serving
  <2>2. CASE session = "started"
    <3>1. UNCHANGED <<session, owner, asked>>
      BY <2>1, <2>2 DEF ServeCancel, pamVars
    <3>2. Asking' /\ OutOfReach' /\ Progress'
      BY <1>1, <1>2, <1>3, <1>11, <2>2, <3>1
         DEF Asking, OutOfReach, AsIs, Conversation, Progress
    <3> QED BY <1>4, <3>2 DEF Steady
  <2>3. CASE session # "started"
    <3>1. session' = "idle" /\ owner' = NoArg /\ asked' = "none" /\ conv # "started"
      BY <2>1, <2>3, LeftAsStarted DEF ServeCancel
    <3>2. Asking' /\ OutOfReach' /\ Progress'
      BY <1>1, <1>2, <1>3, <1>11, <3>1 DEF Asking, OutOfReach, Progress
    <3> QED BY <1>4, <3>2 DEF Steady
  <2> QED BY <2>2, <2>3
<1> QED BY <1>2, <1>8, <1>9, <1>10, <1>11 DEF Stage

\* A step in which no handler returns leaves the history alone.
LEMMA NotRecorded ==
  ASSUME Noted, call' = call
  PROVE  UNCHANGED left
  BY DEF Noted, Returning, Idle

\* A handler goes on with a further request.
LEMMA AskLeft ==
  ASSUME IInv, Steady, StepwiseNext, NEW c \in Callers, Holds(c),
         NEW o \in Outcome, Recv(o), NEW s \in {"create", "post", "abort"},
         NEW r \in Request, Ask(s, r), stage # "start",
         s = "post" => stage \in {"create", "post"} /\ o = "info"
  PROVE  Steady'
<1>1. TypeOK /\ mu = c /\ mu # Nobody
  BY CallersAssumption DEF IInv, Holds
<1>2. UNCHANGED <<session, owner, asked, up>>
  BY <1>1, RecvTypes
<1>3. stage' = s /\ UNCHANGED <<mu, call>> /\ Stepwise' /\ InSync' /\ up'
  BY DEF Ask, StepwiseNext
<1>4. UNCHANGED <<conv, with, prompt>>
  BY <1>3, NotRecorded DEF StepwiseNext, left
<1>5. reqs = <<>> /\ reps' = <<>> /\ reps # <<>> /\ o = Head(reps).type
  BY <1>1, <1>2, <1>3, Received
<1>6. Asking /\ OutOfReach /\ Progress /\ HolderKnows
  BY OneMessage DEF Steady
<1>7. Asking' /\ OutOfReach'
  BY <1>2, <1>3, <1>4, <1>5, <1>6 DEF Asking, OutOfReach, AsIs, Conversation
<1>8. CASE s # "post"
  <2>1. Progress'
    BY <1>1, <1>3, <1>5, <1>8 DEF Progress
  <2> QED BY <1>3, <1>7, <2>1 DEF Steady
<1>9. CASE s = "post"
  <2>1. session = "conversing" /\ asked = "info"
    BY <1>5, <1>6, <1>9 DEF HolderKnows, Asking, Question
  <2>2. call[mu].op = "RespondAuth" => stage = "post"
    BY <1>1, <1>9 DEF IInv, Locking, StageOps
  <2>3. call[mu].op = "RespondAuth" => Answerable(call[mu])
    BY <1>5, <1>6, <1>9, <2>2 DEF Progress
  <2>4. Progress'
    BY <1>1, <1>2, <1>3, <1>4, <1>5, <1>9, <2>1, <2>3 DEF Progress, Answerable
  <2> QED BY <1>3, <1>7, <2>4 DEF Steady
<1> QED BY <1>8, <1>9

\* A handler returns, and how it leaves the conversation is recorded.
LEMMA ReturnLeft ==
  ASSUME IInv, Steady, StepwiseNext, NEW c \in Callers, Returning(c),
         UNCHANGED <<session, owner, asked>>, stage' = "none"
  PROVE  Steady' /\ AsIs'
<1>1. AsIs'
  BY DEF StepwiseNext, Noted, AsIs
<1>2. Asking'
  BY <1>1 DEF Steady, Asking, AsIs
<1>3. OutOfReach' /\ Progress'
  BY <1>1 DEF OutOfReach, Progress
<1> QED BY <1>1, <1>2, <1>3 DEF Steady, StepwiseNext

\* A handler that does so after a reply.
LEMMA HandlerReturns ==
  ASSUME IInv, Steady, StepwiseNext, NEW c \in Callers, Holds(c),
         NEW o \in Outcome, Recv(o), NEW v \in Verdict, Return(c, v)
  PROVE  /\ Returning(c) /\ verdict' = v /\ Steady' /\ AsIs'
         /\ UNCHANGED <<session, owner, asked>> /\ InSync' /\ mu = c
         /\ reps # <<>> /\ o = Head(reps).type
<1>1. TypeOK /\ mu = c /\ mu # Nobody
  BY CallersAssumption DEF IInv, Holds
<1>2. UNCHANGED <<session, owner, asked, up>>
  BY <1>1, RecvTypes
<1>3. stage' = "none" /\ call' = [call EXCEPT ![c] = NoCall] /\ verdict' = v
  BY DEF Return, Release
<1>4. call \in [Callers -> Call] /\ call[c].op # "none"
  BY <1>1 DEF TypeOK, IInv, Locking, StageOps
<1>5. Returning(c)
  BY <1>3, <1>4 DEF Returning, Idle, NoCall, MkCall
<1>6. InSync' /\ up'
  BY DEF StepwiseNext
<1>7. reps # <<>> /\ o = Head(reps).type
  BY <1>1, <1>2, <1>6, Received
<1> QED BY <1>1, <1>2, <1>3, <1>5, <1>6, <1>7, ReturnLeft

\* A call is made.
LEMMA InvokeLeft ==
  ASSUME IInv, Steady, StepwiseNext, NEW c \in Callers, Invoke(c)
  PROVE  Steady'
<1>1. PICK k \in CallInput : call' = [call EXCEPT ![c] = k]
  BY DEF Invoke
<1>2. /\ Idle(c) /\ call \in [Callers -> Call] /\ k.op # "none"
      /\ UNCHANGED <<session, owner, asked, reqs, reps, mu, stage>>
  BY DEF Invoke, IInv, TypeOK, CallInput, connVars, greetdVars
<1>3. \A d \in Callers : ~Returning(d)
  BY <1>1, <1>2 DEF Returning, Idle
<1>4. UNCHANGED <<conv, with, prompt>>
  BY <1>3 DEF StepwiseNext, Noted, left
<1>5. mu # Nobody => call'[mu] = call[mu]
  BY <1>1, <1>2 DEF IInv, Locking, StageOps, Idle
<1>6. Asking' /\ OutOfReach'
  BY <1>2, <1>4 DEF Steady, Asking, OutOfReach, AsIs, Conversation
<1>7. stage = "post" => mu # Nobody
  BY DEF IInv, Locking
<1>8. Progress'
  BY <1>2, <1>4, <1>5, <1>7 DEF Steady, Progress, AsIs, Conversation, Answerable
<1> QED BY <1>6, <1>8 DEF Steady, StepwiseNext

\* A handler takes the mutex and writes its first request.
LEMMA LockLeft ==
  ASSUME IInv, Steady, StepwiseNext, NEW c \in Callers, Lock(c)
  PROVE  Steady'
<1> DEFINE r == RequestOf(FirstStage(call[c]), call[c])
<1>1. /\ mu = Nobody /\ mu' = c /\ mu' # Nobody /\ call[c] \in Call
      /\ stage' = FirstStage(call[c])
      /\ reqs' = Append(reqs, r)
      /\ UNCHANGED <<session, owner, asked, reps, call>>
  BY CallersAssumption DEF Lock, Waiting, Send, Steady, IInv, TypeOK, pamVars
<1>2. FirstStage(call[c]) \in Stage
  BY DEF FirstStage, Stage
<1>3. r \in Request
  BY <1>1, <1>2, RequestTypes
<1>4. /\ FirstStage(call[c]) \in {"cancel", "post", "start"}
      /\ FirstStage(call[c]) = "post" => r.arg = call[c].secret
  BY DEF FirstStage, RequestOf, PostAuthResponse
<1> HIDE DEF r
<1>5. reqs = <<>> /\ reps = <<>> /\ reqs \in Seq(Request)
  BY <1>1, OneMessage DEF IInv, TypeOK, ClientTypeOK, GreetdTypeOK
<1>6. Head(reqs') = r /\ reps' = <<>>
  BY <1>1, <1>3, <1>5, Enqueue
<1>7. UNCHANGED <<conv, with, prompt>>
  BY <1>1, NotRecorded DEF StepwiseNext, left
<1>8. AsIs /\ AsIs'
  BY <1>1, <1>7 DEF Steady, Progress, AsIs, Conversation
<1>9. Asking' /\ OutOfReach'
  BY <1>1, <1>6, <1>7, <1>8 DEF Steady, Asking, OutOfReach
<1>10. Progress'
  BY <1>1, <1>4, <1>6, <1>8 DEF Progress
<1> QED BY <1>9, <1>10 DEF Steady, StepwiseNext

\* Every way out of a handler is the step that AuthService has for it, and leaves
\* the conversation for the next one.
LEMMA AtomicReturn ==
  ASSUME IInv, Steady, StepwiseNext, NEW c \in Callers, Returning(c)
  PROVE  Steady' /\ Handler(call[c], Reported')
<1> USE DEF Service!Clear, Service!Prompt
<1>1. /\ call[c] \in Call /\ Idle(c) # Idle(c)' /\ ~Flattened(call[c])
      /\ Asking /\ OutOfReach /\ Progress /\ HolderKnows
  BY OneMessage DEF Returning, IInv, TypeOK, Steady, Stepwise
<1>2. \A s, r : ~Ask(s, r)
  BY <1>1 DEF Ask, Idle
<1>3. CASE RefuseStart(c)
  <2>1. /\ call[c].op = "StartSession" /\ verdict' = "failed" /\ stage' = "none"
        /\ UNCHANGED <<session, owner, asked, saved>> /\ mu = Nobody
    BY <1>3 DEF RefuseStart, Return, Release, Waiting, pamVars
  <2>2. AsIs /\ Steady' /\ AsIs'
    BY <1>1, <2>1, ReturnLeft DEF Progress
  <2>3. UNCHANGED <<conv, with, prompt>>
    BY <2>1, <2>2 DEF AsIs, Conversation
  <2>4. Reported' = "error"
    BY <2>1 DEF Reported
  <2>5. Service!StartSession("error")
    BY <2>1, <2>3 DEF Service!StartSession
  <2> QED BY <2>1, <2>2, <2>4, <2>5 DEF Handler
<1>4. CASE AfterCancel(c)
  <2>1. PICK o \in Outcome : Recv(o)
    BY <1>4 DEF AfterCancel
  <2>2. /\ Holds(c) /\ stage = "cancel" /\ call[c].op = "CancelAuth" /\ Return(c, "ok")
        /\ UNCHANGED saved
    BY <1>2, <1>4 DEF AfterCancel
  <2>3. /\ verdict' = "ok" /\ Steady' /\ AsIs' /\ UNCHANGED <<session, owner, asked>>
        /\ reps # <<>>
    BY <2>1, <2>2, HandlerReturns DEF Verdict
  <2>4. session \in {"idle", "started"}
    BY <1>1, <2>2, <2>3 DEF HolderKnows
  <2>5. Service!CancelAuth("success")
    <3>1. CASE session = "started"
      <4>1. UNCHANGED <<conv, with, prompt>> /\ conv = "started"
        BY <1>1, <2>2, <2>3, <3>1 DEF OutOfReach, AsIs, Conversation
      <4> QED BY <2>2, <4>1 DEF Service!CancelAuth
    <3>2. CASE session = "idle"
      <4>1. conv # "started" /\ conv' = "none" /\ with' = NoArg /\ prompt' = "none"
        BY <1>1, <2>3, <3>2, LeftAsStarted DEF Asking, AsIs, Conversation
      <4> QED BY <2>2, <4>1 DEF Service!CancelAuth
    <3> QED BY <2>4, <3>1, <3>2
  <2>6. Reported' = "success"
    BY <2>3 DEF Reported
  <2> QED BY <2>2, <2>3, <2>5, <2>6 DEF Handler
<1>5. CASE AfterAuthStep(c)
  <2>1. PICK o \in Outcome :
          /\ Recv(o)
          /\ \/ Advance(c, o)
             \/ o \in {"error", "failed"} /\ GiveUp(c)
    BY <1>5 DEF AfterAuthStep
  <2>2. Holds(c) /\ stage \in {"create", "post"} /\ UNCHANGED saved
    BY <1>5 DEF AfterAuthStep
  <2>3. PICK v \in Verdict :
          /\ Return(c, v)
          /\ \/ o \in {"secret", "visible"} /\ v = "prompt"
             \/ o = "success" /\ v = "ok"
    BY <1>2, <2>1 DEF Advance, GiveUp, Verdict
  <2>4. /\ verdict' = v /\ Steady' /\ AsIs' /\ UNCHANGED <<session, owner, asked>>
        /\ reps # <<>> /\ o = Head(reps).type /\ mu = c /\ InSync'
    BY <2>1, <2>2, <2>3, HandlerReturns
  <2>5. /\ call[c].op \in {"BeginAuth", "RespondAuth"}
        /\ call[c].op = "RespondAuth" => stage = "post"
    BY <1>1, <2>2, <2>4, CallersAssumption DEF IInv, Locking, StageOps, Flattened
  <2>6. /\ o \in {"secret", "visible"} => session = "conversing" /\ asked = o
        /\ o = "success" => session = "ready" /\ asked = "none"
    BY <1>1, <2>2, <2>4 DEF HolderKnows, Asking, Question
  <2>7. Reported' = o
    BY <2>3, <2>4, <2>6 DEF Reported, AsIs
  <2>8. conv # "started"
    BY <2>3, <2>6, LeftAsStarted
  <2>9. with' = owner /\ \A u : u = owner => Service!Converse(u, o)
    BY <2>3, <2>4, <2>6 DEF Service!Converse, AsIs, Conversation
  <2>10. CASE call[c].op = "BeginAuth"
    <3>1. owner' = call[c].user
      BY <2>1, <2>2, <2>3, <2>4, <2>10, AnswerTells
    <3>2. Service!BeginAuth(call[c].user, o)
      BY <2>2, <2>4, <2>8, <2>9, <3>1 DEF Service!BeginAuth
    <3> QED BY <2>4, <2>7, <2>10, <3>2 DEF Handler
  <2>11. CASE call[c].op = "RespondAuth"
    <3>1. Answerable(call[c])
      BY <1>1, <2>3, <2>4, <2>5, <2>11 DEF Progress
    <3>2. Service!RespondAuth(call[c].secret, o)
      BY <2>2, <2>9, <3>1 DEF Service!RespondAuth, Answerable
    <3> QED BY <2>4, <2>7, <2>11, <3>2 DEF Handler
  <2> QED BY <2>5, <2>10, <2>11
<1>6. CASE AfterAbort(c)
  <2>1. PICK o \in Outcome : Recv(o)
    BY <1>6 DEF AfterAbort
  <2>2. Holds(c) /\ stage = "abort" /\ Return(c, "failed") /\ UNCHANGED saved
    BY <1>6 DEF AfterAbort
  <2>3. /\ verdict' = "failed" /\ Steady' /\ AsIs' /\ UNCHANGED <<session, owner, asked>>
        /\ reps # <<>> /\ mu = c
    BY <2>1, <2>2, HandlerReturns DEF Verdict
  <2>4. session \in {"idle", "started"} /\ call[c].op \in {"BeginAuth", "RespondAuth"}
    BY <1>1, <2>2, <2>3, CallersAssumption DEF HolderKnows, IInv, Locking, StageOps
  <2>5. Service!Refuse("error") /\ (conv # "started" => Service!Clear)
    <3>1. CASE session = "started"
      <4>1. UNCHANGED <<conv, with, prompt>> /\ conv = "started"
        BY <1>1, <2>2, <2>3, <3>1 DEF OutOfReach, AsIs, Conversation
      <4> QED BY <4>1 DEF Service!Refuse
    <3>2. CASE session = "idle"
      <4>1. conv # "started" /\ conv' = "none" /\ with' = NoArg /\ prompt' = "none"
        BY <1>1, <2>3, <3>2, LeftAsStarted DEF Asking, AsIs, Conversation
      <4> QED BY <4>1 DEF Service!Refuse
    <3> QED BY <2>4, <3>1, <3>2
  <2>6. /\ Service!BeginAuth(call[c].user, "error")
        /\ Service!RespondAuth(call[c].secret, "error")
    BY <2>2, <2>5 DEF Service!BeginAuth, Service!RespondAuth, Service!Converse
  <2>7. Reported' = "error"
    BY <2>3 DEF Reported
  <2> QED BY <2>3, <2>4, <2>6, <2>7 DEF Handler
<1>7. CASE AfterStart(c)
  <2>1. PICK o \in Outcome :
          /\ Recv(o)
          /\ Remember(c, o)
          /\ Return(c, IF o = "success" THEN "ok" ELSE "failed")
    BY <1>7 DEF AfterStart
  <2> DEFINE v == IF o = "success" THEN "ok" ELSE "failed"
  <2>2. Holds(c) /\ stage = "start" /\ v \in Verdict /\ Return(c, v)
    BY <1>7, <2>1 DEF AfterStart, Verdict
  <2>3. v = "ok" <=> o = "success"
    OBVIOUS
  <2>4. v # "ok" => v = "failed"
    OBVIOUS
  <2> HIDE DEF v
  <2>5. /\ verdict' = v /\ Steady' /\ AsIs' /\ UNCHANGED <<session, owner, asked>>
        /\ reps # <<>> /\ o = Head(reps).type /\ mu = c
    BY <2>1, <2>2, HandlerReturns
  <2>6. call[c].op = "StartSession"
    BY <1>1, <2>2, <2>5, CallersAssumption DEF IInv, Locking, StageOps, Flattened
  <2>7. UNCHANGED saved
    BY <2>1, <2>6 DEF Remember
  <2>8. Reported' = IF o = "success" THEN "success" ELSE "error"
    BY <2>3, <2>4, <2>5 DEF Reported
  <2>9. CASE o = "success"
    <3>1. session = "started" /\ conv = "ready" /\ with = owner /\ prompt = asked
      BY <1>1, <2>2, <2>5, <2>9 DEF HolderKnows, Progress
    <3>2. Service!StartSession("success")
      BY <2>5, <2>7, <3>1 DEF Service!StartSession, AsIs, Conversation
    <3> QED BY <2>5, <2>6, <2>8, <2>9, <3>2 DEF Handler
  <2>10. CASE o # "success"
    <3>1. AsIs
      BY <1>1, <2>2, <2>5, <2>10 DEF Progress
    <3>2. Service!StartSession("error")
      BY <2>5, <2>7, <3>1 DEF Service!StartSession, AsIs, Conversation
    <3> QED BY <2>5, <2>6, <2>8, <2>10, <3>2 DEF Handler
  <2> QED BY <2>9, <2>10
<1>8. Step(c) \/ RefuseStart(c)
  BY ReturnStep DEF Returning, StepwiseNext
<1>9. ~AfterAuthFlattened(c)
  BY <1>1 DEF AfterAuthFlattened
<1> QED BY <1>3, <1>4, <1>5, <1>6, <1>7, <1>8, <1>9 DEF Step

LEMMA RecordedInitInv == RecordedInit => IInv /\ LeftInv
<1> SUFFICES ASSUME RecordedInit PROVE IInv /\ Steady
  BY DEF LeftInv
<1>1. IInv
  BY InitInv DEF RecordedInit
<1>2. Stepwise
  BY DEF RecordedInit, Init, Stepwise, Flattened, NoCall, MkCall
<1>3. InSync /\ up /\ Asking
  BY DEF RecordedInit, Init, ClientInit, GreetdInit, InSync, Asking
<1>4. AsIs
  BY DEF RecordedInit, Init, ClientInit, GreetdInit, AsIs, Conversation
<1>5. OutOfReach /\ Progress
  BY <1>4 DEF OutOfReach, Progress, RecordedInit, Init
<1> QED BY <1>1, <1>2, <1>3, <1>5 DEF Steady

\* A handler goes on after a reply.
LEMMA HandlerAsks ==
  ASSUME IInv, Steady, StepwiseNext, NEW c \in Callers, Step(c), ~Returning(c)
  PROVE  Steady'
<1>1. call[c] \in Call /\ ~Flattened(call[c]) /\ (Holds(c) => ~Idle(c))
  BY CallersAssumption DEF Steady, Stepwise, IInv, TypeOK, Locking, StageOps, Holds, Idle
<1>2. ASSUME Holds(c), NEW v, Return(c, v) PROVE FALSE
  BY <1>1, <1>2 DEF Return, Release, Returning, Idle, NoCall, MkCall, IInv, TypeOK
<1>3. CASE AfterCancel(c)
  <2>1. PICK o \in Outcome : Recv(o)
    BY <1>3 DEF AfterCancel
  <2>2. Holds(c) /\ stage = "cancel" /\ Ask("create", RequestOf("create", call[c]))
    BY <1>2, <1>3 DEF AfterCancel
  <2>3. RequestOf("create", call[c]) \in Request
    BY <1>1, RequestTypes DEF Stage
  <2> QED BY <2>1, <2>2, <2>3, AskLeft
<1>4. CASE AfterAuthStep(c)
  <2>1. PICK o \in Outcome :
          /\ Recv(o)
          /\ \/ Advance(c, o)
             \/ o \in {"error", "failed"} /\ GiveUp(c)
    BY <1>4 DEF AfterAuthStep
  <2>2. Holds(c) /\ stage \in {"create", "post"}
    BY <1>4 DEF AfterAuthStep
  <2>3. \/ o = "info" /\ Ask("post", PostAuthResponse(NoArg))
        \/ Ask("abort", CancelSession)
    BY <1>2, <2>1, <2>2 DEF Advance, GiveUp
  <2>4. PostAuthResponse(NoArg) \in Request /\ CancelSession \in Request
    BY <1>1, RequestTypes DEF Stage
  <2> QED BY <2>1, <2>2, <2>3, <2>4, AskLeft
<1> QED
  BY <1>1, <1>2, <1>3, <1>4
     DEF Step, AfterAuthFlattened, AfterAbort, AfterStart

\* Every step after which the rule holds keeps the invariant.
LEMMA StepwiseStep ==
  IInv /\ Steady /\ [StepwiseNext]_<<vars, left>> => IInv' /\ Steady'
<1> SUFFICES ASSUME IInv, Steady, [StepwiseNext]_<<vars, left>> PROVE IInv' /\ Steady'
  OBVIOUS
<1>1. IInv'
  BY NextInv DEF StepwiseNext
<1>2. CASE UNCHANGED <<vars, left>>
  <2>1. UNCHANGED <<session, owner, asked, up, reqs, reps, timeouts, mu, stage, call, left>>
    BY <1>2 DEF vars, connVars, greetdVars, serverVars
  <2>2. Stepwise' /\ InSync' /\ up' /\ Asking'
    BY <2>1 DEF Steady, Stepwise, InSync, Asking, left
  <2>3. OutOfReach' /\ Progress'
    BY <2>1 DEF Steady, OutOfReach, Progress, AsIs, Conversation, Answerable, left
  <2> QED BY <1>1, <2>2, <2>3 DEF Steady
<1>3. CASE StepwiseNext
  <2>1. ASSUME Serve, UNCHANGED <<timeouts, serverVars>> PROVE Steady'
    <3>1. UNCHANGED left
      BY <1>3, <2>1, NotRecorded DEF StepwiseNext, serverVars
    <3> QED BY <2>1, <3>1, ServeLeft
  <2>2. ~GreetdExit
    BY <1>3 DEF StepwiseNext, GreetdExit
  <2>3. ASSUME NEW c \in Callers, Invoke(c) \/ Lock(c) PROVE Steady'
    BY <1>3, <2>3, InvokeLeft, LockLeft
  <2>4. ASSUME NEW c \in Callers, RefuseStart(c) PROVE Steady'
    <3>1. Returning(c)
      BY <2>4 DEF RefuseStart, Return, Release, Returning, Idle, NoCall, MkCall, IInv, TypeOK,
                  Waiting
    <3> QED BY <1>3, <3>1, AtomicReturn
  <2>5. ASSUME NEW c \in Callers, Step(c) PROVE Steady'
    BY <1>3, <2>5, HandlerAsks, AtomicReturn
  <2> QED BY <1>1, <1>3, <2>1, <2>2, <2>3, <2>4, <2>5 DEF StepwiseNext, Next, Daemon
<1> QED BY <1>1, <1>2, <1>3

\* A step in which no handler returns is none of AuthService's.
LEMMA StepwiseSimulates ==
  IInv /\ Steady /\ [StepwiseNext]_<<vars, left>> =>
    [Service!ServiceNext]_(Service!serviceVars)
<1> SUFFICES ASSUME IInv, Steady, StepwiseNext
             PROVE  Service!ServiceNext \/ UNCHANGED Service!serviceVars
  BY DEF Service!serviceVars, vars, serverVars, left
<1>1. CASE \E c \in Callers : Returning(c)
  <2>1. PICK c \in Callers : Returning(c)
    BY <1>1
  <2>2. PICK o : Handler(call[c], o)
    BY <2>1, AtomicReturn
  <2>3. call[c] \in Call /\ with \in Users \union {NoArg}
    BY DEF IInv, TypeOK, Steady, Asking
  <2>4. Service!Name = Users \union {NoArg}
    BY DEF Service!Name
  <2>5. CASE call[c].op = "RespondAuth"
    <3>1. o \in Service!Outcome
      BY <2>2, <2>5
         DEF Handler, Service!RespondAuth, Service!Converse, Service!Refuse, Service!Outcome
    <3>2. Service!RespondAuth(call[c].secret, o)
      BY <2>2, <2>5 DEF Handler
    <3>3. Service!RespondAuth(with, o)
      BY <3>2 DEF Service!RespondAuth
    <3> QED BY <2>3, <2>4, <3>1, <3>3 DEF Service!ServiceNext
  <2>6. CASE call[c].op = "BeginAuth"
    <3>1. Service!BeginAuth(call[c].user, o) /\ call[c].user \in Service!Name
      BY <2>2, <2>3, <2>4, <2>6 DEF Handler, Call
    <3>2. o \in Service!Outcome
      BY <3>1 DEF Service!BeginAuth, Service!Converse, Service!Refuse, Service!Outcome
    <3> QED BY <3>1, <3>2 DEF Service!ServiceNext
  <2>7. CASE call[c].op = "CancelAuth"
    <3>1. Service!CancelAuth(o) /\ o \in Service!Outcome
      BY <2>2, <2>7 DEF Handler, Service!CancelAuth, Service!Outcome
    <3> QED BY <2>3, <2>4, <3>1 DEF Service!ServiceNext
  <2>8. CASE call[c].op = "StartSession"
    <3>1. Service!StartSession(o) /\ o \in Service!Outcome
      BY <2>2, <2>8 DEF Handler, Service!StartSession, Service!Outcome
    <3> QED BY <2>3, <2>4, <3>1 DEF Service!ServiceNext
  <2> QED BY <2>2, <2>5, <2>6, <2>7, <2>8 DEF Handler
<1>2. CASE ~\E c \in Callers : Returning(c)
  <2>1. UNCHANGED <<conv, with, prompt>>
    BY <1>2 DEF StepwiseNext, Noted, left
  <2>2. UNCHANGED saved
    <3>1. ASSUME NEW c \in Callers, Step(c) PROVE UNCHANGED saved
      <4>1. ~AfterAuthFlattened(c)
        BY DEF Steady, Stepwise, AfterAuthFlattened
      <4>2. ~AfterStart(c)
        <5>1. SUFFICES ASSUME AfterStart(c) PROVE FALSE
          OBVIOUS
        <5>2. PICK v : Return(c, v)
          BY <5>1 DEF AfterStart
        <5>3. ~Idle(c)
          BY <5>1, CallersAssumption DEF AfterStart, IInv, Locking, StageOps, Holds, Idle
        <5>4. call \in [Callers -> Call] /\ call' = [call EXCEPT ![c] = NoCall]
          BY <5>2 DEF Return, Release, IInv, TypeOK
        <5>5. Returning(c)
          BY <5>3, <5>4 DEF Returning, Idle, NoCall, MkCall
        <5> QED BY <1>2, <5>5
      <4> QED BY <3>1, <4>1, <4>2 DEF Step, AfterCancel, AfterAuthStep, AfterAbort
    <3> QED BY <3>1 DEF StepwiseNext, Next, Daemon, serverVars, Invoke, Lock, RefuseStart
  <2> QED BY <2>1, <2>2 DEF Service!serviceVars
<1> QED BY <1>1, <1>2

\* The invariant says nothing more once a front end, a deadline or greetd has broken
\* the rule.
LEMMA RecordedStep ==
  IInv /\ LeftInv /\ [Next /\ Recorded]_<<vars, history>> => IInv' /\ LeftInv'
<1> SUFFICES ASSUME IInv, LeftInv, [Next /\ Recorded]_<<vars, history>>
             PROVE  IInv' /\ (stepwise' => Steady')
  BY DEF LeftInv
<1>1. IInv'
  BY NextInv
<1>2. ASSUME stepwise' PROVE Steady'
  BY <1>2, StepwiseOrNothing, StepwiseStep DEF LeftInv
<1> QED BY <1>1, <1>2

LEMMA RecordedInvariance == RecordedSpec => [](IInv /\ LeftInv)
  BY RecordedInitInv, RecordedStep, PTL DEF RecordedSpec

\* While greetd runs and no deadline is missed, a handler that a front end steps through a
\* login with has the effect and the outcome of one step, whatever the other front ends
\* do between its round trips (server.go:61-176).
THEOREM HandlersAreOneStep == RecordedSpec => HandlersAreAtomic
<1>1. IInv /\ LeftInv /\ [Next /\ Recorded]_<<vars, history>> =>
        [\A c \in Callers :
           stepwise' /\ Returning(c) => Handler(call[c], Reported')]_<<vars, history>>
  <2> SUFFICES ASSUME IInv, LeftInv, Next /\ Recorded, stepwise',
                      NEW c \in Callers, Returning(c)
               PROVE  Handler(call[c], Reported')
    OBVIOUS
  <2>1. StepwiseNext /\ Steady
    BY DEF LeftInv, Recorded, StepwiseNext, Noted, AsIs, left
  <2> QED BY <2>1, AtomicReturn
<1> QED BY <1>1, RecordedInvariance, PTL DEF RecordedSpec, HandlersAreAtomic

\* So, as long as the rule holds, the server implements the service that the native
\* screen is built on.
THEOREM ServerIsAuthService == RecordedSpec /\ []stepwise => Service!ServiceSpec
<1>1. RecordedInit => Service!ServiceInit
  BY DEF RecordedInit, Init, Service!ServiceInit
<1>2. IInv /\ LeftInv /\ stepwise' /\ [Next /\ Recorded]_<<vars, history>> =>
        [Service!ServiceNext]_(Service!serviceVars)
  BY StepwiseOrNothing, StepwiseSimulates DEF LeftInv
<1> QED
  BY <1>1, <1>2, RecordedInvariance, PTL DEF RecordedSpec, Service!ServiceSpec
=============================================================================
