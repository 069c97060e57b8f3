--------------------------- MODULE MetalUI_proofs ---------------------------
(***************************************************************************)
(* The login screen leaves with success only when greetd has a session to  *)
(* start; and until a power key is used, its phases alone keep one login   *)
(* at a time and every step of it with one user.  For any users, any       *)
(* number of goroutines and of power actions.                              *)
(***************************************************************************)
EXTENDS MetalUI, SequenceTheorems, FiniteSetTheorems, TLAPS

\* A result that tells of a session that greetd will start.
Tells(r) == r.kind = "start" /\ r.outcome = "success"

\* Whatever was told of a start is true: by a goroutine, in the channel, on the
\* screen.
Truthful ==
  /\ success \/ phase = "warp" => conv = "started"
  /\ \A j \in Jobs :
       job[j].op = "save" \/ (job[j].op = "send" /\ Tells(job[j].res)) => conv = "started"
  /\ \A i \in DOMAIN resCh : Tells(resCh[i]) => conv = "started"

\* One goroutine, or its result, is what makes the screen busy; none is about power.
Serial ==
  /\ \A j \in Jobs : job[j].op \notin Action /\ (job[j].op = "send" => job[j].res.kind # "power")
  /\ \A i \in DOMAIN resCh : resCh[i].kind # "power"
  /\ \A j, k \in Jobs : Working(j) /\ Working(k) => j = k
  /\ resCh # <<>> => Len(resCh) = 1 /\ \A j \in Jobs : ~Working(j)
  /\ phase = "busy" <=> resCh # <<>> \/ \E j \in Jobs : Working(j)

\* A result that has the screen go on with the conversation.
Accepted(r) == r.kind = "auth" /\ r.outcome \in Prompt \union {"success"}

\* The screen, a goroutine or the channel counts on the conversation.
CountedOn ==
  \/ phase = "prompt"
  \/ \E j \in Jobs : \/ job[j].op \in {"respond", "start"}
                     \/ job[j].op = "send" /\ Accepted(job[j].res)
  \/ \E i \in DOMAIN resCh : Accepted(resCh[i])

\* All that is under way is for the user in the form, whom greetd has started
\* when there is one to remember.
SameUser ==
  /\ \A j \in Jobs :
       job[j].op \in {"begin", "respond", "start", "save"} => job[j].user = username
  /\ CountedOn /\ conv \in {"conversing", "ready"} => owner = username
  /\ \A j \in Jobs : job[j].op = "save" => owner = username
  /\ saved # Nobody => conv = "started" /\ owner = saved

\* Who is about to send a result has one.
HasResult == \A j \in Jobs : job[j].op = "send" => job[j].res \in Result

Types == TypeOK /\ HasResult

IInv == Types /\ Truthful /\ (Undisturbed => Serial /\ SameUser)

-----------------------------------------------------------------------------
(* Types. *)

\* Whatever a call comes back with, its goroutine has a next step.
LEMMA AfterType ==
  ASSUME NEW k \in Job, k.op # "send", NEW o \in Outcome \union {"failed"}
  PROVE  /\ After(k, o) \in Job \union {Free}
         /\ After(k, o).op = "send" => After(k, o).res \in Result
<1>1. [k EXCEPT !.op = "respond"] \in Job /\ [k EXCEPT !.op = "save"] \in Job
  BY DEF Job, Op
<1>2. ASSUME NEW p \in Outcome \union {"failed"} 
      PROVE  Send(k, p) \in Job /\ Send(k, p).res \in Result
  BY <1>2 DEF Send, Job, Op, Kind, Result
<1>3. "success" \in Outcome
  BY DEF Outcome
<1>4. k.op \in Op
  BY DEF Job
<1>5. CASE k.op = "begin" /\ o = "secret" /\ k.secret # Nobody
  BY <1>1, <1>5 DEF After, Job
<1>6. CASE k.op = "start" /\ o = "success"
  BY <1>1, <1>6 DEF After, Job
<1>7. CASE k.op = "cancel"
  BY <1>7 DEF After, Free
<1>8. CASE /\ ~(k.op = "begin" /\ o = "secret" /\ k.secret # Nobody)
           /\ ~(k.op = "start" /\ o = "success") /\ k.op # "cancel"
  <2>1. After(k, o) = Send(k, o) \/ After(k, o) = Send(k, "success")
    BY <1>8 DEF After
  <2> QED BY <1>2, <1>3, <2>1
<1> QED BY <1>5, <1>6, <1>7, <1>8

\* The job of a goroutine that calls, and the step that the call is.
LEMMA CallJob ==
  ASSUME TypeOK, NEW j \in Jobs, Calls(j)
  PROVE  job[j] \in Job /\ job[j].op \in Op \ {"send"}
  BY DEF TypeOK, Calls, Job, Free, Op

\* The greeter's own state keeps its types.
LEMMA EffectType ==
  ASSUME TypeOK, NEW k \in Job, NEW r \in Outcome, Effect(k, r)
  PROVE  ServiceTypeOK' /\ machine' \in {"on", "slept", "off"}
<1>1. k.user \in Name /\ k.secret \in Name
  BY DEF Job
<1> USE <1>1 DEF TypeOK, ServiceTypeOK
<1>2. CASE k.op \in {"begin", "respond", "cancel"}
  BY <1>2 DEF Effect, BeginAuth, RespondAuth, CancelAuth, Converse, Refuse, Clear, Name
<1>3. CASE k.op \in {"start", "save"}
  BY <1>3 DEF Effect, StartSession, SaveState
<1>4. CASE k.op \notin {"begin", "respond", "cancel", "start", "save"}
  BY <1>4 DEF Effect, serviceVars
<1> QED BY <1>2, <1>3, <1>4

\* What a key, or a result, has a goroutine do.
LEMMA GoType ==
  ASSUME Types, NEW op \in Op \ {"send"}, NEW u \in Name, NEW s \in Name,
         Go(MkJob(op, u, s))
  PROVE  job' \in [Jobs -> Job \union {Free}] /\ HasResult'
<1>1. PICK j \in Jobs : job' = [job EXCEPT ![j] = MkJob(op, u, s)]
  BY DEF Go
<1>2. MkJob(op, u, s) \in Job /\ MkJob(op, u, s).op # "send"
  BY DEF MkJob, Job
<1> QED BY <1>1, <1>2 DEF Types, TypeOK, HasResult

\* The channel of results.
LEMMA ChannelType ==
  ASSUME TypeOK, NEW r \in Result, Len(resCh) < ChanSize
  PROVE  Append(resCh, r) \in Seq(Result) /\ Len(Append(resCh, r)) <= ChanSize
  BY AppendProperties DEF TypeOK, ChanSize

\* No step breaks the types.
LEMMA TypesStep == Types /\ [Next]_vars => Types'
<1> SUFFICES ASSUME Types, [Next]_vars PROVE Types'
  OBVIOUS
<1> USE DEF vars, screenVars, workVars, worldVars, serviceVars
<1>1. CASE Keys
  <2>1. Nobody \in Name /\ username \in Name /\ input \in Name /\ armed \in Action \union {"none"}
    BY DEF Name, Types, TypeOK
  <2>2. ASSUME beginAuth \/ respondAuth \/ backToUser \/ FirePower
        PROVE  job' \in [Jobs -> Job \union {Free}] /\ HasResult'
    BY <2>1, <2>2, GoType DEF beginAuth, respondAuth, backToUser, FirePower, Op, Action
  <2>3. CASE Type \/ ArmPower
    BY <2>3 DEF Types, TypeOK, ServiceTypeOK, HasResult, Type, ArmPower
  <2>4. CASE beginAuth \/ respondAuth \/ backToUser
    BY <2>1, <2>2, <2>4 DEF Types, TypeOK, ServiceTypeOK, beginAuth, respondAuth, backToUser,
                            ToBusy
  <2>5. CASE FirePower
    <3>1. powered' \in 0..MaxPower
      BY <2>5, MaxPowerAssumption DEF Types, TypeOK, FirePower
    <3> QED BY <2>2, <2>5, <3>1 DEF Types, TypeOK, ServiceTypeOK, FirePower
  <2> QED BY <1>1, <2>3, <2>4, <2>5 DEF Keys
<1>2. ASSUME NEW j \in Jobs, RpcCall(j) PROVE Types'
  <2>1. job[j] \in Job /\ job[j].op # "send"
    BY <1>2, CallJob DEF RpcCall, Types
  <2>2. PICK r \in Outcome, o \in Outcome \union {"failed"} :
          /\ Effect(job[j], r) /\ Reply(o, r)
          /\ job' = [job EXCEPT ![j] = After(job[j], o)]
    BY <1>2 DEF RpcCall
  <2>3. ServiceTypeOK' /\ machine' \in {"on", "slept", "off"}
    BY <2>1, <2>2, EffectType DEF Types
  <2>4. job' \in [Jobs -> Job \union {Free}] /\ HasResult'
    BY <2>1, <2>2, AfterType DEF Types, TypeOK, HasResult
  <2> QED BY <1>2, <2>2, <2>3, <2>4 DEF Types, TypeOK, RpcCall, Reply
<1>3. ASSUME NEW j \in Jobs, RpcDead(j) PROVE Types'
  <2>1. job[j] \in Job /\ job[j].op # "send"
    BY <1>3, CallJob DEF RpcDead, Types
  <2>2. job' \in [Jobs -> Job \union {Free}] /\ HasResult'
    BY <1>3, <2>1, AfterType DEF Types, TypeOK, RpcDead, HasResult
  <2> QED BY <1>3, <2>2 DEF Types, TypeOK, ServiceTypeOK, RpcDead
<1>4. ASSUME NEW j \in Jobs, SendResult(j) PROVE Types'
  <2>1. job' \in [Jobs -> Job \union {Free}] /\ HasResult'
    BY <1>4 DEF Types, TypeOK, SendResult, HasResult, Free
  <2>2. job[j].res \in Result
    BY <1>4 DEF Types, HasResult, SendResult
  <2>3. resCh' \in Seq(Result) /\ Len(resCh') <= ChanSize
    BY <1>4, <2>2, ChannelType DEF SendResult, Types
  <2> QED BY <1>4, <2>1, <2>3 DEF Types, TypeOK, ServiceTypeOK, SendResult
<1>5. CASE TakeResult
  <2>1. Head(resCh) \in Result /\ resCh' \in Seq(Result) /\ Len(resCh') <= ChanSize
    BY <1>5, HeadTailProperties DEF TakeResult, Types, TypeOK, ChanSize
  <2>2. Nobody \in Name /\ username \in Name
    BY DEF Name, Types, TypeOK
  <2>3. /\ phase' \in {"user", "prompt", "busy", "warp"} /\ input' \in Name
        /\ job' \in [Jobs -> Job \union {Free}] /\ HasResult'
    <3>1. CASE Head(resCh).kind = "auth"
      <4>1. onAuthStep(Head(resCh).outcome)
        BY <1>5, <3>1 DEF TakeResult
      <4>2. CASE UNCHANGED job
        BY <2>2, <4>1, <4>2 DEF onAuthStep, fail, Types, TypeOK, HasResult
      <4>3. CASE Go(MkJob("start", username, Nobody)) /\ phase' = "busy" /\ UNCHANGED input
        BY <2>2, <4>3, GoType DEF Op, Types, TypeOK
      <4> QED BY <4>1, <4>2, <4>3 DEF onAuthStep, fail
    <3>2. CASE Head(resCh).kind = "start"
      BY <1>5, <2>2, <3>2 DEF TakeResult, onStart, fail, Types, TypeOK, HasResult
    <3>3. CASE Head(resCh).kind = "power"
      BY <1>5, <2>2, <3>3 DEF TakeResult, onPower, fail, Types, TypeOK, HasResult
    <3> QED BY <2>1, <3>1, <3>2, <3>3 DEF Result
  <2> QED BY <1>5, <2>1, <2>3 DEF Types, TypeOK, ServiceTypeOK, TakeResult
<1>6. CASE WarpEnds
  BY <1>6 DEF Types, TypeOK, ServiceTypeOK, WarpEnds, HasResult
<1>7. CASE UNCHANGED vars
  BY <1>7 DEF Types, TypeOK, ServiceTypeOK, HasResult
<1> QED BY <1>1, <1>2, <1>3, <1>4, <1>5, <1>6, <1>7 DEF Next, Goroutine

-----------------------------------------------------------------------------
(* What a call does. *)

\* What a goroutine does after its call, and what it has to tell.
LEMMA AfterCall ==
  ASSUME NEW k \in Job, k.op # "send", NEW o \in Outcome \union {"failed"}
  PROVE  LET a == After(k, o) IN
         /\ k.op = "cancel" => a = Free
         /\ k.op # "cancel" => a.op \in {"respond", "save", "send"} /\ a.user = k.user
         /\ a.op = "respond" => k.op = "begin" /\ o \in Prompt
         /\ a.op = "save" => k.op = "start" /\ o = "success"
         /\ a.op = "send" /\ a.res.kind = "power" => k.op \in Action
         /\ a.op = "send" /\ Tells(a.res) => k.op = "save"
         /\ a.op = "send" /\ Accepted(a.res) => k.op \in {"begin", "respond"} /\ o = a.res.outcome
<1> USE DEF Job
<1>1. CASE k.op = "begin" /\ o = "secret" /\ k.secret # Nobody
  BY <1>1 DEF After, Prompt
<1>2. CASE k.op = "start" /\ o = "success"
  BY <1>2 DEF After
<1>3. CASE k.op = "save"
  BY <1>3 DEF After, Send, Kind, Accepted
<1>4. CASE k.op = "cancel"
  BY <1>4 DEF After, Free
<1>5. CASE /\ ~(k.op = "begin" /\ o = "secret" /\ k.secret # Nobody)
           /\ ~(k.op = "start" /\ o = "success") /\ k.op \notin {"save", "cancel"}
  <2>1. After(k, o) = Send(k, o)
    BY <1>5 DEF After
  <2>2. Send(k, o).op = "send" /\ Send(k, o).user = k.user
        /\ Send(k, o).res = [kind |-> Kind(k.op), outcome |-> o]
    BY DEF Send
  <2>3. Kind(k.op) = "auth" => k.op \in {"begin", "respond"}
    BY DEF Kind
  <2>4. Kind(k.op) = "start" => k.op \in {"start", "save"}
    BY DEF Kind
  <2>5. Kind(k.op) = "power" => k.op \in Action
    BY <1>5 DEF Kind, Op
  <2> QED BY <1>5, <2>1, <2>2, <2>3, <2>4, <2>5 DEF Tells, Accepted
<1> QED BY <1>1, <1>2, <1>3, <1>4, <1>5

\* What the call does at the greeter: only a start changes whose session greetd
\* has, and only from a conversation that it has accepted.
LEMMA AtTheGreeter ==
  ASSUME NEW k \in Job, NEW r \in Outcome, Effect(k, r)
  PROVE  /\ conv = "started" => conv' = "started" /\ owner' = owner
         /\ k.op = "begin" /\ conv' \in {"conversing", "ready"} => owner' = k.user
         /\ k.op = "respond" /\ conv' \in {"conversing", "ready"} =>
              conv = "conversing" /\ owner' = owner
         /\ k.op = "cancel" => conv' \in {"none", "started"}
         /\ k.op = "start" => owner' = owner /\ (r = "success" => conv = "ready" /\ conv' = "started")
         /\ k.op = "start" /\ r # "success" => conv' = conv
         /\ k.op = "save" => saved' \in {saved, k.user}
         /\ k.op # "save" => saved' = saved
         /\ k.op \notin {"begin", "respond", "cancel", "start"} => UNCHANGED <<conv, owner>>
<1>1. CASE k.op = "begin"
  BY <1>1 DEF Effect, BeginAuth, Converse, Refuse, Clear
<1>2. CASE k.op = "respond"
  BY <1>2 DEF Effect, RespondAuth, Converse, Refuse, Clear
<1>3. CASE k.op = "cancel"
  BY <1>3 DEF Effect, CancelAuth, Clear
<1>4. CASE k.op \in {"start", "save"}
  BY <1>4 DEF Effect, StartSession, SaveState
<1>5. CASE k.op \notin {"begin", "respond", "cancel", "start", "save"}
  BY <1>5 DEF Effect, serviceVars
<1> QED BY <1>1, <1>2, <1>3, <1>4, <1>5

\* A call over the connection, or over one that is lost, as the goroutine and
\* the greeter see it.
LEMMA Called ==
  ASSUME Types, NEW j \in Jobs, RpcCall(j) \/ RpcDead(j)
  PROVE  /\ job[j] \in Job /\ job[j].op \notin {"none", "send"}
         /\ UNCHANGED <<screenVars, resCh, powered>>
         /\ \E o \in Outcome \union {"failed"} :
              /\ job' = [job EXCEPT ![j] = After(job[j], o)]
              /\ \/ o = "failed" /\ UNCHANGED serviceVars
                 \/ \E r \in Outcome : Effect(job[j], r) /\ (o = r \/ o = "failed")
<1>1. CASE RpcCall(j)
  BY <1>1, CallJob DEF Types, RpcCall, Calls
<1>2. CASE RpcDead(j)
  BY <1>2, CallJob DEF Types, RpcDead, Calls, worldVars
<1> QED BY <1>1, <1>2

-----------------------------------------------------------------------------
(* What is told of a start is true. *)

\* A goroutine that a key or a result starts has nothing to tell yet.
LEMMA GoTruthful ==
  ASSUME Types, Truthful, NEW op \in Op \ {"send", "save"}, NEW u, NEW s,
         Go(MkJob(op, u, s)), conv' = conv
  PROVE  \A j \in Jobs :
           job'[j].op = "save" \/ (job'[j].op = "send" /\ Tells(job'[j].res)) => conv' = "started"
  BY DEF Types, TypeOK, Go, MkJob, Truthful

LEMMA TruthfulStep == Types /\ Truthful /\ [Next]_vars => Truthful'
<1> SUFFICES ASSUME Types, Truthful, [Next]_vars PROVE Truthful'
  OBVIOUS
<1> USE DEF vars, screenVars, workVars, worldVars, serviceVars
<1>1. CASE Type \/ ArmPower
  BY <1>1 DEF Truthful, Type, ArmPower
<1>2. CASE beginAuth \/ respondAuth \/ backToUser \/ FirePower
  <2>1. \A j \in Jobs :
          job'[j].op = "save" \/ (job'[j].op = "send" /\ Tells(job'[j].res)) => conv' = "started"
    <3>1. armed \in Action \union {"none"}
      BY DEF Types, TypeOK
    <3> QED BY <1>2, <3>1, GoTruthful DEF beginAuth, respondAuth, backToUser, FirePower, Op, Action
  <2> QED BY <1>2, <2>1 DEF Truthful, beginAuth, respondAuth, backToUser, FirePower, ToBusy
<1>3. ASSUME NEW j \in Jobs, RpcCall(j) \/ RpcDead(j) PROVE Truthful'
  <2>1. /\ job[j] \in Job /\ job[j].op \notin {"none", "send"}
        /\ UNCHANGED <<screenVars, resCh, powered>>
    BY <1>3, Called
  <2>2. PICK o \in Outcome \union {"failed"} :
          /\ job' = [job EXCEPT ![j] = After(job[j], o)]
          /\ \/ o = "failed" /\ UNCHANGED serviceVars
             \/ \E r \in Outcome : Effect(job[j], r) /\ (o = r \/ o = "failed")
    BY <1>3, Called
  <2>3. conv = "started" => conv' = "started"
    BY <2>1, <2>2, AtTheGreeter
  <2>4. job[j].op = "start" /\ o = "success" => conv' = "started"
    BY <2>1, <2>2, AtTheGreeter
  <2>5. ASSUME NEW i \in Jobs,
               job'[i].op = "save" \/ (job'[i].op = "send" /\ Tells(job'[i].res))
        PROVE  conv' = "started"
    <3>1. CASE i = j
      <4>1. job'[j] = After(job[j], o)
        BY <2>2 DEF Types, TypeOK
      <4> QED BY <2>1, <2>3, <2>4, <2>5, <3>1, <4>1, AfterCall DEF Truthful
    <3>2. CASE i # j
      BY <2>2, <2>3, <2>5, <3>2 DEF Truthful, Types, TypeOK
    <3> QED BY <3>1, <3>2
  <2> QED BY <2>1, <2>3, <2>5 DEF Truthful
<1>4. ASSUME NEW j \in Jobs, SendResult(j) PROVE Truthful'
  <2>1. resCh' = Append(resCh, job[j].res) /\ job[j].op = "send" /\ conv' = conv
    BY <1>4 DEF SendResult
  <2>2. ASSUME NEW i \in DOMAIN resCh', Tells(resCh'[i]) PROVE conv' = "started"
    BY <2>1, <2>2, AppendProperties DEF Types, TypeOK, HasResult, Truthful
  <2> QED BY <1>4, <2>2 DEF SendResult, Truthful, Types, TypeOK, Free
<1>5. CASE TakeResult
  <2>1. /\ resCh \in Seq(Result) /\ resCh # <<>> /\ resCh' = Tail(resCh)
        /\ UNCHANGED <<success, conv>>
    BY <1>5 DEF TakeResult, Types, TypeOK
  <2>2. Head(resCh) = resCh[1] /\ 1 \in DOMAIN resCh /\ Head(resCh) \in Result
    BY <2>1, HeadTailProperties
  <2>3. \A i \in DOMAIN resCh' : Tells(resCh'[i]) => conv' = "started"
    BY <2>1, HeadTailProperties DEF Truthful
  <2>4. /\ phase' = "warp" => conv' = "started"
        /\ UNCHANGED job \/ Go(MkJob("start", username, Nobody))
    <3>1. CASE Head(resCh).kind = "auth"
      BY <1>5, <3>1 DEF TakeResult, onAuthStep, fail
    <3>2. CASE Head(resCh).kind = "start"
      BY <1>5, <2>1, <2>2, <3>2 DEF TakeResult, onStart, fail, Truthful, Tells
    <3>3. CASE Head(resCh).kind = "power"
      BY <1>5, <2>1, <3>3 DEF TakeResult, onPower, fail, Truthful
    <3> QED BY <2>2, <3>1, <3>2, <3>3 DEF Result
  <2>5. \A j \in Jobs :
          job'[j].op = "save" \/ (job'[j].op = "send" /\ Tells(job'[j].res)) => conv' = "started"
    <3>1. CASE UNCHANGED job
      BY <2>1, <3>1 DEF Truthful
    <3>2. CASE Go(MkJob("start", username, Nobody))
      BY <2>1, <3>2, GoTruthful DEF Op
    <3> QED BY <2>4, <3>1, <3>2
  <2> QED BY <2>1, <2>3, <2>4, <2>5 DEF Truthful
<1>6. CASE WarpEnds
  BY <1>6 DEF WarpEnds, Truthful
<1>7. CASE UNCHANGED vars
  BY <1>7 DEF Truthful
<1> QED BY <1>1, <1>2, <1>3, <1>4, <1>5, <1>6, <1>7 DEF Next, Goroutine, Keys

-----------------------------------------------------------------------------
(* One login at a time, for one user. *)

Orderly == Serial /\ SameUser

\* Typing, and what concerns neither the goroutines nor the greeter.
LEMMA TypeOrderly ==
  ASSUME Types, Orderly, Type \/ ArmPower \/ WarpEnds \/ UNCHANGED vars
  PROVE  Orderly'
<1> USE DEF vars, screenVars, workVars, worldVars, serviceVars
<1>1. CASE ArmPower \/ WarpEnds \/ UNCHANGED vars
  BY <1>1 DEF ArmPower, WarpEnds, Orderly, Serial, SameUser, Working, CountedOn
<1>2. CASE Type
  <2>1. CASE phase = "user" /\ username' \in Name /\ UNCHANGED input
    <3>1. /\ resCh = <<>> /\ \A j \in Jobs : ~Working(j)
          /\ phase # "prompt"
      BY <2>1 DEF Orderly, Serial
    <3>2. ~CountedOn /\ DOMAIN resCh = {}
      BY <3>1 DEF CountedOn, Working
    <3>3. ~CountedOn'
      BY <1>2, <3>1, <3>2 DEF CountedOn, Type
    <3> QED BY <1>2, <3>1, <3>3 DEF Type, Orderly, Serial, SameUser, Working
  <2>2. CASE UNCHANGED username
    BY <1>2, <2>2 DEF Type, Orderly, Serial, SameUser, Working, CountedOn
  <2> QED BY <1>2, <2>1, <2>2 DEF Type
<1> QED BY <1>1, <1>2

\* A goroutine is started while the screen is not busy, and makes it busy.
LEMMA GoOrderly ==
  ASSUME Types, Orderly, NEW op \in {"begin", "respond"}, NEW s,
         Go(MkJob(op, username, s)), phase # "busy",
         op = "respond" => phase = "prompt",
         phase' = "busy", UNCHANGED <<username, resCh, serviceVars>>
  PROVE  Orderly'
<1>1. PICK j \in Jobs : job[j] = Free /\ job' = [job EXCEPT ![j] = MkJob(op, username, s)]
  BY DEF Go
<1>2. /\ job'[j] = MkJob(op, username, s)
      /\ \A i \in Jobs : i # j => job'[i] = job[i]
  BY <1>1 DEF Types, TypeOK
<1>3. resCh = <<>> /\ \A i \in Jobs : ~Working(i)
  BY DEF Orderly, Serial
<1>4. Serial'
  BY <1>2, <1>3 DEF Orderly, Serial, MkJob, Action, Working
<1>5. CountedOn' => CountedOn
  BY <1>2, <1>3 DEF CountedOn, MkJob, Working
<1>6. SameUser'
  BY <1>2, <1>3, <1>5 DEF Orderly, SameUser, MkJob, Working, serviceVars
<1> QED BY <1>4, <1>6 DEF Orderly

\* A cancel is nobody's work.
LEMMA CancelOrderly ==
  ASSUME Types, Orderly, backToUser
  PROVE  Orderly'
<1>1. PICK j \in Jobs :
        job[j] = Free /\ job' = [job EXCEPT ![j] = MkJob("cancel", Nobody, Nobody)]
  BY DEF Go, backToUser
<1>2. /\ job'[j] = MkJob("cancel", Nobody, Nobody)
      /\ \A i \in Jobs : i # j => job'[i] = job[i]
  BY <1>1 DEF Types, TypeOK
<1>3. resCh = <<>> /\ \A i \in Jobs : ~Working(i)
  BY DEF Orderly, Serial, backToUser
<1>4. Serial'
  BY <1>2, <1>3 DEF Orderly, Serial, MkJob, Action, Working, backToUser
<1>5. ~CountedOn'
  BY <1>2, <1>3 DEF CountedOn, MkJob, Working, backToUser
<1>6. SameUser'
  BY <1>2, <1>3, <1>5 DEF Orderly, SameUser, MkJob, Working, serviceVars, worldVars, backToUser
<1> QED BY <1>4, <1>6 DEF Orderly

\* A call: a goroutine that works goes on working, and a cancel only takes the
\* conversation away.
LEMMA CallOrderly ==
  ASSUME Types, Truthful, Orderly, NEW j \in Jobs, RpcCall(j) \/ RpcDead(j)
  PROVE  Orderly'
<1>1. /\ job[j] \in Job /\ job[j].op \notin {"none", "send"}
      /\ UNCHANGED <<screenVars, resCh, powered>>
  BY Called
<1>2. PICK o \in Outcome \union {"failed"} :
        /\ job' = [job EXCEPT ![j] = After(job[j], o)]
        /\ \/ o = "failed" /\ UNCHANGED serviceVars
           \/ \E r \in Outcome : Effect(job[j], r) /\ (o = r \/ o = "failed")
  BY Called
<1>3. /\ job'[j] = After(job[j], o)
      /\ \A i \in Jobs : i # j => job'[i] = job[i]
  BY <1>2 DEF Types, TypeOK
<1>4. job[j].op \in {"begin", "respond", "start", "save", "cancel"}
  BY <1>1 DEF Orderly, Serial, Job, Op
<1>5. CASE job[j].op = "cancel"
  <2>1. job'[j] = Free /\ ~Working(j) /\ ~Working(j)'
    BY <1>1, <1>3, <1>5, AfterCall DEF Working, Free
  <2>2. Serial'
    BY <1>1, <1>3, <2>1 DEF Orderly, Serial, Working, Free, Action, screenVars
  <2>3. CountedOn' => CountedOn
    BY <1>1, <1>3, <2>1 DEF CountedOn, Free, screenVars
  <2>4. /\ (conv' = conv /\ owner' = owner) \/ conv' \in {"none", "started"}
        /\ conv = "started" => conv' = "started" /\ owner' = owner
        /\ saved' = saved
    BY <1>1, <1>2, <1>5, AtTheGreeter DEF serviceVars
  <2>5. \A i \in Jobs : job[i].op = "save" => conv = "started"
    BY DEF Truthful
  <2>6. SameUser'
    BY <1>1, <1>3, <2>1, <2>3, <2>4, <2>5 DEF Orderly, SameUser, Free, screenVars
  <2> QED BY <2>2, <2>6 DEF Orderly
<1>6. CASE job[j].op # "cancel"
  <2>1. Working(j) /\ Working(j)' /\ \A i \in Jobs : i # j => ~Working(i) /\ ~Working(i)'
    BY <1>1, <1>3, <1>4, <1>6, AfterCall DEF Orderly, Serial, Working
  <2>2. resCh' = <<>> /\ resCh = <<>> /\ phase' = "busy"
    BY <1>1, <2>1 DEF Orderly, Serial, screenVars
  <2>3. Serial'
    <3>1. job'[j].op = "send" => job'[j].res.kind # "power"
      BY <1>1, <1>3, <1>4, AfterCall DEF Action
    <3> QED BY <1>3, <2>1, <2>2, <3>1 DEF Orderly, Serial, Working, Action
  <2>4. job'[j].user = username' /\ job[j].user = username /\ username' = username
    BY <1>1, <1>3, <1>4, <1>6, AfterCall DEF Orderly, SameUser, screenVars
  <2>5. CountedOn' /\ conv' \in {"conversing", "ready"} => owner' = username'
    <3>1. SUFFICES ASSUME conv' \in {"conversing", "ready"},
                          \/ job'[j].op \in {"respond", "start"}
                          \/ job'[j].op = "send" /\ Accepted(job'[j].res)
                   PROVE  owner' = username
      BY <2>1, <2>2, <2>4 DEF CountedOn, Working
    <3>2. /\ o \in Prompt \union {"success"}
          /\ job[j].op \in {"begin", "respond"}
      BY <1>1, <1>3, <1>6, <3>1, AfterCall DEF Accepted
    <3>3. PICK r \in Outcome : Effect(job[j], r)
      BY <1>2, <3>2 DEF Prompt
    <3>4. CASE job[j].op = "begin"
      BY <1>1, <2>4, <3>1, <3>3, <3>4, AtTheGreeter
    <3>5. CASE job[j].op = "respond"
      <4>1. CountedOn
        BY <3>5 DEF CountedOn
      <4> QED BY <1>1, <3>1, <3>3, <3>5, <4>1, AtTheGreeter DEF Orderly, SameUser
    <3> QED BY <3>2, <3>4, <3>5
  <2>6. job'[j].op = "save" => owner' = username'
    <3>1. SUFFICES ASSUME job[j].op = "start", o = "success" PROVE owner' = username
      BY <1>1, <1>3, <2>4, AfterCall
    <3>2. PICK r \in Outcome : Effect(job[j], r) /\ r = "success"
      BY <1>2, <3>1
    <3>3. CountedOn
      BY <3>1 DEF CountedOn
    <3> QED BY <1>1, <3>1, <3>2, <3>3, AtTheGreeter DEF Orderly, SameUser
  <2>7. saved' # Nobody => conv' = "started" /\ owner' = saved'
    <3>1. CASE UNCHANGED serviceVars
      BY <3>1 DEF Orderly, SameUser, serviceVars
    <3>2. CASE \E r \in Outcome : Effect(job[j], r)
      <4>1. CASE job[j].op = "save"
        BY <1>1, <2>4, <3>2, <4>1, AtTheGreeter DEF Orderly, SameUser, Truthful
      <4>2. CASE job[j].op # "save"
        BY <1>1, <3>2, <4>2, AtTheGreeter DEF Orderly, SameUser
      <4> QED BY <4>1, <4>2
    <3> QED BY <1>2, <3>1, <3>2
  <2>8. SameUser'
    BY <2>1, <2>4, <2>5, <2>6, <2>7 DEF SameUser, Working
  <2> QED BY <2>3, <2>8 DEF Orderly
<1> QED BY <1>5, <1>6

\* A result is sent by the one goroutine that works.
LEMMA SendOrderly ==
  ASSUME Types, Orderly, NEW j \in Jobs, SendResult(j)
  PROVE  Orderly'
<1>1. Working(j) /\ resCh = <<>> /\ phase = "busy" /\ \A i \in Jobs : i # j => ~Working(i)
  BY DEF SendResult, Working, Orderly, Serial
<1>2. /\ job'[j] = Free /\ \A i \in Jobs : i # j => job'[i] = job[i]
      /\ UNCHANGED <<screenVars, serviceVars>>
  BY DEF SendResult, Types, TypeOK, worldVars
<1>3. job[j].res \in Result /\ job[j].op = "send"
  BY DEF SendResult, Types, HasResult
<1>4. /\ Len(resCh') = 1 /\ resCh' # <<>>
      /\ \A i \in DOMAIN resCh' : resCh'[i] = job[j].res
  BY <1>1, <1>3 DEF SendResult
<1>5. Serial'
  <2>1. \A i \in DOMAIN resCh' : resCh'[i].kind # "power"
    BY <1>3, <1>4 DEF Orderly, Serial
  <2>2. \A i \in Jobs : ~Working(i)'
    BY <1>1, <1>2 DEF Working, Free
  <2>3. \A i \in Jobs :
          job'[i].op \notin Action /\ (job'[i].op = "send" => job'[i].res.kind # "power")
    BY <1>2 DEF Orderly, Serial, Free, Action
  <2>4. phase' = "busy"
    BY <1>1, <1>2 DEF screenVars
  <2> QED BY <1>4, <2>1, <2>2, <2>3, <2>4 DEF Serial
<1>6. CountedOn' => CountedOn
  BY <1>1, <1>2, <1>3, <1>4 DEF CountedOn, Free, screenVars
<1>7. SameUser'
  BY <1>2, <1>6 DEF Orderly, SameUser, Free, screenVars, serviceVars
<1> QED BY <1>5, <1>7 DEF Orderly

\* The result is taken while no goroutine works; a start is for the user that
\* the form still names.
LEMMA TakeOrderly ==
  ASSUME Types, Orderly, TakeResult
  PROVE  Orderly'
<1>1. /\ resCh # <<>> /\ Len(resCh) = 1 /\ phase = "busy" /\ \A j \in Jobs : ~Working(j)
      /\ resCh \in Seq(Result) /\ resCh' = Tail(resCh)
      /\ UNCHANGED <<username, serviceVars>>
  BY DEF TakeResult, Orderly, Serial, Types, TypeOK, worldVars
<1>2. resCh' = <<>> /\ 1 \in DOMAIN resCh /\ Head(resCh) = resCh[1] /\ resCh[1] \in Result
  BY <1>1
<1>3. CASE UNCHANGED job /\ phase' \notin {"busy", "prompt"}
  <2>1. Serial'
    BY <1>1, <1>2, <1>3 DEF Orderly, Serial, Working
  <2>2. ~CountedOn'
    BY <1>1, <1>2, <1>3 DEF CountedOn, Working
  <2> QED BY <1>1, <1>3, <2>1, <2>2 DEF Orderly, SameUser, serviceVars
<1>4. CASE UNCHANGED job /\ phase' = "prompt" /\ Accepted(Head(resCh))
  <2>1. Serial'
    BY <1>1, <1>2, <1>4 DEF Orderly, Serial, Working
  <2>2. CountedOn
    BY <1>2, <1>4 DEF CountedOn
  <2> QED BY <1>1, <1>4, <2>1, <2>2 DEF Orderly, SameUser, serviceVars
<1>5. CASE /\ Go(MkJob("start", username, Nobody))
           /\ phase' = "busy" /\ Accepted(Head(resCh))
  <2>1. PICK j \in Jobs :
          job[j] = Free /\ job' = [job EXCEPT ![j] = MkJob("start", username, Nobody)]
    BY <1>5 DEF Go
  <2>2. /\ job'[j] = MkJob("start", username, Nobody)
        /\ \A i \in Jobs : i # j => job'[i] = job[i]
    BY <2>1 DEF Types, TypeOK
  <2>3. Serial'
    BY <1>1, <1>2, <1>5, <2>2 DEF Orderly, Serial, MkJob, Action, Working
  <2>4. CountedOn
    BY <1>2, <1>5 DEF CountedOn
  <2>5. SameUser'
    BY <1>1, <2>2, <2>4 DEF Orderly, SameUser, MkJob, Working, serviceVars
  <2> QED BY <2>3, <2>5 DEF Orderly
<1>6. Head(resCh).kind # "power"
  BY <1>2 DEF Orderly, Serial
<1>7. \/ UNCHANGED job /\ phase' \notin {"busy", "prompt"}
      \/ UNCHANGED job /\ phase' = "prompt" /\ Accepted(Head(resCh))
      \/ /\ Go(MkJob("start", username, Nobody))
         /\ phase' = "busy" /\ Accepted(Head(resCh))
  <2>1. CASE Head(resCh).kind = "auth"
    <3>1. onAuthStep(Head(resCh).outcome)
      BY <2>1 DEF TakeResult
    <3> QED BY <2>1, <3>1 DEF onAuthStep, fail, Accepted
  <2>2. CASE Head(resCh).kind = "start"
    BY <2>2 DEF TakeResult, onStart, fail
  <2> QED BY <1>2, <1>6, <2>1, <2>2 DEF Result
<1> QED BY <1>3, <1>4, <1>5, <1>7

\* The use of a power key is the one step that is not orderly, and it is counted.
LEMMA OrderlyStep ==
  ASSUME IInv, [Next]_vars
  PROVE  Undisturbed' => Orderly'
<1>1. powered \in Nat
  BY MaxPowerAssumption DEF IInv, Types, TypeOK
<1>2. CASE FirePower
  BY <1>1, <1>2 DEF FirePower, Undisturbed
<1>3. CASE UNCHANGED powered
  <2> SUFFICES ASSUME Undisturbed' PROVE Orderly'
    OBVIOUS
  <2>1. Types /\ Truthful /\ Orderly
    BY <1>3 DEF IInv, Orderly, Undisturbed
  <2>2. ASSUME beginAuth \/ respondAuth PROVE Orderly'
    BY <2>1, <2>2, GoOrderly DEF beginAuth, respondAuth, ToBusy, worldVars
  <2>3. CASE Keys
    BY <1>1, <1>3, <2>1, <2>2, <2>3, TypeOrderly, CancelOrderly DEF Keys, FirePower
  <2> QED BY <2>1, <2>3, TypeOrderly, CallOrderly, SendOrderly, TakeOrderly DEF Next, Goroutine
<1>4. FirePower \/ UNCHANGED powered
  BY DEF Next, Goroutine, Keys, Type, beginAuth, respondAuth, backToUser, ArmPower, RpcCall,
         RpcDead, SendResult, TakeResult, WarpEnds, vars
<1> QED BY <1>2, <1>3, <1>4

LEMMA InitInv == Init => IInv
<1> SUFFICES ASSUME Init PROVE IInv
  OBVIOUS
<1>1. Types
  <2>1. ServiceTypeOK /\ input \in Name
    BY DEF Init, ServiceInit, ServiceTypeOK, Name
  <2>2. job \in [Jobs -> Job \union {Free}] /\ HasResult
    BY DEF Init, HasResult, Free
  <2>3. resCh \in Seq(Result) /\ Len(resCh) <= ChanSize /\ powered \in 0..MaxPower
    BY MaxPowerAssumption DEF Init, ChanSize
  <2> QED BY <2>1, <2>2, <2>3 DEF Init, Types, TypeOK
<1>2. Truthful
  BY DEF Init, Truthful, Free
<1>3. Serial
  BY DEF Init, Serial, Working, Free, Action
<1>4. SameUser
  BY DEF Init, ServiceInit, SameUser, CountedOn, Free
<1> QED BY <1>1, <1>2, <1>3, <1>4 DEF IInv

\* In every state the invariant holds: each step keeps it.
THEOREM Invariance == Spec => []IInv
<1>1. IInv /\ [Next]_vars => IInv'
  BY TypesStep, TruthfulStep, OrderlyStep DEF IInv, Orderly
<1> QED BY InitInv, <1>1, PTL DEF Spec

-----------------------------------------------------------------------------
(* The theorems. *)

\* Type correctness of the screen, its goroutines and its channel.
THEOREM TypeCorrect == Spec => []TypeOK
<1>1. IInv => TypeOK
  BY DEF IInv, Types
<1> QED BY <1>1, Invariance, PTL

\* Whatever keys are pressed, power keys too, and whenever the connection is
\* lost: the greeter leaves with success only when greetd has accepted the
\* session, so greetd is never left without one to start (ui.go:502-541).
THEOREM SuccessIsTrue == Spec => []SuccessMeansStarted
<1>1. IInv => SuccessMeansStarted
  BY DEF IInv, Truthful, SuccessMeansStarted
<1> QED BY <1>1, Invariance, PTL

\* Until a power key is used, the phases of the screen serialise the goroutines:
\* one authentication or start at a time (ui.go:202-259).
THEOREM PhasesSerialise == Spec => []OneAtATime
<1>1. ASSUME IInv PROVE OneAtATime
  <2> SUFFICES ASSUME Undisturbed
               PROVE  Cardinality({j \in Jobs : Working(j)}) + Len(resCh)
                        = (IF phase = "busy" THEN 1 ELSE 0)
    BY DEF OneAtATime
  <2>1. Serial /\ resCh \in Seq(Result)
    BY <1>1 DEF IInv, Types, TypeOK
  <2>2. CASE \E j \in Jobs : Working(j)
    <3>1. PICK j \in Jobs : Working(j)
      BY <2>2
    <3>2. {i \in Jobs : Working(i)} = {j}
      BY <2>1, <3>1 DEF Serial
    <3>3. resCh = <<>> /\ phase = "busy"
      BY <2>1, <3>1 DEF Serial
    <3>4. Cardinality({i \in Jobs : Working(i)}) = 1
      BY <3>2, FS_Singleton
    <3>5. Len(resCh) = 0
      BY <3>3
    <3> QED BY <3>3, <3>4, <3>5
  <2>3. CASE \A j \in Jobs : ~Working(j)
    <3>1. {i \in Jobs : Working(i)} = {}
      BY <2>3
    <3>2. Cardinality({i \in Jobs : Working(i)}) = 0
      BY <3>1, FS_EmptySet
    <3>3. Len(resCh) = (IF phase = "busy" THEN 1 ELSE 0)
      BY <2>1, <2>3 DEF Serial
    <3> QED BY <3>2, <3>3
  <2> QED BY <2>2, <2>3
<1> QED BY <1>1, Invariance, PTL

\* Until a power key is used, the user remembered is the one whose session
\* greetd starts (ui.go:446, server.go:209-216).
THEOREM RememberedIsStarted == Spec => []SavedUserIsStarted
<1>1. IInv => SavedUserIsStarted
  BY DEF IInv, SameUser, SavedUserIsStarted
<1> QED BY <1>1, Invariance, PTL

\* Until a power key is used, a password typed for one user never answers
\* another user's prompt, however late a cancel comes (ui.go:180-188, 405-426).
THEOREM PasswordIsForItsUser == Spec => PasswordGoesToItsUser
<1>1. ASSUME IInv, NEW j \in Jobs, Undisturbed, job[j].op = "respond", conv = "conversing"
      PROVE  owner = job[j].user
  BY <1>1 DEF IInv, SameUser, CountedOn
<1>2. IInv /\ [Next]_vars =>
        [\A j \in Jobs :
           Undisturbed /\ job[j].op = "respond" /\ job'[j] # job[j] /\ conv = "conversing"
             => owner = job[j].user]_vars
  BY <1>1
<1> QED BY <1>2, Invariance, PTL DEF Spec, PasswordGoesToItsUser

=============================================================================
