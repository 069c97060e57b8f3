--------------------------- MODULE GreeterServer ---------------------------
(***************************************************************************)
(* internal/server/server.go: the handlers front ends call, each run under *)
(* the server's mutex and made of round trips to greetd.                   *)
(*                                                                         *)
(* A call waits for the mutex (mu), then alternates between a reply of     *)
(* greetd and the next request: no other state is read in between, so      *)
(* reading a reply and writing the request that follows is one step.       *)
(* stage names the request whose reply the holder of the mutex awaits.     *)
(***************************************************************************)
EXTENDS GreetdClient

CONSTANTS
  Callers,  \* goroutines of the front ends: dispatcher, socket, native theme
  Nobody    \* the mutex is free

ASSUME CallersAssumption == Nobody \notin Callers

VARIABLES
  mu,       \* the caller that holds the mutex
  stage,    \* what the holder awaits: see Stage
  call,     \* call[c]: the call c is making, NoCall if none
  verdict,  \* what the last call to return reported, "none" once the mutex is taken
  saved     \* the last user written by Login, NoArg if none

serverVars == <<mu, stage, call, verdict, saved>>
vars       == <<connVars, serverVars>>

\* "abort" is the cancel_session that advance sends before it reports a failure.
Stage   == {"none", "cancel", "create", "post", "start", "abort"}
Verdict == {"none", "ok", "prompt", "failed"}
CallOp  == {"Authenticate", "Login", "BeginAuth", "RespondAuth", "CancelAuth",
            "StartSession"}

\* user: the account named; secret: the password or the response given;
\* chosen: the request carries a desktop session.
MkCall(op, user, secret, chosen) ==
  [op |-> op, user |-> user, secret |-> secret, chosen |-> chosen]

Call == [op : CallOp \union {"none"}, user : Users \union {NoArg},
         secret : Arg, chosen : BOOLEAN]

NoCall == MkCall("none", NoArg, NoArg, FALSE)

\* The calls a front end can make: any handler, in any order, with the fields
\* that its request has.
CallInput ==
  {k \in Call :
     /\ k.op # "none"
     /\ k.user # NoArg   <=> k.op \in {"Authenticate", "Login", "BeginAuth"}
     /\ k.secret # NoArg <=> k.op \in {"Authenticate", "Login", "RespondAuth"}
     /\ k.chosen          => k.op \in {"Login", "StartSession"}}

TypeOK ==
  /\ ClientTypeOK
  /\ mu \in Callers \union {Nobody}
  /\ stage \in Stage
  /\ call \in [Callers -> Call]
  /\ verdict \in Verdict
  /\ saved \in Users \union {NoArg}

Init ==
  /\ ClientInit
  /\ mu = Nobody
  /\ stage = "none"
  /\ call = [c \in Callers |-> NoCall]
  /\ verdict = "none"
  /\ saved = NoArg

-----------------------------------------------------------------------------
\* Operators named Faulty... are variants of the definition that follows them,
\* each with one plausible bug; no specification uses them.

FaultyReleaseKeepsLock(c, v) ==
  /\ stage' = "none"
  /\ call' = [call EXCEPT ![c] = NoCall]
  /\ verdict' = v
  /\ UNCHANGED mu

\* Returning releases the mutex; going on writes the next request.
Release(c, v) ==
  /\ mu' = Nobody
  /\ stage' = "none"
  /\ call' = [call EXCEPT ![c] = NoCall]
  /\ verdict' = v

Return(c, v) ==
  /\ Release(c, v)
  /\ UNCHANGED reqs

Ask(s, request) ==
  /\ Send(request)
  /\ stage' = s
  /\ UNCHANGED <<mu, call, verdict>>

Idle(c)    == call[c].op = "none"
Waiting(c) == ~Idle(c) /\ mu = Nobody
Holds(c)   == mu = c

\* A front end calls a handler, which then waits for the mutex.
Invoke(c) ==
  /\ Idle(c)
  /\ \E k \in CallInput : call' = [call EXCEPT ![c] = k]
  /\ UNCHANGED <<connVars, mu, stage, verdict, saved>>

\* BeginAuth creates its session without cancelling the last one.
FaultyFirstStage(k) ==
  CASE k.op = "RespondAuth"  -> "post"
    [] k.op = "StartSession" -> "start"
    [] k.op = "BeginAuth"    -> "create"
    [] OTHER                 -> "cancel"

\* The handlers that open a conversation cancel whatever is configured first.
FirstStage(k) ==
  CASE k.op = "RespondAuth"  -> "post"
    [] k.op = "StartSession" -> "start"
    [] OTHER                 -> "cancel"

RequestOf(s, k) ==
  CASE s = "create" -> CreateSession(k.user)
    [] s = "post"   -> PostAuthResponse(k.secret)
    [] s = "start"  -> StartSession
    [] OTHER        -> CancelSession

\* mu.Lock and the handler's first request.
Lock(c) ==
  /\ Waiting(c)
  /\ call[c].op = "StartSession" => call[c].chosen
  /\ mu' = c
  /\ stage' = FirstStage(call[c])
  /\ Send(RequestOf(FirstStage(call[c]), call[c]))
  /\ verdict' = "none"
  /\ UNCHANGED <<pamVars, up, reps, timeouts, call, saved>>

\* A StartSession without a session is refused before greetd hears of it.
RefuseStart(c) ==
  /\ Waiting(c)
  /\ call[c].op = "StartSession"
  /\ ~call[c].chosen
  /\ Return(c, "failed")
  /\ UNCHANGED <<pamVars, up, reps, timeouts, saved>>

\* cancel_session came back, its result ignored: CancelAuth is done, the
\* others create a session for their user.
AfterCancel(c) ==
  /\ Holds(c)
  /\ stage = "cancel"
  /\ \E o \in Outcome : Recv(o)
  /\ IF call[c].op = "CancelAuth"
     THEN Return(c, "ok")
     ELSE Ask("create", RequestOf("create", call[c]))
  /\ UNCHANGED saved

\* The loop of Client.Authenticate, for Authenticate and Login: a secret
\* prompt gets the password, every other message nil; an error ends it as is.
Flattened(k) == k.op \in {"Authenticate", "Login"}

\* greetd accepted the user: Login goes on to start the session it was given.
Authenticated(c) ==
  \/ /\ call[c].op = "Authenticate"
     /\ Return(c, "ok")
  \/ /\ call[c].op = "Login" /\ call[c].chosen
     /\ Ask("start", StartSession)
  \/ /\ call[c].op = "Login" /\ ~call[c].chosen
     /\ Return(c, "failed")

PostFlattened(c, o) ==
  Ask("post", PostAuthResponse(IF o = "secret" THEN call[c].secret ELSE NoArg))

\* Every answer that is not an auth_message counts as success.
FaultyFlattenedAcceptsAll(c, o) ==
  \/ o \in Question /\ PostFlattened(c, o)
  \/ o \notin Question /\ Authenticated(c)

\* The result of create_session is not looked at before the password is posted.
FaultyFlattenedPostsBlindly(c, o) ==
  \/ stage = "create" /\ PostFlattened(c, "secret")
  \/ stage = "post" /\ o = "success" /\ Authenticated(c)
  \/ stage = "post" /\ o # "success" /\ Return(c, "failed")

AdvanceFlattened(c, o) ==
  \/ o \in Question /\ PostFlattened(c, o)
  \/ o = "success" /\ Authenticated(c)
  \/ o \in {"error", "failed"} /\ Return(c, "failed")

AfterAuthFlattened(c) ==
  /\ Holds(c)
  /\ stage \in {"create", "post"}
  /\ Flattened(call[c])
  /\ \E o \in Outcome : Recv(o) /\ AdvanceFlattened(c, o)
  /\ UNCHANGED saved

\* The loop of advance, for BeginAuth and RespondAuth: a prompt goes back to
\* the front end, an info line is acknowledged, and whatever ends the
\* conversation badly is followed by a cancel_session.
Advance(c, o) ==
  \/ /\ o \in {"secret", "visible"}
     /\ Return(c, "prompt")
  \/ /\ o = "info"
     /\ Ask("post", PostAuthResponse(NoArg))
  \/ /\ o = "success"
     /\ Return(c, "ok")

\* A conversation that ends badly is left as it is.
FaultyGiveUpNoCancel(c) == Return(c, "failed")

\* The closing cancel_session is sent and its reply not waited for.
FaultyGiveUpNoWait(c) == Send(CancelSession) /\ Release(c, "failed")

GiveUp(c) == Ask("abort", CancelSession)

AfterAuthStep(c) ==
  /\ Holds(c)
  /\ stage \in {"create", "post"}
  /\ ~Flattened(call[c])
  /\ \E o \in Outcome :
       /\ Recv(o)
       /\ \/ Advance(c, o)
          \/ o \in {"error", "failed"} /\ GiveUp(c)
  /\ UNCHANGED saved

AfterAbort(c) ==
  /\ Holds(c)
  /\ stage = "abort"
  /\ \E o \in Outcome : Recv(o)
  /\ Return(c, "failed")
  /\ UNCHANGED saved

\* Login remembers its user before it looks at the answer.
FaultyRememberEarly(c, o) ==
  saved' = IF call[c].op = "Login" THEN call[c].user ELSE saved

\* Login remembers the password in place of the name.
FaultyRememberSecret(c, o) ==
  saved' = IF o = "success" /\ call[c].op = "Login" THEN call[c].secret ELSE saved

Remember(c, o) ==
  saved' = IF o = "success" /\ call[c].op = "Login" THEN call[c].user ELSE saved

\* start_session came back: Login records its user, before the mutex is released.
AfterStart(c) ==
  /\ Holds(c)
  /\ stage = "start"
  /\ \E o \in Outcome :
       /\ Recv(o)
       /\ Remember(c, o)
       /\ Return(c, IF o = "success" THEN "ok" ELSE "failed")

Step(c) ==
  \/ AfterCancel(c)
  \/ AfterAuthFlattened(c)
  \/ AfterAuthStep(c)
  \/ AfterAbort(c)
  \/ AfterStart(c)

Daemon ==
  /\ Serve \/ GreetdExit
  /\ UNCHANGED <<timeouts, serverVars>>

Next ==
  \/ Daemon
  \/ \E c \in Callers : Invoke(c) \/ Lock(c) \/ RefuseStart(c) \/ Step(c)

Spec == Init /\ [][Next]_vars

\* greetd answers, a goroutine that can go on does, and sync.Mutex hands the
\* lock to a waiter that has been passed over (its starvation mode).  Nothing
\* makes a front end call.
Fairness ==
  /\ WF_vars(Serve /\ UNCHANGED <<timeouts, serverVars>>)
  /\ \A c \in Callers : /\ WF_vars(Step(c))
                        /\ SF_vars(Lock(c) \/ RefuseStart(c))

FairSpec == Spec /\ Fairness

-----------------------------------------------------------------------------
OpOf(s) ==
  CASE s = "create" -> "create_session"
    [] s = "post"   -> "post_auth_message_response"
    [] s = "start"  -> "start_session"
    [] OTHER        -> "cancel_session"

InSync == timeouts = 0

\* "one greetd conn one conversation at a time" (server.go:26): while greetd
\* runs, what is in flight is the holder's request plus one leftover for every
\* deadline ever missed.  roundTrip never makes up for one (client.go:121-135).
ReplyLag ==
  up => Len(reqs) + Len(reps) = timeouts + (IF mu = Nobody THEN 0 ELSE 1)

\* Without a missed deadline, a handler reads the answer to its own request,
\* although no reply says what it answers (client.go:98-118).
AnswersMatch ==
  InSync /\ stage # "none" /\ reps # <<>> => Head(reps).to = OpOf(stage)

\* create_session reaches greetd only where no session is configured: every
\* handler that opens a conversation clears the last one, however that ended
\* (server.go:68-69, client.go:176-178).
CreateFindsNoConversation ==
  InSync /\ Serving("create_session") => session \in {"idle", "started"}

\* The password of an Authenticate or a Login is posted into the conversation
\* of its own user, whatever the other front ends do (server.go:35, 180).
PasswordGoesToItsUser ==
  InSync /\ mu # Nobody /\ Serving("post_auth_message_response") =>
    (Flattened(call[mu]) => owner = call[mu].user)

\* The user Login remembered is the one whose session runs (server.go:209-216).
SavedUserWasStarted ==
  InSync /\ saved # NoArg => session = "started" /\ owner = saved

Returns(c, v) == ~Idle(c) /\ Idle(c)' /\ verdict' = v

\* What a handler reports is what greetd did: ok means this user is verified
\* (or started), a prompt means greetd is asking this user.
ReportMatchesGreetd(c) ==
  LET k == call[c] IN
  /\ Returns(c, "ok") =>
       CASE k.op \in {"Authenticate", "BeginAuth"} -> session' = "ready" /\ owner' = k.user
         [] k.op = "RespondAuth"                   -> session' = "ready"
         [] k.op = "Login"                         -> session' = "started" /\ owner' = k.user
         [] k.op = "StartSession"                  -> session' = "started"
         [] OTHER                                  -> TRUE
  /\ Returns(c, "prompt") =>
       /\ session' = "conversing"
       /\ k.op = "BeginAuth" => owner' = k.user

ReportsMatchGreetd == [][\A c \in Callers : InSync' => ReportMatchesGreetd(c)]_vars

\* An interactive step that fails, and a CancelAuth, leave no conversation at
\* greetd for a later RespondAuth to fall into (server.go:99-139, 88-96).
MustClear(c) ==
  \/ call[c].op \in {"BeginAuth", "RespondAuth"} /\ Returns(c, "failed")
  \/ call[c].op = "CancelAuth" /\ Returns(c, "ok")

NothingLeftBehind ==
  [][\A c \in Callers :
       InSync' /\ up' /\ MustClear(c) => session' \in {"idle", "started"}]_vars

\* Every call returns: no handler keeps the mutex, also when greetd exits.
EveryCallReturns == \A c \in Callers : ~Idle(c) ~> Idle(c)

\* README, methods: `authenticate` is to "Validate credentials without starting
\* a session"; a success must mean greetd accepted that user.
AuthenticateValidates ==
  [][\A c \in Callers :
       call[c].op = "Authenticate" /\ Returns(c, "ok")
         => session' = "ready" /\ owner' = call[c].user]_vars
=============================================================================
