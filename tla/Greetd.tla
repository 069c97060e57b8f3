------------------------------- MODULE Greetd -------------------------------
(***************************************************************************)
(* The greetd daemon and the Unix socket the greeter holds to it.  greetd  *)
(* is not part of the repository: it is modelled from how client.go,       *)
(* server.go and their scripted fakes use it, and is marked external.      *)
(*                                                                         *)
(* The socket carries length-prefixed JSON in both directions, in order    *)
(* and without loss; greetd answers every request with exactly one reply,  *)
(* in request order, and no reply names the request it answers.            *)
(***************************************************************************)
EXTENDS Naturals, Sequences

CONSTANTS
  Users,      \* login names; a user also stands for that user's password
  Wrong,      \* a response that is nobody's password
  NoArg,      \* the absent (nil) response, user or command
  MaxAsks     \* bound: messages PAM sends in one conversation

ASSUME UsersAssumption ==
  /\ Wrong \notin Users
  /\ NoArg \notin Users
  /\ Wrong # NoArg

ASSUME MaxAsksAssumption == MaxAsks \in Nat

Arg == Users \union {Wrong, NoArg}

RequestOp == {"create_session", "post_auth_message_response",
              "start_session", "cancel_session"}

\* A reply of type auth_message is named by its auth_message_type; "info" also
\* stands for "error" messages: the code treats those two the same.
Question  == {"secret", "visible", "info"}
ReplyType == {"success", "error"} \union Question

Request == [op : RequestOp, arg : Arg]
Reply   == [type : ReplyType, to : RequestOp]  \* "to" is a history field: not on the wire

VARIABLES
  session,  \* phase of the session under configuration at greetd
  owner,    \* the user it is configured for, NoArg if there is none
  asked,    \* the PAM message awaiting an answer, "none" if there is none
  asks,     \* PAM messages sent in this conversation
  up,       \* greetd is running and the socket is connected
  reqs,     \* requests written by the greeter and not yet served
  reps      \* replies written by greetd and not yet read

pamVars    == <<session, owner, asked, asks>>
greetdVars == <<session, owner, asked, asks, up, reqs, reps>>

Phase == {"idle", "conversing", "ready", "failed", "started"}

GreetdTypeOK ==
  /\ session \in Phase
  /\ owner \in Arg
  /\ asked \in Question \union {"none"}
  /\ asks \in 0..MaxAsks
  /\ up \in BOOLEAN
  /\ reqs \in Seq(Request)
  /\ reps \in Seq(Reply)

GreetdInit ==
  /\ session = "idle"
  /\ owner = NoArg
  /\ asked = "none"
  /\ asks = 0
  /\ up = TRUE
  /\ reqs = <<>>
  /\ reps = <<>>

-----------------------------------------------------------------------------
\* The request being served, and the reply to it.
Serving(op) == reqs # <<>> /\ Head(reqs).op = op

Answer(t) ==
  /\ reps' = Append(reps, [type |-> t, to |-> Head(reqs).op])
  /\ reqs' = Tail(reqs)
  /\ UNCHANGED up

Reject ==
  /\ Answer("error")
  /\ UNCHANGED pamVars

\* PAM goes on: it sends a further message, accepts the user or gives up.
\* n is the number of messages sent so far.
Pam(n) ==
  \/ /\ n < MaxAsks
     /\ \E q \in Question :
          /\ session' = "conversing"
          /\ asked' = q
          /\ asks' = n + 1
          /\ Answer(q)
  \/ /\ session' = "ready"
     /\ asked' = "none"
     /\ asks' = n
     /\ Answer("success")
  \/ /\ session' = "failed"
     /\ asked' = "none"
     /\ asks' = n
     /\ Answer("error")

\* A session is configured only where none is; a failed one still occupies
\* the place until it is cancelled.
ServeCreate ==
  /\ Serving("create_session")
  /\ \/ /\ session = "idle"
        /\ owner' = Head(reqs).arg
        /\ Pam(0)
     \/ /\ session # "idle"
        /\ Reject

\* A secret prompt is satisfied by the owner's password only; every other
\* message by any answer, nil included.
ServePost ==
  /\ Serving("post_auth_message_response")
  /\ \/ /\ session = "conversing"
        /\ asked = "secret" => Head(reqs).arg = owner
        /\ UNCHANGED owner
        /\ Pam(asks)
     \/ /\ session = "conversing"
        /\ asked = "secret"
        /\ Head(reqs).arg # owner
        /\ session' = "failed"
        /\ asked' = "none"
        /\ Answer("error")
        /\ UNCHANGED <<owner, asks>>
     \/ /\ session # "conversing"
        /\ Reject

ServeStart ==
  /\ Serving("start_session")
  /\ \/ /\ session = "ready"
        /\ session' = "started"
        /\ Answer("success")
        /\ UNCHANGED <<owner, asked, asks>>
     \/ Reject

\* Cancelling always succeeds; a session that was started is out of reach.
ServeCancel ==
  /\ Serving("cancel_session")
  /\ Answer("success")
  /\ IF session = "started"
     THEN UNCHANGED pamVars
     ELSE /\ session' = "idle"
          /\ owner' = NoArg
          /\ asked' = "none"
          /\ asks' = 0

Serve == ServeCreate \/ ServePost \/ ServeStart \/ ServeCancel

\* greetd goes away: what it has not read is lost, what it wrote can be read.
GreetdExit ==
  /\ up
  /\ up' = FALSE
  /\ reqs' = <<>>
  /\ UNCHANGED <<pamVars, reps>>
=============================================================================
