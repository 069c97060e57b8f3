--------------------------- MODULE StepwiseServer ---------------------------
(***************************************************************************)
(* The handlers of GreeterServer as AuthService has them: for front ends   *)
(* that step through a login, while greetd runs and no deadline is missed, *)
(* the round trips of a handler are together one step of AuthService, with *)
(* the outcome that the handler reports.                                   *)
(*                                                                         *)
(* Inside a handler greetd's session passes through states that are none   *)
(* of AuthService's, so history variables keep how the last handler to     *)
(* return left it.  They are written when one returns and never read.      *)
(***************************************************************************)
EXTENDS GreeterServer

VARIABLES
  stepwise,  \* so far front ends step through logins, greetd runs and answers in time
  conv,      \* the conversation at greetd when the last handler returned
  with,      \* the user that it was with
  prompt     \* the message that it had for that user

left    == <<conv, with, prompt>>
history == <<stepwise, left>>

Service == INSTANCE AuthService WITH Nobody <- NoArg, owner <- with, asked <- prompt

\* Nobody calls Authenticate or Login, which hand a failed session back uncancelled.
Stepwise == \A c \in Callers : ~Flattened(call[c])

Returning(c) == ~Idle(c) /\ Idle(c)'

\* Only a session that failed, and that nobody has cancelled, is none of AuthService's.
Conversation == IF session = "idle" THEN "none" ELSE session

\* A handler that returns is recorded; nothing is once a front end, a deadline or greetd
\* has broken the rule.
Recorded ==
  /\ stepwise' = (stepwise /\ Stepwise' /\ InSync' /\ up')
  /\ IF ~stepwise'
     THEN conv' = "none" /\ with' = NoArg /\ prompt' = "none"
     ELSE IF \E c \in Callers : Returning(c)
     THEN conv' = Conversation' /\ with' = owner' /\ prompt' = asked'
     ELSE UNCHANGED left

RecordedInit ==
  /\ Init
  /\ stepwise = TRUE
  /\ conv = "none" /\ with = NoArg /\ prompt = "none"

\* GreeterServer with its history.
RecordedSpec == RecordedInit /\ [][Next /\ Recorded]_<<vars, history>>

-----------------------------------------------------------------------------
\* The outcome that a handler has reported, as the front end has it.
Reported ==
  CASE verdict = "ok"     -> "success"
    [] verdict = "prompt" -> prompt
    [] OTHER              -> "error"

\* What the call k is to AuthService.
Handler(k, o) ==
  \/ k.op = "BeginAuth"    /\ Service!BeginAuth(k.user, o)
  \/ k.op = "RespondAuth"  /\ Service!RespondAuth(k.secret, o)
  \/ k.op = "CancelAuth"   /\ Service!CancelAuth(o)
  \/ k.op = "StartSession" /\ Service!StartSession(o)

\* A handler that returns has done to the conversation what AuthService says of
\* it with this outcome, starting from how the handler before it left it: nothing that
\* greetd was told in between has touched it (server.go:61-176).
HandlersAreAtomic ==
  [][\A c \in Callers :
       stepwise' /\ Returning(c) => Handler(call[c], Reported')]_<<vars, history>>

-----------------------------------------------------------------------------
(* The invariant that the proof needs. *)

\* The answer that RespondAuth was called with was one that greetd may accept.
Answerable(k) ==
  /\ conv = "conversing"
  /\ prompt = "secret" => k.secret = with
  /\ with = owner

\* Nothing has touched the conversation since.
AsIs == conv = Conversation /\ with = owner /\ prompt = asked

\* Whose session it is, and what is asked, by the reply that is on its way.
Asking ==
  /\ {owner, with} \subseteq Users \union {NoArg}
  /\ session = "idle" => owner = NoArg /\ asked = "none"
  /\ stage \in {"create", "post"} /\ reps # <<>> =>
       /\ Head(reps).type \in Question => asked = Head(reps).type
       /\ Head(reps).type = "success"  => asked = "none"

\* A session that was started is out of everyone's reach, and one that was not is
\* not left by any handler as started.
OutOfReach ==
  session = "started" \/ conv = "started" =>
    AsIs \/ (stage = "start" /\ session = "started" /\ reps # <<>> /\ Head(reps).type = "success")

\* How far the holder of the mutex has come, from where the last handler left off.
Progress ==
  /\ mu = Nobody => AsIs
  /\ stage = "start" =>
       /\ reqs # <<>> => AsIs
       /\ reps # <<>> =>
            IF Head(reps).type = "success"
            THEN conv = "ready" /\ with = owner /\ prompt = asked
            ELSE AsIs
  /\ stage = "post" /\ call[mu].op = "RespondAuth" =>
       /\ reqs # <<>> => \/ AsIs /\ Head(reqs).arg = call[mu].secret
                         \/ Answerable(call[mu]) /\ session = "conversing" /\ asked = "info"
       /\ reps # <<>> /\ Head(reps).type # "error" => Answerable(call[mu])

Steady == Stepwise /\ InSync /\ up /\ Asking /\ OutOfReach /\ Progress

LeftInv == stepwise => Steady
=============================================================================
