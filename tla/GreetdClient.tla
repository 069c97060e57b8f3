---------------------------- MODULE GreetdClient ----------------------------
(***************************************************************************)
(* internal/greetd/client.go: one connection, used as request then reply   *)
(* under a deadline.  A deadline that expires makes roundTrip return an    *)
(* error and leaves the connection open, so greetd's answer stays in the   *)
(* stream and the next roundTrip reads it.                                 *)
(***************************************************************************)
EXTENDS Greetd

CONSTANT MaxTimeouts  \* bound: round trips that may miss their deadline

ASSUME MaxTimeoutsAssumption == MaxTimeouts \in Nat

VARIABLE timeouts     \* round trips that have missed their deadline

connVars == <<greetdVars, timeouts>>

ClientTypeOK ==
  /\ GreetdTypeOK
  /\ timeouts \in 0..MaxTimeouts

ClientInit ==
  /\ GreetdInit
  /\ timeouts = 0

-----------------------------------------------------------------------------
CreateSession(username)    == [op |-> "create_session", arg |-> username]
PostAuthResponse(response) == [op |-> "post_auth_message_response", arg |-> response]
StartSession               == [op |-> "start_session", arg |-> NoArg]
CancelSession              == [op |-> "cancel_session", arg |-> NoArg]

\* send: what is written to a closed socket is lost.
Send(request) == reqs' = IF up THEN Append(reqs, request) ELSE reqs

\* What a round trip returns: the type of a reply, or "failed" for an error.
Outcome == ReplyType \union {"failed"}

RecvReply(o) ==
  /\ reps # <<>>
  /\ o = Head(reps).type
  /\ reps' = Tail(reps)
  /\ UNCHANGED timeouts

\* The deadline set for this round trip expires; the connection is kept.
RecvTimeout(o) ==
  /\ up
  /\ timeouts < MaxTimeouts
  /\ o = "failed"
  /\ timeouts' = timeouts + 1
  /\ UNCHANGED reps

RecvClosed(o) ==
  /\ ~up
  /\ reps = <<>>
  /\ o = "failed"
  /\ UNCHANGED <<reps, timeouts>>

Recv(o) ==
  /\ \/ RecvReply(o)
     \/ RecvTimeout(o)
     \/ RecvClosed(o)
  /\ UNCHANGED <<pamVars, up>>
=============================================================================
