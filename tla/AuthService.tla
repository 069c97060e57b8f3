----------------------------- MODULE AuthService -----------------------------
(***************************************************************************)
(* What internal/server/server.go promises the front end that steps        *)
(* through a login: each handler takes the server's mutex and is one step, *)
(* with an outcome o.  GreeterServer has the round trips inside a handler, *)
(* and StepwiseServer shows that they are one such step together while no  *)
(* deadline is missed and greetd runs.                                     *)
(***************************************************************************)
CONSTANTS
  Users,   \* login names; a user also stands for that user's password
  Nobody   \* no user, an empty field

ASSUME NobodyAssumption == Nobody \notin Users

VARIABLES
  conv,   \* the conversation at greetd; one that failed is cancelled
  owner,  \* the user it is with
  asked,  \* the prompt that awaits an answer
  saved   \* the last user in the state file

serviceVars == <<conv, owner, asked, saved>>

Name    == Users \union {Nobody}
Prompt  == {"secret", "visible"}
Outcome == Prompt \union {"success", "error"}

ServiceTypeOK ==
  /\ conv \in {"none", "conversing", "ready", "started"}
  /\ owner \in Name
  /\ asked \in Prompt \union {"none"}
  /\ saved \in Name

ServiceInit ==
  /\ conv = "none"
  /\ owner = Nobody
  /\ asked = "none"
  /\ saved = Nobody

Clear ==
  /\ conv' = "none"
  /\ owner' = Nobody
  /\ asked' = "none"

\* What advance gives back once greetd has looked at the user or an answer.
Converse(user, o) ==
  \/ /\ o \in Prompt
     /\ conv' = "conversing"
     /\ owner' = user
     /\ asked' = o
  \/ /\ o = "success"
     /\ conv' = "ready"
     /\ owner' = user
     /\ asked' = "none"
  \/ /\ o = "error"
     /\ Clear

\* greetd refuses, and advance cancels; a started session stays.
Refuse(o) ==
  /\ o = "error"
  /\ IF conv = "started" THEN UNCHANGED <<conv, owner, asked>> ELSE Clear

BeginAuth(user, o) ==
  /\ \/ conv # "started" /\ Converse(user, o)
     \/ conv = "started" /\ Refuse(o)
  /\ UNCHANGED saved

RespondAuth(response, o) ==
  /\ \/ /\ conv = "conversing"
        /\ asked = "secret" => response = owner
        /\ Converse(owner, o)
     \/ Refuse(o)
  /\ UNCHANGED saved

CancelAuth(o) ==
  /\ o = "success"
  /\ IF conv = "started" THEN UNCHANGED <<conv, owner, asked>> ELSE Clear
  /\ UNCHANGED saved

StartSession(o) ==
  /\ \/ /\ conv = "ready"
        /\ o = "success"
        /\ conv' = "started"
        /\ UNCHANGED <<owner, asked>>
     \/ /\ o = "error"
        /\ UNCHANGED <<conv, owner, asked>>
  /\ UNCHANGED saved

SaveState(user, o) ==
  /\ o \in {"success", "error"}
  /\ saved' = IF o = "success" THEN user ELSE saved
  /\ UNCHANGED <<conv, owner, asked>>

\* A front end may call any of them at any time.
ServiceNext ==
  \E name \in Name, o \in Outcome :
    BeginAuth(name, o) \/ RespondAuth(name, o) \/ CancelAuth(o) \/ StartSession(o)
      \/ SaveState(name, o)

ServiceSpec == ServiceInit /\ [][ServiceNext]_serviceVars
=============================================================================
