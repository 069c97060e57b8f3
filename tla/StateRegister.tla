---------------------------- MODULE StateRegister ----------------------------
(***************************************************************************)
(* What internal/state promises its callers: one remembered state, which   *)
(* Save replaces as a whole or not at all, Load returns as it is at one    *)
(* moment during the call, and which outlives the process.                 *)
(***************************************************************************)
CONSTANTS
  States,   \* the states that may be saved
  Default,  \* the state Load returns when nothing was saved
  Writers, Readers,
  Nothing   \* a call with no result yet

VARIABLES
  value,    \* the state remembered
  saving,   \* saving[w]: the state w is saving, Nothing if none
  result,   \* result[w]: what w's last Save returned
  loaded    \* loaded[r]: what r's last Load returned, or is about to

registerVars == <<value, saving, result, loaded>>

Init ==
  /\ value = Default
  /\ saving = [w \in Writers |-> Nothing]
  /\ result = [w \in Writers |-> Nothing]
  /\ loaded = [r \in Readers |-> Nothing]

Save(w) ==
  /\ saving[w] = Nothing
  /\ \E s \in States : saving' = [saving EXCEPT ![w] = s]
  /\ result' = [result EXCEPT ![w] = Nothing]
  /\ UNCHANGED <<value, loaded>>

Stored(w) ==
  /\ saving[w] # Nothing
  /\ value' = saving[w]
  /\ saving' = [saving EXCEPT ![w] = Nothing]
  /\ result' = [result EXCEPT ![w] = "ok"]
  /\ UNCHANGED loaded

NotStored(w) ==
  /\ saving[w] # Nothing
  /\ saving' = [saving EXCEPT ![w] = Nothing]
  /\ result' = [result EXCEPT ![w] = "error"]
  /\ UNCHANGED <<value, loaded>>

Load(r) ==
  /\ loaded' = [loaded EXCEPT ![r] = value]
  /\ UNCHANGED <<value, saving, result>>

\* The process dies and is started again: every call is gone, the state stays.
Restart ==
  /\ saving' = [w \in Writers |-> Nothing]
  /\ result' = [w \in Writers |-> Nothing]
  /\ loaded' = [r \in Readers |-> Nothing]
  /\ UNCHANGED value

Next ==
  \/ \E w \in Writers : Save(w) \/ Stored(w) \/ NotStored(w)
  \/ \E r \in Readers : Load(r)
  \/ Restart

Spec == Init /\ [][Next]_registerVars
=============================================================================
