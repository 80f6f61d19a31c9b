------------------------------ MODULE TxOutcome -------------------------------
(***************************************************************************)
(* What sendTransaction and reconcileOutbox promise the rest of the agent  *)
(* (SendResult in executor/send.ts), whatever dies, times out or lags: for *)
(* every transaction a verdict that is given once and is the truth.        *)
(* "success" and "reverted" are given only to a transaction the chain      *)
(* mined that way, and "notSent" only to one that never left and never     *)
(* will, so a caller may free its reservation and reuse its nonce.         *)
(***************************************************************************)
CONSTANT Tx

VARIABLES
  verdict,  \* none, open, success, reverted, notSent
  fate      \* kept, out, success, reverted

vars == <<verdict, fate>>

Mined == {"success", "reverted"}

Init ==
  /\ verdict = [t \in Tx |-> "none"]
  /\ fate = [t \in Tx |-> "kept"]

Sign(t) ==
  /\ verdict[t] = "none"
  /\ verdict' = [verdict EXCEPT ![t] = "open"]
  /\ UNCHANGED fate

\* The bytes leave, and never after a verdict.
Leave(t) ==
  /\ verdict[t] = "open"
  /\ fate[t] = "kept"
  /\ fate' = [fate EXCEPT ![t] = "out"]
  /\ UNCHANGED verdict

Mine(t) ==
  /\ fate[t] = "out"
  /\ \E f \in Mined : fate' = [fate EXCEPT ![t] = f]
  /\ UNCHANGED verdict

Settle(t) ==
  /\ verdict[t] = "open"
  /\ fate[t] \in Mined
  /\ verdict' = [verdict EXCEPT ![t] = fate[t]]
  /\ UNCHANGED fate

Refuse(t) ==
  /\ verdict[t] = "open"
  /\ fate[t] = "kept"
  /\ verdict' = [verdict EXCEPT ![t] = "notSent"]
  /\ UNCHANGED fate

Next == \E t \in Tx : Sign(t) \/ Leave(t) \/ Mine(t) \/ Settle(t) \/ Refuse(t)

Spec == Init /\ [][Next]_vars

===============================================================================
