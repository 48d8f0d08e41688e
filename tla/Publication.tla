----------------------------- MODULE Publication -----------------------------
(***************************************************************************)
(* What write_temporal_covariance_products promises its callers: at most one  *)
(* bundle is ever published in a directory, whole and for good, and a call     *)
(* that returns Ok is the one that published it.  A call that returns an       *)
(* error, or never returns, may have published too: its bundle is then         *)
(* completed, or discarded, by a later call.                                 *)
(***************************************************************************)
CONSTANTS Transactions, None

VARIABLES
  published,  \* whose bundle every reader finds, now and after any power loss
  answer      \* what each call has returned

Init ==
  /\ published = None
  /\ answer = [t \in Transactions |-> "none"]

Publish ==
  /\ published = None
  /\ \E t \in Transactions : published' = t
  /\ UNCHANGED answer

Ok(t) ==
  /\ answer[t] = "none" /\ published = t
  /\ answer' = [answer EXCEPT ![t] = "ok"]
  /\ UNCHANGED published

Error(t) ==
  /\ answer[t] = "none"
  /\ answer' = [answer EXCEPT ![t] = "error"]
  /\ UNCHANGED published

Next == Publish \/ \E t \in Transactions : Ok(t) \/ Error(t)

Spec == Init /\ [][Next]_<< published, answer >>
===============================================================================
