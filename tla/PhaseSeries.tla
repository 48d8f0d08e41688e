----------------------------- MODULE PhaseSeries ------------------------------
(***************************************************************************)
(* What the incremental API promises, with no trace of how: the published   *)
(* output is always what a batch run over every acquisition folded in so    *)
(* far would return.                                                       *)
(***************************************************************************)
EXTENDS Ministacks

VARIABLES
  history,    \* the acquisitions of the series, in order
  validity,   \* the mask configured when the series was started
  published,  \* the last output returned to the caller
  request     \* the call in progress: the whole series it is about

seriesVars == << history, validity, published, request >>

NoRequest == [op |-> "none", stack |-> << >>, mask |-> NoMask]

SeriesInit ==
  /\ history = << >>
  /\ validity = NoMask
  /\ published = NoOutput
  /\ request = NoRequest

Extends(long, short) ==
  /\ Len(long) > Len(short)
  /\ \A i \in 1 .. Len(short) : long[i] = short[i]

(* A batch run asks about a stack of its own. *)
AskRun ==
  /\ request = NoRequest
  /\ request'.op = "run"
  /\ request'.mask \in Validities
  /\ UNCHANGED << history, validity, published >>

(* An update asks about the series it extends, under the series' mask.      *)
AskUpdate ==
  /\ request = NoRequest
  /\ request'.op = "update"
  /\ published # NoOutput
  /\ Extends(request'.stack, history)
  /\ request'.mask = validity
  /\ UNCHANGED << history, validity, published >>

(* Either way the answer is what a batch run of that whole stack returns.   *)
Answer ==
  /\ request # NoRequest
  /\ history' = request.stack
  /\ validity' = request.mask
  /\ published' # NoOutput
  /\ IsBatchRun(history', validity', published'.blocks)
  /\ published' = BuildOutput(published'.blocks, validity')
  /\ request' = NoRequest

(* A call that fails leaves the series as it was.                          *)
Refuse ==
  /\ request # NoRequest
  /\ request' = NoRequest
  /\ UNCHANGED << history, validity, published >>

SeriesNext == AskRun \/ AskUpdate \/ Answer \/ Refuse

SeriesSpec == SeriesInit /\ [][SeriesNext]_seriesVars
===============================================================================
