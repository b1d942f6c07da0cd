------------------------------- MODULE Estimates -------------------------------
(***************************************************************************)
(* The accumulation hooks of the Estimates events, as functions on the     *)
(* tables t: data_estimates_list, its participants and its winners.        *)
(*                                                                         *)
(* The list has a key of its own, so an estimate may have several rows;    *)
(* first() is the oldest one.  t.estimates is the rows in that order.      *)
(***************************************************************************)
EXTENDS Integers, Tables, SequencesExt

\* The events that tell of an estimate in the list.
EstimateKinds == {"NewEstimates", "ActiveEstimates", "CompletedEstimates"}

\* EstimatesDataList.fill_data.
EstimateRow(n, e) == [estimate |-> e.estimate, state |-> e.state, block |-> n]

RowsOfEstimate(t, estimate) ==
  {i \in DOMAIN t.estimates : t.estimates[i].estimate = estimate}

\* Mutant of WithState: the hook only updates.
WithStateOfListed(t, n, e) ==
  IF RowsOfEstimate(t, e.estimate) = {} THEN t.estimates
  ELSE [t.estimates EXCEPT ![Min(RowsOfEstimate(t, e.estimate))].state = e.state]

\* The first row of the estimate gets the state; there is one made if none is there.
WithState(t, n, e) ==
  IF RowsOfEstimate(t, e.estimate) = {}
  THEN Append(t.estimates, EstimateRow(n, e))
  ELSE [t.estimates EXCEPT ![Min(RowsOfEstimate(t, e.estimate))].state = e.state]

NewEstimates(t, n, e) == [t EXCEPT !.estimates = Append(@, EstimateRow(n, e))]

ActiveEstimates(t, n, e) == [t EXCEPT !.estimates = WithState(t, n, e)]

\* A runtime that knows winners lists them; their rows are looked up by block.
CompletedEstimates(t, n, e) ==
  [t EXCEPT !.estimates = WithState(t, n, e),
            !.winners = @ \cup {<<n, e.estimate, w>> : w \in e.winners}]

\* NewEstimates and ActiveEstimates take out the rows of the block; a completed
\* estimate has no revert.
EstimatesRevert(t, n) ==
  [t EXCEPT !.estimates = SelectSeq(@, LAMBDA row : row.block # n)]

TakesPart(e) == e.kind = "ParticipateEstimates" /\ e.known

\* A participant takes part once in an estimate of a type; what is there is
\* deleted first.  An event with fewer attributes raises.
ParticipateEstimates(t, n, e) ==
  IF ~e.known THEN [t EXCEPT !.failed = TRUE]
  ELSE [t EXCEPT !.participants =
          {p \in @ : p[2] # e.estimate \/ p[3] # e.account} \cup {<<n, e.estimate, e.account>>}]

ParticipateRevert(t, n) == [t EXCEPT !.participants = {p \in @ : p[1] # n}]
==============================================================================
