---------------------------- MODULE OracleSteps ----------------------------
(***************************************************************************)
(* The oracle's EndBlocker statement by statement.  The ballots are kept   *)
(* in a Go map, whose iteration order differs from node to node: here the  *)
(* denoms are tallied in any order, each one reading and writing the store *)
(* the others have already changed.  The steps implement Oracle, in which  *)
(* the whole tally is one atomic function of the store: every node reaches *)
(* the same state, whatever order its map iteration takes.                 *)
(***************************************************************************)
EXTENDS Oracle

(* Nil is told apart from every set of ballots, the empty one included. *)
ASSUME StepsAssumption == \A S \in SUBSET Denoms : S # Nil

VARIABLES
  todo,   \* ballots not yet tallied, or Nil outside a tally
  saved   \* the part of the store the tally changes, as it was before it

stepVars == <<vars, todo, saved>>

Tallying == todo # Nil

Snapshot ==
  [prices |-> prices, claims |-> claims, feePool |-> feePool,
   rewards |-> rewards, collector |-> collector, issued |-> issued]

StepsInit == Init /\ todo = Nil /\ saved = Nil

(* Rewards, then the deletion of every active price. *)
BeginTally ==
  /\ ~Tallying
  /\ height < MaxHeight
  /\ IsPeriodLastBlock(height, VotePeriod)
  /\ saved' = Snapshot
  /\ todo' = {d \in Denoms : Ballot(d) # {}}
  /\ rewardPrevBallotWinners
  /\ claims' = ClearedClaims
  /\ prices' = NoPrices
  /\ UNCHANGED <<height, prevotes, votes, delegates, commits, restarts, stakingVars>>

(* Mutant: the claim of an earlier ballot is overwritten. *)
SetWinners(d) ==
  [v \in Vals |-> IF v \in BallotWinners(d) THEN Power({v}) ELSE claims[v]]

(* The claims once the winners of one ballot have been added to the store. *)
AddWinners(d) ==
  [v \in Vals |-> IF v \in BallotWinners(d) THEN claims[v] + Power({v}) ELSE claims[v]]

(* One turn of the loop over the ballots. *)
TallyDenom(d) ==
  /\ Tallying
  /\ d \in todo
  /\ todo' = todo \ {d}
  /\ IF ballotIsPassing(Power(Ballot(d)))
     THEN /\ claims' = AddWinners(d)
          /\ prices' = [prices EXCEPT ![d] = weightedMedian(d)]
     ELSE UNCHANGED <<claims, prices>>
  /\ UNCHANGED <<height, prevotes, votes, delegates, feeVars, commits, restarts, stakingVars, saved>>

(* The clean-up of prevotes and votes ends the block. *)
EndTally ==
  /\ todo = {}
  /\ height' = height + 1
  /\ prevotes' = ClearPrevotes
  /\ votes' = NoVotes
  /\ commits' = RecentCommits
  /\ todo' = Nil /\ saved' = Nil
  /\ UNCHANGED <<prices, claims, delegates, feeVars, restarts, stakingVars>>

(* Messages and blocks without a tally, as in Oracle. *)
AtomicStep ==
  /\ ~Tallying
  /\ Next
  /\ EndBlocker => ~IsPeriodLastBlock(height, VotePeriod)
  /\ UNCHANGED <<todo, saved>>

StepsNext ==
  \/ AtomicStep
  \/ BeginTally
  \/ \E d \in Denoms : TallyDenom(d)
  \/ EndTally

StepsSpec == StepsInit /\ [][StepsNext]_stepVars

-----------------------------------------------------------------------------
(* Seen from outside, nothing has changed until the tally is over. *)
Atomic == INSTANCE Oracle WITH
  prices <- IF Tallying THEN saved.prices ELSE prices,
  claims <- IF Tallying THEN saved.claims ELSE claims,
  feePool <- IF Tallying THEN saved.feePool ELSE feePool,
  rewards <- IF Tallying THEN saved.rewards ELSE rewards,
  collector <- IF Tallying THEN saved.collector ELSE collector,
  issued <- IF Tallying THEN saved.issued ELSE issued

(* Determinism: the ballots tallied one by one in any order implement the   *)
(* atomic EndBlocker, which depends on the store alone ("for denom,         *)
(* filteredVotes := range votes" in EndBlocker).                            *)
AtomicSpec == Atomic!Spec

=============================================================================
