------------------------------- MODULE Ballot -------------------------------
(***************************************************************************)
(* x/oracle/ballot.go: the loop that computes the weighted median of one   *)
(* ballot, turn by turn.  Any ballot of at most MaxVotes votes is an       *)
(* initial state, in any order that sorting by price can leave it in       *)
(* (sort.Sort is not stable, so equal prices come in any order).           *)
(***************************************************************************)
EXTENDS Sequences, Functions, FiniteSets, ChainUtil

CONSTANTS
  Prices,    \* prices voted for
  Powers,    \* bonded tokens a voter can have
  Gone,      \* the power of a voter that is no validator any more
  MaxVotes   \* bound: votes in the ballot

ASSUME BallotAssumption ==
  /\ Prices \subseteq Nat \ {0}
  /\ Powers \subseteq Nat
  /\ Gone \notin Nat
  /\ MaxVotes \in Nat

Votes == [price : Prices, power : Powers \cup {Gone}]

VARIABLES
  pb,      \* the sorted ballot
  next,    \* index of the next vote of the loop
  pivot,   \* running sum of voting power
  median   \* the returned price, Gone while the loop runs

ballotVars == <<pb, next, pivot, median>>

(* getPower, with the error for a missing validator counting as no power. *)
VotePower(i) == IF pb[i].power = Gone THEN 0 ELSE pb[i].power

PowerOf(I) == SumFunction([i \in I |-> VotePower(i)])

(* PriceBallot.power *)
TotalPower == PowerOf(DOMAIN pb)

(* PriceBallot.Less orders by price. *)
Sorted(s) == \A i \in 1 .. Len(s) - 1 : s[i].price <= s[i + 1].price

BallotInit ==
  /\ pb \in {s \in UNION {[1 .. n -> Votes] : n \in 0 .. MaxVotes} : Sorted(s)}
  /\ next = 1
  /\ pivot = 0
  /\ median = Gone

(* Mutant: the strict comparison. *)
ReturnsAtStrict(newPivot) == newPivot > TotalPower \div 2

(* The test that ends the loop, with the integer division of QuoRaw(2). *)
ReturnsAt(newPivot) == newPivot >= TotalPower \div 2

(* Mutant: the power of the vote is added after the test. *)
CountVoteLate ==
  /\ median = Gone /\ next <= Len(pb)
  /\ next' = next + 1
  /\ IF pb[next].power # Gone
     THEN /\ pivot' = pivot + VotePower(next)
          /\ median' = IF ReturnsAt(pivot) THEN pb[next].price ELSE Gone
     ELSE UNCHANGED <<pivot, median>>
  /\ UNCHANGED pb

(* One turn of the loop: a vote without validator is skipped. *)
CountVote ==
  /\ median = Gone /\ next <= Len(pb)
  /\ next' = next + 1
  /\ IF pb[next].power # Gone
     THEN /\ pivot' = pivot + VotePower(next)
          /\ median' = IF ReturnsAt(pivot') THEN pb[next].price ELSE Gone
     ELSE UNCHANGED <<pivot, median>>
  /\ UNCHANGED pb

(* The loop ran out of votes. *)
ReturnZero ==
  /\ median = Gone /\ next > Len(pb)
  /\ median' = 0
  /\ UNCHANGED <<pb, next, pivot>>

BallotNext == CountVote \/ ReturnZero

BallotSpec == BallotInit /\ [][BallotNext]_ballotVars

-----------------------------------------------------------------------------
Returned == median # Gone

AtMost(p) == {i \in DOMAIN pb : pb[i].price <= p}

(* What Oracle uses for the loop: the lowest price of a present validator   *)
(* at which the votes at or below it hold half of the ballot's power,       *)
(* rounded down, and zero if no voter is left.                              *)
LowestReached ==
  LET reached == {pb[i].price : i \in {j \in DOMAIN pb :
                    pb[j].power # Gone /\ PowerOf(AtMost(pb[j].price)) >= TotalPower \div 2}}
  IN  IF reached = {} THEN 0 ELSE CHOOSE p \in reached : \A q \in reached : p <= q

(* The loop of weightedMedian computes the price Oracle's definition names, *)
(* whichever way sorting ordered equal prices.                              *)
LoopIsLowestReached == Returned => median = LowestReached

(* Resistance: voters holding less than half of the ballot's power cannot   *)
(* push the returned price above what every other voter voted for, wherever *)
(* they place their own votes; nor below it, except, as QuoRaw(2) truncates *)
(* the half, a minority that lacks just half a unit of power.               *)
MinorityCannotMove ==
  Returned /\ TotalPower > 0 =>
    \A M \in SUBSET DOMAIN pb :
      2 * PowerOf(M) < TotalPower =>
        LET others == {i \in DOMAIN pb \ M : VotePower(i) > 0}
        IN  /\ \E i \in others : pb[i].price >= median
            /\ 2 * PowerOf(M) = TotalPower - 1 \/ \E i \in others : pb[i].price <= median

=============================================================================
