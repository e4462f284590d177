------------------------------- MODULE Budget -------------------------------
(***************************************************************************)
(* x/budget: programs are submitted against a deposit, wait in a candidate *)
(* queue for one vote period, become active if the tally clears the active *)
(* threshold, are re-weighed at the end of every vote period, and share    *)
(* the budget's part of the seigniorage at the end of every epoch.         *)
(*                                                                         *)
(* One step is one delivered message, one EndBlock, or an export of the    *)
(* state followed by a start from that genesis.  The reward pool and its   *)
(* coin are what the treasury, mint and market keepers return; what Mint   *)
(* and Burn do to the issuance is in module Mint.                          *)
(***************************************************************************)
EXTENDS Staking, Functions

CONSTANTS
  Accounts,         \* submitters and executors
  VotePeriod,       \* params.VotePeriod, in blocks
  ActiveThreshold,  \* params.ActiveThreshold, in percent
  LegacyThreshold,  \* params.LegacyThreshold, in percent
  Deposit,          \* params.Deposit, in SDR
  BlocksPerEpoch,   \* util.BlocksPerEpoch
  DecOne,           \* the denominator of sdk.Dec
  RewardPools,      \* reward pools of an epoch, in units of 1/DecOne
  Funds,            \* SDR each account starts with
  MaxHeight,        \* bound: last height explored
  MaxPrograms,      \* bound: program ids ever used
  MaxRestarts,      \* bound: exports explored
  ExportModes       \* bound: values of the forZeroHeight flag explored

ASSUME BudgetAssumption ==
  /\ Nil \notin Int
  /\ VotePeriod \in Nat \ {0}
  /\ ActiveThreshold \in Nat \ {0}
  /\ LegacyThreshold \in Nat
  /\ Deposit \in Nat \ {0}
  /\ BlocksPerEpoch \in Nat \ {0}
  /\ DecOne \in Nat \ {0}
  /\ RewardPools \subseteq Nat
  /\ Funds \in Nat
  /\ MaxHeight \in Nat /\ MaxPrograms \in Nat /\ MaxRestarts \in Nat
  /\ ExportModes \subseteq BOOLEAN

ProgramIDs == 1 .. MaxPrograms
Programs == [submitter : Accounts, executor : Accounts, submitBlock : Nat]
Options == {"yes", "no"}
Coins == {"sdr", "luna"}

ASSUME NilAssumption == Nil \notin Programs \cup Options

VARIABLES
  height,     \* block being executed
  halted,     \* EndBlocker panicked: no node gets past this block
  programs,   \* store "program:id"
  nextID,     \* store "new-program-id": the last id given out, 0 if absent
  candQueue,  \* store "candidate-queue:endBlock:id"
  votes,      \* store "vote:id:voter"
  claims,     \* store "claim:recipient": accumulated weight
  balances,   \* bank module
  restarts,   \* bound counter: exports so far
  passed      \* history: ids that cleared the active threshold

chainVars == <<height, halted, restarts>>
vars == <<chainVars, programs, nextID, candQueue, votes, claims, balances, passed, stakingVars>>

TypeOK ==
  /\ StakingTypeOK
  /\ height \in Nat
  /\ halted \in BOOLEAN
  /\ programs \in [ProgramIDs -> Programs \cup {Nil}]
  /\ nextID \in 0 .. MaxPrograms
  /\ candQueue \subseteq Nat \X ProgramIDs
  /\ votes \in [ProgramIDs -> [Vals -> Options \cup {Nil}]]
  /\ claims \in [Accounts -> Int \cup {Nil}]
  /\ balances \in [Coins -> [Accounts -> Nat]]
  /\ restarts \in 0 .. MaxRestarts
  /\ passed \subseteq ProgramIDs

NoVotes == [v \in Vals |-> Nil]
NoClaims == [a \in Accounts |-> Nil]

Init ==
  /\ StakingInit
  /\ height = 1 /\ halted = FALSE /\ restarts = 0
  /\ programs = [id \in ProgramIDs |-> Nil]
  /\ nextID = 0
  /\ candQueue = {}
  /\ votes = [id \in ProgramIDs |-> NoVotes]
  /\ claims = NoClaims
  /\ balances = [c \in Coins |-> [a \in Accounts |-> IF c = "sdr" THEN Funds ELSE 0]]
  /\ passed = {}

getVotingEndBlock(program) == program.submitBlock + VotePeriod

Stored == {id \in ProgramIDs : programs[id] # Nil}

CandQueueHas(queue, id) == <<getVotingEndBlock(programs[id]), id>> \in queue

-----------------------------------------------------------------------------
(* Messages *)

(* Mutant: ids start at zero. *)
ZeroBasedProgramID == nextID

(* NewProgramID: the id after the last one given out. *)
NewProgramID == nextID + 1

(* Mutant: the program is stored but not queued. *)
SubmitUnqueued(submitter, executor) ==
  LET id == NewProgramID
      program == [submitter |-> submitter, executor |-> executor, submitBlock |-> height]
  IN  /\ height + VotePeriod < MaxHeight /\ id <= MaxPrograms
      /\ balances["sdr"][submitter] >= Deposit
      /\ balances' = [balances EXCEPT !["sdr"][submitter] = @ - Deposit]
      /\ nextID' = id
      /\ programs' = [programs EXCEPT ![id] = program]
      /\ UNCHANGED <<chainVars, candQueue, votes, claims, passed, stakingVars>>

(* Mutant: the counter is read and not advanced, and the entry moves along. *)
SubmitUnderLastID(submitter, executor) ==
  LET id == IF nextID = 0 THEN 1 ELSE nextID
      program == [submitter |-> submitter, executor |-> executor, submitBlock |-> height]
  IN  /\ height + VotePeriod < MaxHeight /\ id <= MaxPrograms
      /\ balances["sdr"][submitter] >= Deposit
      /\ balances' = [balances EXCEPT !["sdr"][submitter] = @ - Deposit]
      /\ nextID' = id
      /\ programs' = [programs EXCEPT ![id] = program]
      /\ candQueue' = {e \in candQueue : e[2] # id} \cup {<<getVotingEndBlock(program), id>>}
      /\ UNCHANGED <<chainVars, votes, claims, passed, stakingVars>>

(* The deposit is burned, so a poor submitter's message fails. *)
handleMsgSubmitProgram(submitter, executor) ==
  LET id == NewProgramID
      program == [submitter |-> submitter, executor |-> executor, submitBlock |-> height]
  IN  /\ height + VotePeriod < MaxHeight \* bound: its tally is explored
      /\ id <= MaxPrograms
      /\ balances["sdr"][submitter] >= Deposit
      /\ balances' = [balances EXCEPT !["sdr"][submitter] = @ - Deposit]
      /\ nextID' = id
      /\ programs' = [programs EXCEPT ![id] = program]
      /\ candQueue' = candQueue \cup {<<getVotingEndBlock(program), id>>}
      /\ UNCHANGED <<chainVars, votes, claims, passed, stakingVars>>

(* Mutant: the queue entry of a withdrawn candidate is left behind. *)
WithdrawUnqueued(submitter, id) ==
  /\ id \in Stored
  /\ programs[id].submitter = submitter
  /\ balances' = IF CandQueueHas(candQueue, id)
                 THEN [balances EXCEPT !["sdr"][submitter] = @ + Deposit] ELSE balances
  /\ votes' = [votes EXCEPT ![id] = NoVotes]
  /\ programs' = [programs EXCEPT ![id] = Nil]
  /\ UNCHANGED <<chainVars, nextID, candQueue, claims, passed, stakingVars>>

(* Only a candidate's deposit is refunded. *)
handleMsgWithdrawProgram(submitter, id) ==
  /\ id \in Stored
  /\ programs[id].submitter = submitter
  /\ IF CandQueueHas(candQueue, id)
     THEN /\ candQueue' = candQueue \ {<<getVotingEndBlock(programs[id]), id>>}
          /\ balances' = [balances EXCEPT !["sdr"][submitter] = @ + Deposit]
     ELSE UNCHANGED <<candQueue, balances>>
  /\ votes' = [votes EXCEPT ![id] = NoVotes]
  /\ programs' = [programs EXCEPT ![id] = Nil]
  /\ UNCHANGED <<chainVars, nextID, claims, passed, stakingVars>>

handleMsgVoteProgram(voter, id, option) ==
  /\ id \in Stored
  /\ voter \in validators
  /\ votes' = [votes EXCEPT ![id][voter] = option]
  /\ UNCHANGED <<chainVars, programs, nextID, candQueue, claims, balances, passed, stakingVars>>

-----------------------------------------------------------------------------
(* EndBlocker *)

(* The bonded tokens, one pair per program voted on, whose validator chose option. *)
TokensFor(I, option) ==
  {x \in I \X Tokens : stake[x[2]] \in Vals /\ votes[x[1]][stake[x[2]]] = option}

(* tally: yes power minus no power, summed over the programs of I. *)
VotePower(I) == Cardinality(TokensFor(I, "yes")) - Cardinality(TokensFor(I, "no"))

clearsThreshold(votePower, threshold) ==
  votePower >= RoundInt(threshold * TotalBondedTokens, 100)

(* Mutant: the entries of the current block are left out. *)
ExpiredBefore ==
  {id \in Stored : \E entry \in candQueue : entry[2] = id /\ entry[1] < height}

(* CandQueueIterateExpired skips entries whose program is gone. *)
Expired ==
  {id \in Stored : \E entry \in candQueue : entry[2] = id /\ entry[1] <= height}

Rejected == {id \in Expired : ~clearsThreshold(VotePower({id}), ActiveThreshold)}

(* Mutant: the key is computed from the block of the tally. *)
QueueAfterWrongRemove == candQueue \ {<<height + VotePeriod, id>> : id \in Expired}

(* The queue key is computed from the program, not taken from the entry. *)
QueueAfterTally == candQueue \ {<<getVotingEndBlock(programs[id]), id>> : id \in Expired}

(* Programs that are re-weighed: stored and no candidates after the first loop. *)
Reweighed ==
  IF IsPeriodLastBlock(height, VotePeriod)
  THEN {id \in Stored \ Rejected : ~CandQueueHas(QueueAfterTally, id)}
  ELSE {}

(* Mutant: no program is ever legacied. *)
NeverLegacied == {}

(* tally deletes votes of gone validators, which have no power anyway. *)
Legacied == {id \in Reweighed : ~clearsThreshold(VotePower({id}), LegacyThreshold)}

Granted == Reweighed \ Legacied

Deleted == Rejected \cup Legacied

(* Mutant: the votes of a deleted program stay in the store. *)
VotesKeptAfterTally ==
  [id \in ProgramIDs |->
     [v \in Vals |-> IF id \in Expired \cup Reweighed /\ v \notin validators
                     THEN Nil ELSE votes[id][v]]]

VotesAfterTally ==
  [id \in ProgramIDs |->
     IF id \in Deleted THEN NoVotes
     ELSE [v \in Vals |-> IF id \in Expired \cup Reweighed /\ v \notin validators
                          THEN Nil ELSE votes[id][v]]]

(* addClaimPool adds the weight of every granted program to its executor. *)
ClaimsAfterTally ==
  [a \in Accounts |->
     LET granted == {id \in Granted : programs[id].executor = a}
     IN  IF granted = {} THEN claims[a]
         ELSE VotePower(granted) + (IF claims[a] = Nil THEN 0 ELSE claims[a])]

Claimants == {a \in Accounts : ClaimsAfterTally[a] # Nil}

WeightSum == SumFunctionOnSet(ClaimsAfterTally, Claimants)

RewardAmt(a, pool) == ((pool * ClaimsAfterTally[a]) \div WeightSum) \div DecOne

IsEpochEnd == IsPeriodLastBlock(height, BlocksPerEpoch)

(* Dividing by a zero sum panics, and so does minting anything but a positive coin. *)
DistributionPanics(pool) ==
  /\ IsEpochEnd
  /\ pool > 0
  /\ Claimants # {}
  /\ WeightSum # 0 => \E a \in Claimants : RewardAmt(a, pool) \notin Nat \ {0}

(* Claimants are paid in SDR, or in Luna when the oracle has no SDR rate. *)
Distribute(pool, coin) ==
  IF IsEpochEnd
  THEN /\ balances' = IF pool = 0 THEN balances ELSE
            [balances EXCEPT ![coin] = [a \in Accounts |->
               IF a \in Claimants THEN @[a] + RewardAmt(a, pool) ELSE @[a]]]
       /\ claims' = NoClaims
  ELSE claims' = ClaimsAfterTally /\ UNCHANGED balances

EndBlocker(pool, coin) ==
  /\ ~halted /\ height < MaxHeight
  /\ ~DistributionPanics(pool)
  /\ height' = height + 1
  /\ programs' = [id \in ProgramIDs |-> IF id \in Deleted THEN Nil ELSE programs[id]]
  /\ candQueue' = QueueAfterTally
  /\ votes' = VotesAfterTally
  /\ Distribute(pool, coin)
  /\ passed' = passed \cup (Expired \ Rejected)
  /\ UNCHANGED <<halted, restarts, nextID, stakingVars>>

EndBlockerPanics(pool) ==
  /\ ~halted /\ height < MaxHeight
  /\ DistributionPanics(pool)
  /\ halted' = TRUE
  /\ UNCHANGED <<height, restarts, programs, nextID, candQueue, votes, claims, balances,
                 passed, stakingVars>>

-----------------------------------------------------------------------------
(* Mutant: the submit block survives the export. *)
ExportedUnchanged(forZeroHeight) == programs

(* The programs of the exported genesis: prepForZeroHeightGenesis resets the *)
(* block they were submitted in.                                             *)
ExportedPrograms(forZeroHeight) ==
  [id \in ProgramIDs |->
     IF id \in Stored /\ forZeroHeight
     THEN [programs[id] EXCEPT !.submitBlock = 0] ELSE programs[id]]

(* ExportGenesis lists as candidates the queued ids whose program is stored. *)
(* After the reset it lists them among the active programs too: InitGenesis  *)
(* then stores the same program twice, which leaves the same store.          *)
ExportedCandidates == {id \in Stored : \E entry \in candQueue : entry[2] = id}

(* ExportAppStateAndValidators, then InitGenesis and block 1 of a new chain. *)
(* Candidates are queued again at VotePeriod; claims and the id counter are  *)
(* not part of the genesis state.                                            *)
Restart(forZeroHeight) ==
  /\ restarts < MaxRestarts
  /\ restarts' = restarts + 1
  /\ height' = 1 /\ halted' = FALSE
  /\ programs' = ExportedPrograms(forZeroHeight)
  /\ candQueue' = {<<VotePeriod, id>> : id \in ExportedCandidates}
  /\ nextID' = 0
  /\ claims' = NoClaims
  /\ UNCHANGED <<votes, balances, passed, stakingVars>>

Deliver ==
  \/ \E a, x \in Accounts : handleMsgSubmitProgram(a, x)
  \/ \E a \in Accounts, id \in ProgramIDs : handleMsgWithdrawProgram(a, id)
  \/ \E v \in Vals, id \in ProgramIDs, option \in Options : handleMsgVoteProgram(v, id, option)

EndBlock ==
  \E pool \in RewardPools :
    \/ \E coin \in Coins : EndBlocker(pool, coin)
    \/ EndBlockerPanics(pool)

StakingStep ==
  /\ StakingNext
  /\ UNCHANGED <<chainVars, programs, nextID, candQueue, votes, claims, balances, passed>>

Next ==
  \/ ~halted /\ (Deliver \/ StakingStep)
  \/ EndBlock
  \/ \E forZeroHeight \in ExportModes : Restart(forZeroHeight)

Spec == Init /\ [][Next]_vars

(* Tendermint keeps producing blocks. *)
FairSpec == Spec /\ WF_vars(EndBlock)

-----------------------------------------------------------------------------
(* Properties *)

Queued(id) == \E entry \in candQueue : entry[2] = id

(* Every queue entry belongs to a stored program and sits at the end of its *)
(* vote period: CandQueueHas and CandQueueRemove compute the key from the   *)
(* program and would miss any other entry, leaving it behind for ever.      *)
QueueMatchesPrograms ==
  \A entry \in candQueue :
    /\ programs[entry[2]] # Nil
    /\ entry[1] = getVotingEndBlock(programs[entry[2]])

(* No candidate overstays: an entry is never older than the block being     *)
(* executed, so each candidate is tallied in exactly the block its vote     *)
(* period ends (CandQueueIterateExpired).                                   *)
NoOverdueCandidate == \A entry \in candQueue : entry[1] >= height

(* Votes never outlive their program, by withdrawal, rejection or legacy:   *)
(* otherwise they would count for whatever is stored under the id next      *)
(* (DeleteVotesForProgram).                                                 *)
VotesHaveProgram ==
  \A id \in ProgramIDs, v \in Vals : votes[id][v] # Nil => programs[id] # Nil

(* A program that is stored and no longer queued, and so is weighed and     *)
(* paid, has cleared the active threshold in a tally (EndBlocker's first    *)
(* loop against IteratePrograms' filter).                                   *)
ActiveWerePassed ==
  \A id \in Stored : ~CandQueueHas(candQueue, id) => id \in passed

(* No claim is negative: a program voted down is legacied before it could   *)
(* take from the other claims of its executor.                              *)
ClaimsNotNegative == \A a \in Accounts : claims[a] # Nil => claims[a] >= 0

(* NewProgramID: a message never overwrites a program in the store.         *)
ProgramsNotOverwritten ==
  [][\A id \in ProgramIDs :
       programs[id] # Nil /\ programs'[id] # Nil /\ restarts' = restarts =>
         programs'[id] = programs[id]]_vars

(* Restarting from a zero-height export keeps every program where it was:   *)
(* stored or not, candidate or active (ExportGenesis and InitGenesis, which *)
(* queue candidates at VotePeriod whatever their submit block).             *)
RestartKeepsPrograms ==
  [][restarts' # restarts =>
       \A id \in ProgramIDs :
         /\ programs'[id] = Nil <=> programs[id] = Nil
         /\ programs[id] # Nil =>
              (<<getVotingEndBlock(programs'[id]), id>> \in candQueue' <=>
                 CandQueueHas(candQueue, id))]_vars

(* Every candidate is eventually decided or withdrawn, unless the chain is  *)
(* restarted first, as long as blocks are produced (EndBlocker's first loop *)
(* finds the entry again under the key it derives).                         *)
CandidatesDecided ==
  \A id \in ProgramIDs : Queued(id) /\ restarts = 0 ~> ~Queued(id) \/ restarts > 0

(* "never return err, but handle err for lint": the distribution of an      *)
(* epoch's rewards never panics.                                            *)
NeverHalts == ~halted

=============================================================================
