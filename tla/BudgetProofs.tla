---------------------------- MODULE BudgetProofs ----------------------------
(***************************************************************************)
(* Proofs about Budget for every set of validators, tokens and accounts    *)
(* and every value of the parameters and bounds.                           *)
(***************************************************************************)
EXTENDS Budget, UtilProofs

-----------------------------------------------------------------------------
(* Type correctness *)

(* Power counts tokens. *)
LEMMA PowerIsNat ==
  ASSUME NEW S
  PROVE  Power(S) \in Nat
<1>1. IsFiniteSet({t \in Tokens : stake[t] \in S})
  BY FS_Subset, StakingAssumption
<1> QED  BY <1>1, FS_CardinalityType DEF Power

(* A staking change keeps the staking store well formed: in particular no   *)
(* token stays bonded to a validator that is removed.                       *)
LEMMA StakingKeepsType ==
  ASSUME StakingTypeOK, StakingNext
  PROVE  StakingTypeOK'
<1>1. moves' \in 0 .. MaxMoves
  BY StakingAssumption DEF StakingTypeOK, StakingNext
<1>2. CASE \E t \in Tokens, w \in validators \cup {Nil} : Rebond(t, w)
  BY <1>1, <1>2 DEF StakingTypeOK, Rebond
<1>3. CASE \E v \in Vals : CreateValidator(v)
  BY <1>1, <1>3 DEF StakingTypeOK, CreateValidator
<1>4. ASSUME NEW v \in Vals, RemoveValidator(v)
      PROVE  StakingTypeOK'
  <2>1. \A t \in Tokens : stake[t] # v
    <3>1. IsFiniteSet({t \in Tokens : stake[t] \in {v}})
      BY FS_Subset, StakingAssumption
    <3>2. {t \in Tokens : stake[t] \in {v}} = {}
      BY <1>4, <3>1, FS_EmptySet DEF RemoveValidator, Power
    <3> QED  BY <3>2
  <2>2. stake' \in [Tokens -> validators' \cup {Nil}]
    BY <1>4, <2>1 DEF StakingTypeOK, RemoveValidator
  <2> QED  BY <1>1, <1>4, <2>2 DEF StakingTypeOK, RemoveValidator
<1> QED  BY <1>2, <1>3, <1>4 DEF StakingNext

(* The power behind a set of programs is an integer: it counts tokens.      *)
LEMMA VotePowerIsInt ==
  ASSUME NEW I \in SUBSET ProgramIDs
  PROVE  VotePower(I) \in Int
<1>1. IsFiniteSet(ProgramIDs)
  BY FS_Interval, BudgetAssumption DEF ProgramIDs
<1>2. IsFiniteSet(I \X Tokens)
  BY <1>1, FS_Subset, FS_Product, StakingAssumption
<1>3. ASSUME NEW option
      PROVE  Cardinality(TokensFor(I, option)) \in Nat
  <2>1. TokensFor(I, option) \subseteq I \X Tokens
    BY DEF TokensFor
  <2> QED  BY <1>2, <2>1, FS_Subset, FS_CardinalityType
<1> QED  BY <1>3 DEF VotePower

LEMMA InitType ==
  ASSUME Init
  PROVE  TypeOK
<1>1. StakingTypeOK
  BY StakingAssumption DEF Init, StakingInit, StakingTypeOK
<1>2. balances \in [Coins -> [Accounts -> Nat]]
  BY BudgetAssumption DEF Init
<1>3. votes \in [ProgramIDs -> [Vals -> Options \cup {Nil}]]
  BY DEF Init, NoVotes
<1>4. nextID \in 0 .. MaxPrograms /\ restarts \in 0 .. MaxRestarts
  BY BudgetAssumption DEF Init
<1> QED  BY <1>1, <1>2, <1>3, <1>4 DEF Init, TypeOK, NoClaims

(* The tally of a block keeps the claims well formed. *)
LEMMA ClaimsStayTyped ==
  ASSUME TypeOK
  PROVE  ClaimsAfterTally \in [Accounts -> Int \cup {Nil}]
<1>1. Granted \subseteq ProgramIDs
  BY DEF Granted, Reweighed, Stored
<1>2. ASSUME NEW a \in Accounts
      PROVE  VotePower({id \in Granted : programs[id].executor = a}) \in Int
  BY <1>1, VotePowerIsInt
<1>3. \A a \in Accounts : claims[a] \in Int \cup {Nil}
  BY DEF TypeOK
<1> QED  BY <1>2, <1>3 DEF ClaimsAfterTally

LEMMA EndBlockerKeepsType ==
  ASSUME TypeOK, NEW pool \in RewardPools, NEW coin \in Coins, EndBlocker(pool, coin)
  PROVE  TypeOK'
<1>1. /\ StakingTypeOK' /\ halted' \in BOOLEAN
      /\ nextID' \in 0 .. MaxPrograms /\ restarts' \in 0 .. MaxRestarts
  BY DEF TypeOK, EndBlocker, StakingTypeOK, stakingVars
<1>2. height' \in Nat
  BY DEF TypeOK, EndBlocker
<1>3. programs' \in [ProgramIDs -> Programs \cup {Nil}]
  BY DEF TypeOK, EndBlocker
<1>4. candQueue' \subseteq Nat \X ProgramIDs
  BY DEF TypeOK, EndBlocker, QueueAfterTally
<1>5. votes' \in [ProgramIDs -> [Vals -> Options \cup {Nil}]]
  BY DEF TypeOK, EndBlocker, VotesAfterTally, NoVotes
<1>6. passed' \subseteq ProgramIDs
  BY DEF TypeOK, EndBlocker, Expired, Stored
<1>7. claims' \in [Accounts -> Int \cup {Nil}]
  BY ClaimsStayTyped DEF TypeOK, EndBlocker, Distribute, NoClaims
<1>8. balances' \in [Coins -> [Accounts -> Nat]]
  <2>1. CASE ~IsEpochEnd \/ pool = 0
    BY <2>1 DEF TypeOK, EndBlocker, Distribute
  <2>2. CASE IsEpochEnd /\ pool # 0
    <3>1. pool > 0
      BY <2>2, BudgetAssumption
    <3>2. \A a \in Claimants : RewardAmt(a, pool) \in Nat
      BY <2>2, <3>1 DEF EndBlocker, DistributionPanics
    <3>3. \A a \in Accounts : balances[coin][a] \in Nat
      BY DEF TypeOK
    <3>4. balances' = [balances EXCEPT ![coin] = [a \in Accounts |->
             IF a \in Claimants THEN balances[coin][a] + RewardAmt(a, pool)
             ELSE balances[coin][a]]]
      BY <2>2, Zenon DEF EndBlocker, Distribute
    <3>5. [a \in Accounts |->
             IF a \in Claimants THEN balances[coin][a] + RewardAmt(a, pool)
             ELSE balances[coin][a]] \in [Accounts -> Nat]
      BY <3>2, <3>3
    <3> QED  BY <3>4, <3>5 DEF TypeOK
  <2> QED  BY <2>1, <2>2
<1> QED  BY <1>1, <1>2, <1>3, <1>4, <1>5, <1>6, <1>7, <1>8 DEF TypeOK

LEMMA DeliverKeepsType ==
  ASSUME TypeOK, Deliver
  PROVE  TypeOK'
<1>1. ASSUME NEW a \in Accounts, NEW x \in Accounts, handleMsgSubmitProgram(a, x)
      PROVE  TypeOK'
  <2> DEFINE program == [submitter |-> a, executor |-> x, submitBlock |-> height]
  <2>1. NewProgramID \in ProgramIDs /\ nextID' \in 0 .. MaxPrograms
    BY <1>1, BudgetAssumption DEF TypeOK, handleMsgSubmitProgram, NewProgramID, ProgramIDs
  <2>2. program \in Programs /\ getVotingEndBlock(program) \in Nat
    BY BudgetAssumption DEF TypeOK, Programs, getVotingEndBlock
  <2>3. balances["sdr"][a] - Deposit \in Nat
    BY <1>1, BudgetAssumption DEF TypeOK, handleMsgSubmitProgram, Coins
  <2>4. balances' \in [Coins -> [Accounts -> Nat]]
    BY <1>1, <2>3 DEF TypeOK, handleMsgSubmitProgram
  <2>5. programs' \in [ProgramIDs -> Programs \cup {Nil}]
    BY <1>1, <2>1, <2>2 DEF TypeOK, handleMsgSubmitProgram
  <2>6. candQueue' \subseteq Nat \X ProgramIDs
    BY <1>1, <2>1, <2>2 DEF TypeOK, handleMsgSubmitProgram
  <2> QED  BY <1>1, <2>1, <2>4, <2>5, <2>6
       DEF TypeOK, handleMsgSubmitProgram, StakingTypeOK, chainVars, stakingVars
<1>2. ASSUME NEW a \in Accounts, NEW id \in ProgramIDs, handleMsgWithdrawProgram(a, id)
      PROVE  TypeOK'
  <2>1. balances' \in [Coins -> [Accounts -> Nat]]
    <3>1. balances["sdr"][a] + Deposit \in Nat
      BY BudgetAssumption DEF TypeOK, Coins
    <3>2. \/ balances' = balances
          \/ balances' = [balances EXCEPT !["sdr"][a] = balances["sdr"][a] + Deposit]
      BY <1>2, Zenon DEF handleMsgWithdrawProgram
    <3>3. balances \in [Coins -> [Accounts -> Nat]]
      BY DEF TypeOK
    <3> QED  BY <3>1, <3>2, <3>3
  <2>2. /\ programs' \in [ProgramIDs -> Programs \cup {Nil}]
        /\ votes' \in [ProgramIDs -> [Vals -> Options \cup {Nil}]]
    BY <1>2 DEF TypeOK, handleMsgWithdrawProgram, NoVotes
  <2>3. candQueue' \subseteq Nat \X ProgramIDs
    BY <1>2 DEF TypeOK, handleMsgWithdrawProgram
  <2> QED  BY <1>2, <2>1, <2>2, <2>3
       DEF TypeOK, handleMsgWithdrawProgram, StakingTypeOK, chainVars, stakingVars
<1>3. ASSUME NEW v \in Vals, NEW id \in ProgramIDs, NEW option \in Options,
             handleMsgVoteProgram(v, id, option)
      PROVE  TypeOK'
  BY <1>3 DEF TypeOK, handleMsgVoteProgram, StakingTypeOK, chainVars, stakingVars
<1> QED  BY <1>1, <1>2, <1>3 DEF Deliver

LEMMA RestartKeepsType ==
  ASSUME TypeOK, NEW forZeroHeight \in ExportModes, Restart(forZeroHeight)
  PROVE  TypeOK'
<1>1. programs' \in [ProgramIDs -> Programs \cup {Nil}]
  <2>1. ASSUME NEW id \in ProgramIDs, id \in Stored
        PROVE  [programs[id] EXCEPT !.submitBlock = 0] \in Programs
    BY <2>1 DEF TypeOK, Stored, Programs
  <2> QED  BY <2>1 DEF TypeOK, Restart, ExportedPrograms
<1>2. candQueue' \subseteq Nat \X ProgramIDs
  BY BudgetAssumption DEF Restart, ExportedCandidates, Stored
<1>3. nextID' \in 0 .. MaxPrograms /\ restarts' \in 0 .. MaxRestarts
  BY BudgetAssumption DEF TypeOK, Restart
<1>4. claims' \in [Accounts -> Int \cup {Nil}]
  BY DEF Restart, NoClaims
<1>5. height' \in Nat /\ halted' \in BOOLEAN
  BY DEF Restart
<1> QED  BY <1>1, <1>2, <1>3, <1>4, <1>5 DEF TypeOK, Restart, StakingTypeOK, stakingVars

(* Every message, every EndBlocker, a panic included, every staking change  *)
(* and every restart leaves all stores of the budget well typed.            *)
LEMMA NextKeepsType ==
  ASSUME TypeOK, [Next]_vars
  PROVE  TypeOK'
<1>1. CASE Deliver
  BY <1>1, DeliverKeepsType
<1>2. CASE StakingStep
  BY <1>2, StakingKeepsType DEF TypeOK, StakingStep, chainVars
<1>3. ASSUME NEW pool \in RewardPools, NEW coin \in Coins, EndBlocker(pool, coin)
      PROVE  TypeOK'
  BY <1>3, EndBlockerKeepsType
<1>4. ASSUME NEW pool \in RewardPools, EndBlockerPanics(pool)
      PROVE  TypeOK'
  BY <1>4 DEF TypeOK, EndBlockerPanics, StakingTypeOK, stakingVars
<1>5. ASSUME NEW forZeroHeight \in ExportModes, Restart(forZeroHeight)
      PROVE  TypeOK'
  BY <1>5, RestartKeepsType
<1>6. CASE UNCHANGED vars
  BY <1>6 DEF vars, TypeOK, StakingTypeOK, chainVars, stakingVars
<1> QED  BY <1>1, <1>2, <1>3, <1>4, <1>5, <1>6 DEF Next, EndBlock

(* The stores of the budget and of staking are well typed in every state:   *)
(* no reward, refund or deposit ever takes a balance below zero, and ids    *)
(* stay within those given out (all handlers and the EndBlocker).           *)
THEOREM TypeCorrect == Spec => []TypeOK
<1>1. Init => TypeOK
  BY InitType
<1>2. TypeOK /\ [Next]_vars => TypeOK'
  BY NextKeepsType
<1> QED  BY <1>1, <1>2, PTL DEF Spec

-----------------------------------------------------------------------------
(* Votes never outlive their program *)

LEMMA ProgramIsNotNil == Nil \notin Programs
  BY NilAssumption

LEMMA NextKeepsVotesHaveProgram ==
  ASSUME TypeOK, VotesHaveProgram, [Next]_vars
  PROVE  VotesHaveProgram'
<1> SUFFICES ASSUME NEW i \in ProgramIDs, NEW w \in Vals, votes'[i][w] # Nil
             PROVE  programs'[i] # Nil
  BY DEF VotesHaveProgram
<1>0. votes[i][w] # Nil => programs[i] # Nil
  BY DEF VotesHaveProgram
<1>1. ASSUME NEW a \in Accounts, NEW x \in Accounts, handleMsgSubmitProgram(a, x)
      PROVE  programs'[i] # Nil
  <2>1. [submitter |-> a, executor |-> x, submitBlock |-> height] \in Programs
    BY DEF TypeOK, Programs
  <2> QED  BY <1>0, <1>1, <2>1, ProgramIsNotNil DEF TypeOK, handleMsgSubmitProgram
<1>2. ASSUME NEW a \in Accounts, NEW id \in ProgramIDs, handleMsgWithdrawProgram(a, id)
      PROVE  programs'[i] # Nil
  <2>1. i # id
    BY <1>2 DEF TypeOK, handleMsgWithdrawProgram, NoVotes
  <2> QED  BY <1>0, <1>2, <2>1 DEF TypeOK, handleMsgWithdrawProgram
<1>3. ASSUME NEW v \in Vals, NEW id \in ProgramIDs, NEW option \in Options,
             handleMsgVoteProgram(v, id, option)
      PROVE  programs'[i] # Nil
  BY <1>0, <1>3 DEF TypeOK, handleMsgVoteProgram, Stored
<1>4. ASSUME NEW pool \in RewardPools, NEW coin \in Coins, EndBlocker(pool, coin)
      PROVE  programs'[i] # Nil
  <2>1. i \notin Deleted /\ votes[i][w] # Nil
    BY <1>4 DEF EndBlocker, VotesAfterTally, NoVotes
  <2> QED  BY <1>0, <1>4, <2>1 DEF EndBlocker
<1>5. ASSUME NEW forZeroHeight \in ExportModes, Restart(forZeroHeight)
      PROVE  programs'[i] # Nil
  <2>1. programs[i] # Nil
    BY <1>0, <1>5 DEF Restart
  <2>2. [programs[i] EXCEPT !.submitBlock = 0] \in Programs
    BY <2>1 DEF TypeOK, Programs
  <2> QED  BY <1>5, <2>1, <2>2, ProgramIsNotNil DEF Restart, ExportedPrograms
<1>6. CASE UNCHANGED <<programs, votes>>
  BY <1>0, <1>6
<1> QED  BY <1>1, <1>2, <1>3, <1>4, <1>5, <1>6
     DEF Next, Deliver, EndBlock, EndBlockerPanics, StakingStep, vars

(* No vote is ever stored for a program that is not: withdrawal, rejection, *)
(* legacy status and restarts included (DeleteVotesForProgram).             *)
THEOREM VotesNeverOutlivePrograms == Spec => []VotesHaveProgram
<1>1. Init => VotesHaveProgram
  BY DEF Init, VotesHaveProgram, NoVotes
<1>2. TypeOK /\ VotesHaveProgram /\ [Next]_vars => VotesHaveProgram'
  BY NextKeepsVotesHaveProgram
<1> QED  BY <1>1, <1>2, TypeCorrect, PTL DEF Spec

-----------------------------------------------------------------------------
(* The candidate queue, in the life of one chain (no export and restart) *)

(* Ids above the counter are free: what makes a new id a fresh one. *)
IdsGivenOut == \A id \in Stored : id <= nextID

(* The queue alone is not inductive: submitting must not hit a stored id,   *)
(* and the tally finds its entries only because the derived keys match.     *)
QueueInv ==
  /\ QueueMatchesPrograms
  /\ NoOverdueCandidate
  /\ ActiveWerePassed
  /\ IdsGivenOut

LEMMA SubmitKeepsQueue ==
  ASSUME TypeOK, QueueInv,
         NEW a \in Accounts, NEW x \in Accounts, handleMsgSubmitProgram(a, x)
  PROVE  QueueInv'
<1> DEFINE program == [submitter |-> a, executor |-> x, submitBlock |-> height]
<1>0. NewProgramID \in ProgramIDs
  BY BudgetAssumption DEF TypeOK, handleMsgSubmitProgram, NewProgramID, ProgramIDs
<1>1. PICK id \in ProgramIDs : id = nextID + 1 /\ id = NewProgramID
  BY <1>0 DEF NewProgramID
<1>2. program \in Programs /\ program # Nil
  BY ProgramIsNotNil DEF TypeOK, Programs
<1>3. programs' = [programs EXCEPT ![id] = program] /\ nextID' = id
  BY <1>1 DEF handleMsgSubmitProgram
<1>4. candQueue' = candQueue \cup {<<height + VotePeriod, id>>}
  BY <1>1 DEF handleMsgSubmitProgram, getVotingEndBlock
<1>5. \A i \in Stored : i \in ProgramIDs /\ i # id /\ i <= nextID
  BY <1>1 DEF QueueInv, IdsGivenOut, Stored, ProgramIDs, TypeOK
<1>6. programs'[id] = program /\ \A i \in ProgramIDs \ {id} : programs'[i] = programs[i]
  BY <1>1, <1>3 DEF TypeOK
<1>7. Stored' = Stored \cup {id}
  BY <1>1, <1>2, <1>6 DEF Stored
<1>8. \A entry \in candQueue : entry[2] \in Stored
  BY DEF QueueInv, QueueMatchesPrograms, Stored, TypeOK
<1>9. QueueMatchesPrograms'
  <2>1. ASSUME NEW entry \in candQueue
        PROVE  programs'[entry[2]] # Nil /\ entry[1] = programs'[entry[2]].submitBlock + VotePeriod
    BY <1>5, <1>6, <1>8 DEF QueueInv, QueueMatchesPrograms, getVotingEndBlock, Stored
  <2>2. programs'[id] # Nil /\ height + VotePeriod = programs'[id].submitBlock + VotePeriod
    BY <1>2, <1>6
  <2> QED  BY <1>4, <2>1, <2>2 DEF QueueMatchesPrograms, getVotingEndBlock
<1>10. NoOverdueCandidate'
  <2>1. height' = height /\ height + VotePeriod >= height
    BY BudgetAssumption DEF handleMsgSubmitProgram, chainVars, TypeOK
  <2> QED  BY <1>4, <2>1 DEF QueueInv, NoOverdueCandidate
<1>11. ActiveWerePassed'
  <2>1. ASSUME NEW i \in Stored, ~CandQueueHas(candQueue, i)'
        PROVE  i \in passed'
    BY <1>4, <1>5, <1>6, <2>1
    DEF QueueInv, ActiveWerePassed, CandQueueHas, getVotingEndBlock, handleMsgSubmitProgram
  <2>2. CandQueueHas(candQueue, id)'
    BY <1>4, <1>6 DEF CandQueueHas, getVotingEndBlock
  <2> QED  BY <1>7, <2>1, <2>2 DEF ActiveWerePassed
<1>12. IdsGivenOut'
  BY <1>1, <1>3, <1>5, <1>7 DEF IdsGivenOut, ProgramIDs, TypeOK
<1> QED  BY <1>9, <1>10, <1>11, <1>12 DEF QueueInv

LEMMA WithdrawKeepsQueue ==
  ASSUME TypeOK, QueueInv,
         NEW a \in Accounts, NEW id \in ProgramIDs, handleMsgWithdrawProgram(a, id)
  PROVE  QueueInv'
<1>1. programs' = [programs EXCEPT ![id] = Nil] /\ id \in Stored
  BY DEF handleMsgWithdrawProgram
<1>2. candQueue' = candQueue \ {<<getVotingEndBlock(programs[id]), id>>}
  BY DEF handleMsgWithdrawProgram, CandQueueHas
<1>3. programs'[id] = Nil /\ \A i \in ProgramIDs \ {id} : programs'[i] = programs[i]
  BY <1>1 DEF TypeOK
<1>4. Stored' = Stored \ {id}
  BY <1>3 DEF Stored
<1>5. ASSUME NEW entry \in candQueue'
      PROVE  entry \in candQueue /\ entry[2] # id /\ entry[2] \in ProgramIDs
  <2>1. entry \in candQueue /\ entry \in Nat \X ProgramIDs
    BY <1>2, <1>5 DEF TypeOK
  <2>2. entry = <<entry[1], entry[2]>>
    BY <2>1
  <2> QED  BY <1>2, <1>5, <2>1, <2>2 DEF QueueInv, QueueMatchesPrograms
<1>6. QueueMatchesPrograms'
  BY <1>3, <1>5 DEF QueueInv, QueueMatchesPrograms, getVotingEndBlock
<1>7. NoOverdueCandidate'
  BY <1>2 DEF QueueInv, NoOverdueCandidate, handleMsgWithdrawProgram, chainVars
<1>8. ActiveWerePassed'
  <2>1. ASSUME NEW i \in Stored \ {id}, ~CandQueueHas(candQueue, i)'
        PROVE  i \in passed'
    <3>1. programs'[i] = programs[i]
      BY <1>3, <2>1 DEF Stored
    <3>2. ~CandQueueHas(candQueue, i)
      BY <1>2, <2>1, <3>1 DEF CandQueueHas, getVotingEndBlock
    <3> QED  BY <3>2 DEF QueueInv, ActiveWerePassed, handleMsgWithdrawProgram
  <2> QED  BY <1>4, <2>1 DEF ActiveWerePassed
<1>9. IdsGivenOut'
  BY <1>4 DEF QueueInv, IdsGivenOut, handleMsgWithdrawProgram
<1> QED  BY <1>6, <1>7, <1>8, <1>9 DEF QueueInv

LEMMA EndBlockerKeepsQueue ==
  ASSUME TypeOK, QueueInv,
         NEW pool \in RewardPools, NEW coin \in Coins, EndBlocker(pool, coin)
  PROVE  QueueInv'
<1>1. /\ programs' = [id \in ProgramIDs |-> IF id \in Deleted THEN Nil ELSE programs[id]]
      /\ candQueue' = QueueAfterTally
      /\ passed' = passed \cup (Expired \ Rejected)
      /\ height' = height + 1 /\ nextID' = nextID
  BY DEF EndBlocker
<1>2. Stored' = Stored \ Deleted
  BY <1>1 DEF Stored
<1>3. ASSUME NEW entry \in candQueue'
      PROVE  /\ entry \in candQueue /\ entry[2] \in Stored
             /\ entry[1] \in Nat /\ entry[1] = getVotingEndBlock(programs[entry[2]])
             /\ entry[1] > height
             /\ entry[2] \notin Deleted
  <2>1. entry \in candQueue /\ entry \in Nat \X ProgramIDs
    BY <1>1, <1>3 DEF TypeOK, QueueAfterTally
  <2>2. /\ entry = <<entry[1], entry[2]>> /\ entry[1] \in Nat /\ entry[2] \in Stored
        /\ entry[1] = getVotingEndBlock(programs[entry[2]])
    BY <2>1 DEF QueueInv, QueueMatchesPrograms, Stored
  <2>3. entry[2] \notin Expired
    BY <1>1, <1>3, <2>2 DEF QueueAfterTally
  <2>4. entry[1] > height
    BY <2>1, <2>2, <2>3 DEF Expired, TypeOK
  <2>5. entry[2] \notin Rejected
    BY <2>3 DEF Rejected
  <2>6. CandQueueHas(QueueAfterTally, entry[2])
    BY <1>1, <1>3, <2>2 DEF CandQueueHas
  <2>7. entry[2] \notin Legacied
    BY <2>6 DEF Legacied, Reweighed
  <2> QED  BY <2>1, <2>2, <2>4, <2>5, <2>7 DEF Deleted
<1>4. QueueMatchesPrograms'
  BY <1>1, <1>3 DEF QueueMatchesPrograms, getVotingEndBlock, Stored
<1>5. NoOverdueCandidate'
  BY <1>1, <1>3 DEF NoOverdueCandidate, TypeOK
<1>6. ActiveWerePassed'
  <2>1. ASSUME NEW i \in Stored \ Deleted, ~CandQueueHas(candQueue, i)'
        PROVE  i \in passed'
    <3>1. programs'[i] = programs[i]
      BY <1>1, <2>1 DEF Stored
    <3>2. <<getVotingEndBlock(programs[i]), i>> \notin QueueAfterTally
      BY <1>1, <2>1, <3>1 DEF CandQueueHas, getVotingEndBlock
    <3>3. CASE CandQueueHas(candQueue, i)
      <4>1. \E e \in Expired : <<getVotingEndBlock(programs[i]), i>> = <<getVotingEndBlock(programs[e]), e>>
        BY <3>2, <3>3 DEF CandQueueHas, QueueAfterTally
      <4>2. i \in Expired
        BY <4>1
      <4>3. i \notin Rejected
        BY <2>1 DEF Deleted
      <4> QED  BY <1>1, <4>2, <4>3
    <3>4. CASE ~CandQueueHas(candQueue, i)
      BY <1>1, <3>4 DEF QueueInv, ActiveWerePassed
    <3> QED  BY <3>3, <3>4
  <2> QED  BY <1>2, <2>1 DEF ActiveWerePassed
<1>7. IdsGivenOut'
  BY <1>1, <1>2 DEF QueueInv, IdsGivenOut
<1> QED  BY <1>4, <1>5, <1>6, <1>7 DEF QueueInv

(* A chain that was never restarted. *)
FirstLife == restarts = 0 => QueueInv

LEMMA NextKeepsQueue ==
  ASSUME TypeOK, FirstLife, [Next]_vars, restarts' = 0
  PROVE  QueueInv'
<1>4. ASSUME NEW forZeroHeight \in ExportModes, Restart(forZeroHeight)
      PROVE  FALSE
  BY <1>4, BudgetAssumption DEF Restart, TypeOK
<1>0. QueueInv
  <2>1. restarts = 0
    BY <1>4 DEF Next, Deliver, EndBlock, EndBlocker, EndBlockerPanics, StakingStep, vars, chainVars,
                handleMsgSubmitProgram, handleMsgWithdrawProgram, handleMsgVoteProgram
  <2> QED  BY <2>1 DEF FirstLife
<1>1. ASSUME NEW a \in Accounts, NEW x \in Accounts, handleMsgSubmitProgram(a, x)
      PROVE  QueueInv'
  BY <1>0, <1>1, SubmitKeepsQueue
<1>2. ASSUME NEW a \in Accounts, NEW id \in ProgramIDs, handleMsgWithdrawProgram(a, id)
      PROVE  QueueInv'
  BY <1>0, <1>2, WithdrawKeepsQueue
<1>3. ASSUME NEW pool \in RewardPools, NEW coin \in Coins, EndBlocker(pool, coin)
      PROVE  QueueInv'
  BY <1>0, <1>3, EndBlockerKeepsQueue
<1>5. CASE UNCHANGED <<height, programs, nextID, candQueue, passed>>
  BY <1>0, <1>5 DEF QueueInv, QueueMatchesPrograms, NoOverdueCandidate, ActiveWerePassed,
              IdsGivenOut, Stored, CandQueueHas
<1>6. ASSUME NEW v \in Vals, NEW id \in ProgramIDs, NEW option \in Options,
             handleMsgVoteProgram(v, id, option)
      PROVE  QueueInv'
  BY <1>5, <1>6 DEF handleMsgVoteProgram, chainVars
<1> QED  BY <1>1, <1>2, <1>3, <1>4, <1>5, <1>6
     DEF Next, Deliver, EndBlock, EndBlockerPanics, StakingStep, vars, chainVars

LEMMA FirstLifeInvariant == Spec => []FirstLife
<1>1. Init => FirstLife
  BY DEF Init, FirstLife, QueueInv, QueueMatchesPrograms, NoOverdueCandidate, ActiveWerePassed,
         IdsGivenOut, Stored
<1>2. TypeOK /\ FirstLife /\ [Next]_vars => FirstLife'
  BY NextKeepsQueue DEF FirstLife
<1> QED  BY <1>1, <1>2, TypeCorrect, PTL DEF Spec

LEMMA QueueInvariant ==
  ASSUME MaxRestarts = 0
  PROVE  Spec => []QueueInv
<1>1. TypeOK /\ FirstLife => QueueInv
  BY DEF TypeOK, FirstLife
<1> QED  BY <1>1, TypeCorrect, FirstLifeInvariant, PTL

(* In the life of one chain every entry of the candidate queue sits under   *)
(* the key that CandQueueHas and CandQueueRemove derive from its program,   *)
(* so none is ever missed or left behind by the tally or a withdrawal.      *)
THEOREM QueueAlwaysMatches ==
  ASSUME MaxRestarts = 0
  PROVE  Spec => []QueueMatchesPrograms
<1>1. QueueInv => QueueMatchesPrograms
  BY DEF QueueInv
<1> QED  BY <1>1, QueueInvariant, PTL

(* In the life of one chain every candidate is tallied in exactly the block *)
(* in which its vote period ends (CandQueueIterateExpired, EndBlocker).     *)
THEOREM CandidatesNeverOverdue ==
  ASSUME MaxRestarts = 0
  PROVE  Spec => []NoOverdueCandidate
<1>1. QueueInv => NoOverdueCandidate
  BY DEF QueueInv
<1> QED  BY <1>1, QueueInvariant, PTL

(* In the life of one chain a program that is weighed for rewards has       *)
(* cleared the active threshold: there is no way from submission to reward  *)
(* around the tally (IteratePrograms' filter against the first loop).       *)
THEOREM OnlyPassedProgramsAreActive ==
  ASSUME MaxRestarts = 0
  PROVE  Spec => []ActiveWerePassed
<1>1. QueueInv => ActiveWerePassed
  BY DEF QueueInv
<1> QED  BY <1>1, QueueInvariant, PTL

LEMMA StepKeepsPrograms ==
  ASSUME TypeOK, QueueInv, Next, NEW i \in ProgramIDs,
         programs[i] # Nil, programs'[i] # Nil, restarts' = restarts
  PROVE  programs'[i] = programs[i]
<1>1. ASSUME NEW a \in Accounts, NEW x \in Accounts, handleMsgSubmitProgram(a, x)
      PROVE  programs'[i] = programs[i]
  <2>1. i <= nextID
    BY DEF QueueInv, IdsGivenOut, Stored
  <2>2. i # NewProgramID
    BY <2>1 DEF NewProgramID, TypeOK, ProgramIDs
  <2> QED  BY <1>1, <2>2 DEF TypeOK, handleMsgSubmitProgram
<1>2. ASSUME NEW a \in Accounts, NEW id \in ProgramIDs, handleMsgWithdrawProgram(a, id)
      PROVE  programs'[i] = programs[i]
  BY <1>2 DEF TypeOK, handleMsgWithdrawProgram
<1>3. ASSUME NEW pool \in RewardPools, NEW coin \in Coins, EndBlocker(pool, coin)
      PROVE  programs'[i] = programs[i]
  BY <1>3 DEF EndBlocker
<1>4. ASSUME NEW forZeroHeight \in ExportModes, Restart(forZeroHeight)
      PROVE  FALSE
  BY <1>4 DEF Restart, TypeOK
<1>5. ASSUME NEW v \in Vals, NEW id \in ProgramIDs, NEW option \in Options,
             handleMsgVoteProgram(v, id, option)
      PROVE  programs'[i] = programs[i]
  BY <1>5 DEF handleMsgVoteProgram
<1> QED  BY <1>1, <1>2, <1>3, <1>4, <1>5
     DEF Next, Deliver, EndBlock, EndBlockerPanics, StakingStep

(* In the life of one chain no message overwrites a stored program: the id  *)
(* of NewProgramID is always free (handleMsgSubmitProgram).                 *)
THEOREM IdsAreFresh ==
  ASSUME MaxRestarts = 0
  PROVE  Spec => ProgramsNotOverwritten
<1>1. TypeOK /\ QueueInv /\ [Next]_vars =>
        [\A id \in ProgramIDs :
           programs[id] # Nil /\ programs'[id] # Nil /\ restarts' = restarts =>
             programs'[id] = programs[id]]_vars
  BY StepKeepsPrograms
<1> QED  BY <1>1, TypeCorrect, QueueInvariant, PTL DEF Spec, ProgramsNotOverwritten

(* An export puts every candidate under the key that the new chain derives  *)
(* from its program, and no other program.                                  *)
LEMMA RestartKeepsEach ==
  ASSUME TypeOK, QueueInv, Restart(TRUE), NEW id \in ProgramIDs
  PROVE  /\ programs'[id] = Nil <=> programs[id] = Nil
         /\ programs[id] # Nil =>
              (<<getVotingEndBlock(programs'[id]), id>> \in candQueue' <=>
                 CandQueueHas(candQueue, id))
<1>1. programs'[id] = IF programs[id] # Nil
                      THEN [programs[id] EXCEPT !.submitBlock = 0] ELSE programs[id]
  BY DEF Restart, ExportedPrograms, Stored
<1>2. CASE programs[id] = Nil
  BY <1>1, <1>2
<1>3. CASE programs[id] # Nil
  <2>1. programs[id] \in Programs
    BY <1>3 DEF TypeOK
  <2>2. programs'[id] = [programs[id] EXCEPT !.submitBlock = 0]
    BY <1>1, <1>3
  <2>3. programs'[id] \in Programs /\ programs'[id].submitBlock = 0
    BY <2>1, <2>2 DEF Programs
  <2>4. programs'[id] # Nil
    BY <2>3, NilAssumption
  <2>5. getVotingEndBlock(programs'[id]) = VotePeriod
    BY <2>3, BudgetAssumption DEF getVotingEndBlock
  <2>6. <<VotePeriod, id>> \in candQueue' <=> id \in ExportedCandidates
    BY DEF Restart
  <2>7. id \in ExportedCandidates <=> CandQueueHas(candQueue, id)
    <3>1. ASSUME NEW entry \in candQueue, entry[2] = id
          PROVE  CandQueueHas(candQueue, id)
      <4>1. entry = <<entry[1], entry[2]>>
        BY DEF TypeOK
      <4>2. entry[1] = getVotingEndBlock(programs[id])
        BY <3>1 DEF QueueInv, QueueMatchesPrograms
      <4> QED  BY <3>1, <4>1, <4>2 DEF CandQueueHas
    <3>2. ASSUME CandQueueHas(candQueue, id)
          PROVE  \E entry \in candQueue : entry[2] = id
      BY <3>2 DEF CandQueueHas
    <3> QED  BY <1>3, <3>1, <3>2 DEF ExportedCandidates, Stored
  <2> QED  BY <1>3, <2>4, <2>5, <2>6, <2>7
<1> QED  BY <1>2, <1>3

(* The first restart from a zero-height export keeps every program where it *)
(* was: stored or not, candidate or active.                                 *)
THEOREM FirstRestartKeepsPrograms ==
  ASSUME MaxRestarts <= 1, FALSE \notin ExportModes
  PROVE  Spec => RestartKeepsPrograms
<1> DEFINE A == restarts' # restarts =>
       \A id \in ProgramIDs :
         /\ programs'[id] = Nil <=> programs[id] = Nil
         /\ programs[id] # Nil =>
              (<<getVotingEndBlock(programs'[id]), id>> \in candQueue' <=>
                 CandQueueHas(candQueue, id))
<1>1. TypeOK /\ FirstLife /\ [Next]_vars => [A]_vars
  <2> SUFFICES ASSUME TypeOK, FirstLife, Next, restarts' # restarts PROVE A
    OBVIOUS
  <2>1. PICK forZeroHeight \in ExportModes : Restart(forZeroHeight)
    BY DEF Next, Deliver, EndBlock, EndBlocker, EndBlockerPanics, StakingStep, chainVars,
           handleMsgSubmitProgram, handleMsgWithdrawProgram, handleMsgVoteProgram
  <2>2. forZeroHeight = TRUE
    BY BudgetAssumption
  <2>3. restarts = 0
    BY <2>1, BudgetAssumption DEF Restart, TypeOK
  <2> QED  BY <2>1, <2>2, <2>3, RestartKeepsEach DEF FirstLife
<1> QED  BY <1>1, TypeCorrect, FirstLifeInvariant, PTL DEF Spec, RestartKeepsPrograms

-----------------------------------------------------------------------------
(* Claims are never negative *)

(* Power is counted program by program. *)
LEMMA VotePowerSplits ==
  ASSUME NEW I \in SUBSET ProgramIDs, NEW id \in I
  PROVE  VotePower(I) = VotePower({id}) + VotePower(I \ {id})
<1>1. IsFiniteSet(ProgramIDs \X Tokens)
  <2>1. IsFiniteSet(ProgramIDs)
    BY FS_Interval, BudgetAssumption DEF ProgramIDs
  <2> QED  BY <2>1, FS_Product, StakingAssumption
<1>2. ASSUME NEW option
      PROVE  /\ Cardinality(TokensFor(I, option))
                  = Cardinality(TokensFor({id}, option)) + Cardinality(TokensFor(I \ {id}, option))
             /\ Cardinality(TokensFor({id}, option)) \in Nat
             /\ Cardinality(TokensFor(I \ {id}, option)) \in Nat
  <2> DEFINE A == TokensFor({id}, option)
             B == TokensFor(I \ {id}, option)
  <2>1. A \cap B = {} /\ A \cup B = TokensFor(I, option)
    BY DEF TokensFor
  <2>2. IsFiniteSet(A) /\ IsFiniteSet(B)
    <3>1. A \in SUBSET (ProgramIDs \X Tokens) /\ B \in SUBSET (ProgramIDs \X Tokens)
      BY DEF TokensFor
    <3> QED  BY <1>1, <3>1, FS_Subset
  <2> HIDE DEF A, B
  <2>3. Cardinality(A) \in Nat /\ Cardinality(B) \in Nat /\ Cardinality(A \cap B) = 0
    BY <2>1, <2>2, FS_CardinalityType, FS_EmptySet
  <2>4. Cardinality(A \cup B) = Cardinality(A) + Cardinality(B)
    <3>1. Cardinality(A \cup B) = Cardinality(A) + Cardinality(B) - Cardinality(A \cap B)
      BY <2>2, FS_Union
    <3> QED  BY <2>3, <3>1
  <2> QED  BY <2>1, <2>3, <2>4 DEF A, B
<1> QED  BY <1>2 DEF VotePower

(* Granted programs have no negative power, alone and together. *)
LEMMA GrantedPower ==
  ASSUME TypeOK, NEW I \in SUBSET Granted
  PROVE  VotePower(I) >= 0
<1>0. Granted \subseteq ProgramIDs /\ IsFiniteSet(I)
  <2>1. Granted \subseteq ProgramIDs
    BY DEF Granted, Reweighed, Stored
  <2>2. IsFiniteSet(ProgramIDs)
    BY FS_Interval, BudgetAssumption DEF ProgramIDs
  <2> QED  BY <2>1, <2>2, FS_Subset
<1>1. ASSUME NEW id \in Granted
      PROVE  VotePower({id}) >= 0
  <2>1. PICK n \in Nat : n = LegacyThreshold * TotalBondedTokens
    BY PowerIsNat, BudgetAssumption DEF TotalBondedTokens
  <2>2. RoundInt(n, 100) \in Nat
    BY RoundIntBounds
  <2>3. VotePower({id}) >= RoundInt(n, 100)
    BY <2>1 DEF Granted, Legacied, clearsThreshold
  <2>4. VotePower({id}) \in Int
    BY <1>0, VotePowerIsInt
  <2> QED  BY <2>2, <2>3, <2>4
<1> DEFINE P == {J \in SUBSET I : VotePower(J) >= 0}
<1>2. {} \in P
  <2>1. \A option : TokensFor({}, option) = {}
    BY DEF TokensFor
  <2> QED  BY <2>1, FS_EmptySet DEF VotePower
<1>3. ASSUME NEW J \in SUBSET I, J # {}, \A x \in J : J \ {x} \in P
      PROVE  J \in P
  <2>1. PICK id \in J : TRUE
    BY <1>3
  <2>2. VotePower(J) = VotePower({id}) + VotePower(J \ {id})
    BY <1>0, VotePowerSplits
  <2>3. VotePower({id}) \in Int /\ VotePower(J \ {id}) \in Int
    BY <1>0, VotePowerIsInt
  <2>4. VotePower({id}) >= 0 /\ VotePower(J \ {id}) >= 0
    BY <1>1, <1>3
  <2> QED  BY <2>2, <2>3, <2>4
<1>4. SUBSET I \subseteq P
  <2> HIDE DEF P
  <2> QED  BY <1>0, <1>2, <1>3, SubsetInduction
<1> QED  BY <1>4

LEMMA TallyKeepsClaims ==
  ASSUME TypeOK, ClaimsNotNegative, NEW a \in Accounts, ClaimsAfterTally[a] # Nil
  PROVE  ClaimsAfterTally[a] >= 0
<1> DEFINE granted == {id \in Granted : programs[id].executor = a}
<1>1. ClaimsAfterTally[a] = IF granted = {} THEN claims[a]
                            ELSE VotePower(granted) + (IF claims[a] = Nil THEN 0 ELSE claims[a])
  BY DEF ClaimsAfterTally
<1>2. VotePower(granted) >= 0
  BY GrantedPower
<1>3. VotePower(granted) \in Int
  BY VotePowerIsInt DEF Granted, Reweighed, Stored
<1>4. claims[a] # Nil => claims[a] \in Int /\ claims[a] >= 0
  BY DEF TypeOK, ClaimsNotNegative
<1> HIDE DEF granted
<1> QED  BY <1>1, <1>2, <1>3, <1>4

(* No claim is ever negative, whatever is voted on however many programs of *)
(* one executor: a program weighs in only after it has cleared the legacy   *)
(* threshold in the same block (EndBlocker, addClaimPool).                  *)
THEOREM ClaimsNeverNegative == Spec => []ClaimsNotNegative
<1>1. Init => ClaimsNotNegative
  BY DEF Init, ClaimsNotNegative, NoClaims
<1>2. ASSUME TypeOK, ClaimsNotNegative, [Next]_vars
      PROVE  ClaimsNotNegative'
  <2>1. CASE UNCHANGED claims
    BY <1>2, <2>1 DEF ClaimsNotNegative
  <2>2. CASE claims' = NoClaims
    BY <2>2 DEF ClaimsNotNegative, NoClaims
  <2>3. CASE claims' = ClaimsAfterTally
    BY <1>2, <2>3, TallyKeepsClaims DEF ClaimsNotNegative
  <2> QED  BY <1>2, <2>1, <2>2, <2>3
       DEF Next, Deliver, EndBlock, EndBlocker, Distribute, EndBlockerPanics, Restart, StakingStep,
           handleMsgSubmitProgram, handleMsgWithdrawProgram, handleMsgVoteProgram, vars
<1> QED  BY <1>1, <1>2, TypeCorrect, PTL DEF Spec

=============================================================================
