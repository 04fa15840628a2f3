---------------------------- MODULE ChainRewards -----------------------------
(***************************************************************************)
(* The block rewards of the chain.  Block numbers are divided into eras of *)
(* BlockCountEachEra blocks, and the base reward of an era follows from    *)
(* what had been mined when it began.  The database keeps the total and    *)
(* the list of eras for the best block (the "Rewards" entry), adding and   *)
(* subtracting blocks as they are enacted and retracted; the engine has a  *)
(* copy that it pays rewards from when a block is closed.                  *)
(*                                                                         *)
(* The entry is written in the same batch as the rest of the block, the    *)
(* engine's copy after BlockChain::commit, in a step of its own.           *)
(***************************************************************************)
EXTENDS BlockChain, BlockOrder, FiniteSetsExt

CONSTANTS
    Gwei,               \* rewards are rounded down to a multiple of this
    TotalReward,        \* reward_config.total_reward
    BlockCountEachEra,
    ProductionRate,     \* percentage of the rest that an era may pay out
    MaxUncles,          \* reward_config.maximum_uncle_count
    MaxEra,             \* MAX_ERA, the most eras that are kept
    UncleNumbers        \* the numbers of the uncles of a block

ASSUME RewardAssumption ==
    /\ {Gwei, BlockCountEachEra, MaxEra} \subseteq Nat \ {0}
    /\ {TotalReward, MaxUncles} \subseteq Nat
    /\ ProductionRate \in 0..100
    /\ \A b \in Blocks :
          /\ Len(UncleNumbers[b]) <= MaxUncles
          /\ \A i \in DOMAIN UncleNumbers[b] : UncleNumbers[b][i] \in (Number[b] - 6)..(Number[b] - 1)

VARIABLES
    rewards,        \* the entry of db: [total, eras], eras[e + 1] is era e
    savedRewards,   \* the entry of disk
    engineRewards,  \* the copy of the engine
    refreshDue      \* commit_block is about to refresh the engine's copy

rewardVars == <<rewards, savedRewards, engineRewards, refreshDue>>

-----------------------------------------------------------------------------
RoundDown(r) == (r \div Gwei) * Gwei

CalcBaseOfWholeEra(mined) ==
    RoundDown(((((TotalReward - mined) * ProductionRate) \div 100) * Gwei)
                 \div (Gwei + (Gwei \div 32) * MaxUncles + ((Gwei * 7) \div 8) * MaxUncles))

CalcEraBaseReward(mined) ==
    LET eraTotal == ((TotalReward - mined) * ProductionRate) \div 100
        blockReward == eraTotal \div BlockCountEachEra
        minerReward == Gwei + (Gwei \div 32) * MaxUncles
        unclesReward == ((Gwei * 7) \div 8) * MaxUncles
    IN  RoundDown((blockReward * Gwei) \div (minerReward + unclesReward))

CalcAuthorMinerReward(base, nUncles) == RoundDown(base + (base * nUncles) \div 32)

CalcUncleMinerReward(base, miner, uncle) == RoundDown((base * (8 + uncle - miner)) \div 8)

CalcEra(n) == n \div BlockCountEachEra

IsEraLastBlock(n) == n > 0 /\ (n + 1) % BlockCountEachEra = 0

CalculateBlockTotalReward(base, b) ==
    CalcAuthorMinerReward(base, Len(UncleNumbers[b]))
        + MapThenSumSet(LAMBDA i : CalcUncleMinerReward(base, Number[b], UncleNumbers[b][i]),
                        DOMAIN UncleNumbers[b])

-----------------------------------------------------------------------------
(***************************************************************************)
(* A Rewards value without eras stands for a panic of add_new_era_reward,  *)
(* of delete_last_era or of a subtraction: the program never has one       *)
(* otherwise.                                                              *)
(***************************************************************************)
Panicked == [total |-> 0, eras |-> << >>]

AddNewEraReward(r, era, base) ==
    IF Len(r.eras) # era THEN Panicked
    ELSE IF era >= MaxEra THEN r
    ELSE [r EXCEPT !.eras = Append(@, [total |-> r.total, base |-> base])]

DeleteLastEra(r, era) ==
    IF Len(r.eras) = 1 THEN Panicked
    ELSE IF era >= MaxEra THEN r
    ELSE IF Len(r.eras) # era + 1 THEN Panicked
    ELSE [r EXCEPT !.eras = Front(@)]

(***************************************************************************)
(* get_era_base_reward, zero where the code has None.  An era is only      *)
(* added with a positive base.                                             *)
(***************************************************************************)
EraBaseReward(r, era) == IF era < Len(r.eras) THEN r.eras[era + 1].base ELSE 0

(***************************************************************************)
(* prepare_block_rewards: a block of an era that is not listed changes     *)
(* nothing.  U256 subtraction panics below zero.                           *)
(***************************************************************************)
RemoveBlockRewards(r, b) ==
    LET era == CalcEra(Number[b])
        less == [r EXCEPT !.total = @ - CalculateBlockTotalReward(EraBaseReward(r, era), b)]
    IN  IF era >= Len(r.eras) THEN r
        ELSE IF less.total < 0 THEN Panicked
        ELSE IF IsEraLastBlock(Number[b]) THEN DeleteLastEra(less, era + 1)
        ELSE less

AddBlockRewards(r, b) ==
    LET era == CalcEra(Number[b])
        more == [r EXCEPT !.total = @ + CalculateBlockTotalReward(EraBaseReward(r, era), b)]
        base == CalcEraBaseReward(more.total)
    IN  IF era >= Len(r.eras) THEN r
        ELSE IF IsEraLastBlock(Number[b]) /\ base > Gwei THEN AddNewEraReward(more, era + 1, base)
        ELSE more

(***************************************************************************)
(* do_rewards_of_batch_blocks, in the order of the tree route: retracted   *)
(* blocks from the old best block down, enacted ones upwards.              *)
(***************************************************************************)
ReverseRewards(r, blocks) == FoldLeft(RemoveBlockRewards, r, Reverse(Upwards(blocks)))

PrepareRewardsKeepRetracted(s, r, b) ==
    IF BlockLocation(s, b) = "Branch" THEN r
    ELSE FoldLeft(AddBlockRewards, r, Upwards(EnactedBy(s, b) \cup {b}))

PrepareRewardsUpdate(s, r, b) ==
    IF BlockLocation(s, b) = "Branch" THEN r
    ELSE LET reversed == ReverseRewards(r, RetractedBy(s, b))
             replayed == FoldLeft(AddBlockRewards, reversed, Upwards(EnactedBy(s, b)))
         IN  AddBlockRewards(replayed, b)

-----------------------------------------------------------------------------
GenesisRewards == AddNewEraReward(Panicked, 0, CalcEraBaseReward(0))

RewardsInit ==
    /\ rewards = GenesisRewards
    /\ savedRewards = GenesisRewards
    /\ engineRewards = GenesisRewards
    /\ refreshDue = FALSE

(***************************************************************************)
(* Ethash::on_close_block pays the base reward of the engine's copy.  The  *)
(* state root in a valid header was made with the base reward that follows *)
(* from the chain below the block, so the block passes verify_block_final  *)
(* only if the two agree.                                                  *)
(***************************************************************************)
RewardsOf(b) == FoldLeft(AddBlockRewards, GenesisRewards, Upwards(Ancestry[b] \ {Genesis}))

StateRootMatches(b) ==
    LET era == CalcEra(Number[b])
    IN  EraBaseReward(engineRewards, era) = EraBaseReward(RewardsOf(Parent[b]), era)

RefreshOnReorgOnly(s, b) == RetractedBy(s, b) # {}

(***************************************************************************)
(* update_engine_rewards: after a reorganisation and after the last block  *)
(* of an era, not after the other blocks nor for a block on a branch.      *)
(***************************************************************************)
NeedsRefresh(s, b) ==
    /\ BlockLocation(s, b) # "Branch"
    /\ RetractedBy(s, b) # {} \/ IsEraLastBlock(Number[b])

(***************************************************************************)
(* The part of the rewards in each step of the node.  commit_block takes   *)
(* two: the entry goes into the batch, and after BlockChain::commit the    *)
(* engine is refreshed.                                                    *)
(***************************************************************************)
InsertRewards(b) ==
    /\ rewards' = IF IsKnownChild(db, b) THEN rewards ELSE PrepareRewardsUpdate(db, rewards, b)
    /\ refreshDue' = (~IsKnownChild(db, b) /\ NeedsRefresh(db, b))
    /\ UNCHANGED <<savedRewards, engineRewards>>

UpdateEngineRewards ==
    /\ refreshDue
    /\ engineRewards' = rewards
    /\ refreshDue' = FALSE
    /\ UNCHANGED <<rewards, savedRewards>>

FlushRewards ==
    /\ savedRewards' = rewards
    /\ UNCHANGED <<rewards, engineRewards, refreshDue>>

LoseRewards ==
    /\ rewards' = savedRewards
    /\ UNCHANGED <<savedRewards, engineRewards, refreshDue>>

(***************************************************************************)
(* BlockChain::new panics when the last era of the entry is not the era of *)
(* the best block; otherwise Client::new hands the entry to the engine.    *)
(***************************************************************************)
EraOfBest(s, r) == Len(r.eras) - 1 = CalcEra(Number[s.best])

LoadRewards ==
    /\ engineRewards' = rewards
    /\ refreshDue' = FALSE
    /\ UNCHANGED <<rewards, savedRewards>>

-----------------------------------------------------------------------------
(***************************************************************************)
(* The entry is what the canonical chain says: the total is the sum over   *)
(* its blocks, each paid at the base of its era; an era is listed once the *)
(* era below it is listed and complete, as long as its base is worth it,   *)
(* and began with the total of the blocks below it.  Reorganisations       *)
(* across era boundaries, which subtract and add block by block, and       *)
(* crashes do not make it drift (prepare_rewards_update).                  *)
(***************************************************************************)
Mined(r, blocks) ==
    MapThenSumSet(LAMBDA x : CalculateBlockTotalReward(EraBaseReward(r, CalcEra(Number[x])), x), blocks)

RewardsFollow(s, r) ==
    LET paid == Canon(s) \ {Genesis}
        below(e) == {x \in paid : CalcEra(Number[x]) < e}
        listed == 0..(Len(r.eras) - 1)
    IN  /\ r.total = Mined(r, paid)
        /\ \A e \in listed : r.eras[e + 1] = [total |-> Mined(r, below(e)),
                                             base |-> CalcEraBaseReward(Mined(r, below(e)))]
        /\ \A e \in 1..MaxEra :
              e \in listed <=> /\ e < MaxEra /\ e - 1 \in listed
                               /\ \E x \in paid : Number[x] + 1 = e * BlockCountEachEra
                               /\ CalcEraBaseReward(Mined(r, below(e))) > Gwei

RewardsFollowChain == RewardsFollow(db, rewards) /\ RewardsFollow(disk, savedRewards)

(***************************************************************************)
(* Whatever was mined, the chain never pays out more than TotalReward:     *)
(* total_reward - mined in calc_era_base_reward does not underflow.        *)
(***************************************************************************)
SupplyBounded == rewards.total \in 0..TotalReward

(***************************************************************************)
(* Between two commits the engine knows the eras of the database, although *)
(* it is refreshed after some blocks only (update_engine_rewards).         *)
(***************************************************************************)
EngineKnowsEras ==
    status = "running" /\ ~refreshDue => engineRewards.eras = rewards.eras

(***************************************************************************)
(* The start of a node does not run into panic!("db last era {} different  *)
(* with best block era {}").                                               *)
(***************************************************************************)
RestartKeepsEra == status = "down" => EraOfBest(db, rewards)

(***************************************************************************)
(* No insertion runs into a panic of delete_last_era, "can't delete era 0 "*)
(* or "error delete era {}".                                               *)
(***************************************************************************)
ErasDeletable ==
    \A b \in Blocks :
       Importable(b) /\ ~IsKnownChild(db, b) => PrepareRewardsUpdate(db, rewards, b) # Panicked

(***************************************************************************)
(* update_engine_rewards says "insert block on Branch, don't need to       *)
(* update engine rewards.": every valid block, on any branch, is closed    *)
(* with the base reward its own chain gives it.                            *)
(***************************************************************************)
BranchesPayTheirRewards ==
    \A b \in Blocks : Importable(b) /\ ~refreshDue => StateRootMatches(b)
=============================================================================
