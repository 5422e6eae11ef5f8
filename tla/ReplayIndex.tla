----------------------------- MODULE ReplayIndex -----------------------------
(***************************************************************************)
(* How a node keeps its derived view of the parent chain: the durable      *)
(* DrivechainParentReplayStore, the cache in front of it, and              *)
(* EnsurePinnedDrivechainParentStateThrough, which brings both up to a     *)
(* target block (src/src/mainchainrpc.cpp, drivechain_parent_replay.cpp).  *)
(*                                                                         *)
(* A call holds g_drivechain_parent_replay_mutex and asks the parent node  *)
(* one question per step; the parent chain may reorganise between any two  *)
(* steps.  Any RPC may fail, a deadline may expire, a database write may   *)
(* fail, and the node may crash between two steps.                         *)
(*                                                                         *)
(* The state replayed through a block is a function of the block           *)
(* (ParentReplay models that function), so a replay tip is its block.      *)
(***************************************************************************)
EXTENDS Integers

CONSTANTS
  Blocks,        \* parent blocks
  Parent,        \* hashPrevBlock
  Height,
  Chain,         \* a block and all its ancestors
  Checkpoint,    \* the pinned launch checkpoint
  Null,
  DepositIds,    \* outpoints of mintable deposits
  Deposits,      \* the deposits a block confirms
  M6ids,         \* blinded withdrawal ids
  Payments,      \* the withdrawals a block pays in the configured slot
  Proposals,     \* the withdrawals a block proposes (M3)
  UniqueM6,      \* the history rule UNIQUE_M6ID is in force
  Rejected,      \* blocks ApplyDrivechainParentBlockState or a milestone refuses
  Activated,     \* blocks in whose state the required proposal is active
  RequiredDepth, \* confirmations a deposit needs
  MaxLockedSteps,     \* DRIVECHAIN_LOCKED_MAX_REPLAY_STEPS
  Callers,            \* who calls: "warm", "validator", "lookup"
  WriteFaults,        \* whether database operations may fail
  MaxFaults,          \* bound: reorganisations, crashes and failures in all
  MaxReorgsInCall     \* bound: reorganisations while one call runs

ASSUME TreeAssumption ==
  /\ Checkpoint \in Blocks /\ Null \notin Blocks
  /\ Height \in [Blocks -> Nat]
  /\ Chain \in [Blocks -> SUBSET Blocks]
  /\ Parent \in [Blocks -> Blocks \cup {Null}]
  /\ \A b \in Blocks :
       /\ Parent[b] = Null => Chain[b] = {b} /\ Height[b] = 0
       /\ Parent[b] # Null =>
            Chain[b] = Chain[Parent[b]] \cup {b} /\ Height[b] = Height[Parent[b]] + 1

\* A chain has one block at each height, and a block's chain is part of the
\* chain of each of its descendants: what hash links give.
ASSUME ChainAssumption ==
  \A b \in Blocks :
    /\ b \in Chain[b]
    /\ \A c \in Chain[b] : Chain[c] \subseteq Chain[b] /\ Height[c] <= Height[b]
    /\ \A c, e \in Chain[b] : Height[c] = Height[e] => c = e

\* Outpoints are unique on a chain, the required proposal stays active, and
\* replay derives mintable deposits only once it is.
ASSUME RecordsAssumption ==
  /\ Deposits \in [Blocks -> SUBSET DepositIds]
  /\ Payments \in [Blocks -> SUBSET M6ids]
  /\ Proposals \in [Blocks -> SUBSET M6ids]
  /\ Rejected \subseteq Blocks /\ Activated \subseteq Blocks
  /\ \A b \in Blocks : \A c \in Chain[b] :
       /\ c # b => Deposits[c] \cap Deposits[b] = {}
       /\ c \in Activated => b \in Activated
       /\ Deposits[b] # {} => b \in Activated
  /\ Callers \subseteq {"warm", "validator", "lookup"}
  /\ UniqueM6 \in BOOLEAN /\ WriteFaults \in BOOLEAN
  /\ RequiredDepth \in Nat \ {0}
  /\ MaxLockedSteps \in Nat /\ MaxFaults \in Nat /\ MaxReorgsInCall \in Nat

VARIABLES
  active,      \* tip of the parent node's active chain
  disk,        \* the LevelDB records
  db,          \* the store object: "closed", "open", or "failed" (m_db is null)
  reindex,     \* this process was started with -reindex
  cache,       \* g_drivechain_parent_replay_cache; epoch 0 is not initialized
  counter,     \* g_drivechain_parent_replay_epoch_counter
  published,   \* g_drivechain_parent_replay_published_epoch
  rebuild,     \* g_drivechain_parent_replay_store_rebuild_required
  call,        \* the holder of the replay mutex, and how far it is
  budget,      \* g_drivechain_parent_budget of the validating thread
  faults       \* disturbances so far

store == <<disk, db, reindex>>
memory == <<cache, counter, published, rebuild>>
vars == <<active, store, memory, call, budget, faults>>

-----------------------------------------------------------------------------
(* State *)

Disk == [tip : Blocks \cup {Null},
         deposits : [DepositIds -> Blocks \cup {Null}],
         edges : SUBSET Blocks,       \* successors; the key is their parent
         payments : [M6ids -> Blocks \cup {Null}],   \* the first of an m6id
         occurrences : SUBSET (M6ids \X Blocks)]      \* all, if re-proposal is allowed
EmptyDisk == [tip |-> Null, deposits |-> [d \in DepositIds |-> Null],
              edges |-> {}, payments |-> [m \in M6ids |-> Null],
              occurrences |-> {}]
SeededDisk == [EmptyDisk EXCEPT !.tip = Checkpoint]

NoCache == [epoch |-> 0, block |-> Null]

RpcSteps == {"launch", "checkpoint", "height", "hash", "target", "fetch",
             "bracketCheckpoint", "bracketTarget", "bracketTip",
             "payment", "paymentTip"}
Steps == RpcSteps \cup {"idle", "cache", "open", "wipe", "seed", "append"}
Call == [pc : Steps, caller : {"warm", "validator", "lookup"}, target : Blocks,
         forced : BOOLEAN, block : Blocks, m6id : M6ids \cup {Null},
         reorgs : Nat, raced : BOOLEAN]   \* for the bound and a property only

\* An open DrivechainParentValidationBudget and the snapshot it authenticated:
\* through is the snapshot's block, Null before there is one.
Budget == [open : BOOLEAN, steps : Nat, through : Blocks \cup {Null},
           epoch : Nat, explicit : BOOLEAN]
NoBudget == [open |-> FALSE, steps |-> 0, through |-> Null, epoch |-> 0,
             explicit |-> FALSE]

CacheHeight == IF cache.block = Null THEN 0 ELSE Height[cache.block]
NoCall == [pc |-> "idle", caller |-> "warm", target |-> Checkpoint,
           forced |-> FALSE, block |-> Checkpoint, m6id |-> Null,
           reorgs |-> 0, raced |-> FALSE]
Return == call' = NoCall
Budgeted == call.caller = "validator"

\* What ReadActiveMainchainHash says of the height of b: b itself, another
\* block, or an error above the active tip.  A null hash is at height 0.
ActiveAt(b) ==
  CASE b # Null /\ b \in Chain[active] -> "same"
    [] b # Null /\ Height[b] > Height[active] -> "error"
    [] OTHER -> "other"
IsActive(b) == ActiveAt(b) = "same"

Init ==
  /\ active \in Blocks
  /\ disk = EmptyDisk /\ db = "closed" /\ reindex = FALSE
  /\ cache = NoCache /\ counter = 0 /\ published = 0 /\ rebuild = FALSE
  /\ call = NoCall
  /\ budget = NoBudget
  /\ faults = 0

-----------------------------------------------------------------------------
(* What the environment does *)

Disturb == faults < MaxFaults /\ faults' = faults + 1

\* The parent node extends or reorganises its active chain.  A call notes that
\* this raced a raw block request: it came between the reads of the active chain
\* that led to the request and the request itself.
Reorg(b) ==
  /\ Disturb
  /\ b # active
  /\ active' = b
  /\ IF call.pc = "idle" THEN UNCHANGED call
     ELSE /\ call.reorgs < MaxReorgsInCall
          /\ call' = [call EXCEPT !.reorgs = @ + 1, !.raced = @ \/ call.pc = "fetch"]
  /\ UNCHANGED <<store, memory, budget>>

\* The process dies and starts again, perhaps with -reindex.
Crash ==
  /\ Disturb
  /\ reindex' \in BOOLEAN
  /\ db' = "closed"
  /\ cache' = NoCache /\ counter' = 0 /\ published' = 0 /\ rebuild' = FALSE
  /\ Return
  /\ budget' = NoBudget
  /\ UNCHANGED <<active, disk>>

\* A failed RPC, an expired deadline or an interrupt ends the call as it is.
RpcFails ==
  /\ Disturb
  /\ call.pc \in RpcSteps
  /\ Return
  /\ UNCHANGED <<active, store, memory, budget>>

-----------------------------------------------------------------------------
(* Calls *)

\* A caller takes the mutex; validators only try.  The target is a block the
\* parent node had active when the caller asked (WarmDrivechainParentState: its
\* tip), before it got the mutex.  The model asks nothing of it but its height:
\* any block may have been active then.
StartCall(caller, t, m) ==
  /\ call.pc = "idle"
  /\ Height[t] >= Height[Checkpoint]
  /\ caller = "validator" => budget.open
  /\ (caller = "lookup") <=> (m # Null)
  /\ call' = [NoCall EXCEPT !.pc = "cache", !.caller = caller, !.target = t, !.m6id = m]
  /\ UNCHANGED <<active, store, memory, budget, faults>>

OpenBudget ==
  /\ ~budget.open /\ "validator" \in Callers
  /\ budget' = [NoBudget EXCEPT !.open = TRUE, !.steps = MaxLockedSteps]
  /\ UNCHANGED <<active, store, memory, call, faults>>

CloseBudget ==
  /\ budget.open
  /\ call.pc # "idle" => ~Budgeted
  /\ budget' = NoBudget
  /\ UNCHANGED <<active, store, memory, call, faults>>

\* RecordDrivechainReplaySnapshot and ShouldReplaceDrivechainReplaySnapshot
Snapshot(b, explicit) ==
  IF budget.through = Null \/ explicit
       \/ (~budget.explicit /\ Height[b] >= Height[budget.through])
    THEN [budget EXCEPT !.through = b, !.epoch = cache.epoch, !.explicit = explicit]
    ELSE budget

Goto(pc) == call' = [call EXCEPT !.pc = pc]
GiveUp == Return /\ published' = 0 /\ UNCHANGED <<cache, counter, rebuild>>
Fail == Return /\ UNCHANGED memory
Pure == UNCHANGED <<active, store, budget, faults>>

-----------------------------------------------------------------------------
(* EnsurePinnedDrivechainParentStateThroughLocked up to the replay *)

\* ReplayCacheMatchesConfiguredIdentity; a locked validation never initializes.
UseCache ==
  /\ call.pc = "cache"
  /\ \/ /\ cache.epoch # 0
        /\ Goto("checkpoint")
        /\ UNCHANGED memory
     \/ /\ cache.epoch = 0 /\ Budgeted
        /\ Return
        /\ UNCHANGED memory
     \/ /\ cache.epoch = 0 /\ ~Budgeted
        /\ Goto("launch")
        /\ published' = 0 /\ cache' = NoCache
        /\ UNCHANGED <<counter, rebuild>>
  /\ Pure

\* A read of the active chain: go on if it answers b, withdraw the published
\* epoch if it answers another block, and only fail if it fails.
Expect(b, go) ==
  \/ ActiveAt(b) = "same" /\ go /\ UNCHANGED memory
  \/ ActiveAt(b) = "other" /\ GiveUp
  \/ ActiveAt(b) = "error" /\ Fail

CheckCheckpoint ==
  /\ call.pc = "checkpoint"
  /\ Expect(Checkpoint, Goto("height"))
  /\ Pure

\* Mutant: the published epoch outlives the cache it named.
Rebuild_KeepsEpoch ==
  /\ UNCHANGED <<counter, published, rebuild>>
  /\ IF Budgeted THEN Return /\ UNCHANGED cache
     ELSE call' = [call EXCEPT !.pc = "launch", !.forced = TRUE] /\ cache' = NoCache

\* A stale cache: locked validation gives up, the others rebuild.
Rebuild ==
  /\ published' = 0
  /\ UNCHANGED <<counter, rebuild>>
  /\ IF Budgeted THEN Return /\ UNCHANGED cache
     ELSE call' = [call EXCEPT !.pc = "launch", !.forced = TRUE] /\ cache' = NoCache

\* Mutant: the height of the active tip is not asked for.
CheckHeight_Skipped ==
  /\ call.pc = "height"
  /\ Goto("hash") /\ UNCHANGED memory
  /\ Pure

\* Only a cache above the target is compared with the height of the active tip.
CheckHeight ==
  /\ call.pc = "height"
  /\ IF CacheHeight > Height[call.target] /\ CacheHeight > Height[active]
       THEN Rebuild ELSE Goto("hash") /\ UNCHANGED memory
  /\ Pure

CheckHash ==
  /\ call.pc = "hash"
  /\ \/ ActiveAt(cache.block) = "same" /\ Goto("target") /\ UNCHANGED memory
     \/ ActiveAt(cache.block) = "other" /\ Rebuild
     \/ ActiveAt(cache.block) = "error" /\ Fail
  /\ Pure

\* Mutant: any number of blocks.
Affordable_Always(steps) == TRUE

\* ConsumeDrivechainReplayBudget
Affordable(steps) == Budgeted => steps <= budget.steps

CheckTarget ==
  /\ call.pc = "target"
  /\ LET steps == Height[call.target] - CacheHeight IN
     \/ /\ ~IsActive(call.target)
        /\ Return /\ UNCHANGED budget
     \/ /\ IsActive(call.target) /\ steps <= 0
        /\ Goto("bracketCheckpoint") /\ UNCHANGED budget
     \/ /\ IsActive(call.target) /\ steps > 0
        /\ Affordable(steps)
        /\ Goto("fetch")
        /\ budget' = IF Budgeted THEN [budget EXCEPT !.steps = @ - steps] ELSE budget
     \/ /\ IsActive(call.target) /\ steps > 0
        /\ ~Affordable(steps)
        /\ Return /\ UNCHANGED budget
  /\ UNCHANGED <<active, store, memory, faults>>

-----------------------------------------------------------------------------
(* InitializeDrivechainParentReplayCache *)

\* The active genesis and the authenticated checkpoint header.
ReadLaunch ==
  /\ call.pc = "launch"
  /\ IF IsActive(Checkpoint) THEN Goto("open") ELSE Return
  /\ Pure /\ UNCHANGED memory

\* Mutant: every generation of the cache has the same epoch.
NextEpoch_Reused == 1

\* ConfigureDrivechainParentReplayCacheIdentity
NextEpoch == counter + 1

\* Configure the cache, open the store if it is not, and Load unless a rebuild
\* is due.  Load fails on a database that is not open or has no tip, and may
\* find its records unusable.
Loads == ~call.forced /\ ~rebuild /\ db # "failed" /\ disk.tip # Null
           /\ ~(db = "closed" /\ reindex)

OpenStore ==
  /\ call.pc = "open"
  /\ counter' = counter + 1
  /\ db' = IF db = "closed" THEN "open" ELSE db
  /\ disk' = IF db = "closed" /\ reindex THEN EmptyDisk ELSE disk
  /\ \/ /\ Loads
        /\ cache' = [epoch |-> NextEpoch, block |-> disk.tip]
        /\ Goto("checkpoint")
        /\ UNCHANGED faults
     \/ /\ Loads => WriteFaults /\ Disturb
        /\ ~Loads => UNCHANGED faults
        /\ cache' = [epoch |-> NextEpoch, block |-> Null]
        /\ Goto("wipe")
  /\ UNCHANGED <<active, reindex, published, rebuild, budget>>

\* Opening the database throws after the cache took its identity, and with
\* -reindex perhaps after the old files were wiped.
OpenFails ==
  /\ call.pc = "open" /\ db = "closed"
  /\ WriteFaults /\ Disturb
  /\ counter' = counter + 1
  /\ cache' = [epoch |-> NextEpoch, block |-> Null]
  /\ \/ disk' = disk
     \/ reindex /\ disk' = EmptyDisk
  /\ Return
  /\ UNCHANGED <<active, db, reindex, published, rebuild, budget>>

\* Mutant: the old records survive the rebuild.
WipeStore_KeepsRecords ==
  /\ call.pc = "wipe"
  /\ db' = "open"
  /\ disk' = [disk EXCEPT !.tip = Null]
  /\ Goto("seed")
  /\ UNCHANGED <<active, reindex, memory, budget, faults>>

\* Reset, first half: close the database and open it again, wiped.
WipeStore ==
  /\ call.pc = "wipe"
  /\ db' = "open"
  /\ disk' = EmptyDisk
  /\ Goto("seed")
  /\ UNCHANGED <<active, reindex, memory, budget, faults>>

\* Reset, second half: one synced batch.  A forced rebuild goes on where the
\* cache was found stale, a first initialization with the checkpoint check.
SeedStore ==
  /\ call.pc = "seed"
  /\ disk' = SeededDisk
  /\ cache' = [cache EXCEPT !.block = Checkpoint]
  /\ rebuild' = FALSE
  /\ call' = [call EXCEPT !.pc = IF call.forced THEN "target" ELSE "checkpoint",
                          !.forced = FALSE]
  /\ UNCHANGED <<active, db, reindex, counter, published, budget, faults>>

\* Reset fails in either half; the write may have reached the disk or not.
ResetFails ==
  /\ call.pc \in {"wipe", "seed"}
  /\ WriteFaults /\ Disturb
  /\ \/ call.pc = "wipe" /\ db' = "failed" /\ disk' \in {disk, EmptyDisk}
     \/ call.pc = "seed" /\ db' = db /\ disk' \in {disk, SeededDisk}
  /\ cache' = NoCache
  /\ Return
  /\ UNCHANGED <<active, reindex, counter, published, rebuild, budget>>

-----------------------------------------------------------------------------
(* The replay of one block *)

\* The block at the next height of the active chain, body included: it must
\* link to the cached tip and replay must accept it.
FetchBlock ==
  /\ call.pc = "fetch"
  /\ \/ /\ Height[active] <= CacheHeight
        /\ Fail
     \/ \E b \in Chain[active] :
          /\ Height[b] = CacheHeight + 1
          /\ IF Parent[b] = cache.block /\ b \notin Rejected
               THEN call' = [call EXCEPT !.pc = "append", !.block = b] /\ UNCHANGED memory
               ELSE GiveUp
  /\ Pure

\* Mutant: the payments already indexed are not looked at.
AppendAccepts_NoHistory(b) ==
  /\ db = "open"
  /\ disk.tip = cache.block
  /\ \A d \in Deposits[b] : disk.deposits[d] = Null
  /\ \A e \in disk.edges : Parent[e] # Parent[b]

\* What DrivechainParentReplayStore::Append checks before it writes.
AppendAccepts(b) ==
  /\ db = "open"
  /\ disk.tip = cache.block
  /\ \A d \in Deposits[b] : disk.deposits[d] = Null
  /\ \A e \in disk.edges : Parent[e] # Parent[b]
  /\ UniqueM6 => \A m \in Payments[b] \cup Proposals[b] : disk.payments[m] = Null

Appended(b) ==
  [tip |-> b,
   deposits |-> [d \in DepositIds |-> IF d \in Deposits[b] THEN b ELSE disk.deposits[d]],
   edges |-> disk.edges \cup {b},
   payments |-> [m \in M6ids |-> IF m \in Payments[b] /\ disk.payments[m] = Null
                                   THEN b ELSE disk.payments[m]],
   occurrences |-> IF UniqueM6 THEN {} ELSE disk.occurrences \cup (Payments[b] \X {b})]

AppendBlock ==
  /\ call.pc = "append"
  /\ \/ /\ AppendAccepts(call.block)
        /\ disk' = Appended(call.block)
        /\ cache' = [cache EXCEPT !.block = call.block]
        /\ call' = [call EXCEPT !.block = Checkpoint,
                     !.pc = IF Height[call.block] = Height[call.target]
                              THEN "bracketCheckpoint" ELSE "fetch"]
        /\ UNCHANGED <<counter, published, rebuild>>
     \/ ~AppendAccepts(call.block) /\ GiveUp /\ UNCHANGED disk
  /\ UNCHANGED <<active, db, reindex, budget, faults>>

\* Mutant: the cache moves on although the write failed.
AppendFails_CacheMovesOn ==
  /\ call.pc = "append" /\ AppendAccepts(call.block)
  /\ WriteFaults /\ Disturb
  /\ disk' \in {disk, Appended(call.block)}
  /\ cache' = [cache EXCEPT !.block = call.block]
  /\ Return /\ published' = 0
  /\ UNCHANGED <<active, db, reindex, counter, rebuild, budget>>

\* The synced write fails; the batch may have reached the disk or not.
AppendFails ==
  /\ call.pc = "append" /\ AppendAccepts(call.block)
  /\ WriteFaults /\ Disturb
  /\ disk' \in {disk, Appended(call.block)}
  /\ GiveUp
  /\ UNCHANGED <<active, db, reindex, budget>>

-----------------------------------------------------------------------------
(* The closing reads, and publication *)

Bracket(pc, b, next) ==
  /\ call.pc = pc
  /\ Expect(b, Goto(next))
  /\ Pure

BracketCheckpoint == Bracket("bracketCheckpoint", Checkpoint, "bracketTarget")
BracketTarget == Bracket("bracketTarget", call.target, "bracketTip")

\* RequireConfiguredElementsProposalActive for the state of block c
ActiveThrough(c, height) ==
  \E b \in Chain[c] : b \in Activated /\ Height[b] <= height

\* Mutant: the cache tip is not read again.
Publish_NoBracket ==
  /\ call.pc = "bracketTip"
  /\ published' = cache.epoch
  /\ call' = [call EXCEPT !.pc = IF call.caller = "lookup" THEN "payment" ELSE "idle"]
  /\ budget' = IF Budgeted THEN Snapshot(call.target, TRUE) ELSE budget
  /\ UNCHANGED <<active, store, cache, counter, rebuild, faults>>

\* The last read succeeds.  A caller that needs the proposal active returns
\* without publishing when it is not; a validator keeps the snapshot.
Publish ==
  /\ call.pc = "bracketTip"
  /\ IsActive(cache.block)
  /\ \/ /\ call.caller # "warm" /\ ~ActiveThrough(cache.block, Height[call.target])
        /\ Return
        /\ UNCHANGED <<published, budget>>
     \/ /\ call.caller = "warm" \/ ActiveThrough(cache.block, Height[call.target])
        /\ published' = cache.epoch
        /\ call' = IF call.caller = "lookup" THEN [call EXCEPT !.pc = "payment"] ELSE NoCall
        /\ budget' = IF Budgeted THEN Snapshot(call.target, TRUE) ELSE budget
  /\ UNCHANGED <<active, store, cache, counter, rebuild, faults>>

BracketTipFails ==
  /\ call.pc = "bracketTip"
  /\ ~IsActive(cache.block)
  /\ Expect(cache.block, FALSE)
  /\ Pure

-----------------------------------------------------------------------------
(* Readers of the index *)

Invalidate ==
  /\ published' = 0 /\ cache' = NoCache /\ rebuild' = TRUE
  /\ UNCHANGED counter

\* GetDrivechainSuccessfulWithdrawal: the record must not lie above the cached
\* tip, or be unreadable, and must be on the active chain...
ReadPayment ==
  /\ call.pc = "payment"
  /\ LET b == disk.payments[call.m6id]
         above == b # Null /\ Height[b] > CacheHeight IN
     \/ /\ above \/ (b # Null /\ ActiveAt(b) = "other")
        /\ Return /\ Invalidate
     \/ /\ ~above /\ (b = Null \/ ActiveAt(b) = "same")
        /\ Goto("paymentTip") /\ UNCHANGED memory
     \/ /\ ~above /\ b # Null /\ ActiveAt(b) = "error"
        /\ Fail
  /\ Pure

PaymentUnreadable ==
  /\ call.pc = "payment"
  /\ WriteFaults /\ Disturb
  /\ Return /\ Invalidate
  /\ UNCHANGED <<active, store, budget>>

\* ...and so must the cached tip, before the record is returned.
ReadPaymentTip ==
  /\ call.pc = "paymentTip"
  /\ \/ ActiveAt(cache.block) = "other" /\ Return /\ Invalidate
     \/ ActiveAt(cache.block) # "other" /\ Fail
  /\ Pure

\* GetConfirmedDrivechainDepositStatus under an open budget: the snapshot of
\* the budget bounds the confirmations, or the cached tip when there is none.
Through == IF budget.through # Null THEN budget.through ELSE cache.block

\* Mutant: the snapshot of another cache generation is used.
Readable_AnyEpoch ==
  /\ cache.epoch # 0 /\ cache.block # Null
  /\ ActiveThrough(cache.block, Height[Through])

Readable ==
  /\ cache.epoch # 0 /\ cache.block # Null
  /\ budget.through # Null => budget.epoch = cache.epoch
  /\ ActiveThrough(cache.block, Height[Through])

\* HasRequiredDrivechainDepositDepth
DeepEnough(b) ==
  Height[b] <= Height[Through] /\ Height[Through] - Height[b] >= RequiredDepth - 1

\* The claim: deposit d, confirmed in block b.
DepositStatus(d, b) ==
  CASE ~Readable -> "UNAVAILABLE"
    [] Readable /\ disk.deposits[d] = b /\ DeepEnough(b) ->
         IF budget.through # Null \/ IsActive(cache.block) THEN "VALID" ELSE "UNAVAILABLE"
    [] OTHER -> IF budget.explicit THEN "INVALID" ELSE "UNAVAILABLE"

\* What the check changes: one without a snapshot that finds the cached tip
\* reorganised away withdraws the epoch, and one that succeeds under a budget
\* keeps a snapshot.
CheckDeposit(d, b) ==
  /\ call.pc = "idle" /\ Readable
  /\ disk.deposits[d] = b /\ DeepEnough(b)
  /\ budget.through = Null
  /\ \/ /\ ActiveAt(cache.block) = "same"
        /\ budget.open
        /\ budget' = Snapshot(cache.block, FALSE)
        /\ UNCHANGED memory
     \/ /\ ActiveAt(cache.block) = "other"
        /\ published' = 0
        /\ UNCHANGED <<cache, counter, rebuild, budget>>
  /\ UNCHANGED <<active, store, call, faults>>

\* A record that cannot be read condemns the index.
DepositUnreadable ==
  /\ call.pc = "idle" /\ Readable
  /\ WriteFaults /\ Disturb
  /\ Invalidate
  /\ UNCHANGED <<active, store, call, budget>>

-----------------------------------------------------------------------------

EnsureStep ==
  \/ UseCache \/ ReadLaunch \/ OpenStore \/ WipeStore \/ SeedStore
  \/ CheckCheckpoint \/ CheckHeight \/ CheckHash \/ CheckTarget
  \/ FetchBlock \/ AppendBlock
  \/ BracketCheckpoint \/ BracketTarget \/ Publish \/ BracketTipFails
  \/ ReadPayment \/ ReadPaymentTip

Next ==
  \/ EnsureStep
  \/ \E caller \in Callers, t \in Blocks, m \in M6ids \cup {Null} : StartCall(caller, t, m)
  \/ OpenBudget \/ CloseBudget
  \/ \E d \in DepositIds, b \in Blocks : CheckDeposit(d, b)
  \/ \E b \in Blocks : Reorg(b)
  \/ Crash \/ RpcFails \/ OpenFails \/ ResetFails \/ AppendFails
  \/ PaymentUnreadable \/ DepositUnreadable

Spec == Init /\ [][Next]_vars

\* The warmer runs periodically for as long as the node does, always for the
\* parent tip it sees, and gets the mutex in the end; a call under way goes on.
FairSpec == Spec /\ WF_vars(EnsureStep) /\ SF_vars(StartCall("warm", active, Null))

-----------------------------------------------------------------------------
(* Properties *)

TypeOK ==
  /\ active \in Blocks
  /\ disk \in Disk /\ db \in {"closed", "open", "failed"} /\ reindex \in BOOLEAN
  /\ cache \in [epoch : Nat, block : Blocks \cup {Null}]
  /\ counter \in Nat /\ published \in Nat /\ rebuild \in BOOLEAN
  /\ call \in Call
  /\ budget \in Budget
  /\ faults \in 0..MaxFaults

\* The blocks replayed to reach b, and the first of them to pay m.
Replayed(b) == Chain[b] \ Chain[Checkpoint]
FirstPaid(m, b) ==
  LET paying == {c \in Replayed(b) : m \in Payments[c]} IN
  IF paying = {} THEN Null
  ELSE CHOOSE c \in paying : \A e \in paying : Height[c] <= Height[e]

\* The durable index holds exactly the records of the chain up to its tip:
\* nothing of an abandoned branch outlives a rebuild, nothing is lost to a
\* crash or a failed write, and the first payment of a bundle is the one kept, next to the list of all.
IndexIsExact ==
  IF disk.tip = Null THEN disk = EmptyDisk
  ELSE /\ Checkpoint \in Chain[disk.tip]
       /\ disk.edges = Replayed(disk.tip)
       /\ \A d \in DepositIds, b \in Blocks :
            disk.deposits[d] = b <=> b \in Replayed(disk.tip) /\ d \in Deposits[b]
       /\ \A m \in M6ids : disk.payments[m] = FirstPaid(m, disk.tip)
       /\ disk.occurrences = {<<m, b>> \in M6ids \X Replayed(disk.tip) :
                                 ~UniqueM6 /\ m \in Payments[b]}

\* Under UNIQUE_M6ID a bundle paid on the indexed chain is neither paid nor
\* proposed again on it, however often the index was rebuilt, reloaded or
\* interrupted in between.
PaidOnce ==
  UniqueM6 /\ disk.tip # Null =>
    \A b, c \in Replayed(disk.tip) :
      Height[b] < Height[c] => Payments[b] \cap (Payments[c] \cup Proposals[c]) = {}

\* The cached tip is durable ("A write failure must leave the in-memory replay
\* at its old tip"): it is the stored tip or an ancestor of it.
CachedTipIsDurable ==
  cache.block # Null =>
    /\ cache.epoch # 0 /\ db = "open"
    /\ disk.tip # Null /\ cache.block \in Chain[disk.tip]

\* A published epoch names the cache in memory: whoever reads it without the
\* mutex never holds the name of a discarded generation.
PublishedEpochIsCurrent == published # 0 => published = cache.epoch /\ cache.block # Null

\* A target that was authenticated lies on the cached chain for as long as the
\* epoch lasts: a generation of the cache only ever extends one chain.
SnapshotIsOnCachedChain ==
  budget.through # Null /\ budget.epoch = cache.epoch =>
    cache.block # Null /\ budget.through \in Chain[cache.block]

\* The verdict on a deposit depends on the chain up to the snapshot alone, not
\* on how far the cache happens to be: VALID only for a deposit confirmed deep
\* enough on that chain, INVALID only for one that is not.
Confirmed(d, b, q) ==
  /\ b \in Replayed(q) /\ d \in Deposits[b]
  /\ Height[q] - Height[b] >= RequiredDepth - 1
DepositVerdictIsExact ==
  call.pc = "idle" => \A d \in DepositIds, b \in Blocks :
    /\ DepositStatus(d, b) = "VALID" => Confirmed(d, b, Through)
    /\ DepositStatus(d, b) = "INVALID" => ~Confirmed(d, b, Through)

\* An epoch is published only when the cached tip is on the active chain at
\* that moment and the call's target on the cached chain.
PublicationIsBracketed ==
  [][published' # 0 /\ published' # published =>
       IsActive(cache'.block) /\ call.target \in Chain[cache'.block]]_vars

\* "If a reorg raced any raw block request, the exact target or cached tip can no
\* longer both match": a call that went through such a race, and whose closing
\* reads matched all the same, has replayed the target's chain.
RacedReplayIsCaught ==
  [][call.raced /\ published' # 0 /\ published' # published =>
       call.target \in Chain[cache'.block]]_vars

\* Whatever reorganisations, crashes and failures came before: when they stop,
\* on a chain replay can follow, the node ends up with the tip of that chain
\* cached and published.
Followable == IsActive(Checkpoint) /\ Chain[active] \cap Rejected = {}
CatchesUp ==
  <>[](Followable => cache.block = active /\ published = cache.epoch)
=============================================================================
