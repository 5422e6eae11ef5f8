# Verification of the drivechain node

TLA+ specifications of the parts this repository adds to Elements Core: a
sidechain that lives on a parent chain by BIP300 (hashrate escrow) and BIP301
(blind merged mining). The modules are model-checked with TLC on small
instances; the theorems are proved with TLAPS for every value of the constants.

## 1. The system

A node follows two chains: its own (child) chain, and through RPC a parent
chain it does not trust to keep still. From authenticated parent blocks it
derives, block by block, the BIP300/301 state of all slots: proposals and
their votes (M1, M2), withdrawal bundles and their votes (M3, M4), deposits
(M5), payments (M6), BMM commitments (M7, M8). That derived state says which
deposits may be minted on the child chain, which bundles are paid and which
child blocks are committed to.

| Part | Where | State | Operations |
|------|-------|-------|------------|
| Parent-block replay | `mainchainrpc.cpp` 1204-1887 | `DrivechainParentReplayState`: active proposals, pending proposals and bundles, CTIP and value of each slot, previous M4 | one per coinbase message and transaction; expiry; commit |
| Replay store | `drivechain_parent_replay.cpp` | LevelDB: identity, tip, deposits, BMM edges, payments | Load, Reset, Append, three readers |
| Replay cache and driver | `mainchainrpc.cpp` 2228-2846 | cache, epoch counter, published epoch, rebuild flag | initialize, rebuild, catch up, publish |
| Validation budget | `mainchainrpc.cpp` 54-297 | thread-local allowance and snapshot | open, consume, record, close |
| Deposit check, withdrawal lookup | `mainchainrpc.cpp` 1889-2077, 3275-3365 | reads the store under the mutex | VALID / INVALID / UNAVAILABLE; payment or nothing |
| BMM contexts | `mainchainrpc.cpp` 2856-3240 | positive and negative edge caches | look up, recheck, invalidate |
| Anchor reconciliation | `validation.cpp` 4013-4333, 5577-5903 | anchor (P, Q) of each child block | snapshot, disconnect, re-mark |
| Mempool fence, mining | `validation.cpp` 1115-1239, `init.cpp` 1199-1304 | epoch the mempool was validated under | revalidate, mine for a parent block |
| Child-chain state | `drivechain_bmm.cpp`, `drivechain_peg.cpp` | BMM proof chain, CTIP sequence | connect, disconnect |
| Withdrawal journal | `node/drivechain_withdrawal_journal.cpp` | one durable record | write, read, clear |
| ECX exchange | `ecx_exchange_state.cpp` | trackers, forced and deposit inboxes | derive, connect, disconnect |

What is hard about it: the parent chain reorganises between any two RPCs of one
call; the process may crash, and database writes fail, between any two writes;
validating threads use snapshots of a cache that the warmer may throw away
meanwhile; and the state machine over parent blocks must neither reach a state
its own consistency checks refuse (every node would halt at the same block) nor
let one proposal be paid twice. `PROJECT.json` lists each hazard with its line
and the properties that would catch it.

## 2. Modules

| Module | What it is |
|--------|------------|
| `ParentReplay` | `ApplyDrivechainParentBlockState`, one action per message or transaction |
| `ParentReplayProofs` | type correctness and two safety theorems about it |
| `MCParentReplay` | its instances for TLC |
| `ReplayIndex` | store, cache, driver, budget and readers over a tree of parent blocks |
| `MCReplayIndex` | its instances for TLC |

### ParentReplay

The code applies a block to a copy of the committed state and hands the copy
back only if every check passed. `tip` is the committed state, `work` the copy,
`phase` and `blk` the position in the block and the function's locals;
`history` records payments and amounts for the properties.

* Coinbase messages come in any order: `ProposeSidechain` (M1), `IgnoreAck`,
  `AckSidechain` and `ActivateSidechain` (the three outcomes of an M2),
  `ProposeWithdrawal` (M3), `AckExplicit`, `AckLeadingBy50` and
  `AckRepeatPrevious` (M4), `AcceptBmm` (M7).
* `Expire` is the pass after the messages: it records the effective M4 and drops
  proposals and bundles that are too old or cannot win.
* `Deposit` (M5), `Withdraw` (M6) and `RequestBmm` (M8) are the transactions.
  An M8 names a parent block, by its height, and must name the predecessor.
* `CommitBlock` publishes the copy; `AbandonBlock` is every error return and the
  deadline exception.

Abstractions: scripts are parsed into what they say; every slot has the same
record where the code keeps the configured slot apart; pending entries are sets
because a position in the vector only names an entry in an M4; outpoints are
named by height, transaction and output position; the hash of the block that
activated the required proposal is left out, its height is kept.

### ReplayIndex

A replayed state is a function of its block, so a tip is a block of a constant
tree (`Parent`, `Height`, `Chain`), and a block is what it confirms: deposits,
payments, proposals. A call holds the replay mutex and takes one step per RPC or
database operation; `call.pc` says where it is. `disk` is what LevelDB holds and
survives a crash; `cache`, `counter`, `published`, `rebuild` are the globals;
`budget` is the thread-local state of one validating thread, which can hold a
snapshot while the warmer works. Validations run under `cs_main`, so one such
thread at a time is enough.

`UseCache` through `CheckTarget`, `FetchBlock`, `AppendBlock`, the brackets and
`Publish` are `EnsurePinnedDrivechainParentStateThroughLocked` in its order;
`ReadLaunch`, `OpenStore`, `WipeStore` and `SeedStore` are
`InitializeDrivechainParentReplayCache` with `Load` and the two halves of
`Reset`; `ReadPayment` and `ReadPaymentTip` are
`GetDrivechainSuccessfulWithdrawal`; `CheckDeposit` and the operator
`DepositStatus` are `GetConfirmedDrivechainDepositStatus`. A read of the active
chain has three outcomes (`ActiveAt`): the block asked about, another block, or
an error above the active tip; the code treats the last two differently and so
does the model. `Reorg`, `Crash`, `RpcFails`, `OpenFails`, `ResetFails`,
`AppendFails`, `PaymentUnreadable` and `DepositUnreadable` are the environment.
A failed write may have reached the disk or not, and an open that fails under
`-reindex` may have wiped the database or not. A call's target may be any block
at or above the checkpoint, which covers every block the parent can have had
active when the caller asked for it.

The build has `ElementsDrivechainBootstrap::ENABLED` set, so a rebuild is
seeded with the launch checkpoint; the branch that starts from parent genesis is
dead code here and is not modelled.

## 3. Runs

All runs disable deadlock checking: a bounded instance stops when its bounds
(height, faults) are used up.

| Run | Question | Bounds |
|-----|----------|--------|
| `proposals` | Do votes, activation, replacement and expiry of proposals meet their limits exactly? | 1 slot, 2 proposals, 8 blocks, 2 messages a block, ages up to 3 (unused slot) and 4 (used) |
| `treasury` | Is each M3 paid at most once, and does the treasury account for every mint? | 1 slot, 2 bundles, 5 blocks, 2 messages and 2 transactions a block |
| `payments` | Is a bundle paid neither early nor late, and does it leave only by payment or age? | 2 slots (one bootstrapped), 1 bundle, 5 blocks, bundle age up to 3, no BMM |
| `slots` | Do transactions over two treasuries keep them apart? | 2 slots (one bootstrapped), 3 blocks, 2 outputs |
| `index` | Does the durable index hold exactly its chain's records, whatever fails? | 8 blocks in 3 branches, 3 disturbances |
| `deposits` | Is a deposit verdict about the chain it claims to be about? | same tree, depth 2, 2 disturbances |
| `reproposal` | Does UNIQUE_M6ID hold across rebuilds and restarts? | same tree, 3 disturbances |
| `catchup` | Does the node catch up once the parent chain is quiet? | same tree, one rejected block, 3 disturbances |
| `racedfetch` | Do the closing reads catch every race with a raw block request? (They do not.) | same tree, 3 reorganisations in a call |

The ages of `ParentReplay` are small but ordered as in the code (threshold below
maximum age, which the counter can hold). In `proposals` the number of blocks
exceeds every age, so a proposal lives through its whole life: activation on
the last possible block, expiry one block later, re-proposal afterwards. A bundle
does so in `payments`, where a slot is active from the first block; the
inclusion threshold is 2 there, so that a payment in the block of the M3 would be
early, and a bundle of block 1 would be late in block 5. A slot is activated
again there, with the one proposal hash of that run. The tree of `ReplayIndex` has two branches above the
checkpoint of different lengths and one that leaves it out; one deposit
and one bundle occur on both branches, one bundle twice on the same branch.
A "disturbance" is a reorganisation, crash, failed RPC or failed database
operation; three of them allow a reorganisation, a failure during the rebuild it
causes, and a crash after that.

Properties of `ParentReplay`: the committed tip passes `IsSaneTip`
(`CommittedTipIsSane`); the function's checks of its own state never fail
(`ConsistencyChecksPass`); activation takes more than the threshold of blocks
and is for good (`ActivationTakesTime`, `ActivationIsFinal`); a proposal that
every block since its M1 acknowledged is never dropped, and activates in the
first block past the threshold, whatever happens to the slot meanwhile
(`UnanimousProposalsActivate`); a bundle leaves only by payment or age, is paid
neither before its votes allow it nor past its age, and once per M3
(`BundlesLeaveByPaymentOrAge`, `PaymentsTakeTime`, `OnePaymentPerProposal`);
treasury values add up and back the mints (`TreasuryBacksMints`).

Properties of `ReplayIndex`: `IndexIsExact`, `CachedTipIsDurable`,
`PublishedEpochIsCurrent`, `SnapshotIsOnCachedChain`, `DepositVerdictIsExact`,
`PublicationIsBracketed`, `PaidOnce` and the liveness property `CatchesUp`.

### The finding

The comment before the closing reads (`mainchainrpc.cpp` 2767) says: "If a reorg
raced any raw block request, the exact target or cached tip can no longer both
match." The reads are separate RPCs, and the chain can move between them too.
`racedfetch` shows it with three reorganisations in one call. The target is
found active; the parent moves to another branch before the raw block is
requested, so the replay follows that branch to the target's height; it moves
back before the target is read again, and away once more before the cached tip
is. Both match and the call succeeds for a target that is not on the cached
chain. `call.raced` marks the calls the comment speaks of; nothing but the
property `RacedReplayIsCaught` reads it.

A call that requests no block, because the target is not above the cached tip,
is outside the comment. There two reorganisations are enough: to the target's
branch after the cached tip was found active, and back before it is read again.
One reorganisation in a call is always caught; that is the bound
`MaxReorgsInCall = 1` of the passing runs, and `PublicationIsBracketed`,
`SnapshotIsOnCachedChain` and `DepositVerdictIsExact` rest on it. The BMM path
reads P and Q again after the call, which takes a further reversal.

### Fairness

`CatchesUp` assumes that a call in progress goes on (`WF` on its steps: RPCs
answer or fail) and that the warmer gets the mutex again and again for the tip
it sees (`SF` on its start: the scheduler runs `PeriodicChainstateReverification`
for as long as the node lives, and no other caller keeps the mutex). Database
faults are off in that run: a failed synced write leaves LevelDB refusing further
writes until a restart, where the code fails closed rather than recovers.
`ParentReplay` states no liveness: it is a function applied to blocks as they
come.

## 4. Proofs

`ParentReplayProofs` proves, for any slots, hashes, bundles, bootstrap and
parameters that meet the assumptions (the code's own parameter checks):

* `TypeCorrect`: `Spec => []TypeOK`.
* `CommittedTipsAreSane`: `Spec => []CommittedTipIsSane`.
* `ReplayStaysConsistent`: `Spec => []ConsistencyChecksPass`.

The last two are not inductive: the code checks a complete tip, while messages
and transactions work on a copy. `IInv` adds the same facts about `work`, and
what ties the copy to the block in progress: `work` is one block above `tip`
inside a block; `AckSlack` and `M4Slack` say how many
votes an entry may have before and after this block's M2 and M4 (a bundle gets a
vote from its M3 and one from an M4 in the same block, hence the `+ 2` of
`IsSaneTip`); the block's effective M4 names only active slots; and every CTIP
was created at or before this block, by an earlier transaction, so that
a new outpoint cannot collide with an old one (`OldCtips`). TLC checked `IInv` on
the four instances of `ParentReplay`. The proof has one step per
action. Lemmas on the M4 operators give the bound of one vote per block, two
lemmas on record updates (`ReplayTipExcept`, `BlockLocalsExcept`) carry the
typing, and the frame lemmas (`TipFrame`, `ProposalsFrame`, `BundlesFrame`,
`NextBlockFrame`) say what a tip keeps when only some of its fields change.

Only model-checked: the properties that refer to `history` or to two tips,
everything about `ReplayIndex`, and liveness, which is out of the prover's reach.

## 5. Not modelled, and the plan

Out of scope: RPC transport, header and proof-of-work checks, script parsing and
byte codecs, cryptographic proof verification, and everything inherited from
Bitcoin and Elements Core. Of a failing database, partial deletion of its files
is not modelled; the code's Load refuses such an index.

Next, in this order:

1. BMM edge cache and contexts: the positive and negative caches, the recheck
   that withdraws the published epoch without the mutex, composed with
   `ReplayIndex`; the mempool fence on the published epoch.
2. Anchor reconciliation of child blocks against parent reorganisations.
3. An abstract specification of the index (a chain and its records, moved by
   reorganisations) that `ReplayIndex` refines.
4. Withdrawal journal with crashes; connect and disconnect of BMM, CTIP and
   exchange inbox state; the inbox limits.
5. Theorems: `IndexIsExact` and `CachedTipIsDurable` for any tree,
   `ActivationIsFinal` and `UnanimousProposalsActivate` for any parameters.
