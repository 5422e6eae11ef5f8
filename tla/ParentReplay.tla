---------------------------- MODULE ParentReplay ----------------------------
(***************************************************************************)
(* The BIP300/301 state a node derives from authenticated parent blocks:   *)
(* ApplyDrivechainParentBlockState of src/src/mainchainrpc.cpp.            *)
(*                                                                         *)
(* The function works through one parent block: the coinbase messages in   *)
(* output order, then the expiry pass, then the transactions.  The caller  *)
(* hands it a copy of the committed state (EnsurePinnedDrivechainParent-   *)
(* StateThroughLocked), so the specification keeps the committed state in  *)
(* tip and the copy in work, takes one step per message or transaction,    *)
(* and publishes the copy only when the whole block went through.  An      *)
(* error return or an expired deadline drops the copy at any step.         *)
(*                                                                         *)
(* Every slot has the same record here; the code keeps the configured slot *)
(* in top-level fields and the other slots in a map whose empty entries it *)
(* prunes, which is a matter of layout.  Pending entries are sets: the     *)
(* position of a bundle in its vector serves only to name it in an M4.     *)
(***************************************************************************)
EXTENDS Integers, Sequences

CONSTANTS
  Slots,              \* sidechain slots
  ConfiguredSlot,     \* the slot this chain uses
  Hashes,             \* hashes of sidechain proposals
  RequiredProposal,   \* the proposal this chain needs active in its slot
  M6ids,              \* blinded ids of withdrawal bundles
  SidechainHashes,    \* hashes of child blocks a BMM message commits to
  Null,               \* the null hash, an absent outpoint
  UnusedMaxAge, UnusedThreshold,      \* proposal rules of a slot never used
  UsedMaxAge, UsedThreshold,          \* and of one with an active proposal
  BundleMaxAge, InclusionThreshold,   \* withdrawal bundle rules
  MaxVotes,           \* numeric_limits<uint16_t>::max()
  LeadMargin,         \* the 50 of LEADING_BY_50
  SingleM6,           \* the rule SINGLE_CONFIGURED_SLOT_M6 is in force
  Bootstrap,          \* active proposal and CTIP of each slot at the checkpoint
  CheckpointHeight,   \* parent height of the launch checkpoint
  MaxMoney,           \* MAX_MONEY
  MaxHeight, MaxMessages, MaxTransactions, MaxOutputs   \* bounds of a model

\* Names of parent transaction outputs: the tx-th treasury transaction of the
\* block at this height, and the position of the output.
Outpoint == [height : Nat, tx : Nat, vout : Nat]

ASSUME ConstantsAssumption ==
  /\ ConfiguredSlot \in Slots
  /\ RequiredProposal \in Hashes
  /\ Null \notin Hashes /\ Null \notin M6ids /\ Null \notin Outpoint
  /\ Null \notin SidechainHashes
  /\ SingleM6 \in BOOLEAN
  /\ MaxMoney \in Nat /\ CheckpointHeight \in Nat
  /\ MaxHeight \in Nat /\ MaxMessages \in Nat
  /\ MaxTransactions \in Nat /\ MaxOutputs \in Nat

\* The parameter checks at the top of the function: each threshold is positive
\* and below its maximum age, all of them uint16_t.
ASSUME ParametersAssumption ==
  /\ MaxVotes \in Nat /\ LeadMargin \in Nat \ {0}
  /\ UnusedMaxAge \in 1..MaxVotes /\ UnusedThreshold \in 1..(UnusedMaxAge - 1)
  /\ UsedMaxAge \in 1..MaxVotes /\ UsedThreshold \in 1..(UsedMaxAge - 1)
  /\ BundleMaxAge \in 1..MaxVotes
  /\ InclusionThreshold \in 1..(BundleMaxAge - 1)

\* What InitializeDrivechainParentReplayCache and Reset demand of the bootstrap
\* table: nothing for the configured slot, a CTIP only with an active proposal,
\* no value without a CTIP, no CTIP twice.
ASSUME BootstrapAssumption ==
  /\ Bootstrap \in [Slots -> [active : Hashes \cup {Null},
                              ctip : Outpoint \cup {Null}, value : 0..MaxMoney]]
  /\ Bootstrap[ConfiguredSlot].active = Null
  /\ \A s \in Slots :
       /\ Bootstrap[s].ctip # Null =>
            Bootstrap[s].active # Null /\ Bootstrap[s].ctip.height <= CheckpointHeight
       /\ Bootstrap[s].ctip = Null => Bootstrap[s].value = 0
  /\ \A s, t \in Slots :
       Bootstrap[s].ctip # Null /\ Bootstrap[s].ctip = Bootstrap[t].ctip => s = t

VARIABLES
  tip,       \* the committed DrivechainParentReplayTip
  work,      \* the copy the block in progress is applied to
  phase,     \* where in the block the function is
  blk,       \* the function's locals for this block
  history    \* payments and amounts so far, for the properties only

vars == <<tip, work, phase, blk, history>>

-----------------------------------------------------------------------------
(* State *)

\* DrivechainPendingProposal, with its key
Proposal == [hash : Hashes, height : Nat, votes : Nat]
\* DrivechainPendingWithdrawal
Bundle == [m6id : M6ids, height : Nat, votes : Nat]
\* DrivechainM4Action; "none" stands for a slot absent from the action map
M4Action == [type : {"none", "alarm", "upvote"}, m6id : M6ids \cup {Null}]
NoAction == [type |-> "none", m6id |-> Null]

\* DrivechainParentReplayState together with the height of its tip
ReplayTip ==
  [height : Nat,
   active : [Slots -> Hashes \cup {Null}],
   proposals : [Slots -> SUBSET Proposal],
   withdrawals : [Slots -> SUBSET Bundle],
   ctip : [Slots -> Outpoint \cup {Null}],
   value : [Slots -> 0..MaxMoney],
   previousM4 : [Slots -> M4Action],
   activated : BOOLEAN,
   activationHeight : Nat]

\* The seed of a cold start: bootstrap_state at the launch checkpoint.
BootstrapTip ==
  [height |-> CheckpointHeight,
   active |-> [s \in Slots |-> Bootstrap[s].active],
   proposals |-> [s \in Slots |-> {}],
   withdrawals |-> [s \in Slots |-> {}],
   ctip |-> [s \in Slots |-> Bootstrap[s].ctip],
   value |-> [s \in Slots |-> Bootstrap[s].value],
   previousM4 |-> [s \in Slots |-> NoAction],
   activated |-> FALSE,
   activationHeight |-> 0]

\* The messages seen in this block's coinbase, its effective M4 actions, the
\* number of treasury transactions, and configured_slot_m6_applied.
BlockLocals ==
  [messages : Nat, m1 : SUBSET (Slots \X Hashes), m2 : SUBSET Slots,
   m4 : BOOLEAN, m7 : [Slots -> SidechainHashes \cup {Null}],
   effective : [Slots -> M4Action], txs : Nat, m6Applied : BOOLEAN]

NewBlock ==
  [messages |-> 0, m1 |-> {}, m2 |-> {}, m4 |-> FALSE,
   m7 |-> [s \in Slots |-> Null],
   effective |-> [s \in Slots |-> NoAction],
   txs |-> 0, m6Applied |-> FALSE]

\* Treasury increases and decreases per slot, deposits minted for the
\* configured slot, and successful withdrawals in order.
NewHistory ==
  [deposited |-> [s \in Slots |-> 0], withdrawn |-> [s \in Slots |-> 0],
   minted |-> 0, payments |-> <<>>]

Init ==
  /\ tip = BootstrapTip
  /\ work = BootstrapTip
  /\ phase = "idle"
  /\ blk = NewBlock
  /\ history = [committed |-> NewHistory, current |-> NewHistory]

-----------------------------------------------------------------------------
(* Helpers *)

ActiveDrivechainSlots(st) == {s \in Slots : st.active[s] # Null}

Used(st, s) == st.active[s] # Null
MaxAge(used) == IF used THEN UsedMaxAge ELSE UnusedMaxAge
Threshold(used) == IF used THEN UsedThreshold ELSE UnusedThreshold
MaxFails(used) == MaxAge(used) - Threshold(used)

Pending(bundles, m6id) == \E w \in bundles : w.m6id = m6id

\* Mutant: the subtraction loses its floor.
Decrement_NoFloor(n) == n - 1

Decrement(n) == IF n > 0 THEN n - 1 ELSE 0

\* ApplyM4Upvote on a bundle that is pending: a saturated one absorbs the vote.
Saturated(bundles, m6id) ==
  \E w \in bundles : w.m6id = m6id /\ w.votes = MaxVotes

ApplyM4Upvote(bundles, m6id) ==
  IF Saturated(bundles, m6id) THEN bundles
  ELSE {[w EXCEPT !.votes = IF w.m6id = m6id THEN @ + 1 ELSE Decrement(@)] :
          w \in bundles}

ApplyM4Alarm(bundles) == {[w EXCEPT !.votes = Decrement(@)] : w \in bundles}

\* One slot's part of an M4, and the action it leaves for RepeatPrevious.
ApplyM4(bundles, action) ==
  CASE action.type = "upvote" -> ApplyM4Upvote(bundles, action.m6id)
    [] action.type = "alarm"  -> ApplyM4Alarm(bundles)
    [] OTHER                  -> bundles

EffectiveM4(bundles, action) ==
  IF \/ action.type = "upvote" /\ ~Saturated(bundles, action.m6id)
     \/ action.type = "alarm" /\ \E w \in bundles : w.votes > 0
    THEN action ELSE NoAction

\* The bundle LEADING_BY_50 upvotes: ahead of every other by the margin, and of
\* zero when it is alone.
Leads(bundles, w) ==
  /\ w.votes >= LeadMargin
  /\ w.votes < MaxVotes
  /\ \A v \in bundles \ {w} : w.votes - v.votes >= LeadMargin

LeadingAction(bundles) ==
  IF \E w \in bundles : Leads(bundles, w)
    THEN [type |-> "upvote",
          m6id |-> (CHOOSE w \in bundles : Leads(bundles, w)).m6id]
    ELSE NoAction

\* Mutant: an early miss is held against a proposal that can still win.
ExpiredProposal_Early(p, height, used) ==
  LET age == height - p.height
      misses == age - p.votes
  IN  \/ age > MaxAge(used)
      \/ age > MaxFails(used) /\ misses >= MaxFails(used) - 1

ExpiredProposal(p, height, used) ==
  LET age == height - p.height
      misses == age - p.votes
  IN  \/ age > MaxAge(used)
      \/ age > MaxFails(used) /\ misses >= MaxFails(used)

\* Mutants: the age limit off by one, either way.
ExpiredBundle_Late(w, height) == height - w.height > BundleMaxAge + 1
ExpiredBundle_Early(w, height) == height - w.height >= BundleMaxAge

ExpiredBundle(w, height) == height - w.height > BundleMaxAge

-----------------------------------------------------------------------------
(* The coinbase messages, in any order a coinbase may carry them *)

BeginBlock ==
  /\ phase = "idle"
  /\ tip.height < MaxHeight
  /\ phase' = "messages"
  /\ work' = [tip EXCEPT !.height = @ + 1]
  /\ blk' = NewBlock
  /\ history' = [history EXCEPT !.current = history.committed]
  /\ UNCHANGED tip

Message ==
  /\ phase = "messages"
  /\ blk.messages < MaxMessages
  /\ UNCHANGED <<tip, phase, history>>

\* M1.  A second identical message rejects the block; a pending proposal keeps
\* its height and votes.
ProposeSidechain(s, h) ==
  /\ Message
  /\ <<s, h>> \notin blk.m1
  /\ blk' = [blk EXCEPT !.messages = @ + 1, !.m1 = @ \cup {<<s, h>>}]
  /\ work' = IF \E p \in work.proposals[s] : p.hash = h THEN work
             ELSE [work EXCEPT !.proposals[s] =
                     @ \cup {[hash |-> h, height |-> work.height, votes |-> 0]}]

\* M2 for a proposal that is unknown or of this very block: no effect.
IgnoreAck(s, h) ==
  /\ Message
  /\ s \notin blk.m2
  /\ \A p \in work.proposals[s] : p.hash = h => p.height = work.height
  /\ blk' = [blk EXCEPT !.messages = @ + 1, !.m2 = @ \cup {s}]
  /\ UNCHANGED work

Activates(p, s) ==
  /\ p.votes + 1 > Threshold(Used(work, s))
  /\ work.height - p.height <= MaxAge(Used(work, s))

\* Mutant: an M2 in the block of the M1 counts.
AckSidechain_SameBlock(s, p) ==
  /\ Message
  /\ s \notin blk.m2
  /\ p \in work.proposals[s]
  /\ ~Activates(p, s)
  /\ blk' = [blk EXCEPT !.messages = @ + 1, !.m2 = @ \cup {s}]
  /\ work' = [work EXCEPT !.proposals[s] =
                (@ \ {p}) \cup {[p EXCEPT !.votes = @ + 1]}]

\* M2 that counts without reaching the threshold.
AckSidechain(s, p) ==
  /\ Message
  /\ s \notin blk.m2
  /\ p \in work.proposals[s]
  /\ p.height # work.height
  /\ ~Activates(p, s)
  /\ blk' = [blk EXCEPT !.messages = @ + 1, !.m2 = @ \cup {s}]
  /\ work' = [work EXCEPT !.proposals[s] =
                (@ \ {p}) \cup {[p EXCEPT !.votes = @ + 1]}]

\* Mutant: a repeated activation records its height again.
ActivateSidechain_Again(s, p) ==
  /\ Message
  /\ s \notin blk.m2
  /\ p \in work.proposals[s]
  /\ p.height # work.height
  /\ Activates(p, s)
  /\ s = ConfiguredSlot /\ work.activated => p.hash = RequiredProposal
  /\ blk' = [blk EXCEPT !.messages = @ + 1, !.m2 = @ \cup {s}]
  /\ LET required == s = ConfiguredSlot /\ p.hash = RequiredProposal
     IN  work' = [work EXCEPT !.active[s] = p.hash,
                              !.proposals[s] = @ \ {p},
                              !.activated = @ \/ required,
                              !.activationHeight = IF required THEN work.height ELSE @]

\* M2 that makes the proposal the slot's active one.  Replacing the required
\* proposal in the configured slot is an error.
ActivateSidechain(s, p) ==
  /\ Message
  /\ s \notin blk.m2
  /\ p \in work.proposals[s]
  /\ p.height # work.height
  /\ Activates(p, s)
  /\ s = ConfiguredSlot /\ work.activated => p.hash = RequiredProposal
  /\ blk' = [blk EXCEPT !.messages = @ + 1, !.m2 = @ \cup {s}]
  /\ LET first == /\ s = ConfiguredSlot
                  /\ ~work.activated
                  /\ p.hash = RequiredProposal
     IN  work' = [work EXCEPT !.active[s] = p.hash,
                              !.proposals[s] = @ \ {p},
                              !.activated = @ \/ first,
                              !.activationHeight = IF first THEN work.height ELSE @]

\* Mutant: a bundle already pending may be proposed again.
ProposeWithdrawal_Twice(s, m6id) ==
  /\ Message
  /\ Used(work, s)
  /\ blk' = [blk EXCEPT !.messages = @ + 1]
  /\ work' = [work EXCEPT !.withdrawals[s] =
                @ \cup {[m6id |-> m6id, height |-> work.height, votes |-> 1]}]

\* M3: only in an active slot, and not for a bundle already pending.
ProposeWithdrawal(s, m6id) ==
  /\ Message
  /\ Used(work, s)
  /\ ~Pending(work.withdrawals[s], m6id)
  /\ blk' = [blk EXCEPT !.messages = @ + 1]
  /\ work' = [work EXCEPT !.withdrawals[s] =
                @ \cup {[m6id |-> m6id, height |-> work.height, votes |-> 1]}]

\* The effect of any M4: at most one in a block, every upvote on a pending
\* bundle of an active slot.
AckWithdrawals(request) ==
  /\ Message
  /\ ~blk.m4
  /\ \A s \in Slots :
       /\ request[s].type # "none" => Used(work, s)
       /\ request[s].type = "upvote" => Pending(work.withdrawals[s], request[s].m6id)
  /\ blk' = [blk EXCEPT !.messages = @ + 1, !.m4 = TRUE,
               !.effective =
                  [s \in Slots |-> EffectiveM4(work.withdrawals[s], request[s])]]
  /\ work' = [work EXCEPT !.withdrawals =
                [s \in Slots |-> ApplyM4(work.withdrawals[s], request[s])]]

\* The votes an EXPLICIT vector may hold for one slot.
SlotVotes == {NoAction, [type |-> "alarm", m6id |-> Null]}
               \cup [type : {"upvote"}, m6id : M6ids]

AckExplicit == \E request \in [Slots -> SlotVotes] : AckWithdrawals(request)

AckLeadingBy50 ==
  AckWithdrawals([s \in Slots |->
    IF Used(work, s) THEN LeadingAction(work.withdrawals[s]) ELSE NoAction])

AckRepeatPrevious == AckWithdrawals(work.previousM4)

\* M7: one per slot; it binds the M8 requests of this block.
AcceptBmm(s, c) ==
  /\ Message
  /\ blk.m7[s] = Null
  /\ blk' = [blk EXCEPT !.messages = @ + 1, !.m7[s] = c]
  /\ UNCHANGED work

\* After the last message: publish the effective M4 actions and drop what has
\* expired, proposals by the rules of their slot as it stands now, bundles in
\* active slots by age.
Expire ==
  /\ phase = "messages"
  /\ phase' = "transactions"
  /\ work' = [work EXCEPT
       !.previousM4 = blk.effective,
       !.proposals = [s \in Slots |->
          {p \in work.proposals[s] :
             ~ExpiredProposal(p, work.height, Used(work, s))}],
       !.withdrawals = [s \in Slots |->
          IF Used(work, s)
            THEN {w \in work.withdrawals[s] : ~ExpiredBundle(w, work.height)}
            ELSE work.withdrawals[s]]]
  /\ UNCHANGED <<tip, blk, history>>

-----------------------------------------------------------------------------
(* The transactions.  spends holds the slots whose canonical treasury output *)
(* (CTIP) is among the inputs, outs the treasury outputs with what follows   *)
(* each: no deposit address, one fit to mint (1 to 128 bytes), or another.   *)

TreasuryOutput == [slot : Slots, value : 0..MaxMoney,
                   address : {"none", "mintable", "unmintable"}]
TreasuryOutputs == UNION {[1..n -> TreasuryOutput] : n \in 1..MaxOutputs}

\* new_ctips: outputs of inactive slots are not treasury outputs.
Touched(outs) == {s \in ActiveDrivechainSlots(work) :
                    \E i \in DOMAIN outs : outs[i].slot = s}
OutputOf(outs, s) == CHOOSE i \in DOMAIN outs : outs[i].slot = s
NewValue(outs, s) == outs[OutputOf(outs, s)].value
\* Mutant: the whole new value counts as the deposit.
OldValue_Ignored(s) == 0
OldValue(s) == IF work.ctip[s] # Null THEN work.value[s] ELSE 0

\* The checks that do not depend on the direction of the transfer.
TreasuryRules(spends, outs) ==
  /\ spends \subseteq {s \in Slots : work.ctip[s] # Null}
  /\ spends \subseteq Touched(outs)
  /\ Touched(outs) # {}
  /\ \A s \in Touched(outs) :
       /\ \A i, j \in DOMAIN outs : outs[i].slot = s /\ outs[j].slot = s => i = j
       /\ work.ctip[s] # Null => s \in spends
       /\ NewValue(outs, s) # OldValue(s)

Transaction ==
  /\ phase = "transactions"
  /\ blk.txs < MaxTransactions
  /\ UNCHANGED <<tip, phase>>

\* Mutant: the output position is lost.
NewOutpoint_NoIndex(vout) == [height |-> work.height, tx |-> blk.txs, vout |-> 1]

NewOutpoint(vout) == [height |-> work.height, tx |-> blk.txs, vout |-> vout]

RequiredProposalActive == work.activated /\ work.active[ConfiguredSlot] = RequiredProposal

Mintable(outs) == /\ ConfiguredSlot \in Touched(outs)
                  /\ RequiredProposalActive
                  /\ outs[OutputOf(outs, ConfiguredSlot)].address = "mintable"

\* M5: every touched treasury grows, each next to an address; only the
\* configured slot's increase becomes a mintable deposit.
Deposit(spends, outs) ==
  /\ Transaction
  /\ TreasuryRules(spends, outs)
  /\ \A s \in Touched(outs) :
       /\ NewValue(outs, s) > OldValue(s)
       /\ outs[OutputOf(outs, s)].address # "none"
  /\ work' = [work EXCEPT
       !.ctip = [s \in Slots |-> IF s \in Touched(outs)
                                   THEN NewOutpoint(OutputOf(outs, s)) ELSE @[s]],
       !.value = [s \in Slots |-> IF s \in Touched(outs)
                                    THEN NewValue(outs, s) ELSE @[s]]]
  /\ blk' = [blk EXCEPT !.txs = @ + 1]
  /\ history' = [history EXCEPT
       !.current.deposited = [s \in Slots |->
          IF s \in Touched(outs) THEN @[s] + (NewValue(outs, s) - OldValue(s))
                                 ELSE @[s]],
       !.current.minted =
          IF Mintable(outs)
            THEN @ + (NewValue(outs, ConfiguredSlot) - OldValue(ConfiguredSlot))
            ELSE @]

\* Mutant: a paid bundle stays pending.
Withdraw_KeepsBundle(spends, outs, s, w) ==
  /\ Transaction
  /\ TreasuryRules(spends, outs)
  /\ Touched(outs) = {s}
  /\ OutputOf(outs, s) = 1
  /\ NewValue(outs, s) < OldValue(s)
  /\ w \in work.withdrawals[s]
  /\ w.votes > InclusionThreshold
  /\ ~(SingleM6 /\ s = ConfiguredSlot /\ blk.m6Applied)
  /\ work' = [work EXCEPT !.ctip[s] = NewOutpoint(1), !.value[s] = NewValue(outs, s)]
  /\ blk' = [blk EXCEPT !.txs = @ + 1, !.m6Applied = @ \/ s = ConfiguredSlot]
  /\ history' = [history EXCEPT
       !.current.withdrawn[s] = @ + (OldValue(s) - NewValue(outs, s)),
       !.current.payments = Append(@, [slot |-> s, m6id |-> w.m6id,
                                       proposed |-> w.height, paid |-> work.height])]

\* M6: a transaction of the M6 form (one input, the treasury output first,
\* blinded id m6id) that shrinks one treasury and pays a bundle with enough
\* votes, which stops being pending.
Withdraw(spends, outs, s, w) ==
  /\ Transaction
  /\ TreasuryRules(spends, outs)
  /\ Touched(outs) = {s}
  /\ OutputOf(outs, s) = 1
  /\ NewValue(outs, s) < OldValue(s)
  /\ w \in work.withdrawals[s]
  /\ w.votes > InclusionThreshold
  /\ ~(SingleM6 /\ s = ConfiguredSlot /\ blk.m6Applied)
  /\ work' = [work EXCEPT !.withdrawals[s] = @ \ {w},
                          !.ctip[s] = NewOutpoint(1),
                          !.value[s] = NewValue(outs, s)]
  /\ blk' = [blk EXCEPT !.txs = @ + 1, !.m6Applied = @ \/ s = ConfiguredSlot]
  /\ history' = [history EXCEPT
       !.current.withdrawn[s] = @ + (OldValue(s) - NewValue(outs, s)),
       !.current.payments = Append(@, [slot |-> s, m6id |-> w.m6id,
                                       proposed |-> w.height, paid |-> work.height])]

\* M8: a BMM request the block's M7 for its slot accepts, and which names the
\* block's own predecessor; prev is the height of the block it names.  The code
\* checks it before the messages take effect; a failure drops the block either
\* way.
RequestBmm(s, c, prev) ==
  /\ Transaction
  /\ blk.m7[s] = c
  /\ prev = tip.height
  /\ UNCHANGED <<work, blk, history>>

\* "parent slot no longer has the required active proposal"
RequiredHeld(t) == t.activated => t.active[ConfiguredSlot] = RequiredProposal

CommitBlock ==
  /\ phase = "transactions"
  /\ RequiredHeld(work)
  /\ tip' = work
  /\ history' = [history EXCEPT !.committed = history.current]
  /\ phase' = "idle"
  /\ blk' = NewBlock
  /\ UNCHANGED work

\* Mutant: the block is applied to the caller's state itself.
AbandonBlock_InPlace ==
  /\ phase # "idle"
  /\ phase' = "idle"
  /\ tip' = work
  /\ history' = [history EXCEPT !.current = history.committed]
  /\ blk' = NewBlock
  /\ UNCHANGED work

\* Any error return, and CheckDrivechainParentDeadline's exception, before the
\* block is complete: the caller's state is untouched.
AbandonBlock ==
  /\ phase # "idle"
  /\ phase' = "idle"
  /\ work' = tip
  /\ history' = [history EXCEPT !.current = history.committed]
  /\ blk' = NewBlock
  /\ UNCHANGED tip

Next ==
  \/ BeginBlock
  \/ \E s \in Slots, h \in Hashes : ProposeSidechain(s, h)
  \/ \E s \in Slots, h \in Hashes : IgnoreAck(s, h)
  \/ \E s \in Slots : \E p \in work.proposals[s] : AckSidechain(s, p)
  \/ \E s \in Slots : \E p \in work.proposals[s] : ActivateSidechain(s, p)
  \/ \E s \in Slots, m \in M6ids : ProposeWithdrawal(s, m)
  \/ AckExplicit
  \/ AckLeadingBy50
  \/ AckRepeatPrevious
  \/ \E s \in Slots, c \in SidechainHashes : AcceptBmm(s, c)
  \/ Expire
  \/ \E spends \in SUBSET Slots, outs \in TreasuryOutputs : Deposit(spends, outs)
  \/ \E spends \in SUBSET Slots, outs \in TreasuryOutputs, s \in Slots :
       \E w \in work.withdrawals[s] : Withdraw(spends, outs, s, w)
  \/ \E s \in Slots, c \in SidechainHashes, prev \in 0..MaxHeight : RequestBmm(s, c, prev)
  \/ CommitBlock
  \/ AbandonBlock

Spec == Init /\ [][Next]_vars

-----------------------------------------------------------------------------
(* Properties *)

Payment == [slot : Slots, m6id : M6ids, proposed : Nat, paid : Nat]
History == [deposited : [Slots -> Nat], withdrawn : [Slots -> Nat],
            minted : Nat, payments : Seq(Payment)]

\* Every variable keeps the shape of the code's structures, whatever messages
\* and transactions a block carries.
TypeOK ==
  /\ tip \in ReplayTip
  /\ work \in ReplayTip
  /\ phase \in {"idle", "messages", "transactions"}
  /\ blk \in BlockLocals
  /\ history \in [committed : History, current : History]

\* IsSaneTip of the replay store, slot by slot.
SaneActivation(t) ==
  IF t.activated
    THEN t.active[ConfiguredSlot] # Null /\ t.activationHeight <= t.height
    ELSE t.activationHeight = 0

SaneTreasury(t, s) ==
  /\ t.ctip[s] = Null => t.value[s] = 0
  /\ t.ctip[s] # Null => t.active[s] # Null

SaneProposals(t, s) ==
  \A p \in t.proposals[s] : p.height <= t.height /\ p.votes <= t.height - p.height

SaneBundles(t, s) ==
  /\ \A w \in t.withdrawals[s] :
       w.height <= t.height /\ w.votes <= (t.height - w.height) + 2
  /\ \A v, w \in t.withdrawals[s] : v.m6id = w.m6id => v = w
  /\ t.active[s] = Null => t.withdrawals[s] = {}

SaneM4(action, active) ==
  /\ action.type # "none" => active # Null
  /\ action.type = "alarm" => action.m6id = Null

DistinctCtips(t) ==
  \A s, u \in Slots : t.ctip[s] # Null /\ t.ctip[s] = t.ctip[u] => s = u

IsSaneTip(t) ==
  /\ SaneActivation(t)
  /\ \A s \in Slots : /\ SaneTreasury(t, s)
                      /\ SaneProposals(t, s)
                      /\ SaneBundles(t, s)
                      /\ SaneM4(t.previousM4[s], t.active[s])
  /\ DistinctCtips(t)

\* DrivechainParentReplayStore::Append and Load refuse a tip that is not sane.
\* A block the replay accepts never leaves one: an insane tip would halt the
\* node at that block for good, or throw the index away at the next start.
CommittedTipIsSane == IsSaneTip(tip)

\* The checks ApplyDrivechainParentBlockState makes of its own state (as
\* opposed to the block) never fail: the entry checks, "M2 proposal height is
\* ahead", the age checks of both expiry passes, "malformed CTIP state", "two
\* drivechain slots share one canonical CTIP" and the final check on the
\* required proposal.  No sequence of parent blocks makes replay halt on them.
ConsistencyChecksPass ==
  /\ RequiredHeld(work)
  /\ DistinctCtips(work)
  /\ \A s \in Slots : /\ SaneTreasury(work, s)
                      /\ SaneProposals(work, s)
                      /\ \A w \in work.withdrawals[s] : w.height <= work.height
                      /\ SaneM4(work.previousM4[s], work.active[s])

\* No M6 is paid early or late: a block adds at most one vote to a bundle, the
\* block of its M3 at most two, so more than InclusionThreshold votes take at
\* least InclusionThreshold - 1 further blocks; past BundleMaxAge it is gone.
PaymentsTakeTime ==
  \A i \in DOMAIN history.current.payments :
    LET age == history.current.payments[i].paid - history.current.payments[i].proposed
    IN  age + 2 > InclusionThreshold /\ age <= BundleMaxAge

\* One M3 buys at most one payment: no two payments share a slot, an m6id and a
\* proposal height, and what is still pending has not been paid.
OnePaymentPerProposal ==
  LET paid == history.current.payments IN
  /\ \A i, j \in DOMAIN paid :
       /\ paid[i].slot = paid[j].slot
       /\ paid[i].m6id = paid[j].m6id
       /\ paid[i].proposed = paid[j].proposed
       => i = j
  /\ \A i \in DOMAIN paid : \A w \in work.withdrawals[paid[i].slot] :
       ~(w.m6id = paid[i].m6id /\ w.height = paid[i].proposed)

\* The treasury accounts for every deposit and withdrawal of every slot, and
\* the child chain is never told to mint more than the treasury took in.
TreasuryBacksMints ==
  /\ \A s \in Slots :
       work.value[s] + history.current.withdrawn[s]
         = Bootstrap[s].value + history.current.deposited[s]
  /\ history.current.minted <= work.value[ConfiguredSlot]
                                + history.current.withdrawn[ConfiguredSlot]

\* A slot's active proposal changes only to one that was pending in the last
\* committed state, more than the slot's threshold of blocks ago and not beyond
\* its maximum age.
ActivationTakesTime ==
  [][\A s \in Slots : tip'.active[s] # tip.active[s] =>
       \E p \in tip.proposals[s] :
         /\ p.hash = tip'.active[s]
         /\ tip'.height - p.height > Threshold(Used(tip, s))
         /\ tip'.height - p.height <= MaxAge(Used(tip, s))]_vars

\* Activation is for good: no slot goes back to inactive, and once the required
\* proposal is active its slot and its recorded height never change.  Deposits
\* already minted rest on this.
ActivationIsFinal ==
  [][/\ \A s \in Slots : tip.active[s] # Null => tip'.active[s] # Null
     /\ tip.activated =>
          /\ tip'.activated
          /\ tip'.activationHeight = tip.activationHeight
          /\ tip'.active[ConfiguredSlot] = RequiredProposal]_vars

\* A bundle leaves the pending list only by being paid or by passing its maximum
\* age; in particular it survives a new activation in its slot.
BundlesLeaveByPaymentOrAge ==
  [][\A s \in Slots : \A w \in tip.withdrawals[s] :
       \/ \E v \in tip'.withdrawals[s] : v.m6id = w.m6id /\ v.height = w.height
       \/ tip'.height - w.height > BundleMaxAge
       \/ \E i \in DOMAIN history'.committed.payments :
            /\ history'.committed.payments[i].slot = s
            /\ history'.committed.payments[i].m6id = w.m6id
            /\ history'.committed.payments[i].proposed = w.height]_vars

\* A proposal with an M2 in every block since its M1 leaves the pending list only
\* by activation, in the first block that takes it past the slot's threshold:
\* when the messages of a block are done it is at or below the threshold, and the
\* expiry pass keeps it.  The limits of age and misses are those of the slot as
\* it stands, used or unused; an M2 that changes which they are is one for
\* another proposal.
UnanimousProposalsActivate ==
  [][phase = "messages" /\ phase' = "transactions" =>
       \A s \in Slots : \A p \in work.proposals[s] :
         p.votes = work.height - p.height =>
           p.votes <= Threshold(Used(work, s)) /\ p \in work'.proposals[s]]_vars
=============================================================================
