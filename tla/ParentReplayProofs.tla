------------------------- MODULE ParentReplayProofs -------------------------
(***************************************************************************)
(* Proofs about ParentReplay, for every set of slots and hashes and every  *)
(* value of the protocol parameters.                                       *)
(***************************************************************************)
EXTENDS ParentReplay, TLAPS

-----------------------------------------------------------------------------
(* The operators of M4 *)

\* A slot's part of an M4 keeps the entries well formed.
LEMMA ApplyM4Type ==
  ASSUME NEW bundles \in SUBSET Bundle, NEW action \in M4Action
  PROVE  ApplyM4(bundles, action) \in SUBSET Bundle
<1>1. \A w \in Bundle : \A n \in Nat : [w EXCEPT !.votes = n] \in Bundle
  BY DEF Bundle
<1>2. \A n \in Nat : Decrement(n) \in Nat
  BY DEF Decrement
<1>3. ApplyM4Alarm(bundles) \in SUBSET Bundle
  BY <1>1, <1>2 DEF ApplyM4Alarm, Bundle
<1>4. ApplyM4Upvote(bundles, action.m6id) \in SUBSET Bundle
  BY <1>1, <1>2 DEF ApplyM4Upvote, Bundle
<1> QED
  BY <1>3, <1>4 DEF ApplyM4

\* Each entry after an M4 is an entry from before it with at most one vote more.
LEMMA ApplyM4Bound ==
  ASSUME NEW bundles \in SUBSET Bundle, NEW action \in M4Action,
         NEW w \in ApplyM4(bundles, action)
  PROVE  \E v \in bundles : /\ v.m6id = w.m6id
                            /\ v.height = w.height
                            /\ w.votes <= v.votes + 1
<1>1. \A v \in Bundle : /\ Decrement(v.votes) <= v.votes + 1
                        /\ v.votes <= v.votes + 1
  BY DEF Decrement, Bundle
<1>2. ASSUME NEW v \in Bundle, NEW n
      PROVE  /\ [v EXCEPT !.votes = n].m6id = v.m6id
             /\ [v EXCEPT !.votes = n].height = v.height
             /\ [v EXCEPT !.votes = n].votes = n
  BY DEF Bundle
<1>3. CASE w \in bundles
  BY <1>1, <1>3
<1>4. CASE w \in ApplyM4Alarm(bundles)
  <2>1. PICK v \in bundles : w = [v EXCEPT !.votes = Decrement(v.votes)]
    BY <1>4 DEF ApplyM4Alarm
  <2> QED
    BY <2>1, <1>1, <1>2
<1>5. CASE w \in ApplyM4Upvote(bundles, action.m6id) /\ w \notin bundles
  <2>1. PICK v \in bundles :
          w = [v EXCEPT !.votes = IF v.m6id = action.m6id THEN v.votes + 1
                                  ELSE Decrement(v.votes)]
    BY <1>5 DEF ApplyM4Upvote
  <2> DEFINE n == IF v.m6id = action.m6id THEN v.votes + 1 ELSE Decrement(v.votes)
  <2>2. n <= v.votes + 1
    BY <1>1 DEF Bundle
  <2>3. w = [v EXCEPT !.votes = n]
    BY <2>1
  <2> HIDE DEF n
  <2> QED
    BY <2>2, <2>3, <1>2
<1> QED
  BY <1>3, <1>4, <1>5 DEF ApplyM4

\* An M4 keeps the m6ids of a slot distinct.
LEMMA ApplyM4Unique ==
  ASSUME NEW bundles \in SUBSET Bundle, NEW action \in M4Action,
         \A v, w \in bundles : v.m6id = w.m6id => v = w
  PROVE  \A v, w \in ApplyM4(bundles, action) : v.m6id = w.m6id => v = w
<1>1. ASSUME NEW v \in Bundle, NEW n
      PROVE  [v EXCEPT !.votes = n].m6id = v.m6id
  BY DEF Bundle
<1>2. ASSUME NEW v \in ApplyM4Alarm(bundles), NEW w \in ApplyM4Alarm(bundles),
             v.m6id = w.m6id
      PROVE  v = w
  <2>1. PICK a \in bundles : v = [a EXCEPT !.votes = Decrement(a.votes)]
    BY DEF ApplyM4Alarm
  <2>2. PICK b \in bundles : w = [b EXCEPT !.votes = Decrement(b.votes)]
    BY DEF ApplyM4Alarm
  <2>3. a.m6id = b.m6id
    BY <2>1, <2>2, <1>1, <1>2
  <2> QED
    BY <2>1, <2>2, <2>3
<1>3. ASSUME NEW v \in ApplyM4Upvote(bundles, action.m6id),
             NEW w \in ApplyM4Upvote(bundles, action.m6id),
             v.m6id = w.m6id, ~Saturated(bundles, action.m6id)
      PROVE  v = w
  <2> DEFINE n(u) == IF u.m6id = action.m6id THEN u.votes + 1 ELSE Decrement(u.votes)
  <2>1. PICK a \in bundles : v = [a EXCEPT !.votes = n(a)]
    BY <1>3 DEF ApplyM4Upvote
  <2>2. PICK b \in bundles : w = [b EXCEPT !.votes = n(b)]
    BY <1>3 DEF ApplyM4Upvote
  <2> HIDE DEF n
  <2>3. a.m6id = b.m6id
    BY <2>1, <2>2, <1>1, <1>3
  <2> QED
    BY <2>1, <2>2, <2>3
<1>4. Saturated(bundles, action.m6id) => ApplyM4Upvote(bundles, action.m6id) = bundles
  BY DEF ApplyM4Upvote
<1> QED
  BY <1>2, <1>3, <1>4 DEF ApplyM4

\* What one slot's part of an M4 leaves for RepeatPrevious is an action again.
LEMMA EffectiveM4Type ==
  ASSUME NEW bundles, NEW action \in M4Action
  PROVE  EffectiveM4(bundles, action) \in M4Action
BY DEF EffectiveM4, NoAction, M4Action

LEMMA LeadingActionType ==
  ASSUME NEW bundles \in SUBSET Bundle
  PROVE  LeadingAction(bundles) \in M4Action
<1>1. CASE \E w \in bundles : Leads(bundles, w)
  <2>1. (CHOOSE w \in bundles : Leads(bundles, w)) \in bundles
    BY <1>1
  <2> QED
    BY <1>1, <2>1 DEF LeadingAction, M4Action, Bundle
<1>2. CASE ~ \E w \in bundles : Leads(bundles, w)
  BY <1>2 DEF LeadingAction, M4Action, NoAction
<1> QED
  BY <1>1, <1>2

-----------------------------------------------------------------------------
(* Treasury transactions *)

\* The output a transaction gives to a slot it touches.
LEMMA OutputOfTouched ==
  ASSUME NEW outs \in TreasuryOutputs, NEW s \in Touched(outs)
  PROVE  /\ OutputOf(outs, s) \in DOMAIN outs
         /\ OutputOf(outs, s) \in Nat
         /\ outs[OutputOf(outs, s)].slot = s
         /\ NewValue(outs, s) \in 0..MaxMoney
<1>1. PICK n \in 1..MaxOutputs : outs \in [1..n -> TreasuryOutput]
  BY DEF TreasuryOutputs
<1>2. /\ OutputOf(outs, s) \in DOMAIN outs
      /\ outs[OutputOf(outs, s)].slot = s
  BY DEF Touched, OutputOf
<1> QED
  BY <1>1, <1>2 DEF NewValue, TreasuryOutput

-----------------------------------------------------------------------------
(* Type correctness *)

\* A record stays in its type when one field is replaced by a typed value.
LEMMA ReplayTipExcept ==
  ASSUME NEW t \in ReplayTip
  PROVE  /\ \A v \in Nat : [t EXCEPT !.height = v] \in ReplayTip
         /\ \A v \in [Slots -> Hashes \cup {Null}] : [t EXCEPT !.active = v] \in ReplayTip
         /\ \A v \in [Slots -> SUBSET Proposal] : [t EXCEPT !.proposals = v] \in ReplayTip
         /\ \A v \in [Slots -> SUBSET Bundle] : [t EXCEPT !.withdrawals = v] \in ReplayTip
         /\ \A v \in [Slots -> Outpoint \cup {Null}] : [t EXCEPT !.ctip = v] \in ReplayTip
         /\ \A v \in [Slots -> 0..MaxMoney] : [t EXCEPT !.value = v] \in ReplayTip
         /\ \A v \in [Slots -> M4Action] : [t EXCEPT !.previousM4 = v] \in ReplayTip
         /\ \A v \in BOOLEAN : [t EXCEPT !.activated = v] \in ReplayTip
         /\ \A v \in Nat : [t EXCEPT !.activationHeight = v] \in ReplayTip
<1>1. \A v \in Nat : [t EXCEPT !.height = v] \in ReplayTip
  BY DEF ReplayTip
<1>2. \A v \in [Slots -> Hashes \cup {Null}] : [t EXCEPT !.active = v] \in ReplayTip
  BY DEF ReplayTip
<1>3. \A v \in [Slots -> SUBSET Proposal] : [t EXCEPT !.proposals = v] \in ReplayTip
  BY DEF ReplayTip
<1>4. \A v \in [Slots -> SUBSET Bundle] : [t EXCEPT !.withdrawals = v] \in ReplayTip
  BY DEF ReplayTip
<1>5. \A v \in [Slots -> Outpoint \cup {Null}] : [t EXCEPT !.ctip = v] \in ReplayTip
  BY DEF ReplayTip
<1>6. \A v \in [Slots -> 0..MaxMoney] : [t EXCEPT !.value = v] \in ReplayTip
  BY DEF ReplayTip
<1>7. \A v \in [Slots -> M4Action] : [t EXCEPT !.previousM4 = v] \in ReplayTip
  BY DEF ReplayTip
<1>8. \A v \in BOOLEAN : [t EXCEPT !.activated = v] \in ReplayTip
  BY DEF ReplayTip
<1>9. \A v \in Nat : [t EXCEPT !.activationHeight = v] \in ReplayTip
  BY DEF ReplayTip
<1> QED
  BY <1>1, <1>2, <1>3, <1>4, <1>5, <1>6, <1>7, <1>8, <1>9

LEMMA BlockLocalsExcept ==
  ASSUME NEW b \in BlockLocals
  PROVE  /\ \A v \in Nat : [b EXCEPT !.messages = v] \in BlockLocals
         /\ \A v \in SUBSET (Slots \X Hashes) : [b EXCEPT !.m1 = v] \in BlockLocals
         /\ \A v \in SUBSET Slots : [b EXCEPT !.m2 = v] \in BlockLocals
         /\ \A v \in BOOLEAN : [b EXCEPT !.m4 = v] \in BlockLocals
         /\ \A v \in [Slots -> SidechainHashes \cup {Null}] :
              [b EXCEPT !.m7 = v] \in BlockLocals
         /\ \A v \in [Slots -> M4Action] : [b EXCEPT !.effective = v] \in BlockLocals
         /\ \A v \in Nat : [b EXCEPT !.txs = v] \in BlockLocals
         /\ \A v \in BOOLEAN : [b EXCEPT !.m6Applied = v] \in BlockLocals
<1>1. \A v \in Nat : [b EXCEPT !.messages = v] \in BlockLocals
  BY DEF BlockLocals
<1>2. \A v \in SUBSET (Slots \X Hashes) : [b EXCEPT !.m1 = v] \in BlockLocals
  BY DEF BlockLocals
<1>3. \A v \in SUBSET Slots : [b EXCEPT !.m2 = v] \in BlockLocals
  BY DEF BlockLocals
<1>4. \A v \in BOOLEAN : [b EXCEPT !.m4 = v] \in BlockLocals
  BY DEF BlockLocals
<1>5. \A v \in [Slots -> SidechainHashes \cup {Null}] : [b EXCEPT !.m7 = v] \in BlockLocals
  BY DEF BlockLocals
<1>6. \A v \in [Slots -> M4Action] : [b EXCEPT !.effective = v] \in BlockLocals
  BY DEF BlockLocals
<1>7. \A v \in Nat : [b EXCEPT !.txs = v] \in BlockLocals
  BY DEF BlockLocals
<1>8. \A v \in BOOLEAN : [b EXCEPT !.m6Applied = v] \in BlockLocals
  BY DEF BlockLocals
<1> QED
  BY <1>1, <1>2, <1>3, <1>4, <1>5, <1>6, <1>7, <1>8

USE DEF Payment, History

LEMMA TypeInit == Init => TypeOK
<1> SUFFICES ASSUME Init PROVE TypeOK
  OBVIOUS
<1>1. BootstrapTip \in ReplayTip
  BY ConstantsAssumption, BootstrapAssumption
     DEF BootstrapTip, ReplayTip, M4Action, NoAction
<1>2. NewHistory \in History
  BY DEF NewHistory
<1>3. NewBlock \in BlockLocals
  BY DEF NewBlock, BlockLocals, M4Action, NoAction
<1> QED
  BY <1>1, <1>2, <1>3 DEF Init, TypeOK

\* The locals stay well formed when a message is counted.
LEMMA CountMessageType ==
  ASSUME TypeOK
  PROVE  /\ [blk EXCEPT !.messages = @ + 1] \in BlockLocals
         /\ \A m \in Slots \X Hashes :
              [blk EXCEPT !.messages = @ + 1, !.m1 = @ \cup {m}] \in BlockLocals
         /\ \A s \in Slots :
              [blk EXCEPT !.messages = @ + 1, !.m2 = @ \cup {s}] \in BlockLocals
         /\ \A e \in [Slots -> M4Action] :
              [blk EXCEPT !.messages = @ + 1, !.m4 = TRUE, !.effective = e]
                \in BlockLocals
         /\ \A s \in Slots : \A c \in SidechainHashes :
              [blk EXCEPT !.messages = @ + 1, !.m7[s] = c] \in BlockLocals
<1> DEFINE b == [blk EXCEPT !.messages = @ + 1]
<1>0. blk \in BlockLocals /\ blk.messages + 1 \in Nat
  BY DEF TypeOK, BlockLocals
<1>1. b \in BlockLocals
  BY <1>0, BlockLocalsExcept
<1>2. /\ b.m1 = blk.m1 /\ b.m1 \in SUBSET (Slots \X Hashes)
      /\ b.m2 = blk.m2 /\ b.m2 \in SUBSET Slots
      /\ b.m7 = blk.m7 /\ b.m7 \in [Slots -> SidechainHashes \cup {Null}]
  BY DEF TypeOK, BlockLocals
<1> HIDE DEF b
<1>3. ASSUME NEW m \in Slots \X Hashes PROVE [b EXCEPT !.m1 = @ \cup {m}] \in BlockLocals
  BY <1>1, <1>2, BlockLocalsExcept
<1>4. ASSUME NEW s \in Slots PROVE [b EXCEPT !.m2 = @ \cup {s}] \in BlockLocals
  BY <1>1, <1>2, BlockLocalsExcept
<1>5. ASSUME NEW e \in [Slots -> M4Action]
      PROVE  [[b EXCEPT !.m4 = TRUE] EXCEPT !.effective = e] \in BlockLocals
  BY <1>1, BlockLocalsExcept, Zenon
<1>6. ASSUME NEW s \in Slots, NEW c \in SidechainHashes
      PROVE  [b EXCEPT !.m7[s] = c] \in BlockLocals
  <2>1. [b.m7 EXCEPT ![s] = c] \in [Slots -> SidechainHashes \cup {Null}]
    BY <1>2
  <2> QED
    BY <2>1, <1>1, BlockLocalsExcept, Zenon
<1>7. \A m \in Slots \X Hashes :
        [blk EXCEPT !.messages = @ + 1, !.m1 = @ \cup {m}] \in BlockLocals
  BY <1>3, Zenon DEF b
<1>8. \A s \in Slots : [blk EXCEPT !.messages = @ + 1, !.m2 = @ \cup {s}] \in BlockLocals
  BY <1>4, Zenon DEF b
<1>9. \A e \in [Slots -> M4Action] :
        [blk EXCEPT !.messages = @ + 1, !.m4 = TRUE, !.effective = e] \in BlockLocals
  BY <1>5, Zenon DEF b
<1>10. \A s \in Slots : \A c \in SidechainHashes :
         [blk EXCEPT !.messages = @ + 1, !.m7[s] = c] \in BlockLocals
  BY <1>6, Zenon DEF b
<1> QED
  BY <1>1, <1>7, <1>8, <1>9, <1>10, Zenon DEF b

\* And when a treasury transaction is.
LEMMA CountTransactionType ==
  ASSUME TypeOK
  PROVE  /\ [blk EXCEPT !.txs = @ + 1] \in BlockLocals
         /\ \A s \in Slots :
              [blk EXCEPT !.txs = @ + 1, !.m6Applied = @ \/ s = ConfiguredSlot]
                \in BlockLocals
<1> DEFINE b == [blk EXCEPT !.txs = @ + 1]
<1>0. blk \in BlockLocals /\ blk.txs + 1 \in Nat
  BY DEF TypeOK, BlockLocals
<1>1. b \in BlockLocals
  BY <1>0, BlockLocalsExcept
<1> HIDE DEF b
<1>2. ASSUME NEW s \in Slots
      PROVE  [b EXCEPT !.m6Applied = @ \/ s = ConfiguredSlot] \in BlockLocals
  <2>1. (b.m6Applied \/ s = ConfiguredSlot) \in BOOLEAN
    OBVIOUS
  <2> QED
    BY <2>1, <1>1, BlockLocalsExcept, Zenon
<1> QED
  BY <1>1, <1>2, Zenon DEF b

\* An M4 of any encoding asks for one well-formed action per slot.
LEMMA TypeAckWithdrawals ==
  ASSUME TypeOK, NEW request \in [Slots -> M4Action], AckWithdrawals(request)
  PROVE  TypeOK'
<1>1. \A s \in Slots : /\ ApplyM4(work.withdrawals[s], request[s]) \in SUBSET Bundle
                       /\ EffectiveM4(work.withdrawals[s], request[s]) \in M4Action
  BY ApplyM4Type, EffectiveM4Type DEF TypeOK, ReplayTip
<1>2. work' \in ReplayTip
  BY <1>1, Zenon DEF AckWithdrawals, TypeOK, ReplayTip
<1>3. blk' \in BlockLocals
  BY <1>1, CountMessageType, Zenon DEF AckWithdrawals
<1> QED
  BY <1>2, <1>3 DEF AckWithdrawals, Message, TypeOK

LEMMA TypeNext == TypeOK /\ [Next]_vars => TypeOK'
<1> SUFFICES ASSUME TypeOK, [Next]_vars PROVE TypeOK'
  OBVIOUS
<1>0. NewBlock \in BlockLocals
  BY DEF NewBlock, BlockLocals, M4Action, NoAction
<1>1. CASE BeginBlock
  <2>0. tip \in ReplayTip /\ tip.height + 1 \in Nat
    BY DEF TypeOK, ReplayTip
  <2>1. work' \in ReplayTip
    BY <1>1, <2>0, ReplayTipExcept DEF BeginBlock
  <2> QED
    BY <1>0, <1>1, <2>1, Zenon DEF BeginBlock, TypeOK
<1>2. ASSUME NEW s \in Slots, NEW h \in Hashes, ProposeSidechain(s, h) PROVE TypeOK'
  <2>1. [hash |-> h, height |-> work.height, votes |-> 0] \in Proposal
    BY DEF Proposal, TypeOK, ReplayTip
  <2>2. work' \in ReplayTip
    <3> DEFINE q == [hash |-> h, height |-> work.height, votes |-> 0]
               new == [work.proposals EXCEPT ![s] = @ \cup {q}]
    <3>1. work \in ReplayTip /\ work.proposals \in [Slots -> SUBSET Proposal]
      BY DEF TypeOK, ReplayTip
    <3>2. work' = work \/ work' = [work EXCEPT !.proposals = new]
      BY <1>2 DEF ProposeSidechain
    <3> HIDE DEF q
    <3>3. new \in [Slots -> SUBSET Proposal]
      BY <2>1, <3>1 DEF q
    <3> HIDE DEF new
    <3> QED
      BY <3>1, <3>2, <3>3, ReplayTipExcept
  <2>3. blk' \in BlockLocals
    BY <1>2, CountMessageType, Zenon DEF ProposeSidechain
  <2> QED
    BY <1>2, <2>2, <2>3 DEF ProposeSidechain, Message, TypeOK
<1>3. ASSUME NEW s \in Slots, NEW h \in Hashes, IgnoreAck(s, h) PROVE TypeOK'
  BY <1>3, CountMessageType, Zenon DEF IgnoreAck, Message, TypeOK
<1>4. ASSUME NEW s \in Slots, NEW p \in work.proposals[s], AckSidechain(s, p) PROVE TypeOK'
  <2>0. p \in Proposal
    BY DEF TypeOK, ReplayTip
  <2>1. [p EXCEPT !.votes = @ + 1] \in Proposal
    BY <2>0 DEF Proposal
  <2>2. work' \in ReplayTip
    <3> DEFINE q == [p EXCEPT !.votes = @ + 1]
               new == [work.proposals EXCEPT ![s] = (@ \ {p}) \cup {q}]
    <3>1. work.proposals \in [Slots -> SUBSET Proposal]
      BY DEF TypeOK, ReplayTip
    <3>2. work' = [work EXCEPT !.proposals = new]
      BY <1>4 DEF AckSidechain
    <3> HIDE DEF q
    <3>3. new \in [Slots -> SUBSET Proposal]
      BY <2>1, <3>1 DEF q
    <3> HIDE DEF new
    <3> QED
      BY <3>2, <3>3, ReplayTipExcept, Zenon DEF TypeOK
  <2>3. blk' \in BlockLocals
    BY <1>4, CountMessageType, Zenon DEF AckSidechain
  <2> QED
    BY <1>4, <2>2, <2>3 DEF AckSidechain, Message, TypeOK
<1>5. ASSUME NEW s \in Slots, NEW p \in work.proposals[s], ActivateSidechain(s, p)
      PROVE  TypeOK'
  <2> DEFINE first == s = ConfiguredSlot /\ ~work.activated /\ p.hash = RequiredProposal
             w1 == [work EXCEPT !.active[s] = p.hash]
             w2 == [w1 EXCEPT !.proposals[s] = @ \ {p}]
             w3 == [w2 EXCEPT !.activated = @ \/ first]
  <2>1. p.hash \in Hashes
    BY DEF TypeOK, ReplayTip, Proposal
  <2>2. w1 \in ReplayTip
    BY <2>1, Zenon DEF TypeOK, ReplayTip
  <2>3. w2 \in ReplayTip
    <3> HIDE DEF w1
    <3> QED BY <2>2 DEF ReplayTip
  <2>4. w3 \in ReplayTip
    <3> HIDE DEF w2
    <3>1. (w2.activated \/ first) \in BOOLEAN
      OBVIOUS
    <3> QED BY <2>3, <3>1, ReplayTipExcept, Zenon
  <2>5. work' \in ReplayTip
    <3>1. work' = [w3 EXCEPT !.activationHeight = IF first THEN work.height ELSE @]
      BY <1>5 DEF ActivateSidechain
    <3> HIDE DEF w3
    <3> QED BY <2>4, <3>1, Zenon DEF ReplayTip, TypeOK
  <2>6. blk' \in BlockLocals
    BY <1>5, CountMessageType, Zenon DEF ActivateSidechain
  <2> QED
    BY <1>5, <2>5, <2>6 DEF ActivateSidechain, Message, TypeOK
<1>6. ASSUME NEW s \in Slots, NEW m \in M6ids, ProposeWithdrawal(s, m) PROVE TypeOK'
  <2>1. [m6id |-> m, height |-> work.height, votes |-> 1] \in Bundle
    BY DEF TypeOK, ReplayTip, Bundle
  <2>2. work' \in ReplayTip
    BY <1>6, <2>1, Zenon DEF ProposeWithdrawal, TypeOK, ReplayTip
  <2>3. blk' \in BlockLocals
    BY <1>6, CountMessageType, Zenon DEF ProposeWithdrawal
  <2> QED
    BY <1>6, <2>2, <2>3 DEF ProposeWithdrawal, Message, TypeOK
<1>7. CASE AckExplicit
  <2>1. PICK request \in [Slots -> SlotVotes] : AckWithdrawals(request)
    BY <1>7 DEF AckExplicit
  <2>2. request \in [Slots -> M4Action]
    BY <2>1 DEF SlotVotes, M4Action, NoAction
  <2> QED
    BY <2>1, <2>2, TypeAckWithdrawals
<1>8. CASE AckLeadingBy50
  <2> DEFINE request == [s \in Slots |->
        IF Used(work, s) THEN LeadingAction(work.withdrawals[s]) ELSE NoAction]
  <2>1. request \in [Slots -> M4Action]
    BY LeadingActionType DEF TypeOK, ReplayTip, NoAction, M4Action
  <2> QED
    BY <1>8, <2>1, TypeAckWithdrawals DEF AckLeadingBy50
<1>9. CASE AckRepeatPrevious
  <2>1. work.previousM4 \in [Slots -> M4Action]
    BY DEF TypeOK, ReplayTip
  <2> QED
    BY <1>9, <2>1, TypeAckWithdrawals DEF AckRepeatPrevious
<1>10. ASSUME NEW s \in Slots, NEW c \in SidechainHashes, AcceptBmm(s, c) PROVE TypeOK'
  BY <1>10, CountMessageType, Zenon DEF AcceptBmm, Message, TypeOK
<1>11. CASE Expire
  <2> DEFINE w1 == [work EXCEPT !.previousM4 = blk.effective]
             kept == [s \in Slots |-> {p \in work.proposals[s] :
                        ~ExpiredProposal(p, work.height, Used(work, s))}]
             alive == [s \in Slots |-> IF Used(work, s)
                        THEN {w \in work.withdrawals[s] : ~ExpiredBundle(w, work.height)}
                        ELSE work.withdrawals[s]]
             w2 == [w1 EXCEPT !.proposals = kept]
  <2>1. w1 \in ReplayTip
    BY ReplayTipExcept, Zenon DEF TypeOK, BlockLocals
  <2>2. kept \in [Slots -> SUBSET Proposal] /\ alive \in [Slots -> SUBSET Bundle]
    BY DEF TypeOK, ReplayTip
  <2>3. work' = [w2 EXCEPT !.withdrawals = alive]
    BY <1>11 DEF Expire
  <2> HIDE DEF w1, kept, alive
  <2>4. w2 \in ReplayTip
    BY <2>1, <2>2, ReplayTipExcept
  <2> HIDE DEF w2
  <2>5. work' \in ReplayTip
    BY <2>2, <2>3, <2>4, ReplayTipExcept
  <2> QED
    BY <1>11, <2>5 DEF Expire, TypeOK
<1>12. ASSUME NEW spends \in SUBSET Slots, NEW outs \in TreasuryOutputs,
              Deposit(spends, outs)
       PROVE  TypeOK'
  <2>1. \A s \in Touched(outs) : /\ OutputOf(outs, s) \in Nat
                                 /\ NewValue(outs, s) \in 0..MaxMoney
                                 /\ OldValue(s) \in 0..MaxMoney
                                 /\ NewValue(outs, s) - OldValue(s) \in Nat
    <3> TAKE s \in Touched(outs)
    <3>1. s \in Slots
      BY DEF Touched, ActiveDrivechainSlots
    <3>2. OldValue(s) \in 0..MaxMoney
      BY <3>1, ConstantsAssumption DEF OldValue, TypeOK, ReplayTip
    <3>3. NewValue(outs, s) > OldValue(s)
      BY <1>12 DEF Deposit
    <3> QED
      BY <3>2, <3>3, OutputOfTouched, ConstantsAssumption
  <2>2. \A s \in Touched(outs) : NewOutpoint(OutputOf(outs, s)) \in Outpoint
    BY <2>1 DEF NewOutpoint, Outpoint, TypeOK, ReplayTip, BlockLocals
  <2>3. work' \in ReplayTip
    <3> DEFINE c == [s \in Slots |-> IF s \in Touched(outs)
                       THEN NewOutpoint(OutputOf(outs, s)) ELSE work.ctip[s]]
               v == [s \in Slots |-> IF s \in Touched(outs)
                       THEN NewValue(outs, s) ELSE work.value[s]]
               w1 == [work EXCEPT !.ctip = c]
    <3>1. c \in [Slots -> Outpoint \cup {Null}] /\ v \in [Slots -> 0..MaxMoney]
      BY <2>1, <2>2 DEF TypeOK, ReplayTip
    <3>2. w1.value = work.value
      BY DEF TypeOK, ReplayTip
    <3>3. work' = [w1 EXCEPT !.value = v]
      BY <1>12, <3>2 DEF Deposit
    <3> HIDE DEF c, v
    <3>4. w1 \in ReplayTip
      BY <3>1, ReplayTipExcept, Zenon DEF TypeOK
    <3> HIDE DEF w1
    <3> QED
      BY <3>1, <3>3, <3>4, ReplayTipExcept
  <2>5. history' \in [committed : History, current : History]
    <3> DEFINE d == [s \in Slots |-> IF s \in Touched(outs)
                       THEN history.current.deposited[s] + (NewValue(outs, s) - OldValue(s))
                       ELSE history.current.deposited[s]]
               m == IF Mintable(outs)
                      THEN history.current.minted
                             + (NewValue(outs, ConfiguredSlot) - OldValue(ConfiguredSlot))
                      ELSE history.current.minted
               h1 == [history EXCEPT !.current.deposited = d]
    <3>1. Mintable(outs) => ConfiguredSlot \in Touched(outs)
      BY DEF Mintable
    <3>2. d \in [Slots -> Nat] /\ m \in Nat
      <4>1. history.current.deposited \in [Slots -> Nat] /\ history.current.minted \in Nat
        BY DEF TypeOK
      <4>2. d \in [Slots -> Nat]
        BY <2>1, <4>1
      <4>3. m \in Nat
        BY <2>1, <3>1, <4>1
      <4> QED
        BY <4>2, <4>3
    <3>3. h1.current.minted = history.current.minted
      BY DEF TypeOK
    <3>4. history' = [h1 EXCEPT !.current.minted = m]
      BY <1>12, <3>3 DEF Deposit
    <3> HIDE DEF d, m
    <3>5. h1 \in [committed : History, current : History]
      BY <3>2, Zenon DEF TypeOK
    <3> HIDE DEF h1
    <3> QED
      BY <3>2, <3>4, <3>5, Zenon
  <2>6. blk' \in BlockLocals
    BY <1>12, CountTransactionType, Zenon DEF Deposit
  <2> QED
    BY <1>12, <2>3, <2>5, <2>6, Zenon DEF Deposit, Transaction, TypeOK
<1>13. ASSUME NEW spends \in SUBSET Slots, NEW outs \in TreasuryOutputs,
              NEW s \in Slots, NEW w \in work.withdrawals[s],
              Withdraw(spends, outs, s, w)
       PROVE  TypeOK'
  <2>1. /\ NewValue(outs, s) \in 0..MaxMoney
        /\ OldValue(s) \in 0..MaxMoney
        /\ OldValue(s) - NewValue(outs, s) \in Nat
    <3>1. s \in Touched(outs) /\ NewValue(outs, s) < OldValue(s)
      BY <1>13 DEF Withdraw
    <3>2. OldValue(s) \in 0..MaxMoney
      BY ConstantsAssumption DEF OldValue, TypeOK, ReplayTip
    <3> QED
      BY <3>1, <3>2, OutputOfTouched, ConstantsAssumption
  <2>2. NewOutpoint(1) \in Outpoint
    BY DEF NewOutpoint, Outpoint, TypeOK, ReplayTip, BlockLocals
  <2>3. work' \in ReplayTip
    <3> DEFINE w1 == [work EXCEPT !.withdrawals[s] = @ \ {w}]
               w2 == [w1 EXCEPT !.ctip[s] = NewOutpoint(1)]
    <3>1. w1 \in ReplayTip
      BY Zenon DEF TypeOK, ReplayTip
    <3>2. work' = [w2 EXCEPT !.value[s] = NewValue(outs, s)]
      BY <1>13 DEF Withdraw
    <3> HIDE DEF w1
    <3>3. w2 \in ReplayTip
      BY <3>1, <2>2 DEF ReplayTip
    <3> HIDE DEF w2
    <3> QED
      BY <3>2, <3>3, <2>1 DEF ReplayTip
  <2>4. [slot |-> s, m6id |-> w.m6id, proposed |-> w.height, paid |-> work.height]
          \in Payment
    <3>1. w \in Bundle /\ work.height \in Nat
      BY DEF TypeOK, ReplayTip
    <3> QED
      BY <3>1 DEF Bundle
  <2>5. history' \in [committed : History, current : History]
    <3> DEFINE p == [slot |-> s, m6id |-> w.m6id, proposed |-> w.height,
                     paid |-> work.height]
               h1 == [history EXCEPT !.current.withdrawn[s] =
                        @ + (OldValue(s) - NewValue(outs, s))]
    <3>0. [history.current.withdrawn EXCEPT ![s] = @ + (OldValue(s) - NewValue(outs, s))]
            \in [Slots -> Nat]
      <4>1. history.current.withdrawn \in [Slots -> Nat]
        BY DEF TypeOK
      <4> QED
        BY <2>1, <4>1
    <3>1. h1 \in [committed : History, current : History]
      BY <3>0, Zenon DEF TypeOK
    <3>2. history' = [h1 EXCEPT !.current.payments = Append(@, p)]
      BY <1>13, Zenon DEF Withdraw
    <3> HIDE DEF h1, p
    <3>3. Append(h1.current.payments, p) \in Seq(Payment)
      BY <3>1, <2>4 DEF p
    <3> QED
      BY <3>1, <3>2, <3>3, Zenon
  <2>6. blk' \in BlockLocals
    BY <1>13, CountTransactionType, Zenon DEF Withdraw
  <2> QED
    BY <1>13, <2>3, <2>5, <2>6, Zenon DEF Withdraw, Transaction, TypeOK
<1>14. ASSUME NEW s \in Slots, NEW c \in SidechainHashes, NEW prev \in 0..MaxHeight,
             RequestBmm(s, c, prev)
       PROVE TypeOK'
  BY <1>14 DEF RequestBmm, Transaction, TypeOK
<1>15. CASE CommitBlock
  BY <1>0, <1>15, Zenon DEF CommitBlock, TypeOK
<1>16. CASE AbandonBlock
  BY <1>0, <1>16, Zenon DEF AbandonBlock, TypeOK
<1>17. CASE UNCHANGED vars
  BY <1>17 DEF vars, TypeOK
<1> QED
  BY <1>1, <1>2, <1>3, <1>4, <1>5, <1>6, <1>7, <1>8, <1>9, <1>10, <1>11, <1>12,
     <1>13, <1>14, <1>15, <1>16, <1>17 DEF Next

\* Every variable keeps the shape of the code's structures, for every parent
\* chain.
THEOREM TypeCorrect == Spec => []TypeOK
BY TypeInit, TypeNext, PTL DEF Spec

HIDE DEF Payment, History

-----------------------------------------------------------------------------
(* The inductive invariant.  A committed tip is sane because the block that  *)
(* made it started from a sane one and a block can add only so many votes:   *)
(* while its messages run, a proposal whose slot has had no M2 yet and a     *)
(* bundle before the M4 must still have the room of one vote.                *)

AckSlack ==
  phase = "messages" =>
    \A s \in Slots \ blk.m2 : \A p \in work.proposals[s] :
      p.height < work.height => p.votes < work.height - p.height

M4Slack ==
  phase = "messages" /\ ~blk.m4 =>
    \A s \in Slots : \A w \in work.withdrawals[s] :
      w.votes <= (work.height - w.height) + 1

\* Treasury outputs come from blocks below h, or from the first n treasury
\* transactions of block h.
OldCtips(t, h, n) ==
  \A s \in Slots : t.ctip[s] # Null =>
    \/ t.ctip[s].height < h
    \/ t.ctip[s].height = h /\ t.ctip[s].tx < n

IInv ==
  /\ TypeOK
  /\ IsSaneTip(tip)
  /\ IsSaneTip(work)
  /\ RequiredHeld(tip)
  /\ RequiredHeld(work)
  /\ phase # "idle" => work.height = tip.height + 1
  /\ AckSlack
  /\ M4Slack
  /\ \A s \in Slots : SaneM4(blk.effective[s], work.active[s])
  /\ OldCtips(tip, tip.height + 1, 0)
  /\ OldCtips(work, tip.height + 1, blk.txs)

\* The parts of the invariant that a step may need one at a time.
SaneParts(t) ==
  /\ SaneActivation(t)
  /\ DistinctCtips(t)
  /\ \A s \in Slots : SaneTreasury(t, s)
  /\ \A s \in Slots : SaneProposals(t, s)
  /\ \A s \in Slots : SaneBundles(t, s)
  /\ \A s \in Slots : SaneM4(t.previousM4[s], t.active[s])

InvParts ==
  /\ SaneParts(tip)
  /\ SaneParts(work)
  /\ AckSlack
  /\ M4Slack
  /\ OldCtips(tip, tip.height + 1, 0)
  /\ OldCtips(work, tip.height + 1, blk.txs)

LEMMA InvHasParts == IInv => InvParts
BY DEF IInv, InvParts, IsSaneTip, SaneParts

\* What a tip keeps when the fields it depends on stay.
LEMMA CtipsFrame ==
  ASSUME NEW t, NEW u, DistinctCtips(t), u.ctip = t.ctip
  PROVE  DistinctCtips(u)
BY DEF DistinctCtips

LEMMA TipFrame ==
  ASSUME NEW t, NEW u, SaneParts(t),
         u.height = t.height, u.active = t.active, u.ctip = t.ctip, u.value = t.value,
         u.activated = t.activated, u.activationHeight = t.activationHeight
  PROVE  /\ SaneActivation(u)
         /\ DistinctCtips(u)
         /\ \A s \in Slots : SaneTreasury(u, s)
<1>1. SaneActivation(u)
  BY DEF SaneParts, SaneActivation
<1>2. DistinctCtips(u)
  BY CtipsFrame DEF SaneParts
<1>3. \A s \in Slots : SaneTreasury(u, s)
  BY Zenon DEF SaneParts, SaneTreasury
<1> QED
  BY <1>1, <1>2, <1>3

LEMMA ProposalsFrame ==
  ASSUME NEW t, NEW u, SaneParts(t), u.height = t.height,
         \A s \in Slots : u.proposals[s] \subseteq t.proposals[s]
  PROVE  \A s \in Slots : SaneProposals(u, s)
BY DEF SaneParts, SaneProposals

LEMMA BundlesFrame ==
  ASSUME NEW t, NEW u, SaneParts(t), u.height = t.height, u.active = t.active,
         \A s \in Slots : u.withdrawals[s] \subseteq t.withdrawals[s]
  PROVE  \A s \in Slots : SaneBundles(u, s)
BY Zenon DEF SaneParts, SaneBundles

\* A sane tip is sane one block later.
LEMMA NextBlockFrame ==
  ASSUME NEW t \in ReplayTip, NEW u, SaneParts(t), u.height = t.height + 1,
         u.active = t.active, u.ctip = t.ctip, u.value = t.value,
         u.proposals = t.proposals, u.withdrawals = t.withdrawals,
         u.previousM4 = t.previousM4, u.activated = t.activated,
         u.activationHeight = t.activationHeight
  PROVE  SaneParts(u)
<1>1. t.height \in Nat /\ t.activationHeight \in Nat
  BY DEF ReplayTip
<1>2. SaneActivation(u)
  BY <1>1 DEF SaneParts, SaneActivation
<1>3. DistinctCtips(u)
  BY CtipsFrame DEF SaneParts
<1>4. \A s \in Slots : SaneTreasury(u, s)
  BY Zenon DEF SaneParts, SaneTreasury
<1>5. ASSUME NEW s \in Slots PROVE SaneProposals(u, s)
  <2> SUFFICES ASSUME NEW p \in t.proposals[s]
               PROVE  p.height <= t.height + 1 /\ p.votes <= (t.height + 1) - p.height
    BY DEF SaneProposals
  <2>1. p \in Proposal
    BY DEF ReplayTip
  <2>2. p.height <= t.height /\ p.votes <= t.height - p.height
    BY DEF SaneParts, SaneProposals
  <2> QED
    BY <1>1, <2>1, <2>2 DEF Proposal
<1>6. ASSUME NEW s \in Slots PROVE SaneBundles(u, s)
  <2>1. ASSUME NEW w \in t.withdrawals[s]
        PROVE  w.height <= t.height + 1 /\ w.votes <= ((t.height + 1) - w.height) + 2
    <3>1. w \in Bundle
      BY DEF ReplayTip
    <3>2. w.height <= t.height /\ w.votes <= (t.height - w.height) + 2
      BY DEF SaneParts, SaneBundles
    <3> QED
      BY <1>1, <3>1, <3>2 DEF Bundle
  <2>2. /\ \A v, w \in t.withdrawals[s] : v.m6id = w.m6id => v = w
        /\ t.active[s] = Null => t.withdrawals[s] = {}
    BY DEF SaneParts, SaneBundles
  <2> QED
    BY <2>1, <2>2 DEF SaneBundles
<1> QED
  BY <1>2, <1>3, <1>4, <1>5, <1>6 DEF SaneParts

LEMMA InvInit == Init => IInv
<1> SUFFICES ASSUME Init PROVE IInv
  OBVIOUS
<1>1. TypeOK
  BY TypeInit
<1>2. /\ tip = BootstrapTip /\ work = BootstrapTip
      /\ phase = "idle"
      /\ blk = NewBlock
  BY DEF Init
<1>3. IsSaneTip(BootstrapTip)
  <2>1. SaneActivation(BootstrapTip)
    BY DEF SaneActivation, BootstrapTip
  <2>2. \A s \in Slots : SaneTreasury(BootstrapTip, s)
    <3>1. \A s \in Slots : /\ BootstrapTip.ctip[s] = Bootstrap[s].ctip
                           /\ BootstrapTip.value[s] = Bootstrap[s].value
                           /\ BootstrapTip.active[s] = Bootstrap[s].active
      BY DEF BootstrapTip
    <3> QED
      BY <3>1, BootstrapAssumption, Zenon DEF SaneTreasury
  <2>3. \A s \in Slots : SaneProposals(BootstrapTip, s) /\ SaneBundles(BootstrapTip, s)
    BY DEF SaneProposals, SaneBundles, BootstrapTip
  <2>4. \A s \in Slots : SaneM4(BootstrapTip.previousM4[s], BootstrapTip.active[s])
    BY DEF SaneM4, BootstrapTip, NoAction
  <2>5. DistinctCtips(BootstrapTip)
    BY BootstrapAssumption DEF DistinctCtips, BootstrapTip
  <2> QED
    BY <2>1, <2>2, <2>3, <2>4, <2>5 DEF IsSaneTip
<1>4. RequiredHeld(BootstrapTip)
  BY DEF RequiredHeld, BootstrapTip
<1>5. AckSlack /\ M4Slack
  BY <1>2 DEF AckSlack, M4Slack
<1>6. \A s \in Slots : SaneM4(blk.effective[s], work.active[s])
  <2>1. \A s \in Slots : NewBlock.effective[s] = NoAction
    BY DEF NewBlock
  <2>2. NoAction.type = "none" /\ "none" # "alarm"
    BY DEF NoAction
  <2> QED
    BY <1>2, <2>1, <2>2, Zenon DEF SaneM4
<1>7. OldCtips(BootstrapTip, CheckpointHeight + 1, 0)
  BY BootstrapAssumption, ConstantsAssumption DEF OldCtips, BootstrapTip, Outpoint
<1>8. BootstrapTip.height = CheckpointHeight /\ NewBlock.txs = 0
  BY DEF BootstrapTip, NewBlock
<1> QED
  BY <1>1, <1>2, <1>3, <1>4, <1>5, <1>6, <1>7, <1>8 DEF IInv

\* An M4 adds at most one vote to a bundle, and a block carries at most one M4.
LEMMA InvAckWithdrawals ==
  ASSUME IInv, TypeOK', NEW request \in [Slots -> M4Action], AckWithdrawals(request),
         \A s \in Slots : request[s].type = "alarm" => request[s].m6id = Null
  PROVE  IInv'
<1>1. /\ work'.height = work.height /\ work'.active = work.active
      /\ work'.proposals = work.proposals /\ work'.ctip = work.ctip
      /\ work'.value = work.value /\ work'.previousM4 = work.previousM4
      /\ work'.activated = work.activated
      /\ work'.activationHeight = work.activationHeight
      /\ \A s \in Slots :
           work'.withdrawals[s] = ApplyM4(work.withdrawals[s], request[s])
  BY DEF IInv, TypeOK, ReplayTip, AckWithdrawals
<1>2. /\ blk'.m2 = blk.m2 /\ blk'.m4 /\ blk'.txs = blk.txs
      /\ \A s \in Slots :
           blk'.effective[s] = EffectiveM4(work.withdrawals[s], request[s])
  <2>1. blk \in BlockLocals
    BY DEF IInv, TypeOK
  <2>2. blk' = [blk EXCEPT !.messages = @ + 1, !.m4 = TRUE, !.effective =
                  [s \in Slots |-> EffectiveM4(work.withdrawals[s], request[s])]]
    BY DEF AckWithdrawals
  <2>3. blk'.m4
    BY <2>1, <2>2 DEF BlockLocals
  <2> QED
    BY <2>1, <2>2, <2>3 DEF BlockLocals
<1>3. tip' = tip /\ phase' = phase /\ phase = "messages" /\ ~blk.m4
  BY DEF AckWithdrawals, Message
<1>d. InvParts
  BY InvHasParts
<1>4. ASSUME NEW s \in Slots PROVE SaneBundles(work, s)'
  <2>1. /\ work.withdrawals[s] \in SUBSET Bundle /\ request[s] \in M4Action
        /\ work.height \in Nat
    BY DEF IInv, TypeOK, ReplayTip
  <2>2. SaneBundles(work, s)
    BY DEF IInv, IsSaneTip
  <2>3. \A v, w \in work'.withdrawals[s] : v.m6id = w.m6id => v = w
    BY <1>1, <2>1, <2>2, ApplyM4Unique DEF SaneBundles
  <2>4. ASSUME NEW w \in work'.withdrawals[s]
        PROVE  w.height <= work.height /\ w.votes <= (work.height - w.height) + 2
    <3>1. PICK v \in work.withdrawals[s] : /\ v.height = w.height
                                           /\ w.votes <= v.votes + 1
      BY <1>1, <2>1, ApplyM4Bound
    <3>2. v.votes <= (work.height - v.height) + 1 /\ v.height <= work.height
      BY <1>3, <2>2 DEF IInv, M4Slack, SaneBundles
    <3>3. w \in Bundle /\ v \in Bundle
      BY <1>1, <2>1, ApplyM4Type
    <3> QED
      BY <3>1, <3>2, <3>3, <2>1 DEF Bundle
  <2>5. work.active[s] = Null => work'.withdrawals[s] = {}
    <3> SUFFICES ASSUME work.active[s] = Null, NEW w \in work'.withdrawals[s] PROVE FALSE
      OBVIOUS
    <3>1. \E v \in work.withdrawals[s] : v.height = w.height
      BY <1>1, <2>1, ApplyM4Bound
    <3> QED
      BY <3>1, <2>2 DEF SaneBundles
  <2> QED
    BY <1>1, <2>3, <2>4, <2>5 DEF SaneBundles
<1>5. IsSaneTip(work)'
  <2>1. SaneActivation(work)' /\ DistinctCtips(work)'
    BY <1>1, <1>d, TipFrame DEF InvParts
  <2>2. \A s \in Slots : /\ SaneTreasury(work, s)' /\ SaneProposals(work, s)'
                         /\ SaneM4(work.previousM4[s], work.active[s])'
    <3>1. \A s \in Slots : SaneProposals(work, s)'
      BY <1>1, <1>d, ProposalsFrame, Zenon DEF InvParts
    <3>2. \A s \in Slots : SaneTreasury(work, s)'
      BY <1>1, <1>d, TipFrame DEF InvParts
    <3> QED
      BY <1>1, <1>d, <3>1, <3>2 DEF InvParts, SaneParts
  <2> QED
    BY <1>4, <2>1, <2>2 DEF IsSaneTip
<1>6. \A s \in Slots : SaneM4(blk.effective[s], work.active[s])'
  BY <1>1, <1>2 DEF SaneM4, EffectiveM4, NoAction, AckWithdrawals, Used
<1>7. AckSlack' /\ M4Slack'
  BY <1>1, <1>2, <1>3 DEF IInv, AckSlack, M4Slack
<1>8. OldCtips(work, tip.height + 1, blk.txs)'
  BY <1>1, <1>2, <1>3 DEF IInv, OldCtips
<1> QED
  BY <1>1, <1>3, <1>5, <1>6, <1>7, <1>8 DEF IInv, RequiredHeld

\* An M1 or a counted M2 changes the pending proposals of one slot only.
LEMMA InvProposals ==
  ASSUME IInv, TypeOK', Message,
         NEW new \in [Slots -> SUBSET Proposal],
         work' = [work EXCEPT !.proposals = new],
         blk'.m2 \in SUBSET Slots, blk.m2 \subseteq blk'.m2,
         blk'.m4 = blk.m4, blk'.effective = blk.effective, blk'.txs = blk.txs,
         \A s \in Slots : \A p \in new[s] :
           /\ p.height <= work.height
           /\ p.votes <= work.height - p.height
           /\ s \notin blk'.m2 /\ p.height < work.height =>
                p.votes < work.height - p.height
  PROVE  IInv'
<1>1. /\ work'.height = work.height /\ work'.active = work.active
      /\ work'.proposals = new /\ work'.ctip = work.ctip
      /\ work'.value = work.value /\ work'.previousM4 = work.previousM4
      /\ work'.activated = work.activated
      /\ work'.activationHeight = work.activationHeight
      /\ work'.withdrawals = work.withdrawals
  BY DEF IInv, TypeOK, ReplayTip
<1>2. tip' = tip /\ phase' = phase /\ phase = "messages"
  BY DEF Message
<1>3. IsSaneTip(work)'
  <2>1. SaneActivation(work)' /\ DistinctCtips(work)'
    BY <1>1 DEF IInv, IsSaneTip, SaneActivation, DistinctCtips
  <2>2. \A s \in Slots : /\ SaneTreasury(work, s)' /\ SaneBundles(work, s)'
                         /\ SaneM4(work.previousM4[s], work.active[s])'
    BY <1>1 DEF IInv, IsSaneTip, SaneTreasury, SaneBundles, SaneM4
  <2>3. \A s \in Slots : SaneProposals(work, s)'
    BY <1>1 DEF SaneProposals
  <2> QED
    BY <2>1, <2>2, <2>3 DEF IsSaneTip
<1>4. AckSlack' /\ M4Slack'
  BY <1>1, <1>2 DEF IInv, AckSlack, M4Slack
<1>5. /\ OldCtips(work, tip.height + 1, blk.txs)'
      /\ \A s \in Slots : SaneM4(blk.effective[s], work.active[s])'
  BY <1>1, <1>2 DEF IInv, OldCtips, SaneM4
<1> QED
  BY <1>1, <1>2, <1>3, <1>4, <1>5 DEF IInv, RequiredHeld

\* A treasury transaction moves the CTIPs of the slots it touches to fresh
\* outputs, and the rest of the copy but some pending bundles stays.
LEMMA InvTreasury ==
  ASSUME IInv, TypeOK', Transaction,
         NEW outs \in TreasuryOutputs,
         work'.height = work.height, work'.active = work.active,
         work'.proposals = work.proposals, work'.previousM4 = work.previousM4,
         work'.activated = work.activated,
         work'.activationHeight = work.activationHeight,
         \A s \in Slots : work'.withdrawals[s] \subseteq work.withdrawals[s],
         \A s \in Slots :
           IF s \in Touched(outs) THEN work'.ctip[s] = NewOutpoint(OutputOf(outs, s))
           ELSE work'.ctip[s] = work.ctip[s] /\ work'.value[s] = work.value[s],
         blk'.m2 = blk.m2, blk'.m4 = blk.m4, blk'.effective = blk.effective,
         blk'.txs = blk.txs + 1
  PROVE  IInv'
<1>1. tip' = tip /\ phase' = phase /\ phase = "transactions"
  BY DEF Transaction
<1>d. InvParts
  BY InvHasParts
<1>2. /\ work.height = tip.height + 1 /\ work.height \in Nat
      /\ tip.height \in Nat /\ blk.txs \in Nat
  BY <1>1 DEF IInv, TypeOK, ReplayTip, BlockLocals
<1>3. ASSUME NEW s \in Touched(outs)
      PROVE  /\ s \in Slots /\ work.active[s] # Null
             /\ work'.ctip[s] # Null
             /\ work'.ctip[s].height = work.height
             /\ work'.ctip[s].tx = blk.txs
             /\ work'.ctip[s].vout = OutputOf(outs, s)
  <2>1. s \in Slots /\ work.active[s] # Null
    BY DEF Touched, ActiveDrivechainSlots
  <2>2. OutputOf(outs, s) \in Nat
    BY OutputOfTouched
  <2>3. NewOutpoint(OutputOf(outs, s)) \in Outpoint
    BY <1>2, <2>2 DEF NewOutpoint, Outpoint
  <2>4. work'.ctip[s] = NewOutpoint(OutputOf(outs, s))
    BY <2>1
  <2> QED
    <3> DEFINE o == NewOutpoint(OutputOf(outs, s))
    <3>1. o.height = work.height /\ o.tx = blk.txs /\ o.vout = OutputOf(outs, s)
      BY DEF NewOutpoint
    <3>2. o # Null
      BY <2>3, ConstantsAssumption
    <3> HIDE DEF o
    <3> QED
      BY <2>1, <2>4, <3>1, <3>2 DEF o
<1>4. DistinctCtips(work)'
  <2> SUFFICES ASSUME NEW s \in Slots, NEW u \in Slots,
                      work'.ctip[s] # Null, work'.ctip[s] = work'.ctip[u]
               PROVE  s = u
    BY DEF DistinctCtips
  <2>1. ASSUME NEW a \in Slots \ Touched(outs), work.ctip[a] # Null
        PROVE  /\ work'.ctip[a] = work.ctip[a]
               /\ ~(work.ctip[a].height = work.height /\ work.ctip[a].tx = blk.txs)
    <3>1. work.ctip[a] \in Outpoint
      BY <2>1 DEF IInv, TypeOK, ReplayTip
    <3> QED
      BY <1>2, <1>d, <2>1, <3>1 DEF InvParts, OldCtips, Outpoint
  <2>2. CASE s \in Touched(outs) /\ u \in Touched(outs)
    <3>1. OutputOf(outs, s) = OutputOf(outs, u)
      <4>1. work'.ctip[s].vout = OutputOf(outs, s) /\ work'.ctip[u].vout = OutputOf(outs, u)
        BY <1>3, <2>2
      <4> QED
        BY <4>1
    <3>2. outs[OutputOf(outs, s)].slot = s /\ outs[OutputOf(outs, u)].slot = u
      BY <2>2, OutputOfTouched
    <3> QED
      BY <3>1, <3>2
  <2>3. CASE s \in Touched(outs) /\ u \notin Touched(outs)
    <3>1. work.ctip[u] # Null /\ work'.ctip[u] = work.ctip[u]
      BY <2>3
    <3>2. ~(work'.ctip[u].height = work.height /\ work'.ctip[u].tx = blk.txs)
      BY <2>1, <2>3, <3>1
    <3>3. work'.ctip[s].height = work.height /\ work'.ctip[s].tx = blk.txs
      BY <1>3, <2>3
    <3> QED
      BY <3>2, <3>3
  <2>4. CASE s \notin Touched(outs) /\ u \in Touched(outs)
    <3>1. work.ctip[s] # Null /\ work'.ctip[s] = work.ctip[s]
      BY <2>4
    <3>2. ~(work'.ctip[s].height = work.height /\ work'.ctip[s].tx = blk.txs)
      BY <2>1, <2>4, <3>1
    <3>3. work'.ctip[u].height = work.height /\ work'.ctip[u].tx = blk.txs
      BY <1>3, <2>4
    <3> QED
      BY <3>2, <3>3
  <2>5. CASE s \notin Touched(outs) /\ u \notin Touched(outs)
    <3>1. work.ctip[s] # Null /\ work.ctip[s] = work.ctip[u]
      BY <2>5
    <3> QED
      BY <3>1, <1>d DEF InvParts, SaneParts, DistinctCtips
  <2> QED
    BY <2>2, <2>3, <2>4, <2>5
<1>5. \A s \in Slots : SaneTreasury(work, s)'
  BY <1>3, Zenon DEF IInv, IsSaneTip, SaneTreasury
<1>6. IsSaneTip(work)'
  <2>1. SaneActivation(work)'
    BY DEF IInv, IsSaneTip, SaneActivation
  <2>2. \A s \in Slots : /\ SaneProposals(work, s)'
                         /\ SaneM4(work.previousM4[s], work.active[s])'
    <3>1. \A s \in Slots : SaneProposals(work, s)'
      BY <1>d, ProposalsFrame DEF InvParts
    <3> QED
      BY <1>d, <3>1 DEF InvParts, SaneParts
  <2>3. \A s \in Slots : SaneBundles(work, s)'
    BY <1>d, BundlesFrame DEF InvParts
  <2> QED
    BY <1>4, <1>5, <2>1, <2>2, <2>3 DEF IsSaneTip
<1>7. OldCtips(work, tip.height + 1, blk.txs)'
  <2> SUFFICES ASSUME NEW s \in Slots, work'.ctip[s] # Null
               PROVE  \/ work'.ctip[s].height < tip.height + 1
                      \/ /\ work'.ctip[s].height = tip.height + 1
                         /\ work'.ctip[s].tx < blk.txs + 1
    BY <1>1 DEF OldCtips
  <2>1. CASE s \in Touched(outs)
    <3>1. work'.ctip[s].height = tip.height + 1 /\ work'.ctip[s].tx = blk.txs
      BY <1>2, <1>3, <2>1
    <3> QED
      BY <1>2, <3>1, SMTT(30)
  <2>2. CASE s \notin Touched(outs)
    <3>1. work'.ctip[s] = work.ctip[s] /\ work.ctip[s] \in Outpoint
      BY <2>2 DEF IInv, TypeOK, ReplayTip
    <3> QED
      BY <1>2, <1>d, <3>1 DEF InvParts, OldCtips, Outpoint
  <2> QED
    BY <2>1, <2>2
<1>8. /\ AckSlack' /\ M4Slack'
      /\ \A s \in Slots : SaneM4(blk.effective[s], work.active[s])'
  BY <1>1, Zenon DEF IInv, AckSlack, M4Slack, SaneM4
<1> QED
  BY <1>1, <1>6, <1>7, <1>8 DEF IInv, RequiredHeld

LEMMA InvNext == IInv /\ [Next]_vars => IInv'
<1> SUFFICES ASSUME IInv, [Next]_vars PROVE IInv'
  OBVIOUS
<1>0. TypeOK /\ TypeOK'
  BY TypeNext DEF IInv
<1>a. tip \in ReplayTip /\ work \in ReplayTip /\ blk \in BlockLocals
  BY <1>0 DEF TypeOK
<1>b. tip.height \in Nat /\ work.height \in Nat
  BY <1>a DEF ReplayTip
<1>d. InvParts
  BY InvHasParts
<1>c. /\ NewBlock.m4 = FALSE /\ NewBlock.txs = 0
      /\ \A s \in Slots : \A active : SaneM4(NewBlock.effective[s], active)
  <2>1. \A s \in Slots : NewBlock.effective[s] = NoAction
    BY DEF NewBlock
  <2>2. NoAction.type = "none" /\ "none" # "alarm"
    BY DEF NoAction
  <2>3. \A s \in Slots : \A active : SaneM4(NewBlock.effective[s], active)
    BY <2>1, <2>2 DEF SaneM4
  <2> QED
    BY <2>3 DEF NewBlock
<1>1. CASE BeginBlock
  <2>1. /\ work'.height = tip.height + 1 /\ work'.active = tip.active
        /\ work'.proposals = tip.proposals /\ work'.ctip = tip.ctip
        /\ work'.value = tip.value /\ work'.previousM4 = tip.previousM4
        /\ work'.activated = tip.activated
        /\ work'.activationHeight = tip.activationHeight
        /\ work'.withdrawals = tip.withdrawals
    BY <1>1, <1>a DEF BeginBlock, ReplayTip
  <2>2. tip' = tip /\ blk' = NewBlock
    BY <1>1 DEF BeginBlock
  <2>3. \A s \in Slots : \A p \in tip.proposals[s] :
          /\ p.height <= tip.height /\ p.votes <= tip.height - p.height
          /\ p.height \in Nat /\ p.votes \in Nat
    <3> TAKE s \in Slots
    <3> TAKE p \in tip.proposals[s]
    <3>1. p \in Proposal
      BY <1>a DEF ReplayTip
    <3>2. p.height <= tip.height /\ p.votes <= tip.height - p.height
      BY <1>d, Zenon DEF InvParts, SaneParts, SaneProposals
    <3> QED
      BY <3>1, <3>2 DEF Proposal
  <2>4. \A s \in Slots : \A w \in tip.withdrawals[s] :
          /\ w.height <= tip.height /\ w.votes <= (tip.height - w.height) + 2
          /\ w.height \in Nat /\ w.votes \in Nat
    <3> TAKE s \in Slots
    <3> TAKE w \in tip.withdrawals[s]
    <3>1. w \in Bundle
      BY <1>a DEF ReplayTip
    <3>2. w.height <= tip.height /\ w.votes <= (tip.height - w.height) + 2
      BY <1>d DEF InvParts, SaneParts, SaneBundles
    <3> QED
      BY <3>1, <3>2 DEF Bundle
  <2>5. IsSaneTip(work)'
    <3>1. SaneParts(work)'
      BY <2>1, <1>a, <1>d, NextBlockFrame DEF InvParts
    <3> QED
      BY <3>1 DEF SaneParts, IsSaneTip
  <2>6. AckSlack'
    BY <2>1, <2>3, <1>b DEF AckSlack
  <2>7. M4Slack'
    BY <2>1, <2>4, <1>b DEF M4Slack
  <2>8. OldCtips(work, tip.height + 1, blk.txs)'
    BY <2>1, <2>2, <1>c DEF IInv, OldCtips
  <2>9. \A s \in Slots : SaneM4(blk.effective[s], work.active[s])'
    BY <2>2, <1>c
  <2> QED
    BY <1>0, <2>1, <2>2, <2>5, <2>6, <2>7, <2>8, <2>9 DEF IInv, RequiredHeld
<1>2. ASSUME NEW s \in Slots, NEW h \in Hashes, ProposeSidechain(s, h) PROVE IInv'
  <2>1. /\ Message /\ blk'.m2 = blk.m2 /\ blk'.m4 = blk.m4
        /\ blk'.effective = blk.effective /\ blk'.txs = blk.txs
    BY <1>2, <1>a DEF ProposeSidechain, BlockLocals
  <2>2. PICK new \in [Slots -> SUBSET Proposal] :
          /\ work' = [work EXCEPT !.proposals = new]
          /\ \A u \in Slots : \A p \in new[u] :
               p \in work.proposals[u] \/ (p.height = work.height /\ p.votes = 0)
    <3> DEFINE q == [hash |-> h, height |-> work.height, votes |-> 0]
               extended == [work.proposals EXCEPT ![s] = @ \cup {q}]
    <3>1. q \in Proposal
      BY <1>b DEF Proposal
    <3>2. work.proposals \in [Slots -> SUBSET Proposal]
      BY <1>a DEF ReplayTip
    <3>3. extended \in [Slots -> SUBSET Proposal]
      BY <3>1, <3>2
    <3>4. work = [work EXCEPT !.proposals = work.proposals]
      BY <1>a DEF ReplayTip
    <3>5. CASE \E p \in work.proposals[s] : p.hash = h
      <4>1. work' = work
        BY <1>2, <3>5 DEF ProposeSidechain
      <4> QED
        BY <4>1, <3>2, <3>4
    <3>6. CASE ~ \E p \in work.proposals[s] : p.hash = h
      <4>1. work' = [work EXCEPT !.proposals = extended]
        BY <1>2, <3>6 DEF ProposeSidechain
      <4>2. \A u \in Slots : \A p \in extended[u] : p \in work.proposals[u] \/ p = q
        BY <3>2
      <4> HIDE DEF extended
      <4> QED
        BY <4>1, <4>2, <3>3
    <3> QED
      BY <3>5, <3>6
  <2>3. \A u \in Slots : \A p \in new[u] :
          /\ p.height <= work.height
          /\ p.votes <= work.height - p.height
          /\ u \notin blk'.m2 /\ p.height < work.height =>
               p.votes < work.height - p.height
    BY <2>1, <2>2, <1>b DEF IInv, IsSaneTip, SaneProposals, AckSlack, Message
  <2>4. blk'.m2 \in SUBSET Slots
    BY <2>1, <1>a DEF BlockLocals
  <2> QED
    BY <1>0, <2>1, <2>2, <2>3, <2>4, InvProposals
<1>3. ASSUME NEW s \in Slots, NEW h \in Hashes, IgnoreAck(s, h) PROVE IInv'
  <2>1. /\ Message /\ blk'.m2 = blk.m2 \cup {s} /\ blk'.m4 = blk.m4
        /\ blk'.effective = blk.effective /\ blk'.txs = blk.txs
        /\ work' = work
    BY <1>3, <1>a DEF IgnoreAck, BlockLocals
  <2>2. work.proposals \in [Slots -> SUBSET Proposal]
    BY <1>a DEF ReplayTip
  <2>3. work' = [work EXCEPT !.proposals = work.proposals]
    BY <2>1, <1>a DEF ReplayTip
  <2>4. \A u \in Slots : \A p \in work.proposals[u] :
          /\ p.height <= work.height
          /\ p.votes <= work.height - p.height
          /\ u \notin blk'.m2 /\ p.height < work.height =>
               p.votes < work.height - p.height
    BY <2>1, Zenon DEF IInv, IsSaneTip, SaneProposals, AckSlack, Message
  <2>5. blk'.m2 \in SUBSET Slots /\ blk.m2 \subseteq blk'.m2
    BY <2>1, <1>a DEF BlockLocals
  <2> QED
    BY <1>0, <2>1, <2>2, <2>3, <2>4, <2>5, InvProposals, Zenon
<1>4. ASSUME NEW s \in Slots, NEW p \in work.proposals[s], AckSidechain(s, p) PROVE IInv'
  <2>1. /\ Message /\ blk'.m2 = blk.m2 \cup {s} /\ blk'.m4 = blk.m4
        /\ blk'.effective = blk.effective /\ blk'.txs = blk.txs
        /\ s \notin blk.m2 /\ p.height # work.height
    BY <1>4, <1>a DEF AckSidechain, BlockLocals
  <2> DEFINE q == [p EXCEPT !.votes = @ + 1]
             new == [work.proposals EXCEPT ![s] = (@ \ {p}) \cup {q}]
  <2>2. work.proposals \in [Slots -> SUBSET Proposal] /\ p \in Proposal
    BY <1>a DEF ReplayTip
  <2>3. q \in Proposal /\ q.height = p.height /\ q.votes = p.votes + 1
    BY <2>2 DEF Proposal
  <2>4. new \in [Slots -> SUBSET Proposal]
    BY <2>2, <2>3
  <2>5. work' = [work EXCEPT !.proposals = new]
    BY <1>4 DEF AckSidechain
  <2>6. p.height <= work.height /\ p.votes < work.height - p.height
    <3>1. p.height <= work.height /\ p.height \in Nat
      BY <2>2 DEF IInv, IsSaneTip, SaneProposals, Proposal
    <3>2. p.height < work.height
      BY <2>1, <3>1, <1>b
    <3> QED
      BY <2>1, <3>1, <3>2 DEF IInv, AckSlack, Message
  <2>7. \A u \in Slots : \A r \in new[u] : r \in work.proposals[u] \/ (u = s /\ r = q)
    BY <2>2
  <2> HIDE DEF new, q
  <2>8. \A u \in Slots : \A r \in new[u] :
          /\ r.height <= work.height
          /\ r.votes <= work.height - r.height
          /\ u \notin blk'.m2 /\ r.height < work.height =>
               r.votes < work.height - r.height
    <3> TAKE u \in Slots
    <3> TAKE r \in new[u]
    <3>1. CASE u = s /\ r = q
      BY <2>1, <2>2, <2>3, <2>6, <3>1, <1>b DEF Proposal
    <3>2. CASE r \in work.proposals[u]
      BY <2>1, <3>2 DEF IInv, IsSaneTip, SaneProposals, AckSlack, Message
    <3> QED
      BY <2>7, <3>1, <3>2
  <2>9. blk'.m2 \in SUBSET Slots /\ blk.m2 \subseteq blk'.m2
    BY <2>1, <1>a DEF BlockLocals
  <2> QED
    BY <1>0, <2>1, <2>4, <2>5, <2>8, <2>9, InvProposals
<1>5. ASSUME NEW s \in Slots, NEW p \in work.proposals[s], ActivateSidechain(s, p)
      PROVE  IInv'
  <2> DEFINE first == s = ConfiguredSlot /\ ~work.activated /\ p.hash = RequiredProposal
  <2>0. p.hash \in Hashes /\ p.hash # Null
    BY <1>a, ConstantsAssumption DEF ReplayTip, Proposal
  <2>1. /\ blk'.m2 = blk.m2 \cup {s} /\ blk'.m4 = blk.m4
        /\ blk'.effective = blk.effective /\ blk'.txs = blk.txs
        /\ tip' = tip /\ phase' = phase /\ phase = "messages"
    BY <1>5, <1>a DEF ActivateSidechain, Message, BlockLocals
  <2>2. /\ work'.height = work.height
        /\ work'.active = [work.active EXCEPT ![s] = p.hash]
        /\ work'.proposals = [work.proposals EXCEPT ![s] = @ \ {p}]
        /\ work'.ctip = work.ctip /\ work'.value = work.value
        /\ work'.previousM4 = work.previousM4
        /\ work'.withdrawals = work.withdrawals
        /\ work'.activationHeight = IF first THEN work.height ELSE work.activationHeight
    BY <1>5, <1>a DEF ActivateSidechain, ReplayTip
  <2>3. work'.activated <=> (work.activated \/ first)
    BY <1>5, <1>a, Zenon DEF ActivateSidechain, ReplayTip
  <2>4. /\ \A u \in Slots : work'.proposals[u] \subseteq work.proposals[u]
        /\ \A u \in Slots : work.active[u] # Null => work'.active[u] # Null
        /\ work'.active[s] = p.hash
        /\ \A u \in Slots : u # s => work'.active[u] = work.active[u]
        /\ work.activationHeight \in Nat
    <3>1. /\ work.active \in [Slots -> Hashes \cup {Null}]
          /\ work.proposals \in [Slots -> SUBSET Proposal]
          /\ work.activationHeight \in Nat
      BY <1>a DEF ReplayTip
    <3>2. /\ work'.active[s] = p.hash
          /\ \A u \in Slots : u # s => work'.active[u] = work.active[u]
      BY <2>2, <3>1
    <3>3. \A u \in Slots : work'.proposals[u] \subseteq work.proposals[u]
      BY <2>2, <3>1
    <3> QED
      BY <2>0, <3>1, <3>2, <3>3
  <2>5. RequiredHeld(work)'
    <3>1. s = ConfiguredSlot /\ work.activated => p.hash = RequiredProposal
      BY <1>5 DEF ActivateSidechain
    <3> QED
      BY <2>3, <2>4, <3>1, ConstantsAssumption DEF IInv, RequiredHeld
  <2>6. IsSaneTip(work)'
    <3>1. SaneActivation(work)'
      <4>1. RequiredProposal # Null
        BY ConstantsAssumption
      <4>2. CASE work'.activated
        <5>1. work'.active[ConfiguredSlot] # Null
          BY <2>5, <4>1, <4>2 DEF RequiredHeld
        <5>2. work'.activationHeight <= work'.height
          <6>1. CASE first
            BY <2>2, <6>1, <1>b
          <6>2. CASE ~first
            BY <2>2, <2>3, <4>2, <6>2, <1>d DEF InvParts, SaneParts, SaneActivation
          <6> QED
            BY <6>1, <6>2
        <5> QED
          BY <4>2, <5>1, <5>2 DEF SaneActivation
      <4>3. CASE ~work'.activated
        BY <2>2, <2>3, <4>3 DEF IInv, IsSaneTip, SaneActivation
      <4> QED
        BY <4>2, <4>3
    <3>2. DistinctCtips(work)'
      BY <2>2, <1>d, CtipsFrame, Zenon DEF InvParts, SaneParts
    <3>3. \A u \in Slots : /\ SaneTreasury(work, u)'
                           /\ SaneM4(work.previousM4[u], work.active[u])'
      <4> TAKE u \in Slots
      <4>1. SaneTreasury(work, u) /\ SaneM4(work.previousM4[u], work.active[u])
        BY <1>d DEF InvParts, SaneParts
      <4>2. SaneTreasury(work, u)'
        BY <2>2, <2>4, <4>1 DEF SaneTreasury
      <4>3. SaneM4(work.previousM4[u], work.active[u])'
        BY <2>2, <2>4, <4>1 DEF SaneM4
      <4> QED
        BY <4>2, <4>3
    <3>4. \A u \in Slots : SaneProposals(work, u)'
      BY <2>2, <2>4, Zenon DEF IInv, IsSaneTip, SaneProposals
    <3>5. \A u \in Slots : SaneBundles(work, u)'
      BY <2>2, <2>4, Zenon DEF IInv, IsSaneTip, SaneBundles
    <3> QED
      BY <3>1, <3>2, <3>3, <3>4, <3>5 DEF IsSaneTip
  <2>7. AckSlack' /\ M4Slack'
    BY <2>1, <2>2, <2>4, Zenon DEF IInv, AckSlack, M4Slack
  <2>8. \A u \in Slots : SaneM4(blk.effective[u], work.active[u])'
    BY <2>1, <2>4 DEF IInv, SaneM4
  <2>9. OldCtips(work, tip.height + 1, blk.txs)'
    BY <2>1, <2>2, Zenon DEF IInv, OldCtips
  <2> QED
    BY <1>0, <2>1, <2>2, <2>5, <2>6, <2>7, <2>8, <2>9, Zenon DEF IInv
<1>6. ASSUME NEW s \in Slots, NEW m \in M6ids, ProposeWithdrawal(s, m) PROVE IInv'
  <2> DEFINE new == [m6id |-> m, height |-> work.height, votes |-> 1]
  <2>1. /\ blk'.m2 = blk.m2 /\ blk'.m4 = blk.m4
        /\ blk'.effective = blk.effective /\ blk'.txs = blk.txs
        /\ tip' = tip /\ phase' = phase /\ phase = "messages"
        /\ work.active[s] # Null /\ ~Pending(work.withdrawals[s], m)
    BY <1>6, <1>a DEF ProposeWithdrawal, Message, BlockLocals, Used
  <2>2. /\ work'.height = work.height /\ work'.active = work.active
        /\ work'.proposals = work.proposals /\ work'.ctip = work.ctip
        /\ work'.value = work.value /\ work'.previousM4 = work.previousM4
        /\ work'.activated = work.activated
        /\ work'.activationHeight = work.activationHeight
        /\ work'.withdrawals[s] = work.withdrawals[s] \cup {new}
        /\ \A u \in Slots : u # s => work'.withdrawals[u] = work.withdrawals[u]
    BY <1>6, <1>a DEF ProposeWithdrawal, ReplayTip
  <2>3. new.m6id = m /\ new.height = work.height /\ new.votes = 1
    OBVIOUS
  <2> HIDE DEF new
  <2>4. ASSUME NEW u \in Slots PROVE SaneBundles(work, u)'
    <3>1. SaneBundles(work, u)
      BY Zenon DEF IInv, IsSaneTip
    <3>2. CASE u # s
      BY <2>2, <3>1, <3>2 DEF SaneBundles
    <3>3. CASE u = s
      <4>1. \A w \in work'.withdrawals[s] :
              w.height <= work.height /\ w.votes <= (work.height - w.height) + 2
        BY <2>2, <2>3, <3>1, <3>3, <1>b, SMTT(30) DEF SaneBundles
      <4>2. \A v, w \in work'.withdrawals[s] : v.m6id = w.m6id => v = w
        BY <2>1, <2>2, <2>3, <3>1, <3>3 DEF SaneBundles, Pending
      <4> QED
        BY <2>1, <2>2, <3>3, <4>1, <4>2 DEF SaneBundles
    <3> QED
      BY <3>2, <3>3
  <2>5. IsSaneTip(work)'
    <3>1. SaneActivation(work)' /\ DistinctCtips(work)'
      BY <2>2, <1>d, TipFrame DEF InvParts
    <3>2. \A u \in Slots : /\ SaneTreasury(work, u)' /\ SaneProposals(work, u)'
                           /\ SaneM4(work.previousM4[u], work.active[u])'
      <4>1. \A u \in Slots : SaneProposals(work, u)'
        BY <2>2, <1>d, ProposalsFrame DEF InvParts
      <4>2. \A u \in Slots : SaneTreasury(work, u)'
        BY <2>2, <1>d, TipFrame DEF InvParts
      <4> QED
        BY <2>2, <4>1, <4>2, <1>d, Zenon DEF InvParts, SaneParts
    <3> QED
      BY <2>4, <3>1, <3>2 DEF IsSaneTip
  <2>6. AckSlack'
    BY <2>1, <2>2 DEF IInv, AckSlack
  <2>7. M4Slack'
    <3> SUFFICES ASSUME ~blk.m4, NEW u \in Slots, NEW w \in work'.withdrawals[u]
                 PROVE  w.votes <= (work.height - w.height) + 1
      BY <2>1, <2>2 DEF M4Slack
    <3>1. CASE w \in work.withdrawals[u]
      BY <2>1, <3>1, <1>d, Zenon DEF InvParts, SaneParts, M4Slack
    <3>2. CASE w = new
      BY <2>3, <3>2, <1>b
    <3> QED
      BY <2>2, <3>1, <3>2
  <2>8. /\ OldCtips(work, tip.height + 1, blk.txs)'
        /\ \A u \in Slots : SaneM4(blk.effective[u], work.active[u])'
    <3>1. OldCtips(work, tip.height + 1, blk.txs)'
      BY <2>1, <2>2, <1>d DEF InvParts, OldCtips
    <3>2. \A u \in Slots : SaneM4(blk.effective[u], work.active[u])
      BY DEF IInv
    <3> QED
      BY <2>1, <2>2, <3>1, <3>2
  <2> QED
    BY <1>0, <2>1, <2>2, <2>5, <2>6, <2>7, <2>8, Zenon DEF IInv, RequiredHeld
<1>7. CASE AckExplicit
  <2>1. PICK request \in [Slots -> SlotVotes] : AckWithdrawals(request)
    BY <1>7 DEF AckExplicit
  <2>2. /\ request \in [Slots -> M4Action]
        /\ \A s \in Slots : request[s].type = "alarm" => request[s].m6id = Null
    BY <2>1 DEF SlotVotes, M4Action, NoAction
  <2> QED
    BY <1>0, <2>1, <2>2, InvAckWithdrawals
<1>8. CASE AckLeadingBy50
  <2> DEFINE request == [s \in Slots |->
        IF Used(work, s) THEN LeadingAction(work.withdrawals[s]) ELSE NoAction]
  <2>1. request \in [Slots -> M4Action]
    BY <1>a, LeadingActionType DEF ReplayTip, NoAction, M4Action
  <2>2. \A s \in Slots : request[s].type # "alarm"
    BY DEF LeadingAction, NoAction
  <2>3. AckWithdrawals(request)
    BY <1>8 DEF AckLeadingBy50
  <2> HIDE DEF request
  <2> QED
    BY <1>0, <2>1, <2>2, <2>3, InvAckWithdrawals
<1>9. CASE AckRepeatPrevious
  <2>1. work.previousM4 \in [Slots -> M4Action]
    BY <1>a DEF ReplayTip
  <2>2. \A s \in Slots :
          work.previousM4[s].type = "alarm" => work.previousM4[s].m6id = Null
    BY DEF IInv, IsSaneTip, SaneM4
  <2> QED
    BY <1>0, <1>9, <2>1, <2>2, InvAckWithdrawals DEF AckRepeatPrevious
<1>10. ASSUME NEW s \in Slots, NEW c \in SidechainHashes, AcceptBmm(s, c) PROVE IInv'
  <2>1. /\ blk'.m2 = blk.m2 /\ blk'.m4 = blk.m4
        /\ blk'.effective = blk.effective /\ blk'.txs = blk.txs
        /\ tip' = tip /\ phase' = phase /\ work' = work
    BY <1>10, <1>a DEF AcceptBmm, Message, BlockLocals
  <2> QED
    BY <1>0, <2>1 DEF IInv, AckSlack, M4Slack
<1>11. CASE Expire
  <2>1. tip' = tip /\ blk' = blk /\ phase = "messages" /\ phase' = "transactions"
    BY <1>11 DEF Expire
  <2>2. /\ work'.height = work.height /\ work'.active = work.active
        /\ work'.ctip = work.ctip /\ work'.value = work.value
        /\ work'.previousM4 = blk.effective
        /\ work'.activated = work.activated
        /\ work'.activationHeight = work.activationHeight
        /\ \A s \in Slots : work'.proposals[s] \subseteq work.proposals[s]
        /\ \A s \in Slots : work'.withdrawals[s] \subseteq work.withdrawals[s]
    BY <1>11, <1>a DEF Expire, ReplayTip
  <2>3. IsSaneTip(work)'
    <3>1. SaneActivation(work)' /\ DistinctCtips(work)'
      BY <2>2, <1>d, TipFrame DEF InvParts
    <3>2. \A s \in Slots : SaneTreasury(work, s)' /\ SaneProposals(work, s)'
      BY <2>2 DEF IInv, IsSaneTip, SaneTreasury, SaneProposals
    <3>3. \A s \in Slots : SaneM4(work.previousM4[s], work.active[s])'
      BY <2>2 DEF IInv
    <3>4. \A s \in Slots : SaneBundles(work, s)'
      BY <2>2, Zenon DEF IInv, IsSaneTip, SaneBundles
    <3> QED
      BY <3>1, <3>2, <3>3, <3>4, Zenon DEF IsSaneTip
  <2>4. /\ AckSlack' /\ M4Slack'
        /\ OldCtips(work, tip.height + 1, blk.txs)'
        /\ \A u \in Slots : SaneM4(blk.effective[u], work.active[u])'
    BY <2>1, <2>2, Zenon DEF IInv, AckSlack, M4Slack, OldCtips
  <2> QED
    BY <1>0, <2>1, <2>2, <2>3, <2>4, Zenon DEF IInv, RequiredHeld
<1>12. ASSUME NEW spends \in SUBSET Slots, NEW outs \in TreasuryOutputs,
              Deposit(spends, outs)
       PROVE  IInv'
  <2>1. /\ Transaction /\ blk'.m2 = blk.m2 /\ blk'.m4 = blk.m4
        /\ blk'.effective = blk.effective /\ blk'.txs = blk.txs + 1
    BY <1>12, <1>a DEF Deposit, BlockLocals
  <2>2. /\ work'.height = work.height /\ work'.active = work.active
        /\ work'.proposals = work.proposals /\ work'.previousM4 = work.previousM4
        /\ work'.activated = work.activated
        /\ work'.activationHeight = work.activationHeight
        /\ work'.withdrawals = work.withdrawals
        /\ work'.ctip = [s \in Slots |-> IF s \in Touched(outs)
                           THEN NewOutpoint(OutputOf(outs, s)) ELSE work.ctip[s]]
        /\ work'.value = [s \in Slots |-> IF s \in Touched(outs)
                            THEN NewValue(outs, s) ELSE work.value[s]]
    BY <1>12, <1>a DEF Deposit, ReplayTip
  <2> QED
    BY <1>0, <2>1, <2>2, InvTreasury
<1>13. ASSUME NEW spends \in SUBSET Slots, NEW outs \in TreasuryOutputs,
              NEW s \in Slots, NEW w \in work.withdrawals[s],
              Withdraw(spends, outs, s, w)
       PROVE  IInv'
  <2>1. /\ Transaction /\ blk'.m2 = blk.m2 /\ blk'.m4 = blk.m4
        /\ blk'.effective = blk.effective /\ blk'.txs = blk.txs + 1
        /\ Touched(outs) = {s} /\ OutputOf(outs, s) = 1
    BY <1>13, <1>a DEF Withdraw, BlockLocals
  <2>2. /\ work'.height = work.height /\ work'.active = work.active
        /\ work'.proposals = work.proposals /\ work'.previousM4 = work.previousM4
        /\ work'.activated = work.activated
        /\ work'.activationHeight = work.activationHeight
        /\ \A u \in Slots : work'.withdrawals[u] \subseteq work.withdrawals[u]
        /\ work'.ctip = [work.ctip EXCEPT ![s] = NewOutpoint(1)]
        /\ work'.value = [work.value EXCEPT ![s] = NewValue(outs, s)]
    BY <1>13, <1>a DEF Withdraw, ReplayTip
  <2>3. \A u \in Slots :
          IF u \in Touched(outs) THEN work'.ctip[u] = NewOutpoint(OutputOf(outs, u))
          ELSE work'.ctip[u] = work.ctip[u] /\ work'.value[u] = work.value[u]
    <3>1. work.ctip \in [Slots -> Outpoint \cup {Null}] /\ work.value \in [Slots -> 0..MaxMoney]
      BY <1>a DEF ReplayTip
    <3>2. work'.ctip[s] = NewOutpoint(1)
      BY <2>2, <3>1
    <3>3. \A u \in Slots : u # s => /\ work'.ctip[u] = work.ctip[u]
                                    /\ work'.value[u] = work.value[u]
      BY <2>2, <3>1
    <3> QED
      BY <2>1, <3>2, <3>3
  <2> QED
    BY <1>0, <2>1, <2>2, <2>3, InvTreasury
<1>14. ASSUME NEW s \in Slots, NEW c \in SidechainHashes, NEW prev \in 0..MaxHeight,
             RequestBmm(s, c, prev)
       PROVE IInv'
  BY <1>0, <1>14, Zenon DEF RequestBmm, Transaction, IInv, AckSlack, M4Slack
<1>15. CASE CommitBlock
  <2>1. /\ tip' = work /\ work' = work /\ phase' = "idle" /\ blk' = NewBlock
        /\ phase = "transactions"
    BY <1>15 DEF CommitBlock
  <2>2. work.height = tip.height + 1
    BY <2>1 DEF IInv
  <2>3. OldCtips(work, work.height + 1, 0)
    <3> SUFFICES ASSUME NEW s \in Slots, work.ctip[s] # Null
                 PROVE  work.ctip[s].height < work.height + 1
      BY DEF OldCtips
    <3>1. work.ctip[s] \in Outpoint
      BY <1>a DEF ReplayTip
    <3> QED
      BY <2>2, <3>1, <1>b, <1>d DEF InvParts, OldCtips, Outpoint
  <2>4. /\ OldCtips(tip, tip.height + 1, 0)'
        /\ OldCtips(work, tip.height + 1, blk.txs)'
    BY <2>1, <2>3, <1>c DEF OldCtips
  <2>5. /\ AckSlack' /\ M4Slack'
        /\ \A s \in Slots : SaneM4(blk.effective[s], work.active[s])'
    BY <2>1, <1>c DEF AckSlack, M4Slack
  <2>6. /\ IsSaneTip(tip)' /\ IsSaneTip(work)'
        /\ RequiredHeld(tip)' /\ RequiredHeld(work)'
    BY <2>1 DEF IInv
  <2> QED
    BY <1>0, <2>1, <2>4, <2>5, <2>6 DEF IInv
<1>16. CASE AbandonBlock
  <2>1. tip' = tip /\ work' = tip /\ phase' = "idle" /\ blk' = NewBlock
    BY <1>16 DEF AbandonBlock
  <2>2. OldCtips(work, tip.height + 1, blk.txs)'
    BY <2>1, <1>c DEF IInv, OldCtips
  <2>3. /\ AckSlack' /\ M4Slack'
        /\ \A s \in Slots : SaneM4(blk.effective[s], work.active[s])'
    BY <2>1, <1>c DEF AckSlack, M4Slack
  <2> QED
    BY <1>0, <2>1, <2>2, <2>3 DEF IInv
<1>17. CASE UNCHANGED vars
  BY <1>0, <1>17 DEF vars, IInv, AckSlack, M4Slack
<1> QED
  BY <1>1, <1>2, <1>3, <1>4, <1>5, <1>6, <1>7, <1>8, <1>9, <1>10, <1>11, <1>12,
     <1>13, <1>14, <1>15, <1>16, <1>17, Zenon DEF Next

\* No parent chain makes the replay commit a tip its own store would refuse.
THEOREM CommittedTipsAreSane == Spec => []CommittedTipIsSane
<1>1. IInv => CommittedTipIsSane
  BY DEF IInv, CommittedTipIsSane
<1> QED
  BY <1>1, InvInit, InvNext, PTL DEF Spec

\* No parent chain makes the replay fail one of the checks on its own state.
THEOREM ReplayStaysConsistent == Spec => []ConsistencyChecksPass
<1>1. IInv => ConsistencyChecksPass
  BY Zenon DEF IInv, IsSaneTip, SaneBundles, ConsistencyChecksPass
<1> QED
  BY <1>1, InvInit, InvNext, PTL DEF Spec
=============================================================================
