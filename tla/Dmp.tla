-------------------------------- MODULE Dmp --------------------------------
(***************************************************************************)
(* The downward message queue of polkadot/runtime/parachains/src/dmp.rs:   *)
(* per destination para, a FIFO queue of inbound messages, the message     *)
(* queue chain (MQC) head committing to every message admitted, and the    *)
(* delivery fee factor that the queue occupancy drives up and down.        *)
(*                                                                         *)
(* Callers of the pallet are modelled as the environment actions that the  *)
(* relay chain performs: a sender queues a message, a candidate of a para  *)
(* is backed (check_processed_downward_messages) and later enacted         *)
(* (prune_dmq), a block ends, a session changes (outgoing paras cleaned,   *)
(* the active configuration replaced).                                     *)
(***************************************************************************)
EXTENDS Naturals, Sequences, FiniteSets

CONSTANTS
  Paras,                 \* ParaId
  Payloads,              \* DownwardMessage payloads (model values)
  PayloadSize,           \* [Payloads -> Nat]: msg.len()
  ConfigSizes,           \* values max_downward_message_size may take
  MAX_POSSIBLE_ALLOCATION,
  THRESHOLD_FACTOR,
  MinFeeFactor,          \* GetMinFeeFactor, in units of 1/FixedOne
  FixedOne,              \* FixedU128 one, scaled down
  EXPONENTIAL_FEE_BASE,  \* in units of 1/FixedOne
  MESSAGE_SIZE_FEE_BASE, \* in units of 1/FixedOne
  KB,                    \* the size unit of the fee formula (1024 bytes)
  MaxFeeFactor,          \* FixedU128::MAX, scaled down: saturation point
  MaxBlock,              \* bound: last block number the model reaches
  MaxHistory,            \* bound: messages admitted per registration
  MaxProcessed,          \* bound: largest processed_downward_messages
  RelayParentLookback,   \* how many blocks back a relay parent may lie
  NoCandidate            \* no candidate of the para pending availability

ASSUME /\ PayloadSize \in [Payloads -> Nat]
       /\ ConfigSizes \subseteq Nat /\ ConfigSizes # {}
       /\ THRESHOLD_FACTOR \in Nat \ {0}
       /\ EXPONENTIAL_FEE_BASE >= FixedOne
       /\ MinFeeFactor <= MaxFeeFactor

VARIABLES
  now,                        \* frame_system block_number
  maxDownwardMessageSize,     \* ActiveConfig.max_downward_message_size
  heads,                      \* paras::Heads keys: the routable paras
  DownwardMessageQueues,      \* [Paras -> Seq(InboundDownwardMessage)]
  DownwardMessageQueueHeads,  \* [Paras -> MQC head]
  DeliveryFeeFactor,          \* [Paras -> fee factor]
  pendingCandidate,           \* per para: backed, not yet enacted
  configStable                \* history: the active configuration never changed

\* The pallet's state and its environment's; configStable is only history.
stateVars == <<now, maxDownwardMessageSize, heads, DownwardMessageQueues,
               DownwardMessageQueueHeads, DeliveryFeeFactor, pendingCandidate>>

vars == <<stateVars, configStable>>

InboundDownwardMessage == [msg : Payloads, sent_at : 0 .. MaxBlock]

Candidate == [processed : 0 .. MaxProcessed, relayParent : 0 .. MaxBlock]

(***************************************************************************)
(* The MQC.  The hash is collision resistant, so a link is modelled as the *)
(* injective triple it hashes: (prev_head, B, H(M)).  The zero hash is the *)
(* empty tuple.  Unchain recovers the admitted history a head commits to.  *)
(***************************************************************************)
ZeroHash == <<>>

Link(prev, inbound) == <<prev, inbound.sent_at, inbound.msg>>

RECURSIVE Unchain(_)
Unchain(h) ==
  IF h = ZeroHash THEN <<>>
  ELSE Append(Unchain(h[1]), [msg |-> h[3], sent_at |-> h[2]])

(***************************************************************************)
(* Limits derived from the configuration.                                  *)
(***************************************************************************)
DmqMaxLength(size) ==
  IF size = 0 THEN 0 ELSE MAX_POSSIBLE_ALLOCATION \div size

Threshold(size) == DmqMaxLength(size) \div THRESHOLD_FACTOR

DmqLength(p) == Len(DownwardMessageQueues[p])

(***************************************************************************)
(* The fee factor policy of the FeeTracker trait (outside this source      *)
(* tree): saturating fixed-point multiplication by                         *)
(* EXPONENTIAL_FEE_BASE + MESSAGE_SIZE_FEE_BASE * ceil(size / KB), and     *)
(* division by EXPONENTIAL_FEE_BASE floored at the minimum factor.         *)
(***************************************************************************)
CeilDiv(a, b) == (a + b - 1) \div b

IncreaseFeeFactor(f, size) ==
  LET v == (f * (EXPONENTIAL_FEE_BASE + MESSAGE_SIZE_FEE_BASE * CeilDiv(size, KB)))
             \div FixedOne
  IN IF v > MaxFeeFactor THEN MaxFeeFactor ELSE v

\* Mutation: the decrease without the floor.
DecreaseFeeFactorUnfloored(f) == (f * FixedOne) \div EXPONENTIAL_FEE_BASE

DecreaseFeeFactor(f) ==
  LET v == (f * FixedOne) \div EXPONENTIAL_FEE_BASE
  IN IF v < MinFeeFactor THEN MinFeeFactor ELSE v

(***************************************************************************)
(* can_queue_downward_message: the early returns in the order of the code. *)
(***************************************************************************)
CanQueueDownwardMessage(p, m) ==
  IF PayloadSize[m] > maxDownwardMessageSize THEN "ExceedsMaxMessageSize"
  ELSE IF DmqLength(p) > DmqMaxLength(maxDownwardMessageSize)
       THEN "ExceedsMaxMessageSize"
  ELSE IF p \notin heads THEN "Unroutable"
  ELSE "Ok"

CheckProcessedNoUnderflow(p, relayParent, processed) ==
  LET q == DownwardMessageQueues[p] IN
  IF /\ Len(q) > 0 /\ processed = 0
     /\ q[1].sent_at <= relayParent
  THEN "AdvancementRule"
  ELSE "Ok"

\* Mutation: no advancement rule.
CheckProcessedNoAdvancement(p, relayParent, processed) ==
  IF Len(DownwardMessageQueues[p]) < processed THEN "Underflow" ELSE "Ok"

CheckProcessedDownwardMessages(p, relayParent, processed) ==
  LET q == DownwardMessageQueues[p] IN
  IF /\ Len(q) > 0 /\ processed = 0
     /\ q[1].sent_at <= relayParent
  THEN "AdvancementRule"
  ELSE IF Len(q) < processed THEN "Underflow"
  ELSE "Ok"

(***************************************************************************)
(* clean_dmp_after_outgoing, for every outgoing para at once.  The fee     *)
(* factor is not touched.                                                  *)
(***************************************************************************)
\* Mutation: the MQC head is left behind.
CleanDmpKeepHeads(out) ==
  /\ DownwardMessageQueues' =
       [p \in Paras |-> IF p \in out THEN <<>> ELSE DownwardMessageQueues[p]]
  /\ UNCHANGED DownwardMessageQueueHeads

\* Mutation: every para is cleaned once some para goes out.
CleanDmpAllParas(out) ==
  /\ DownwardMessageQueues' =
       [p \in Paras |-> IF out # {} THEN <<>> ELSE DownwardMessageQueues[p]]
  /\ DownwardMessageQueueHeads' =
       [p \in Paras |-> IF out # {} THEN ZeroHash ELSE DownwardMessageQueueHeads[p]]

CleanDmpAfterOutgoing(out) ==
  /\ DownwardMessageQueues' =
       [p \in Paras |-> IF p \in out THEN <<>> ELSE DownwardMessageQueues[p]]
  /\ DownwardMessageQueueHeads' =
       [p \in Paras |-> IF p \in out THEN ZeroHash ELSE DownwardMessageQueueHeads[p]]

(***************************************************************************)
(* The state after a prune of `processed` messages: the queue with its     *)
(* prefix removed (clamped), then the fee relaxed against the threshold of *)
(* the configuration active now.                                           *)
(***************************************************************************)
\* Mutation: the newest messages are dropped (truncate for split_off).
PrunedQueueFromBack(q, processed) ==
  IF processed > Len(q) THEN <<>> ELSE SubSeq(q, 1, Len(q) - processed)

PrunedQueue(q, processed) ==
  IF processed > Len(q) THEN <<>> ELSE SubSeq(q, processed + 1, Len(q))

\* Mutation: the fee is relaxed only strictly below the threshold.
PruneDmqStrict(p, processed) ==
  LET q == PrunedQueue(DownwardMessageQueues[p], processed) IN
  /\ DownwardMessageQueues' = [DownwardMessageQueues EXCEPT ![p] = q]
  /\ DeliveryFeeFactor' =
       IF Len(q) < Threshold(maxDownwardMessageSize)
       THEN [DeliveryFeeFactor EXCEPT ![p] = DecreaseFeeFactor(@)]
       ELSE DeliveryFeeFactor

PruneDmq(p, processed) ==
  LET q == PrunedQueue(DownwardMessageQueues[p], processed) IN
  /\ DownwardMessageQueues' = [DownwardMessageQueues EXCEPT ![p] = q]
  /\ DeliveryFeeFactor' =
       IF Len(q) <= Threshold(maxDownwardMessageSize)
       THEN [DeliveryFeeFactor EXCEPT ![p] = DecreaseFeeFactor(@)]
       ELSE DeliveryFeeFactor

-----------------------------------------------------------------------------

Init ==
  /\ now = 0
  /\ maxDownwardMessageSize \in ConfigSizes
  /\ heads \in SUBSET Paras
  /\ DownwardMessageQueues = [p \in Paras |-> <<>>]
  /\ DownwardMessageQueueHeads = [p \in Paras |-> ZeroHash]
  /\ DeliveryFeeFactor = [p \in Paras |-> MinFeeFactor]
  /\ pendingCandidate = [p \in Paras |-> NoCandidate]
  /\ configStable = TRUE

\* Mutation: the threshold is compared with the length before the push.
QueueDownwardMessageOldLen(p, m) ==
  LET inbound == [msg |-> m, sent_at |-> now]
  IN
  /\ CanQueueDownwardMessage(p, m) = "Ok"
  /\ Len(Unchain(DownwardMessageQueueHeads[p])) < MaxHistory
  /\ DownwardMessageQueueHeads' =
       [DownwardMessageQueueHeads EXCEPT ![p] = Link(@, inbound)]
  /\ DownwardMessageQueues' =
       [DownwardMessageQueues EXCEPT ![p] = Append(@, inbound)]
  /\ DeliveryFeeFactor' =
       IF DmqLength(p) > Threshold(maxDownwardMessageSize)
       THEN [DeliveryFeeFactor EXCEPT ![p] = IncreaseFeeFactor(@, PayloadSize[m])]
       ELSE DeliveryFeeFactor
  /\ UNCHANGED <<now, maxDownwardMessageSize, heads, pendingCandidate>>

(***************************************************************************)
(* queue_downward_message(config = ActiveConfig, p, m) when it returns Ok: *)
(* new MQC link, push, and the fee raised above the threshold.             *)
(***************************************************************************)
QueueDownwardMessage(p, m) ==
  LET inbound == [msg |-> m, sent_at |-> now]
      qLen == DmqLength(p) + 1
  IN
  /\ CanQueueDownwardMessage(p, m) = "Ok"
  /\ Len(Unchain(DownwardMessageQueueHeads[p])) < MaxHistory
  /\ DownwardMessageQueueHeads' =
       [DownwardMessageQueueHeads EXCEPT ![p] = Link(@, inbound)]
  /\ DownwardMessageQueues' =
       [DownwardMessageQueues EXCEPT ![p] = Append(@, inbound)]
  /\ DeliveryFeeFactor' =
       IF qLen > Threshold(maxDownwardMessageSize)
       THEN [DeliveryFeeFactor EXCEPT ![p] = IncreaseFeeFactor(@, PayloadSize[m])]
       ELSE DeliveryFeeFactor
  /\ UNCHANGED <<now, maxDownwardMessageSize, heads, pendingCandidate>>

(***************************************************************************)
(* A candidate of para p, built on relay parent rp and claiming to have    *)
(* processed n downward messages, passes the acceptance check and is       *)
(* backed.  A failed check leaves every variable unchanged.                *)
(***************************************************************************)
BackCandidate(p, rp, n) ==
  /\ p \in heads
  /\ pendingCandidate[p] = NoCandidate
  /\ CheckProcessedDownwardMessages(p, rp, n) = "Ok"
  /\ pendingCandidate' =
       [pendingCandidate EXCEPT ![p] = [processed |-> n, relayParent |-> rp]]
  /\ UNCHANGED <<now, maxDownwardMessageSize, heads, DownwardMessageQueues,
                 DownwardMessageQueueHeads, DeliveryFeeFactor>>

\* Relay parents a candidate backed now may be built on.
AllowedRelayParents ==
  (IF now > RelayParentLookback THEN now - RelayParentLookback ELSE 0) .. now

BackSomeCandidate(p) ==
  \E rp \in AllowedRelayParents, n \in 0 .. MaxProcessed : BackCandidate(p, rp, n)

(***************************************************************************)
(* The backed candidate of p is enacted: prune_dmq with its count.         *)
(***************************************************************************)
EnactCandidate(p) ==
  /\ pendingCandidate[p] # NoCandidate
  /\ PruneDmq(p, pendingCandidate[p].processed)
  /\ pendingCandidate' = [pendingCandidate EXCEPT ![p] = NoCandidate]
  /\ UNCHANGED <<now, maxDownwardMessageSize, heads, DownwardMessageQueueHeads>>

NewBlock ==
  /\ now < MaxBlock
  /\ now' = now + 1
  /\ UNCHANGED <<maxDownwardMessageSize, heads, DownwardMessageQueues,
                 DownwardMessageQueueHeads, DeliveryFeeFactor, pendingCandidate>>

(***************************************************************************)
(* initializer_on_new_session: the outgoing paras lose their head and are  *)
(* cleaned up (perform_outgoing_para_cleanup); onboarded paras gain one;   *)
(* candidates pending availability are dropped; the pending configuration *)
(* becomes active.                                                         *)
(***************************************************************************)
SessionChange(out, in, size) ==
  /\ CleanDmpAfterOutgoing(out)
  /\ heads' = (heads \ out) \cup in
  /\ maxDownwardMessageSize' = size
  /\ pendingCandidate' = [p \in Paras |-> NoCandidate]
  /\ UNCHANGED <<now, DeliveryFeeFactor>>

SessionChangeStep ==
  \E out \in SUBSET heads, in \in SUBSET (Paras \ heads), size \in ConfigSizes :
    SessionChange(out, in, size)

\* The history variable: cleared by the first session change that makes a
\* different configuration active.  It constrains no step.
ConfigHistory ==
  configStable' = (configStable /\ maxDownwardMessageSize' = maxDownwardMessageSize)

Next ==
  /\ \/ \E p \in Paras, m \in Payloads : QueueDownwardMessage(p, m)
     \/ \E p \in Paras : BackSomeCandidate(p)
     \/ \E p \in Paras : EnactCandidate(p)
     \/ NewBlock
     \/ SessionChangeStep
  /\ ConfigHistory

Spec == Init /\ [][Next]_vars

\* Collators of an onboarded para keep producing candidates and the relay
\* chain keeps backing them, and a candidate that is again and again
\* waiting for enactment is eventually enacted even though session changes
\* (which drop pending candidates) may keep happening.  This is an
\* assumption about the environment of dmp.rs, not something the pallet
\* guarantees.
FairSpec ==
  /\ Spec
  /\ \A p \in Paras : WF_stateVars(BackSomeCandidate(p)) /\ SF_stateVars(EnactCandidate(p))

-----------------------------------------------------------------------------
(***************************************************************************)
(* Properties                                                              *)
(***************************************************************************)

\* Types; the fee factor stays between the floor GetMinFeeFactor and the
\* saturation point of FixedU128.
TypeOK ==
  /\ now \in 0 .. MaxBlock
  /\ maxDownwardMessageSize \in ConfigSizes
  /\ heads \subseteq Paras
  /\ DownwardMessageQueues \in [Paras -> Seq(InboundDownwardMessage)]
  /\ \A p \in Paras :
       Unchain(DownwardMessageQueueHeads[p]) \in Seq(InboundDownwardMessage)
  /\ DeliveryFeeFactor \in [Paras -> MinFeeFactor .. MaxFeeFactor]
  /\ pendingCandidate \in [Paras -> Candidate \cup {NoCandidate}]
  /\ configStable \in BOOLEAN

\* No dangling storage: a para without a head (never onboarded, or
\* offboarded by a session change) has an empty queue and the zero MQC
\* head.  Admission must refuse unroutable paras (can_queue_downward_message)
\* and clean_dmp_after_outgoing must remove both storage items.
NoDanglingQueue ==
  \A p \in Paras \ heads :
    /\ DownwardMessageQueues[p] = <<>>
    /\ DownwardMessageQueueHeads[p] = ZeroHash

PruneNeverClamps ==
  [][\A p \in Paras :
       EnactCandidate(p) => pendingCandidate[p].processed <= DmqLength(p)
    ]_vars

\* The closed loop of the fee controller: queue_downward_message raises
\* the factor when an admission leaves more than the threshold queued
\* (dmp.rs:239) and prune_dmq lowers it when a prune leaves at most the
\* threshold (dmp.rs:297).  While the configuration stays the same, the two
\* conditions around the one threshold must not drift apart: whatever
\* sequence of admissions, prunes, offboardings and re-onboardings led
\* here, a queue above the threshold carries a factor above the floor.
\* (After a configuration change the threshold moves under a queue without
\* any admission or prune, so the coupling is stated for a stable one.)
CongestedQueueCarriesRaisedFee ==
  configStable =>
    \A p \in Paras :
      DmqLength(p) > Threshold(maxDownwardMessageSize)
        => DeliveryFeeFactor[p] > MinFeeFactor

\* Disjoint partition per destination (spec, design notes): the queue,
\* the MQC head and the fee factor of a para change only in a step that
\* is about that para: a message queued to it, its own candidate
\* enacted, or its offboarding by a session change.  Sending to, pruning
\* or cleaning up one para never disturbs another.
DisjointPartition ==
  [][\A p \in Paras :
       ( \/ DownwardMessageQueues'[p] # DownwardMessageQueues[p]
         \/ DownwardMessageQueueHeads'[p] # DownwardMessageQueueHeads[p]
         \/ DeliveryFeeFactor'[p] # DeliveryFeeFactor[p] )
       => \/ \E m \in Payloads : QueueDownwardMessage(p, m)
          \/ EnactCandidate(p)
          \/ p \in heads /\ p \notin heads'
    ]_vars

\* The hard limit (module docs: messages that would increase the number of
\* messages above it are dropped; spec: the length never exceeds
\* hard_limit(config)).
CapacityBound ==
  \A p \in Paras : DmqLength(p) <= DmqMaxLength(maxDownwardMessageSize)

\* A para that from some point on stays onboarded and keeps having
\* candidates enacted sees its whole queue consumed: the advancement rule
\* of check_processed_downward_messages forbids candidates that ignore an
\* eligible message forever.
QueueEventuallyDrains ==
  \A p \in Paras :
    <>[](p \in heads) => <>[](DmqLength(p) = 0)

\* Under the same conditions the fee factor comes back to the floor: the
\* prune of prune_dmq relaxes it whenever it leaves the queue at or below
\* the threshold of the active configuration.
FeeEventuallyRelaxes ==
  \A p \in Paras :
    <>[](p \in heads) => <>[](DeliveryFeeFactor[p] = MinFeeFactor)

\* Refinement: the MQC heads and queues implement the abstract mailbox.
\* The history a head commits to only ever grows by appending the message
\* just queued, the queue is always its unconsumed tail, messages leave
\* only from the front, and history is dropped only by decommission.
AbstractMailbox ==
  INSTANCE Mailbox
    WITH log <- [p \in Paras |-> Unchain(DownwardMessageQueueHeads[p])],
         mailbox <- DownwardMessageQueues,
         Messages <- InboundDownwardMessage

MailboxRefinement == AbstractMailbox!MSpec


=============================================================================
