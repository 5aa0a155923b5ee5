------------------------ MODULE StreamConsumerProofs ------------------------
(***************************************************************************)
(* What holds of the consumer loop for every number of consumers, batch    *)
(* size, stream length and number of faults.                               *)
(***************************************************************************)
EXTENDS StreamConsumer, FiniteSetTheorems, TLAPS

(* No consumer runs before the group exists, and the group has delivered   *)
(* nothing before it exists.                                               *)
GroupFirst ==
    /\ ~group => delivered = 0
    /\ \A c \in Consumers : pc[c] # "down" => group

(* What a consumer still holds was delivered to it alone and never tried.  *)
HeldOnce ==
    /\ \A c \in Consumers : \A e \in batch[c] :
         attempts[e] = 0 /\ e \in pending /\ e \notin applied
    /\ \A c, d \in Consumers : c # d => batch[c] \cap batch[d] = {}

(* Nothing is tried before it is delivered. *)
Untried == \A e \in Entries : e > delivered => attempts[e] = 0

(* Only what was applied is acknowledged. *)
AckAfterApply == \A c \in Consumers : pc[c] = "acking" => cur[c] \in applied

(* The inductive invariant. *)
IInv ==
    /\ TypeOK
    /\ GroupFirst
    /\ HeldOnce
    /\ Untried
    /\ AckAfterApply
    /\ HandledAtMostOnce
    /\ NoSilentLoss

-----------------------------------------------------------------------------
(* A consumer is handed exactly the entries between the old and the new    *)
(* last-delivered-id, all of them in the stream.                           *)
LEMMA TakeBounds ==
    ASSUME ConsumerAssumption, TypeOK, delivered < entries
    PROVE  /\ Lesser(delivered + Count, entries) \in (delivered + 1)..entries
           /\ NewMessages = (delivered + 1)..Lesser(delivered + Count, entries)
           /\ NewMessages \subseteq 1..Lesser(delivered + Count, entries)
           /\ NewMessages \subseteq Entries
BY DEF ConsumerAssumption, TypeOK, Lesser, NewMessages, Entries

LEMMA SpendBound ==
    ASSUME ConsumerAssumption, TypeOK, Spend \/ UNCHANGED faults
    PROVE  faults' \in 0..MaxFaults
BY DEF ConsumerAssumption, TypeOK, Spend

LEMMA InitIInv == ConsumerAssumption /\ Init => IInv
<1> SUFFICES ASSUME ConsumerAssumption, Init PROVE IInv
  OBVIOUS
<1> USE DEF ConsumerAssumption, Init, ConsumerInit
<1>1. TypeOK
  <2>1. 0 \in 0..MaxEntries /\ 0 \in 0..MaxFaults /\ 0 \in 0..0
    OBVIOUS
  <2>2. entries \in 0..MaxEntries /\ group \in BOOLEAN /\ faults \in 0..MaxFaults
    BY <2>1
  <2>3. delivered \in 0..entries /\ pending \subseteq 1..delivered /\ applied \subseteq 1..delivered
    BY <2>1
  <2>4. pc \in [Consumers -> {"down", "running", "acking"}]
    OBVIOUS
  <2>5. batch \in [Consumers -> SUBSET (1..delivered)] /\ cur \in [Consumers -> 0..delivered]
    BY <2>1
  <2>6. attempts \in [Entries -> Nat]
    OBVIOUS
  <2> QED BY <2>2, <2>3, <2>4, <2>5, <2>6 DEF TypeOK
<1>2. GroupFirst /\ HeldOnce /\ AckAfterApply
  BY DEF GroupFirst, HeldOnce, AckAfterApply
<1>3. Untried /\ HandledAtMostOnce
  BY DEF Untried, HandledAtMostOnce
<1>4. NoSilentLoss
  BY DEF NoSilentLoss
<1> QED BY <1>1, <1>2, <1>3, <1>4 DEF IInv

(* Both forms of a read, which differ in whether the reply arrives.        *)
LEMMA TakeIInv ==
    ASSUME ConsumerAssumption, IInv, NEW c \in Consumers, Idle(c), Take,
           batch' = [batch EXCEPT ![c] = NewMessages] \/ batch' = batch,
           faults' \in 0..MaxFaults,
           UNCHANGED <<entries, group, pc, cur, attempts, applied>>
    PROVE  IInv'
<1> DEFINE top == Lesser(delivered + Count, entries)
<1> USE DEF IInv
<1>1. /\ top \in (delivered + 1)..entries
      /\ NewMessages = (delivered + 1)..top
      /\ NewMessages \subseteq Entries
      /\ delivered' = top
      /\ pending' = pending \cup NewMessages
  BY TakeBounds DEF Take
<1>2. delivered \in Nat /\ entries \in Nat /\ top \in Nat /\ delivered < top /\ top <= entries
  BY <1>1 DEF TypeOK
<1>3. \A e \in NewMessages : attempts[e] = 0 /\ e \notin applied /\ e \in 1..top
  <2> SUFFICES ASSUME NEW e \in NewMessages
               PROVE  attempts[e] = 0 /\ e \notin applied /\ e \in 1..top
    OBVIOUS
  <2>1. e \in (delivered + 1)..top /\ e \in Entries
    BY <1>1
  <2>2. e \in 1..top /\ e > delivered
    BY <2>1, <1>2
  <2>3. e \notin 1..delivered
    BY <2>2, <1>2
  <2> QED BY <2>1, <2>2, <2>3 DEF TypeOK, Untried
<1>4. TypeOK'
  <2>1. pending' \subseteq 1..delivered'
    <3> SUFFICES ASSUME NEW p \in pending' PROVE p \in 1..top
      BY <1>1
    <3>1. CASE p \in pending
      BY <3>1, <1>2 DEF TypeOK
    <3>2. CASE p \in (delivered + 1)..top
      BY <3>2, <1>2
    <3> QED BY <1>1, <3>1, <3>2
  <2>2. batch' \in [Consumers -> SUBSET (1..delivered')]
    BY <1>1, <1>2, <1>3 DEF TypeOK
  <2>3. cur' \in [Consumers -> 0..delivered'] /\ applied' \subseteq 1..delivered'
    BY <1>1, <1>2 DEF TypeOK
  <2> QED BY <1>1, <1>2, <2>1, <2>2, <2>3 DEF TypeOK
<1>5. GroupFirst'
  BY DEF Idle, GroupFirst
<1>6. HeldOnce'
  <2>1. \A d \in Consumers : batch'[d] \subseteq batch[d] \cup NewMessages
    BY DEF TypeOK
  <2>2. \A d \in Consumers : d # c => batch'[d] = batch[d]
    BY DEF TypeOK
  <2>3. \A d \in Consumers : batch[d] \cap NewMessages = {}
    BY <1>1, <1>2 DEF TypeOK
  <2>4. batch'[c] \subseteq NewMessages
    BY DEF TypeOK, Idle
  <2> QED BY <1>1, <1>3, <2>1, <2>2, <2>3, <2>4 DEF HeldOnce
<1>7. Untried'
  BY <1>1, <1>2 DEF Untried, TypeOK, Entries, ConsumerAssumption
<1>8. AckAfterApply' /\ HandledAtMostOnce'
  BY DEF AckAfterApply, HandledAtMostOnce
<1>9. NoSilentLoss'
  BY <1>1, <1>2 DEF NoSilentLoss
<1> QED BY <1>4, <1>5, <1>6, <1>7, <1>8, <1>9

(* The handler is called, with either outcome.                             *)
LEMMA HandleIInv ==
    ASSUME ConsumerAssumption, IInv, NEW c \in Consumers, NEW e \in Entries, NEW ok \in BOOLEAN,
           Handle(c, e, ok), faults' \in 0..MaxFaults
    PROVE  IInv'
<1> USE DEF IInv
<1>1. e \in batch[c] /\ batch' = [batch EXCEPT ![c] = batch[c] \ {e}]
  BY DEF Handle, OldestOfBatch
<1>2. attempts' = [attempts EXCEPT ![e] = attempts[e] + 1] /\ UNCHANGED redis
  BY DEF Handle
<1>3. /\ applied' = IF ok THEN applied \cup {e} ELSE applied
      /\ pc' = IF ok THEN [pc EXCEPT ![c] = "acking"] ELSE pc
      /\ cur' = IF ok THEN [cur EXCEPT ![c] = e] ELSE cur
  BY DEF Handle
<1>4. e \in 1..delivered /\ attempts[e] = 0
  BY <1>1 DEF TypeOK, HeldOnce
<1>5. TypeOK'
  BY <1>1, <1>2, <1>3, <1>4 DEF TypeOK, redis
<1>6. GroupFirst'
  BY <1>2, <1>3 DEF GroupFirst, Handle, TypeOK, redis
<1>7. HeldOnce'
  <2>1. \A d \in Consumers : batch'[d] \subseteq batch[d] /\ e \notin batch'[d]
    BY <1>1 DEF HeldOnce, TypeOK
  <2>2. \A d \in Consumers : \A k \in batch'[d] : k # e /\ attempts'[k] = attempts[k]
    BY <1>2, <2>1 DEF TypeOK
  <2> QED BY <1>2, <1>3, <2>1, <2>2 DEF HeldOnce, redis
<1>8. Untried'
  BY <1>2, <1>4 DEF Untried, TypeOK, redis, Entries
<1>9. AckAfterApply'
  BY <1>3 DEF AckAfterApply, TypeOK, Handle
<1>10. HandledAtMostOnce'
  BY <1>2, <1>4 DEF HandledAtMostOnce, TypeOK
<1>11. NoSilentLoss'
  BY <1>2, <1>3 DEF NoSilentLoss, redis
<1> QED BY <1>5, <1>6, <1>7, <1>8, <1>9, <1>10, <1>11

(* The loop among publishers that may add entries at any time, and spend   *)
(* faults of their own: what OpenNext preserves holds wherever the loop is *)
(* composed with the programs that feed it.                                *)
Grow ==
    /\ entries' \in entries..MaxEntries
    /\ faults' \in 0..MaxFaults
    /\ UNCHANGED <<group, delivered, pending, loop, attempts, applied>>

HandleAny(c) ==
    \E e \in Entries, ok \in BOOLEAN : Handle(c, e, ok) /\ faults' \in 0..MaxFaults

OpenNext ==
    \/ Grow
    \/ \E c \in Consumers :
         Start(c) \/ Read(c) \/ ReadLost(c) \/ HandleAny(c) \/ Ack(c) \/ Stop(c)

LEMMA Opened == ASSUME ConsumerAssumption, IInv, [Next]_vars PROVE OpenNext
<1> USE DEF IInv
<1>1. CASE Add \/ UNCHANGED vars
  BY <1>1 DEF Add, vars, redis, loop, TypeOK, ConsumerAssumption, OpenNext, Grow
<1>2. ASSUME NEW c \in Consumers, Process(c) PROVE OpenNext
  <2>1. faults' \in 0..MaxFaults
    BY <1>2, SpendBound DEF Process
  <2> QED BY <1>2, <2>1 DEF Process, OpenNext, HandleAny
<1> QED BY <1>1, <1>2 DEF Next, OpenNext

LEMMA OpenIInv == ASSUME ConsumerAssumption, IInv, OpenNext PROVE IInv'
<1> USE DEF IInv
<1>1. CASE Grow
  BY <1>1 DEF Grow, loop, TypeOK, GroupFirst, HeldOnce, Untried, AckAfterApply,
              HandledAtMostOnce, NoSilentLoss, ConsumerAssumption
<1>2. ASSUME NEW c \in Consumers, Start(c) PROVE IInv'
  <2>1. delivered' = delivered /\ group' /\ pc' = [pc EXCEPT ![c] = "running"]
    BY <1>2 DEF Start, GroupFirst, GroupStart
  <2> QED
    BY <1>2, <2>1 DEF Start, TypeOK, GroupFirst, HeldOnce, Untried, AckAfterApply,
                      HandledAtMostOnce, NoSilentLoss
<1>3. ASSUME NEW c \in Consumers, Read(c) PROVE IInv'
  BY <1>3, TakeIInv DEF Read, TypeOK
<1>4. ASSUME NEW c \in Consumers, ReadLost(c) PROVE IInv'
  <2>1. faults' \in 0..MaxFaults
    BY <1>4, SpendBound DEF ReadLost
  <2> QED BY <1>4, <2>1, TakeIInv DEF ReadLost, loop
<1>5. ASSUME NEW c \in Consumers, HandleAny(c) PROVE IInv'
  BY <1>5, HandleIInv DEF HandleAny
<1>6. ASSUME NEW c \in Consumers, Ack(c) PROVE IInv'
  <2>1. faults' \in 0..MaxFaults
    BY <1>6, SpendBound DEF Ack
  <2>2. cur[c] \in applied /\ pending \ {cur[c]} \subseteq pending' /\ pending' \subseteq pending
    BY <1>6 DEF Ack, AckedBy, AckAfterApply
  <2>3. TypeOK'
    BY <1>6, <2>1, <2>2 DEF Ack, TypeOK
  <2>4. HeldOnce'
    BY <1>6, <2>2 DEF Ack, HeldOnce
  <2>5. GroupFirst' /\ Untried' /\ AckAfterApply' /\ HandledAtMostOnce'
    BY <1>6 DEF Ack, GroupFirst, Untried, AckAfterApply, HandledAtMostOnce, TypeOK
  <2>6. NoSilentLoss'
    BY <1>6, <2>2 DEF Ack, NoSilentLoss
  <2> QED BY <2>3, <2>4, <2>5, <2>6
<1>7. ASSUME NEW c \in Consumers, Stop(c) PROVE IInv'
  <2>1. faults' \in 0..MaxFaults
    BY <1>7, SpendBound DEF Stop
  <2>2. \A d \in Consumers : batch'[d] \subseteq batch[d]
    BY <1>7 DEF Stop, TypeOK
  <2>3. TypeOK'
    BY <1>7, <2>1 DEF Stop, TypeOK, redis
  <2>4. HeldOnce'
    BY <1>7, <2>2 DEF Stop, HeldOnce, redis
  <2>5. GroupFirst' /\ Untried' /\ AckAfterApply' /\ HandledAtMostOnce' /\ NoSilentLoss'
    BY <1>7 DEF Stop, GroupFirst, Untried, AckAfterApply, HandledAtMostOnce, NoSilentLoss,
                TypeOK, redis
  <2> QED BY <2>3, <2>4, <2>5
<1> QED BY <1>1, <1>2, <1>3, <1>4, <1>5, <1>6, <1>7 DEF OpenNext

LEMMA NextIInv == ConsumerAssumption /\ IInv /\ [Next]_vars => IInv'
BY Opened, OpenIInv

(* The inductive invariant holds of every behaviour.                       *)
THEOREM Inductive == Spec => []IInv
<1>1. Init => IInv
  BY InitIInv, ConsumerAssumption
<1>2. IInv /\ [Next]_vars => IInv'
  BY NextIInv, ConsumerAssumption
<1> QED BY <1>1, <1>2, PTL DEF Spec

(* The books of the group keep their types: nothing pending, in a batch or *)
(* applied lies beyond the last-delivered-id, nor that beyond the stream.  *)
THEOREM TypeCorrect == Spec => []TypeOK
<1>1. IInv => TypeOK
  BY DEF IInv
<1> QED BY <1>1, Inductive, PTL

(* However many processes start, stop, read and lose replies, no message   *)
(* is given to the handler twice: delivery by ">" is at most once.         *)
THEOREM AtMostOnce == Spec => []HandledAtMostOnce
<1>1. IInv => HandledAtMostOnce
  BY DEF IInv
<1> QED BY <1>1, Inductive, PTL

(* The loop acknowledges a message only after its handler succeeded: what  *)
(* was delivered and not applied is still in the pending list.             *)
THEOREM NoLoss == Spec => []NoSilentLoss
<1>1. IInv => NoSilentLoss
  BY DEF IInv
<1> QED BY <1>1, Inductive, PTL

-----------------------------------------------------------------------------
(* Stranded entries *)

(* What a consumer has in hand: the rest of its batch and the message it   *)
(* is about to acknowledge.                                                *)
Hand(c) == batch[c] \cup ({cur[c]} \ {0})

(* A hand holds one batch at most, and only between handler and XACK is   *)
(* there a message to acknowledge.                                         *)
HandsBound ==
    \A c \in Consumers :
        /\ IsFiniteSet(Hand(c)) /\ Cardinality(Hand(c)) <= Count
        /\ pc[c] # "acking" => cur[c] = 0

StrandedInv == IInv /\ HandsBound /\ StrandedByFaultsOnly

(* What is new in the pending list is in a hand or in S, and what leaves   *)
(* the hands is no longer pending or in S: only S can be newly stranded.   *)
LEMMA StrandedStep ==
    ASSUME TypeOK, NEW S,
           \A e \in pending' : e \in pending \cup S \/ \E c \in Consumers : e \in Hand(c)',
           \A c \in Consumers : \A e \in Hand(c) : e \in Hand(c)' \cup S \/ e \notin pending'
    PROVE  Stranded' \subseteq Stranded \cup S
<1> SUFFICES ASSUME NEW e \in Stranded', e \notin S PROVE e \in Stranded
  OBVIOUS
<1>1. e \in pending' /\ \A c \in Consumers : e \notin batch'[c] /\ e # cur'[c]
  <2>1. e \in pending' /\ e \notin InHand'
    BY DEF Stranded
  <2>2. \A c \in Consumers : batch'[c] \subseteq InHand' /\ cur'[c] \in InHand'
    BY DEF InHand
  <2> QED BY <2>1, <2>2
<1>2. \A c \in Consumers : e \notin Hand(c)'
  BY <1>1 DEF Hand
<1>3. e \in pending /\ \A c \in Consumers : e \notin Hand(c)
  BY <1>1, <1>2
<1>4. e # 0
  BY <1>3 DEF TypeOK
<1>5. \A c \in Consumers : e \notin batch[c] /\ e # cur[c]
  BY <1>3, <1>4 DEF Hand
<1>6. e \notin UNION {batch[c] : c \in Consumers} /\ e \notin {cur[c] : c \in Consumers}
  BY <1>5
<1> QED BY <1>3, <1>6 DEF Stranded, InHand

(* A batch is no larger than Count. *)
LEMMA BatchBound ==
    ASSUME ConsumerAssumption, TypeOK, delivered < entries
    PROVE  IsFiniteSet(NewMessages) /\ Cardinality(NewMessages) <= Count
<1> DEFINE top == Lesser(delivered + Count, entries)
<1>1. /\ NewMessages = (delivered + 1)..top
      /\ delivered \in Nat /\ entries \in Nat /\ Count \in Nat
  BY TakeBounds DEF TypeOK, ConsumerAssumption
<1>2. top \in Nat /\ delivered + 1 <= top /\ top - delivered <= Count
  BY <1>1 DEF Lesser, ConsumerAssumption
<1> HIDE DEF top
<1>3. /\ IsFiniteSet((delivered + 1)..top)
      /\ Cardinality((delivered + 1)..top) = top - (delivered + 1) + 1
  <2>1. delivered + 1 \in Int /\ top \in Int /\ ~(delivered + 1 > top)
    BY <1>1, <1>2
  <2> QED BY <2>1, FS_Interval
<1> QED BY <1>1, <1>2, <1>3

(* Entries that join the stranded ones, no more than the faults allow.     *)
LEMMA StrandedGrow ==
    ASSUME ConsumerAssumption, TypeOK, StrandedByFaultsOnly, NEW S, IsFiniteSet(S),
           NEW n \in Nat, Cardinality(S) <= n * Count, Stranded' \subseteq Stranded \cup S,
           faults' = faults + n
    PROVE  StrandedByFaultsOnly'
<1>1. faults \in Nat /\ Count \in Nat /\ delivered \in Nat
  BY DEF TypeOK, ConsumerAssumption
<1>2. IsFiniteSet(Stranded)
  <2>1. Stranded \subseteq 1..delivered
    BY DEF TypeOK, Stranded
  <2>2. IsFiniteSet(1..delivered)
    BY <1>1, FS_Interval
  <2> QED BY <2>1, <2>2, FS_Subset
<1>3. /\ IsFiniteSet(Stranded \cup S)
      /\ Cardinality(Stranded \cup S)
            = Cardinality(Stranded) + Cardinality(S) - Cardinality(Stranded \cap S)
  BY <1>2, FS_Union
<1>4. IsFiniteSet(Stranded \cap S)
  BY <1>2, FS_Intersection
<1>5. Cardinality(Stranded') <= Cardinality(Stranded \cup S) /\ Cardinality(Stranded') \in Nat
  BY <1>3, FS_Subset, FS_CardinalityType
<1>6. /\ Cardinality(Stranded) \in Nat /\ Cardinality(S) \in Nat
      /\ Cardinality(Stranded \cap S) \in Nat
  BY <1>2, <1>4, FS_CardinalityType
<1>7. /\ faults * Count \in Nat /\ n * Count \in Nat
      /\ (faults + n) * Count = faults * Count + n * Count
  BY <1>1
<1>8. Cardinality(Stranded) <= faults * Count
  BY DEF StrandedByFaultsOnly
<1>9. Cardinality(Stranded') <= faults * Count + n * Count
  BY <1>3, <1>5, <1>6, <1>7, <1>8
<1> QED BY <1>7, <1>9 DEF StrandedByFaultsOnly

(* A step that strands nothing. *)
LEMMA StrandedKept ==
    ASSUME ConsumerAssumption, TypeOK, StrandedByFaultsOnly, Stranded' \subseteq Stranded,
           faults' = faults \/ Spend
    PROVE  StrandedByFaultsOnly'
<1>1. IsFiniteSet({}) /\ Cardinality({}) = 0
  BY FS_EmptySet
<1>2. PICK n \in {0, 1} : faults' = faults + n
  BY DEF Spend, TypeOK
<1>3. Cardinality({}) <= n * Count
  BY <1>1, <1>2 DEF ConsumerAssumption
<1> QED BY <1>1, <1>2, <1>3, StrandedGrow

(* A step that spends a fault strands what one hand can hold. *)
LEMMA StrandedOnce ==
    ASSUME ConsumerAssumption, TypeOK, StrandedByFaultsOnly, NEW S, IsFiniteSet(S),
           Cardinality(S) <= Count, Stranded' \subseteq Stranded \cup S, Spend
    PROVE  StrandedByFaultsOnly'
<1>1. faults' = faults + 1 /\ Cardinality(S) <= 1 * Count
  BY DEF Spend, ConsumerAssumption
<1> QED BY <1>1, StrandedGrow

(* Hands that only lose messages stay within the bound. *)
LEMMA HandsKept ==
    ASSUME HandsBound, ConsumerAssumption, \A c \in Consumers : Hand(c)' \subseteq Hand(c),
           \A c \in Consumers : pc'[c] # "acking" => cur'[c] = 0
    PROVE  HandsBound'
<1> SUFFICES ASSUME NEW c \in Consumers
             PROVE  IsFiniteSet(Hand(c)') /\ Cardinality(Hand(c)') <= Count
  BY DEF HandsBound
<1>1. IsFiniteSet(Hand(c)) /\ Cardinality(Hand(c)) <= Count /\ Hand(c)' \subseteq Hand(c)
  BY DEF HandsBound
<1>2. /\ IsFiniteSet(Hand(c)') /\ Cardinality(Hand(c)') <= Cardinality(Hand(c))
      /\ Cardinality(Hand(c)') \in Nat /\ Cardinality(Hand(c)) \in Nat
  BY <1>1, FS_Subset, FS_CardinalityType
<1> QED BY <1>1, <1>2 DEF ConsumerAssumption

LEMMA OneInHand ==
    ASSUME ConsumerAssumption, NEW e
    PROVE  IsFiniteSet({e}) /\ Cardinality({e}) <= Count
<1>1. IsFiniteSet({e}) /\ Cardinality({e}) = 1
  BY FS_Singleton
<1> QED BY <1>1 DEF ConsumerAssumption

LEMMA TakeStranded ==
    ASSUME ConsumerAssumption, StrandedInv, TypeOK', NEW c \in Consumers, Idle(c), Take,
           \/ batch' = [batch EXCEPT ![c] = NewMessages] /\ faults' = faults
           \/ batch' = batch /\ Spend,
           UNCHANGED <<entries, group, pc, cur, attempts, applied>>
    PROVE  HandsBound' /\ StrandedByFaultsOnly'
<1>1. /\ pending' = pending \cup NewMessages /\ cur[c] = 0
      /\ IsFiniteSet(NewMessages) /\ Cardinality(NewMessages) <= Count
  BY BatchBound DEF StrandedInv, IInv, HandsBound, Idle, Take
<1>2. TypeOK /\ batch[c] = {}
  BY DEF StrandedInv, IInv, Idle
<1>3. CASE batch' = [batch EXCEPT ![c] = NewMessages] /\ faults' = faults
  <2>1. /\ \A d \in Consumers : d # c => Hand(d)' = Hand(d)
        /\ Hand(c) = {} /\ Hand(c)' = NewMessages
    BY <1>1, <1>2, <1>3 DEF Hand, TypeOK
  <2>2. HandsBound'
    BY <1>1, <2>1 DEF HandsBound, StrandedInv
  <2>3. Stranded' \subseteq Stranded \cup {}
    <3>1. \A e \in pending' : e \in pending \cup {} \/ \E d \in Consumers : e \in Hand(d)'
      BY <1>1, <2>1
    <3>2. \A d \in Consumers : \A e \in Hand(d) : e \in Hand(d)' \cup {} \/ e \notin pending'
      BY <2>1
    <3> QED BY <1>2, <3>1, <3>2, StrandedStep
  <2> QED BY <1>2, <1>3, <2>2, <2>3, StrandedKept DEF StrandedInv
<1>4. CASE batch' = batch /\ Spend
  <2>1. \A d \in Consumers : Hand(d)' = Hand(d)
    BY <1>4 DEF Hand
  <2>2. Stranded' \subseteq Stranded \cup NewMessages
    BY <1>1, <1>2, <2>1, StrandedStep
  <2>3. HandsBound'
    BY <2>1, HandsKept DEF HandsBound, StrandedInv
  <2> QED BY <1>1, <1>2, <1>4, <2>2, <2>3, StrandedOnce DEF StrandedInv
<1> QED BY <1>3, <1>4

LEMMA HandleStranded ==
    ASSUME ConsumerAssumption, StrandedInv, TypeOK', NEW c \in Consumers, NEW e \in Entries,
           \/ Handle(c, e, TRUE) /\ faults' = faults
           \/ Handle(c, e, FALSE) /\ Spend
    PROVE  HandsBound' /\ StrandedByFaultsOnly'
<1>1. TypeOK /\ cur[c] = 0 /\ pending' = pending /\ e # 0
  BY DEF StrandedInv, IInv, HandsBound, Handle, redis, Entries
<1>2. e \in batch[c] /\ batch' = [batch EXCEPT ![c] = batch[c] \ {e}]
  BY DEF Handle, OldestOfBatch
<1>3. CASE Handle(c, e, TRUE) /\ faults' = faults
  <2>1. pc' = [pc EXCEPT ![c] = "acking"] /\ cur' = [cur EXCEPT ![c] = e]
    BY <1>3 DEF Handle
  <2>2. \A d \in Consumers : Hand(d)' = Hand(d)
    BY <1>1, <1>2, <2>1 DEF Hand, TypeOK
  <2>3. \A d \in Consumers : pc'[d] # "acking" => cur'[d] = 0
    BY <1>1, <2>1 DEF HandsBound, StrandedInv, TypeOK
  <2>4. Stranded' \subseteq Stranded \cup {}
    BY <1>1, <2>2, StrandedStep
  <2> QED BY <1>1, <1>3, <2>2, <2>3, <2>4, HandsKept, StrandedKept DEF StrandedInv
<1>4. CASE Handle(c, e, FALSE) /\ Spend
  <2>1. pc' = pc /\ cur' = cur
    BY <1>4 DEF Handle
  <2>2. /\ \A d \in Consumers : d # c => Hand(d)' = Hand(d)
        /\ Hand(c)' = Hand(c) \ {e}
    BY <1>1, <1>2, <2>1 DEF Hand, TypeOK
  <2>3. \A d \in Consumers : pc'[d] # "acking" => cur'[d] = 0
    BY <2>1 DEF HandsBound, StrandedInv
  <2>4. Stranded' \subseteq Stranded \cup {e}
    BY <1>1, <2>2, StrandedStep
  <2>5. \A d \in Consumers : Hand(d)' \subseteq Hand(d)
    BY <2>2
  <2>6. HandsBound'
    BY <2>3, <2>5, HandsKept DEF StrandedInv
  <2> QED BY <1>1, <1>4, <2>4, <2>6, OneInHand, StrandedOnce DEF StrandedInv
<1> QED BY <1>3, <1>4

LEMMA AckStranded ==
    ASSUME ConsumerAssumption, StrandedInv, TypeOK', NEW c \in Consumers, Ack(c)
    PROVE  HandsBound' /\ StrandedByFaultsOnly'
<1>1. /\ TypeOK /\ batch' = batch /\ cur' = [cur EXCEPT ![c] = 0]
      /\ pc' = [pc EXCEPT ![c] = "running"]
  BY DEF StrandedInv, IInv, Ack
<1>2. /\ \A d \in Consumers : d # c => Hand(d)' = Hand(d)
      /\ Hand(c)' \subseteq Hand(c) /\ Hand(c) \subseteq Hand(c)' \cup {cur[c]}
  BY <1>1 DEF Hand, TypeOK
<1>3. HandsBound'
  <2>1. \A d \in Consumers : pc'[d] # "acking" => cur'[d] = 0
    BY <1>1 DEF HandsBound, StrandedInv, TypeOK
  <2>2. \A d \in Consumers : Hand(d)' \subseteq Hand(d)
    BY <1>2
  <2> QED BY <2>1, <2>2, HandsKept DEF StrandedInv
<1>4. CASE pending' = pending \ {cur[c]} /\ faults' = faults
  <2>1. Stranded' \subseteq Stranded \cup {}
    <3>1. \A e \in pending' : e \in pending \cup {}
      BY <1>4
    <3>2. \A d \in Consumers : \A e \in Hand(d) : e \in Hand(d)' \cup {} \/ e \notin pending'
      BY <1>2, <1>4
    <3> QED BY <1>1, <3>1, <3>2, StrandedStep
  <2> QED BY <1>1, <1>3, <1>4, <2>1, StrandedKept DEF StrandedInv
<1>5. CASE pending' = pending /\ Spend
  <2>1. Stranded' \subseteq Stranded \cup {cur[c]}
    <3>1. \A d \in Consumers : \A e \in Hand(d) : e \in Hand(d)' \cup {cur[c]}
      BY <1>2
    <3> QED BY <1>1, <1>5, <3>1, StrandedStep
  <2> QED BY <1>1, <1>3, <1>5, <2>1, OneInHand, StrandedOnce DEF StrandedInv
<1> QED BY <1>4, <1>5 DEF Ack, AckedBy

LEMMA StopStranded ==
    ASSUME ConsumerAssumption, StrandedInv, TypeOK', NEW c \in Consumers, Stop(c)
    PROVE  HandsBound' /\ StrandedByFaultsOnly'
<1>1. /\ TypeOK /\ Spend /\ pending' = pending
      /\ batch' = [batch EXCEPT ![c] = {}] /\ cur' = [cur EXCEPT ![c] = 0]
      /\ pc' = [pc EXCEPT ![c] = "down"]
  BY DEF StrandedInv, IInv, Stop, redis
<1>2. /\ \A d \in Consumers : d # c => Hand(d)' = Hand(d)
      /\ Hand(c)' = {}
  BY <1>1 DEF Hand, TypeOK
<1>3. HandsBound'
  <2>1. \A d \in Consumers : pc'[d] # "acking" => cur'[d] = 0
    BY <1>1 DEF HandsBound, StrandedInv, TypeOK
  <2>2. \A d \in Consumers : Hand(d)' \subseteq Hand(d)
    BY <1>2
  <2> QED BY <2>1, <2>2, HandsKept DEF StrandedInv
<1>4. Stranded' \subseteq Stranded \cup Hand(c)
  <2>1. \A d \in Consumers : \A e \in Hand(d) : e \in Hand(d)' \cup Hand(c)
    BY <1>2
  <2> QED BY <1>1, <2>1, StrandedStep
<1>5. IsFiniteSet(Hand(c)) /\ Cardinality(Hand(c)) <= Count
  BY DEF StrandedInv, HandsBound
<1> QED BY <1>1, <1>3, <1>4, <1>5, StrandedOnce DEF StrandedInv

LEMMA NextStranded == ConsumerAssumption /\ StrandedInv /\ [Next]_vars => StrandedInv'
<1> SUFFICES ASSUME ConsumerAssumption, StrandedInv, [Next]_vars PROVE StrandedInv'
  OBVIOUS
<1>1. IInv' /\ TypeOK' /\ TypeOK
  BY NextIInv DEF StrandedInv, IInv
<1>2. ASSUME UNCHANGED <<pending, batch, cur, faults>>,
             \A c \in Consumers : pc'[c] # "acking" => cur'[c] = 0
      PROVE  HandsBound' /\ StrandedByFaultsOnly'
  <2>1. Stranded' = Stranded /\ \A c \in Consumers : Hand(c)' = Hand(c)
    BY <1>2 DEF Stranded, InHand, Hand
  <2> QED BY <1>1, <1>2, <2>1, HandsKept, StrandedKept DEF StrandedInv
<1>3. CASE Add \/ UNCHANGED vars
  BY <1>1, <1>2, <1>3 DEF Add, vars, redis, loop, StrandedInv, HandsBound
<1>4. ASSUME NEW c \in Consumers, Start(c) PROVE HandsBound' /\ StrandedByFaultsOnly'
  <2>1. pc[c] = "down" /\ pc' = [pc EXCEPT ![c] = "running"]
        /\ UNCHANGED <<pending, batch, cur, faults>>
    BY <1>4 DEF Start
  <2> QED BY <1>1, <1>2, <2>1 DEF StrandedInv, HandsBound, TypeOK
<1>5. ASSUME NEW c \in Consumers, Read(c) \/ ReadLost(c)
      PROVE  HandsBound' /\ StrandedByFaultsOnly'
  BY <1>1, <1>5, TakeStranded DEF Read, ReadLost, loop
<1>6. ASSUME NEW c \in Consumers, Process(c) PROVE HandsBound' /\ StrandedByFaultsOnly'
  BY <1>1, <1>6, HandleStranded DEF Process
<1>7. ASSUME NEW c \in Consumers, Ack(c) \/ Stop(c) PROVE HandsBound' /\ StrandedByFaultsOnly'
  BY <1>1, <1>7, AckStranded, StopStranded
<1> QED BY <1>1, <1>3, <1>4, <1>5, <1>6, <1>7 DEF Next, StrandedInv

(* Nothing but failures leaves a message pending with nobody to handle it, *)
(* and each failure -- a lost reply, a handler's error, a lost             *)
(* acknowledgement, a stop -- at most one batch.                           *)
THEOREM FaultsStrand == Spec => []StrandedByFaultsOnly
<1>1. Init => StrandedInv
  <2> SUFFICES ASSUME Init PROVE StrandedInv
    OBVIOUS
  <2>1. IInv
    BY InitIInv, ConsumerAssumption
  <2>2. IsFiniteSet({}) /\ Cardinality({}) = 0
    BY FS_EmptySet
  <2>3. Stranded = {} /\ faults = 0 /\ \A c \in Consumers : Hand(c) = {} /\ cur[c] = 0
    BY DEF Init, ConsumerInit, Stranded, Hand
  <2> QED BY <2>1, <2>2, <2>3, ConsumerAssumption
        DEF StrandedInv, HandsBound, StrandedByFaultsOnly, ConsumerAssumption
<1>2. StrandedInv /\ [Next]_vars => StrandedInv'
  BY NextStranded, ConsumerAssumption
<1>3. StrandedInv => StrandedByFaultsOnly
  BY DEF StrandedInv
<1> QED BY <1>1, <1>2, <1>3, PTL DEF Spec

-----------------------------------------------------------------------------
(* The loop implements the abstract delivery. *)

(* A step that changes the fate of the messages of S, and of no other.     *)
LEMMA MoveByFate ==
    ASSUME NEW S \in SUBSET Entries, NEW from, NEW to,
           \A e \in S : Fate(e) = from /\ Fate(e)' = to,
           \A e \in Entries \ S : Fate(e)' = Fate(e)
    PROVE  Delivery!Move(S, from, to)
BY DEF Delivery!Move, Delivery!Entries, Entries

(* A step that changes no message's fate.                                  *)
LEMMA StutterByFate ==
    ASSUME \A e \in Entries : Fate(e)' = Fate(e)
    PROVE  UNCHANGED [e \in Entries |-> Fate(e)]
OBVIOUS

(* A step that leaves the stream, the offset, the batches and the applied  *)
(* messages alone.                                                         *)
LEMMA SameFate ==
    ASSUME UNCHANGED <<entries, delivered, batch, applied>>
    PROVE  \A e \in Entries : Fate(e)' = Fate(e)
BY DEF Fate

LEMMA InitDelivery == ConsumerAssumption /\ Init => Delivery!Init
BY DEF Init, ConsumerInit, Delivery!Init, Delivery!Entries, Entries, Fate, ConsumerAssumption

(* XADD publishes one event, and its repetition another.                  *)
LEMMA GrowDelivery ==
    ASSUME ConsumerAssumption, IInv, Grow
    PROVE  Delivery!Next
<1> DEFINE S == {e \in Entries : e > entries /\ e <= entries'}
<1>1. /\ entries \in Nat /\ entries' \in Nat /\ delivered \in Nat
      /\ delivered <= entries /\ entries <= entries'
  BY DEF IInv, TypeOK, Grow, ConsumerAssumption
<1>2. ASSUME NEW e \in S PROVE Fate(e) = "unpublished" /\ Fate(e)' = "queued"
  BY <1>1 DEF Fate, Grow, Entries
<1>3. ASSUME NEW e \in Entries \ S PROVE Fate(e)' = Fate(e)
  BY <1>1 DEF Fate, Grow, loop, Entries
<1>4. Delivery!Move(S, "unpublished", "queued")
  BY <1>2, <1>3, MoveByFate
<1> QED BY <1>4 DEF Delivery!Next, Delivery!Publish, Delivery!Entries, Entries

(* XREADGROUP delivers a batch, into a consumer's hands or, when the reply *)
(* is lost, to nobody.                                                     *)
LEMMA TakeDelivery ==
    ASSUME ConsumerAssumption, IInv, NEW c \in Consumers, Take,
           NEW to \in {"held", "parked"},
           batch' = IF to = "held" THEN [batch EXCEPT ![c] = NewMessages] ELSE batch,
           batch[c] = {}, UNCHANGED <<entries, applied>>
    PROVE  Delivery!Next
<1> DEFINE top == Lesser(delivered + Count, entries)
<1>1. /\ top \in (delivered + 1)..entries
      /\ NewMessages = (delivered + 1)..top
      /\ NewMessages \subseteq Entries
      /\ delivered' = top
  BY TakeBounds DEF Take, IInv
<1>2. delivered \in Nat /\ entries \in Nat /\ top \in Nat /\ delivered < top /\ top <= entries
  BY <1>1 DEF TypeOK, IInv
<1>3. \A e \in NewMessages : e \notin applied /\ \A d \in Consumers : e \notin batch[d]
  BY <1>1, <1>2 DEF TypeOK, IInv
<1>4. \A e \in NewMessages : Fate(e) = "queued" /\ Fate(e)' = to
  <2> SUFFICES ASSUME NEW e \in NewMessages PROVE Fate(e) = "queued" /\ Fate(e)' = to
    OBVIOUS
  <2>1. e \in Nat /\ delivered < e /\ e <= top /\ e <= entries
    BY <1>1, <1>2
  <2>2. Fate(e) = "queued"
    BY <1>2, <2>1 DEF Fate
  <2>3. Fate(e)' = IF \E d \in Consumers : e \in batch'[d] THEN "held" ELSE "parked"
    BY <1>1, <1>2, <1>3, <2>1 DEF Fate
  <2>4. CASE to = "held"
    <3>1. e \in batch'[c]
      BY <2>4 DEF IInv, TypeOK
    <3> QED BY <2>2, <2>3, <2>4, <3>1
  <2>5. CASE to = "parked"
    BY <1>3, <2>2, <2>3, <2>5
  <2> QED BY <2>4, <2>5
<1>5. \A e \in Entries \ NewMessages : Fate(e)' = Fate(e)
  <2> SUFFICES ASSUME NEW e \in Entries, e \notin NewMessages PROVE Fate(e)' = Fate(e)
    OBVIOUS
  <2>1. e \in Nat /\ (e <= delivered \/ e > top)
    BY <1>1, <1>2 DEF Entries
  <2>2. \A d \in Consumers : e \in batch'[d] <=> e \in batch[d]
    BY DEF IInv, TypeOK
  <2> QED BY <1>1, <1>2, <2>1, <2>2 DEF Fate
<1>6. \A e \in NewMessages, k \in Entries : k < e /\ Fate(k) = "queued" => k \in NewMessages
  BY <1>1, <1>2 DEF Fate, Entries
<1>7. Delivery!Move(NewMessages, "queued", to)
  BY <1>1, <1>4, <1>5, MoveByFate
<1>8. Delivery!Deliver
  <2>1. \A e \in NewMessages, k \in Delivery!Entries :
          k < e /\ [x \in Entries |-> Fate(x)][k] = "queued" => k \in NewMessages
    BY <1>6 DEF Delivery!Entries, Entries
  <2> QED BY <1>1, <1>7, <2>1 DEF Delivery!Deliver, Delivery!Entries, Entries
<1> QED BY <1>8 DEF Delivery!Next

(* The handler's answer decides between applied and parked.                *)
LEMMA HandleDelivery ==
    ASSUME ConsumerAssumption, IInv, NEW c \in Consumers, NEW e \in Entries, NEW ok \in BOOLEAN,
           Handle(c, e, ok)
    PROVE  Delivery!Next
<1> DEFINE to == IF ok THEN "applied" ELSE "parked"
<1>1. /\ e \in batch[c]
      /\ batch' = [batch EXCEPT ![c] = batch[c] \ {e}]
      /\ applied' = IF ok THEN applied \cup {e} ELSE applied
      /\ entries' = entries /\ delivered' = delivered
  BY DEF Handle, OldestOfBatch, redis
<1>2. e \in 1..delivered /\ e <= entries /\ e \notin applied
      /\ \A d \in Consumers : d # c => e \notin batch[d]
  BY <1>1 DEF IInv, TypeOK, HeldOnce
<1>3. \A d \in Consumers : e \notin batch'[d]
  BY <1>1, <1>2 DEF IInv, TypeOK
<1>4. Fate(e) = "held" /\ Fate(e)' = to
  <2>1. ~(e > entries) /\ ~(e > delivered)
    BY <1>2 DEF IInv, TypeOK
  <2> QED BY <1>1, <1>2, <1>3, <2>1 DEF Fate
<1>5. \A k \in Entries \ {e} : Fate(k)' = Fate(k)
  <2> SUFFICES ASSUME NEW k \in Entries, k # e PROVE Fate(k)' = Fate(k)
    OBVIOUS
  <2>1. \A d \in Consumers : k \in batch'[d] <=> k \in batch[d]
    BY <1>1 DEF IInv, TypeOK
  <2>2. k \in applied' <=> k \in applied
    BY <1>1
  <2> QED BY <1>1, <2>1, <2>2 DEF Fate
<1>6. Delivery!Move({e}, "held", to)
  BY <1>4, <1>5, MoveByFate
<1> QED BY <1>6 DEF Delivery!Next, Delivery!Attempt, Delivery!Entries, Entries

(* A process that ends parks what it still had in hand.                    *)
LEMMA StopDelivery ==
    ASSUME ConsumerAssumption, IInv, NEW c \in Consumers, Stop(c)
    PROVE  Delivery!Next
<1>1. /\ batch' = [batch EXCEPT ![c] = {}]
      /\ UNCHANGED <<entries, delivered, applied>>
  BY DEF Stop, redis
<1>2. batch[c] \subseteq Entries
  BY DEF IInv, TypeOK, Entries, ConsumerAssumption
<1>3. \A e \in batch[c] : Fate(e) = "held" /\ Fate(e)' = "parked"
  <2> SUFFICES ASSUME NEW e \in batch[c] PROVE Fate(e) = "held" /\ Fate(e)' = "parked"
    OBVIOUS
  <2>1. ~(e > entries) /\ ~(e > delivered) /\ e \notin applied
    BY DEF IInv, TypeOK, HeldOnce
  <2>2. \A d \in Consumers : e \notin batch'[d]
    BY <1>1 DEF IInv, TypeOK, HeldOnce
  <2> QED BY <1>1, <2>1, <2>2 DEF Fate
<1>4. \A e \in Entries \ batch[c] : Fate(e)' = Fate(e)
  <2> SUFFICES ASSUME NEW e \in Entries, e \notin batch[c] PROVE Fate(e)' = Fate(e)
    OBVIOUS
  <2>1. \A d \in Consumers : e \in batch'[d] <=> e \in batch[d]
    BY <1>1 DEF IInv, TypeOK
  <2> QED BY <1>1, <2>1 DEF Fate
<1>5. Delivery!Move(batch[c], "held", "parked")
  BY <1>2, <1>3, <1>4, MoveByFate
<1> QED BY <1>2, <1>5 DEF Delivery!Next, Delivery!Abandon, Delivery!Entries, Entries

(* Every step of the loop is a step of the delivery or leaves it alone.    *)
LEMMA OpenDelivery ==
    ASSUME ConsumerAssumption, IInv, OpenNext
    PROVE  Delivery!Next \/ UNCHANGED [e \in Entries |-> Fate(e)]
<1>1. CASE Grow
  BY <1>1, GrowDelivery
<1>2. ASSUME NEW c \in Consumers, Start(c) PROVE UNCHANGED [e \in Entries |-> Fate(e)]
  <2>1. delivered' = delivered
    BY <1>2 DEF Start, IInv, GroupFirst, GroupStart
  <2> QED BY <1>2, <2>1, SameFate, StutterByFate DEF Start
<1>3. ASSUME NEW c \in Consumers, Read(c) PROVE Delivery!Next
  <2>1. batch' = IF "held" = "held" THEN [batch EXCEPT ![c] = NewMessages] ELSE batch
    BY <1>3 DEF Read
  <2> QED BY <1>3, <2>1, TakeDelivery DEF Read, Idle
<1>4. ASSUME NEW c \in Consumers, ReadLost(c) PROVE Delivery!Next
  <2>1. batch' = IF "parked" = "held" THEN [batch EXCEPT ![c] = NewMessages] ELSE batch
    BY <1>4 DEF ReadLost, loop
  <2> QED BY <1>4, <2>1, TakeDelivery DEF ReadLost, Idle
<1>5. ASSUME NEW c \in Consumers, HandleAny(c) PROVE Delivery!Next
  BY <1>5, HandleDelivery DEF HandleAny
<1>6. ASSUME NEW c \in Consumers, Ack(c) PROVE UNCHANGED [e \in Entries |-> Fate(e)]
  BY <1>6, SameFate, StutterByFate DEF Ack
<1>7. ASSUME NEW c \in Consumers, Stop(c) PROVE Delivery!Next
  BY <1>7, StopDelivery
<1> QED BY <1>1, <1>2, <1>3, <1>4, <1>5, <1>6, <1>7 DEF OpenNext

(* The consumer loop is an at-most-once delivery in the order of           *)
(* publication, whatever processes start, stop or fail.                    *)
THEOREM Implements == Spec => ImplementsDelivery
<1>1. Init => Delivery!Init
  BY InitDelivery, ConsumerAssumption
<1>2. IInv /\ [Next]_vars => Delivery!Next \/ UNCHANGED [e \in Entries |-> Fate(e)]
  BY Opened, OpenDelivery, ConsumerAssumption
<1> QED BY <1>1, <1>2, Inductive, PTL DEF Spec, ImplementsDelivery, Delivery!Spec

=============================================================================
