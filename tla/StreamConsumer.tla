--------------------------- MODULE StreamConsumer ---------------------------
(***************************************************************************)
(* internal/shared/events/consumer.go: the loop that reads the resume      *)
(* stream through a Redis consumer group and hands each message to a       *)
(* handler.  Each search-service process is one consumer; its name is      *)
(* drawn anew at every start, so no process ever owns the pending entries  *)
(* of an earlier one.  The loop asks for ">" only: entries no consumer of  *)
(* the group was given before.                                             *)
(***************************************************************************)
EXTENDS Naturals, FiniteSets

CONSTANTS
    Consumers,     \* search-service processes
    Count,         \* the Count argument of XREADGROUP
    MaxEntries,    \* bound: entries ever added to the stream
    MaxFaults      \* bound: faults ever injected

ASSUME ConsumerAssumption ==
    /\ Count \in Nat \ {0}
    /\ MaxEntries \in Nat
    /\ MaxFaults \in Nat

VARIABLES
    entries,      \* number of entries in the stream: they are 1..entries
    group,        \* TRUE once the consumer group exists
    delivered,    \* the group's last-delivered-id
    pending,      \* the group's pending entries list
    pc,           \* where each consumer's loop is
    batch,        \* the messages of its last read not yet given to the handler
    cur,          \* the message it is about to acknowledge, or 0
    attempts,     \* history: how often each entry was given to a handler
    applied,      \* history: entries a handler answered with nil
    faults        \* faults injected so far

redis == <<entries, group, delivered, pending>>
loop == <<pc, batch, cur>>
vars == <<redis, loop, attempts, applied, faults>>

Entries == 1..MaxEntries

Spend ==
    /\ faults < MaxFaults
    /\ faults' = faults + 1

(* The smaller of two numbers. *)
Lesser(a, b) == IF a < b THEN a ELSE b

-----------------------------------------------------------------------------
(* A publisher's XADD. *)
Add ==
    /\ entries < MaxEntries
    /\ entries' = entries + 1
    /\ UNCHANGED <<group, delivered, pending, loop, attempts, applied, faults>>

(* A mistake Consumed notices: a group that starts with what is new. *)
GroupStartAtTail == entries

(* A mistake TypeOK notices: the start id taken for the first one read.    *)
GroupStartAtFirst == 1

(* XGROUP CREATE ... 0: the group starts before the oldest entry. *)
GroupStart == 0

(* The process starts; BUSYGROUP, the group exists already, is no error. *)
Start(c) ==
    /\ pc[c] = "down"
    /\ pc' = [pc EXCEPT ![c] = "running"]
    /\ group' = TRUE
    /\ delivered' = IF group THEN delivered ELSE GroupStart
    /\ UNCHANGED <<entries, pending, batch, cur, attempts, applied, faults>>

(* A mistake HandledAtMostOnce notices: asking for this group's pending    *)
(* entries, as "0" in place of ">" does for a consumer that keeps its name.*)
NewMessagesAndPending == pending \cup ((delivered + 1)..Lesser(delivered + Count, entries))

(* What ">" returns. *)
NewMessages == (delivered + 1)..Lesser(delivered + Count, entries)

Idle(c) == pc[c] = "running" /\ batch[c] = {}

(* XREADGROUP: Redis moves the entries to the pending list. *)
Take ==
    /\ delivered < entries
    /\ delivered' = Lesser(delivered + Count, entries)
    /\ pending' = pending \cup NewMessages

Read(c) ==
    /\ Idle(c)
    /\ Take
    /\ batch' = [batch EXCEPT ![c] = NewMessages]
    /\ UNCHANGED <<entries, group, pc, cur, attempts, applied, faults>>

(* The reply is lost: the loop sleeps and asks for ">" again. *)
ReadLost(c) ==
    /\ Idle(c)
    /\ Take
    /\ Spend
    /\ UNCHANGED <<entries, group, loop, attempts, applied>>

(* A mistake DeletedLeavesIndex notices: the messages of a batch handled    *)
(* concurrently.                                                           *)
AnyOfBatch(c, e) == e \in batch[c]

OldestOfBatch(c, e) == e \in batch[c] /\ \A k \in batch[c] : e <= k

(* processMessage calls the handler with the oldest message of its batch;  *)
(* ok says that the handler returned nil.                                  *)
Handle(c, e, ok) ==
    /\ pc[c] = "running"
    /\ OldestOfBatch(c, e)
    /\ batch' = [batch EXCEPT ![c] = @ \ {e}]
    /\ attempts' = [attempts EXCEPT ![e] = @ + 1]
    /\ IF ok
       THEN /\ applied' = applied \cup {e}
            /\ pc' = [pc EXCEPT ![c] = "acking"]
            /\ cur' = [cur EXCEPT ![c] = e]
       ELSE UNCHANGED <<applied, pc, cur>>
    /\ UNCHANGED redis

Process(c) ==
    \E e \in Entries :
        \/ Handle(c, e, TRUE) /\ UNCHANGED faults
        \/ Handle(c, e, FALSE) /\ Spend

(* A mistake StrandedByFaultsOnly notices: one XACK at the end of the batch. *)
AckedOfBatch(c) == IF batch[c] = {} THEN {cur[c]} ELSE {}

AckedBy(c) == {cur[c]}

(* XACK, its error dropped. *)
Ack(c) ==
    /\ pc[c] = "acking"
    /\ pc' = [pc EXCEPT ![c] = "running"]
    /\ cur' = [cur EXCEPT ![c] = 0]
    /\ \/ pending' = pending \ AckedBy(c) /\ UNCHANGED faults
       \/ UNCHANGED pending /\ Spend
    /\ UNCHANGED <<entries, group, delivered, batch, attempts, applied>>

(* The process is killed, or told to shut down: the loop looks at its      *)
(* context before each message and leaves the rest of its batch.           *)
Stop(c) ==
    /\ pc[c] # "down"
    /\ pc' = [pc EXCEPT ![c] = "down"]
    /\ batch' = [batch EXCEPT ![c] = {}]
    /\ cur' = [cur EXCEPT ![c] = 0]
    /\ Spend
    /\ UNCHANGED <<redis, attempts, applied>>

-----------------------------------------------------------------------------
ConsumerInit ==
    /\ group = FALSE
    /\ delivered = 0
    /\ pending = {}
    /\ pc = [c \in Consumers |-> "down"]
    /\ batch = [c \in Consumers |-> {}]
    /\ cur = [c \in Consumers |-> 0]
    /\ attempts = [e \in Entries |-> 0]
    /\ applied = {}

Init == entries = 0 /\ faults = 0 /\ ConsumerInit

Next ==
    \/ Add
    \/ \E c \in Consumers :
         Start(c) \/ Read(c) \/ ReadLost(c) \/ Process(c) \/ Ack(c) \/ Stop(c)

Spec == Init /\ [][Next]_vars

(* The loop never blocks for longer than a second, and a process that went *)
(* down is started again.                                                  *)
FairSpec ==
    Spec /\ \A c \in Consumers :
              WF_vars(Start(c)) /\ WF_vars(Read(c)) /\ WF_vars(Process(c)) /\ WF_vars(Ack(c))

-----------------------------------------------------------------------------
(* Properties *)

InHand == (UNION {batch[c] : c \in Consumers}) \cup {cur[c] : c \in Consumers}

(* Delivered, unacknowledged, and in no running consumer's hands: the      *)
(* loop never asks for these entries again.                                *)
Stranded == pending \ InHand

TypeOK ==
    /\ entries \in 0..MaxEntries
    /\ group \in BOOLEAN
    /\ delivered \in 0..entries
    /\ pending \subseteq 1..delivered
    /\ pc \in [Consumers -> {"down", "running", "acking"}]
    /\ batch \in [Consumers -> SUBSET (1..delivered)]
    /\ cur \in [Consumers -> 0..delivered]
    /\ attempts \in [Entries -> Nat]
    /\ applied \subseteq 1..delivered
    /\ faults \in 0..MaxFaults

(* No entry is given to a handler twice, whichever consumers start, stop   *)
(* and read in whatever order.                                             *)
HandledAtMostOnce == \A e \in Entries : attempts[e] <= 1

(* An entry leaves the group's books only when a handler answered nil: all *)
(* that the group has passed is applied or still listed as pending.        *)
NoSilentLoss == \A e \in 1..delivered : e \in pending \/ e \in applied

(* Only failures strand entries, and each failure at most one batch.       *)
StrandedByFaultsOnly == Cardinality(Stranded) <= faults * Count

(* Every published entry is handed to the handler, unless a failure has    *)
(* stranded it.                                                            *)
Consumed ==
    \A e \in Entries : (e <= entries) ~> (attempts[e] = 1 \/ e \in Stranded)

(* "An error leaves the message unacknowledged, keeping the chance of a    *)
(* later retry": a failed message is attempted again.                      *)
FailedIsRetried ==
    \A e \in Entries : (attempts[e] = 1 /\ e \in pending \ applied) ~> (attempts[e] > 1)

(* The abstract delivery this loop implements. *)
Fate(e) ==
    IF e > entries THEN "unpublished"
    ELSE IF e > delivered THEN "queued"
    ELSE IF e \in applied THEN "applied"
    ELSE IF \E c \in Consumers : e \in batch[c] THEN "held"
    ELSE "parked"

Delivery == INSTANCE EventDelivery WITH fate <- [e \in Entries |-> Fate(e)]

ImplementsDelivery == Delivery!Spec

=============================================================================
