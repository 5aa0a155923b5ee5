--------------------------- MODULE EventDelivery ---------------------------
(***************************************************************************)
(* What the consumer group promises to a publisher, without naming         *)
(* batches, acknowledgements or processes: every event is handed to the    *)
(* handler at most once, in the order of publication as far as delivery    *)
(* goes, and what was not applied then is parked for good.                 *)
(***************************************************************************)
EXTENDS Naturals

CONSTANT MaxEntries    \* bound: events ever published

Entries == 1..MaxEntries

VARIABLE fate    \* what has become of each event

Fates == {"unpublished", "queued", "held", "applied", "parked"}

Init == fate = [e \in Entries |-> "unpublished"]

(* fate changes from `from' to `to' on the events of S and nowhere else. *)
Move(S, from, to) ==
    /\ \A e \in S : fate[e] = from
    /\ fate' = [e \in Entries |-> IF e \in S THEN to ELSE fate[e]]

Publish == \E S \in SUBSET Entries : Move(S, "unpublished", "queued")

(* Events leave the queue together and for good; none may be overtaken by  *)
(* an event published later.                                               *)
Deliver ==
    \E S \in SUBSET Entries, to \in {"held", "parked"} :
        /\ \A e \in S, k \in Entries : k < e /\ fate[k] = "queued" => k \in S
        /\ Move(S, "queued", to)

(* The one attempt on an event. *)
Attempt == \E e \in Entries, to \in {"applied", "parked"} : Move({e}, "held", to)

(* A consumer ends with events in hand. *)
Abandon == \E S \in SUBSET Entries : Move(S, "held", "parked")

Next == Publish \/ Deliver \/ Attempt \/ Abandon

Spec == Init /\ [][Next]_fate

=============================================================================
