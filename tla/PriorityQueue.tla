--------------------------- MODULE PriorityQueue ---------------------------
(***************************************************************************)
(* The priority queue of the daemon: one mutable entry per stored event,   *)
(* never removed.  A queue is a sequence of entries indexed by event.      *)
(* Each operation of the code is an operator from queue to queue, with a   *)
(* predicate for the case in which the code performs it.                   *)
(***************************************************************************)
EXTENDS EventModel, FiniteSets

Ids(q) == DOMAIN q

(* What the code answers to a command about one event.                     *)
Known(q, id) == id \in Ids(q)

-----------------------------------------------------------------------------
(* Attention state: new -> seen -> dismissed, independent of resolution.   *)

CanAck(q, id) == Known(q, id) /\ q[id].state = "New"
Ack(q, id)    == [q EXCEPT ![id].state = "Seen"]

CanDismiss(q, id) == Known(q, id) /\ q[id].state # "Dismissed"
Dismiss(q, id)    == [q EXCEPT ![id].state = "Dismissed"]

-----------------------------------------------------------------------------
(* Resolution of a request: unresolved -> pending_delivery -> approved or  *)
(* denied, and back to unresolved when the delivery fails.                 *)

RespondVerdict(q, id) ==
  CASE ~Known(q, id)                        -> "no_such_event"
    [] q[id].resolution = "None"            -> "not_a_request"
    [] q[id].resolution \in Decisions       -> "already_resolved"
    [] q[id].resolution = "PendingDelivery" -> "pending_delivery"
    [] OTHER                                -> "ok"

RespondRequest(q, id) == [q EXCEPT ![id].resolution = "PendingDelivery"]

InDelivery_AnyKnown(q, id) == Known(q, id)     \* variant: no state is checked

InDelivery(q, id) == Known(q, id) /\ q[id].resolution = "PendingDelivery"

MarkDelivered(q, id, decision) == [q EXCEPT ![id].resolution = decision]
MarkDeliveryFailed(q, id)      == [q EXCEPT ![id].resolution = "Unresolved"]

-----------------------------------------------------------------------------
(* Transitions the tracker asks for.                                       *)

(* Answered requests, and those whose answer is on its way, are left alone.*)
CanSupersede_Unseen(q, id) ==                  \* variant: spares what was seen
  /\ Known(q, id)
  /\ q[id].resolution \notin Decisions \cup {"PendingDelivery"}
  /\ ~q[id].superseded /\ q[id].state = "New"

CanSupersede(q, id) ==
  /\ Known(q, id)
  /\ q[id].resolution \notin Decisions \cup {"PendingDelivery"}
  /\ ~q[id].superseded

Supersede(q, ids) ==
  [id \in Ids(q) |-> IF id \in ids /\ CanSupersede(q, id)
                     THEN [q[id] EXCEPT !.superseded = TRUE] ELSE q[id]]

(* levels maps the events to escalate to their level.                      *)
CanEscalate(q, id, levels) ==
  id \in DOMAIN levels \cap Ids(q) /\ q[id].escalation # levels[id]

Escalate(q, levels) ==
  [id \in Ids(q) |-> IF CanEscalate(q, id, levels)
                     THEN [q[id] EXCEPT !.escalation = levels[id]] ELSE q[id]]

-----------------------------------------------------------------------------
(* Scores.  events is the event store, indexed as the queue is.            *)

(* Recompute the score of the entries in ids, whatever their state.        *)
Scored(q, events, ids, now) ==
  [id \in Ids(q) |-> IF id \in ids
                     THEN [q[id] EXCEPT !.score = Score(q[id], events[id], now)]
                     ELSE q[id]]

UpdateEntryScore(q, events, id, now) == Scored(q, events, {id}, now)

Rescore(q, events, now) ==
  Scored(q, events, {id \in Ids(q) : IsLive(q[id])}, now)

-----------------------------------------------------------------------------
(* The order a snapshot lists the live entries in: a comes before b.       *)

Precedes(q, a, b) ==
  \/ q[a].tier < q[b].tier
  \/ q[a].tier = q[b].tier /\ q[a].score > q[b].score
  \/ q[a].tier = q[b].tier /\ q[a].score = q[b].score /\ a > b

OrderedSnapshot(q) ==
  LET live == {id \in Ids(q) : IsLive(q[id])}
      rank == [id \in live |->
                 1 + Cardinality({x \in live : Precedes(q, x, id)})]
  IN  [i \in 1..Cardinality(live) |-> CHOOSE id \in live : rank[id] = i]

=============================================================================
