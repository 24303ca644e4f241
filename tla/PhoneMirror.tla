---------------------------- MODULE PhoneMirror ----------------------------
(***************************************************************************)
(* What a phone keeps of the daemon's store and queue (AgentDeskState): the*)
(* events it knows, the entries it was told of, and the working events it  *)
(* takes for finished.  Maps keyed by event id; events are never forgotten,*)
(* not even when the connection is lost.                                   *)
(***************************************************************************)
EXTENDS EventModel, Functions

Nothing == [id \in {} |-> {}]

EmptyMirror == [events |-> Nothing, queue |-> Nothing, finished |-> {}]

Put(map, id, value) ==
  [x \in DOMAIN map \cup {id} |-> IF x = id THEN value ELSE map[x]]

-----------------------------------------------------------------------------
(* Working events of a task of which an end is known.  All events of this  *)
(* model come from one agent, which the code compares as well.             *)

Ends(event) == event.category \in {"Completed", "Error"} /\ event.task # NoTask

SameTask(a, b) == a.task = b.task /\ a.task # NoTask

Ended(known, id) ==
  known[id].category = "Working"
    /\ \E e \in DOMAIN known : Ends(known[e]) /\ SameTask(known[e], known[id])

EndedBy(known, event) ==
  {id \in DOMAIN known :
     Ends(event) /\ known[id].category = "Working" /\ SameTask(known[id], event)}

-----------------------------------------------------------------------------
(* A snapshot replaces the queue and adds to the events.                   *)
ApplySnapshot(mirror, message) ==
  LET place(id) == CHOOSE i \in DOMAIN message.order : message.order[i] = id
      live   == Range(message.order)
      events == [id \in live \cup DOMAIN mirror.events |->
                   IF id \in live THEN message.events[place(id)]
                   ELSE mirror.events[id]]
  IN  [events   |-> events,
       queue    |-> [id \in live |-> message.entries[place(id)]],
       finished |-> {id \in DOMAIN events : Ended(events, id)}]

ApplyEvent_Duplicate(mirror, message) ==   \* variant: a known id is ignored
  IF message.id \in DOMAIN mirror.events THEN mirror
  ELSE [mirror EXCEPT !.events = Put(@, message.id, message.event),
                      !.queue  = Put(@, message.id, message.entry)]

(* The event of an id that is known already is ignored, its entry is not.  *)
ApplyEvent(mirror, message) ==
  LET known == IF message.id \in DOMAIN mirror.events THEN mirror.events
               ELSE Put(mirror.events, message.id, message.event)
      late  == /\ message.event.category = "Working"
               /\ \E e \in DOMAIN known :
                    Ends(known[e]) /\ SameTask(known[e], message.event)
  IN  [events   |-> known,
       queue    |-> Put(mirror.queue, message.id, message.entry),
       finished |-> mirror.finished \cup EndedBy(known, message.event)
                      \cup (IF late THEN {message.id} ELSE {})]

ApplyScoreUpdate(mirror, message) ==
  IF message.id \notin DOMAIN mirror.queue THEN mirror
  ELSE [mirror EXCEPT !.queue[message.id].score = message.score,
                      !.queue[message.id].escalation = message.escalation]

ApplyStateUpdate(mirror, message) ==
  IF message.id \notin DOMAIN mirror.queue THEN mirror
  ELSE [mirror EXCEPT
          !.queue[message.id].state = message.state,
          !.queue[message.id].resolution =
             IF message.resolution = "None" THEN @ ELSE message.resolution,
          !.queue[message.id].superseded = message.superseded]

ApplyEventDetails(mirror, message) ==
  [mirror EXCEPT !.events = Put(@, message.id, message.event),
                 !.queue  = Put(@, message.id, message.entry)]

ApplyMessage(mirror, message) ==
  CASE message.type = "snapshot"      -> ApplySnapshot(mirror, message)
    [] message.type = "event"         -> ApplyEvent(mirror, message)
    [] message.type = "score_update"  -> ApplyScoreUpdate(mirror, message)
    [] message.type = "state_update"  -> ApplyStateUpdate(mirror, message)
    [] message.type = "event_details" -> ApplyEventDetails(mirror, message)
    [] OTHER                          -> mirror

-----------------------------------------------------------------------------
(* What the phone shows of it.                                             *)

IsRequestEntry(mirror, id) ==
  IF id \in DOMAIN mirror.events /\ mirror.events[id].category = "Completed"
  THEN FALSE
  ELSE \/ id \in DOMAIN mirror.events /\ mirror.events[id].category = "Request"
       \/ mirror.queue[id].tier = 0

Undecided(entry) == entry.resolution \in {"Unresolved", "PendingDelivery"}

(* A dismissed request stays in view until it is decided, a dismissed      *)
(* working entry until it is finished.                                     *)
ShouldDisplay(mirror, id) ==
  LET entry == mirror.queue[id] IN
  \/ IsLive(entry)
  \/ /\ entry.state = "Dismissed" /\ ~entry.superseded
     /\ \/ IsRequestEntry(mirror, id) /\ Undecided(entry)
        \/ entry.tier = 3 /\ id \notin mirror.finished

PendingRequests(mirror) ==
  {id \in DOMAIN mirror.queue :
     /\ IsRequestEntry(mirror, id)
     /\ ShouldDisplay(mirror, id)
     /\ Undecided(mirror.queue[id])}

=============================================================================
