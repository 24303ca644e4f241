-------------------------- MODULE CoreTask_proofs ---------------------------
(***************************************************************************)
(* Theorems about the core task, for every number of events, clients and   *)
(* tasks, every clock and every table of thresholds; among them that the   *)
(* core implements RequestLifecycle, so that a request is answered at most *)
(* once and a decision accepted exactly when a command for it is sent.     *)
(*                                                                         *)
(* The argument: every operation of the queue but insertion and            *)
(* superseding keeps the queue's frame, that is which entries there are,   *)
(* which are superseded and which are requests; so only the arrival of an  *)
(* event can disturb the relation between the queue and the tracker.       *)
(*                                                                         *)
(* And each step changes the resolution of one entry at most; scoring,     *)
(* escalating and superseding change none.  Without an adapter nothing is  *)
(* ever in delivery, so that what the core calls delivered is then a       *)
(* request that was undecided.  Nothing dismissed or superseded comes back,*)
(* and what an arriving event makes the tracker drop it supersedes, unless *)
(* a decision on it is under way.                                          *)
(*                                                                         *)
(* Last, what a command tells the clients rebuilds the queue it leaves: the*)
(* messages, folded over a mirror, rewrite one entry each, and whatever a  *)
(* step changes is among them.  The watchdog's raises are told where the   *)
(* score became another, so it takes an invariant, WorkingRated, that the  *)
(* score of working entries tells their level.                             *)
(***************************************************************************)
EXTENDS CoreTask, SequenceTheorems, FiniteSetTheorems,
        WellFoundedInduction, TLAPS

-----------------------------------------------------------------------------
(* Sequences.                                                              *)

(* SeqOfFunction: a function on 1..n is a sequence of length n.            *)
LEMMA SeqOfFunction ==
  ASSUME NEW S, NEW n \in Nat, NEW f \in [1..n -> S]
  PROVE  f \in Seq(S) /\ Len(f) = n
BY SeqDef, LenProperties

-----------------------------------------------------------------------------
(* Scores.                                                                 *)

(* ScoreInRange: a score is a number between 0 and 100, however old the    *)
(* event and even if the clock ran backwards (scoring.rs clamps it).       *)
LEMMA ScoreInRange ==
  ASSUME NEW entry \in QueueEntry, NEW event \in Event, NEW t \in Nat
  PROVE  Score(entry, event, t) \in 0..100
<1>1. BaseScore(event.severity) \in Int
  BY DEF BaseScore, Event, Severities
<1>2. t - event.ts \in Int
  BY DEF Event
<1>3. RecencyBonus(event.category, t - event.ts) \in Int
  BY <1>2 DEF RecencyBonus, RecencyWindow, RecencyMaxBonus
<1>4. EscalationBonus(event.category, entry.escalation) \in Int
  BY DEF EscalationBonus
<1>. DEFINE seen == IF entry.state = "Seen" THEN SeenPenalty ELSE 0
           decided == IF entry.resolution \in Decisions
                      THEN ResolvedPenalty ELSE 0
<1>5. seen \in Int /\ decided \in Int
  BY DEF SeenPenalty, ResolvedPenalty
<1>. HIDE DEF seen, decided
<1>6. BaseScore(event.severity)
        + RecencyBonus(event.category, t - event.ts)
        + EscalationBonus(event.category, entry.escalation)
        - seen - decided \in Int
  BY <1>1, <1>3, <1>4, <1>5
<1>7. \A n \in Int : Clamp(n, 0, 100) \in 0..100
  BY DEF Clamp
<1>. QED
  BY <1>6, <1>7 DEF Score, seen, decided

-----------------------------------------------------------------------------
(* The frame of the queue, and what else every step but a tick keeps.      *)

KeepsFrame(q, r) ==
  /\ r \in Seq(QueueEntry)
  /\ Len(r) = Len(q)
  /\ \A id \in Ids(q) :
       /\ r[id].tier = q[id].tier
       /\ r[id].superseded = q[id].superseded
       /\ (r[id].resolution = "None") <=> (q[id].resolution = "None")

KeepsLevels(q, r) ==
  \A id \in Ids(q) : r[id].escalation = q[id].escalation

Keeps(q, r) == KeepsFrame(q, r) /\ KeepsLevels(q, r)

(* KeepsTransitive: what two steps keep, both together keep.               *)
LEMMA KeepsTransitive ==
  ASSUME NEW q \in Seq(QueueEntry), NEW r, NEW s, Keeps(q, r), Keeps(r, s)
  PROVE  Keeps(q, s)
BY LenProperties DEF Keeps, KeepsFrame, KeepsLevels, Ids

(* KeepsPointwise: rewriting the entries in place keeps the frame when each*)
(* new entry does.                                                         *)
LEMMA KeepsPointwise ==
  ASSUME NEW q \in Seq(QueueEntry), NEW r \in [Ids(q) -> QueueEntry],
         \A id \in Ids(q) :
           /\ r[id].tier = q[id].tier
           /\ r[id].superseded = q[id].superseded
           /\ (r[id].resolution = "None") <=> (q[id].resolution = "None")
           /\ r[id].escalation = q[id].escalation
  PROVE  Keeps(q, r)
BY LenProperties, SeqOfFunction DEF Keeps, KeepsFrame, KeepsLevels, Ids

(* ScoredKeeps: recomputing scores keeps the frame.                        *)
LEMMA ScoredKeeps ==
  ASSUME NEW q \in Seq(QueueEntry), NEW es \in Seq(Event), Len(q) = Len(es),
         NEW S, NEW t \in Nat
  PROVE  Keeps(q, Scored(q, es, S, t))
<1>. DEFINE r == Scored(q, es, S, t)
<1>1. ASSUME NEW id \in Ids(q)
      PROVE  /\ r[id] \in QueueEntry
             /\ r[id].tier = q[id].tier
             /\ r[id].superseded = q[id].superseded
             /\ (r[id].resolution = "None") <=> (q[id].resolution = "None")
             /\ r[id].escalation = q[id].escalation
  <2>1. q[id] \in QueueEntry /\ es[id] \in Event
    BY ElementOfSeq, LenProperties DEF Ids
  <2>2. Score(q[id], es[id], t) \in 0..100
    BY <2>1, ScoreInRange
  <2>3. r[id] = IF id \in S
                THEN [q[id] EXCEPT !.score = Score(q[id], es[id], t)]
                ELSE q[id]
    BY DEF Scored
  <2>. QED
    BY <2>1, <2>2, <2>3 DEF QueueEntry
<1>2. r \in [Ids(q) -> QueueEntry]
  BY <1>1 DEF Scored
<1>. QED
  BY <1>1, <1>2, KeepsPointwise

(* EscalateEffect: raising levels within their bound keeps the frame, and  *)
(* gives each entry it is meant for its level.                             *)
LEMMA EscalateEffect ==
  ASSUME NEW q \in Seq(QueueEntry), NEW levels,
         \A id \in DOMAIN levels : levels[id] \in 0..MaxEscalationLevel
  PROVE  /\ KeepsFrame(q, Escalate(q, levels))
         /\ \A id \in Ids(q) :
              Escalate(q, levels)[id].escalation =
                IF id \in DOMAIN levels THEN levels[id] ELSE q[id].escalation
<1>. DEFINE r == Escalate(q, levels)
<1>1. ASSUME NEW id \in Ids(q)
      PROVE  /\ r[id] \in QueueEntry
             /\ r[id].tier = q[id].tier
             /\ r[id].superseded = q[id].superseded
             /\ (r[id].resolution = "None") <=> (q[id].resolution = "None")
             /\ r[id].escalation =
                  IF id \in DOMAIN levels THEN levels[id] ELSE q[id].escalation
  <2>1. q[id] \in QueueEntry
    BY ElementOfSeq, LenProperties DEF Ids
  <2>2. r[id] = IF CanEscalate(q, id, levels)
                THEN [q[id] EXCEPT !.escalation = levels[id]] ELSE q[id]
    BY DEF Escalate
  <2>. QED
    BY <2>1, <2>2 DEF QueueEntry, CanEscalate
<1>2. r \in [1..Len(q) -> QueueEntry] /\ Len(q) \in Nat
  BY <1>1, LenProperties DEF Escalate, Ids
<1>. HIDE DEF r
<1>3. r \in Seq(QueueEntry) /\ Len(r) = Len(q)
  BY <1>2, SeqOfFunction
<1>. QED
  BY <1>1, <1>3 DEF r, KeepsFrame

(* ExceptKeeps: so does rewriting one entry.                               *)
LEMMA ExceptKeeps ==
  ASSUME NEW q \in Seq(QueueEntry), NEW id \in Ids(q), NEW e \in QueueEntry,
         e.tier = q[id].tier, e.superseded = q[id].superseded,
         (e.resolution = "None") <=> (q[id].resolution = "None"),
         e.escalation = q[id].escalation
  PROVE  Keeps(q, [q EXCEPT ![id] = e])
<1>1. Ids(q) = 1..Len(q) /\ Len(q) \in Nat /\ q \in [1..Len(q) -> QueueEntry]
  BY LenProperties DEF Ids
<1>2. [q EXCEPT ![id] = e] \in [1..Len(q) -> QueueEntry]
  BY <1>1
<1>3. \A x \in Ids(q) : [q EXCEPT ![id] = e][x] = IF x = id THEN e ELSE q[x]
  BY <1>1
<1>. QED
  BY <1>1, <1>2, <1>3, SeqOfFunction DEF Keeps, KeepsFrame, KeepsLevels

(* AttentionKeeps: acknowledging and dismissing keep the frame.            *)
LEMMA AttentionKeeps ==
  ASSUME NEW q \in Seq(QueueEntry), NEW id \in Ids(q)
  PROVE  Keeps(q, Ack(q, id)) /\ Keeps(q, Dismiss(q, id))
<1>1. q[id] \in QueueEntry
  BY ElementOfSeq, LenProperties DEF Ids
<1>2. ASSUME NEW s \in EntryStates
      PROVE  Keeps(q, [q EXCEPT ![id] = [q[id] EXCEPT !.state = s]])
  <2>. DEFINE e == [q[id] EXCEPT !.state = s]
  <2>1. /\ e \in QueueEntry
        /\ e.tier = q[id].tier /\ e.superseded = q[id].superseded
        /\ e.resolution = q[id].resolution
        /\ e.escalation = q[id].escalation
    BY <1>1 DEF QueueEntry
  <2>. HIDE DEF e
  <2>2. Keeps(q, [q EXCEPT ![id] = e])
    BY <2>1, ExceptKeeps
  <2>. QED  BY <2>2 DEF e
<1>3. /\ Ack(q, id) = [q EXCEPT ![id] = [q[id] EXCEPT !.state = "Seen"]]
      /\ Dismiss(q, id) =
           [q EXCEPT ![id] = [q[id] EXCEPT !.state = "Dismissed"]]
  BY DEF Ack, Dismiss
<1>. QED
  BY <1>2, <1>3 DEF EntryStates

(* ResolutionKeeps: so does each step in the life of a request.            *)
LEMMA ResolutionKeeps ==
  ASSUME NEW q \in Seq(QueueEntry), NEW id \in Ids(q),
         q[id].resolution # "None"
  PROVE  /\ Keeps(q, RespondRequest(q, id))
         /\ Keeps(q, MarkDeliveryFailed(q, id))
         /\ \A d \in Decisions : Keeps(q, MarkDelivered(q, id, d))
<1>1. q[id] \in QueueEntry
  BY ElementOfSeq, LenProperties DEF Ids
<1>2. ASSUME NEW r \in Resolutions \ {"None"}
      PROVE  Keeps(q, [q EXCEPT ![id] = [q[id] EXCEPT !.resolution = r]])
  <2>. DEFINE e == [q[id] EXCEPT !.resolution = r]
  <2>1. /\ e \in QueueEntry
        /\ e.tier = q[id].tier /\ e.superseded = q[id].superseded
        /\ e.resolution = r /\ e.escalation = q[id].escalation
    BY <1>1 DEF QueueEntry
  <2>. HIDE DEF e
  <2>2. Keeps(q, [q EXCEPT ![id] = e])
    BY <2>1, ExceptKeeps
  <2>. QED  BY <2>2 DEF e
<1>3. \A r : [q EXCEPT ![id].resolution = r]
              = [q EXCEPT ![id] = [q[id] EXCEPT !.resolution = r]]
  OBVIOUS
<1>. QED
  BY <1>2, <1>3 DEF RespondRequest, MarkDeliveryFailed, MarkDelivered,
                    Resolutions, Decisions

-----------------------------------------------------------------------------
(* The inductive invariant: the type invariant, the agreement of queue and *)
(* tracker, the levels, and that exactly the entries of requests have a    *)
(* resolution.                                                             *)

RequestsResolvable ==
  \A id \in Ids(queue) : queue[id].resolution = "None" <=> ~IsRequest(id)

IInv ==
  /\ TypeOK
  /\ TrackerConsistent
  /\ WorkingShownWhileOpen
  /\ RequestsResolvable
  /\ EscalationCarried

(* InitIInv: the daemon starts with nothing stored and nothing tracked.    *)
LEMMA InitIInv == Init => IInv
<1>. SUFFICES ASSUME Init PROVE IInv
  OBVIOUS
<1>1. Ids(queue) = {} /\ DOMAIN open = {}
  BY DEF Init, Ids
<1>2. TypeOK
  BY <1>1 DEF Init, TypeOK
<1>. QED
  BY <1>1, <1>2 DEF IInv, TrackerConsistent, WorkingShownWhileOpen,
                    RequestsResolvable, EscalationCarried

(* KeepsItself: leaving the queue alone keeps its frame.                   *)
LEMMA KeepsItself ==
  ASSUME NEW q \in Seq(QueueEntry)
  PROVE  Keeps(q, q)
BY DEF Keeps, KeepsFrame, KeepsLevels

(* QuietStep: a step that stores no event, keeps the frame of the queue and*)
(* changes nothing the tracker holds but levels preserves the invariant, if *)
(* the levels it leaves are carried.                                       *)
LEMMA QuietStep ==
  ASSUME IInv, events' = events, now' \in Nat,
         KeepsFrame(queue, queue'), EscalationCarried',
         DOMAIN open' = DOMAIN open, open' \in [DOMAIN open' -> OpenTask],
         \A t \in DOMAIN open :
           /\ open'[t].working = open[t].working
           /\ open'[t].requests = open[t].requests
           /\ open'[t].latest = open[t].latest
  PROVE  IInv'
<1>1. Ids(queue') = Ids(queue)
  BY LenProperties DEF IInv, TypeOK, KeepsFrame, Ids
<1>2. TypeOK'
  BY <1>1 DEF IInv, TypeOK, KeepsFrame
<1>3. TrackerConsistent'
  BY <1>1 DEF IInv, TrackerConsistent, TaskOf, IsRequest
<1>4. WorkingShownWhileOpen'
  <2>. SUFFICES ASSUME NEW id \in Ids(queue'),
                       events'[id].category = "Working", TaskOf(id)' # NoTask
                PROVE  queue'[id].superseded <=> ~Tracked(id)'
    BY DEF WorkingShownWhileOpen
  <2>1. TaskOf(id)' = TaskOf(id)
    BY DEF TaskOf
  <2>2. Tracked(id)' <=> Tracked(id)
    BY <2>1 DEF Tracked
  <2>3. queue'[id].superseded = queue[id].superseded
    BY <1>1 DEF KeepsFrame
  <2>. QED
    BY <1>1, <2>1, <2>2, <2>3 DEF IInv, WorkingShownWhileOpen
<1>5. RequestsResolvable'
  BY <1>1 DEF IInv, RequestsResolvable, KeepsFrame, IsRequest
<1>. QED
  BY <1>2, <1>3, <1>4, <1>5 DEF IInv

(* StillStep: in particular one that leaves the tracker alone.             *)
LEMMA StillStep ==
  ASSUME IInv, UNCHANGED <<events, open>>, now' \in Nat, Keeps(queue, queue')
  PROVE  IInv'
<1>1. Ids(queue') = Ids(queue)
  BY LenProperties DEF IInv, TypeOK, Keeps, KeepsFrame, Ids
<1>2. \A id \in Ids(queue) : queue'[id].escalation = queue[id].escalation
  BY DEF Keeps, KeepsLevels
<1>3. \A t \in DOMAIN open : open[t].working \subseteq Ids(queue)
  BY DEF IInv, TrackerConsistent
<1>4. EscalationCarried'
  BY <1>1, <1>2, <1>3 DEF IInv, EscalationCarried, TaskOf
<1>. QED
  BY <1>4, QuietStep DEF IInv, TypeOK, Keeps

-----------------------------------------------------------------------------
(* Ticks.                                                                  *)

(* DueLevels: the watchdog asks for levels 0, 1 and 2 only, never lowers   *)
(* one, and raises it only for a task that has a working event to show it. *)
LEMMA DueLevels ==
  ASSUME NEW task \in OpenTask, NEW t \in Nat
  PROVE  /\ DueLevel(task, t) \in 0..MaxEscalationLevel
         /\ task.level <= DueLevel(task, t)
         /\ DueLevel(task, t) # task.level => task.latest # NoEvent
BY DEF DueLevel, OpenTask, MaxEscalationLevel

(* EscalationTargets: the levels of a tick go each to the latest working   *)
(* event of its own task, and no two tasks share one.                      *)
LEMMA EscalationTargets ==
  ASSUME IInv
  PROVE  LET levels == Escalations(open, now) IN
         /\ \A t \in Overdue(open, now) :
              /\ open[t].latest \in open[t].working \cap DOMAIN levels
              /\ levels[open[t].latest] = DueLevel(open[t], now)
         /\ \A t \in DOMAIN open, id \in DOMAIN levels :
              id \in open[t].working
                => t \in Overdue(open, now) /\ open[t].latest = id
         /\ \A id \in DOMAIN levels :
              \E t \in Overdue(open, now) : open[t].latest = id
<1>. DEFINE levels == Escalations(open, now)
<1>1. /\ open \in [DOMAIN open -> OpenTask] /\ now \in Nat
      /\ Overdue(open, now) \subseteq DOMAIN open
  BY DEF IInv, TypeOK, Overdue
<1>2. \A t \in DOMAIN open : \A id \in open[t].working : TaskOf(id) = t
  BY DEF IInv, TrackerConsistent
<1>3. \A t \in Overdue(open, now) : open[t].latest \in open[t].working
  BY <1>1, DueLevels DEF Overdue, IInv, TrackerConsistent
<1>4. \A t, u \in Overdue(open, now) : open[t].latest = open[u].latest => t = u
  BY <1>1, <1>2, <1>3
<1>5. DOMAIN levels = {open[t].latest : t \in Overdue(open, now)}
  BY DEF Escalations
<1>6. ASSUME NEW t \in Overdue(open, now)
      PROVE  levels[open[t].latest] = DueLevel(open[t], now)
  <2>. DEFINE u == CHOOSE u \in Overdue(open, now) :
                     open[u].latest = open[t].latest
  <2>1. u = t
    BY <1>4
  <2>. HIDE DEF u
  <2>2. levels[open[t].latest] = DueLevel(open[u], now)
    BY DEF Escalations, u
  <2>. QED
    BY <2>1, <2>2
<1>. HIDE DEF levels
<1>7. ASSUME NEW t \in DOMAIN open, NEW id \in DOMAIN levels,
             id \in open[t].working
      PROVE  t \in Overdue(open, now) /\ open[t].latest = id
  <2>. PICK u \in Overdue(open, now) : open[u].latest = id
    BY <1>5
  <2>1. u = t
    BY <1>1, <1>2, <1>3, <1>7
  <2>. QED
    BY <2>1
<1>8. \A t \in Overdue(open, now) : open[t].latest \in DOMAIN levels
  BY <1>5
<1>9. \A id \in DOMAIN levels :
        \E t \in Overdue(open, now) : open[t].latest = id
  BY <1>5
<1>. QED
  BY <1>3, <1>6, <1>7, <1>8, <1>9 DEF levels

LEMMA TickStep == IInv /\ Tick => IInv'
<1>. SUFFICES ASSUME IInv, Tick PROVE IInv'
  OBVIOUS
<1>. DEFINE rescored  == Rescore(queue, events, now)
            levels    == Escalations(open, now)
            raised    == {id \in Ids(queue) : CanEscalate(queue, id, levels)}
            leveled   == Escalate(rescored, levels)
<1>1. queue \in Seq(QueueEntry) /\ events \in Seq(Event) /\ now \in Nat
      /\ Len(queue) = Len(events) /\ open \in [DOMAIN open -> OpenTask]
  BY DEF IInv, TypeOK
<1>2. Keeps(queue, rescored)
  BY <1>1, ScoredKeeps DEF Rescore
<1>3. \A id \in DOMAIN levels : levels[id] \in 0..MaxEscalationLevel
  BY <1>1, EscalationTargets, DueLevels DEF Overdue
<1>4. rescored \in Seq(QueueEntry) /\ Len(rescored) = Len(events)
  BY <1>1, <1>2 DEF Keeps, KeepsFrame
<1>5. /\ KeepsFrame(rescored, leveled)
      /\ \A id \in Ids(rescored) :
           leveled[id].escalation =
             IF id \in DOMAIN levels THEN levels[id] ELSE rescored[id].escalation
  BY <1>3, <1>4, EscalateEffect
<1>6. leveled \in Seq(QueueEntry) /\ Len(leveled) = Len(events)
  BY <1>4, <1>5 DEF KeepsFrame
<1>7. Keeps(leveled, queue')
  BY <1>1, <1>6, ScoredKeeps DEF Tick
<1>8. /\ Ids(rescored) = Ids(queue) /\ Ids(leveled) = Ids(queue)
      /\ Ids(queue') = Ids(queue)
  <2>1. queue' \in Seq(QueueEntry) /\ Len(queue') = Len(events)
    BY <1>6, <1>7 DEF Keeps, KeepsFrame
  <2>. QED
    BY <1>1, <1>4, <1>6, <2>1, LenProperties DEF Ids
<1>. HIDE DEF leveled, levels, rescored
<1>9. /\ KeepsFrame(queue, queue')
      /\ \A id \in Ids(queue) :
           queue'[id].escalation =
             IF id \in DOMAIN levels THEN levels[id] ELSE queue[id].escalation
  BY <1>2, <1>5, <1>7, <1>8 DEF Keeps, KeepsFrame, KeepsLevels
<1>10. /\ DOMAIN open' = DOMAIN open
       /\ open' \in [DOMAIN open' -> OpenTask]
       /\ \A t \in DOMAIN open :
            /\ open'[t].working = open[t].working
            /\ open'[t].requests = open[t].requests
            /\ open'[t].latest = open[t].latest
            /\ open'[t].level = DueLevel(open[t], now)
  <2>1. open' = [t \in DOMAIN open |->
                   [open[t] EXCEPT !.level = DueLevel(open[t], now)]]
    BY DEF Tick, Ticked
  <2>2. ASSUME NEW task \in OpenTask,
               NEW level \in 0..MaxEscalationLevel
        PROVE  LET e == [task EXCEPT !.level = level] IN
               /\ e \in OpenTask /\ e.level = level
               /\ e.working = task.working /\ e.requests = task.requests
               /\ e.latest = task.latest
    BY DEF OpenTask
  <2>3. \A t \in DOMAIN open :
          open[t] \in OpenTask /\ DueLevel(open[t], now) \in 0..MaxEscalationLevel
    BY <1>1, DueLevels
  <2>. QED
    BY <2>1, <2>2, <2>3
<1>11. events' = events /\ now' = now
  BY DEF Tick
<1>12. ASSUME NEW id \in Ids(queue), queue'[id].escalation > 0
       PROVE  events[id].category = "Working" /\ TaskOf(id) # NoTask
  <2>1. CASE id \in DOMAIN levels
    <3>. PICK t \in DOMAIN open : id \in open[t].working
      BY <2>1, EscalationTargets DEF levels, Overdue
    <3>. QED
      BY TasksAssumption DEF IInv, TrackerConsistent, TypeOK
  <2>2. CASE id \notin DOMAIN levels
    BY <1>9, <1>12, <2>2 DEF IInv, EscalationCarried
  <2>. QED
    BY <2>1, <2>2
<1>13. ASSUME NEW t \in DOMAIN open
       PROVE  /\ \A id \in open[t].working :
                   queue'[id].escalation <= DueLevel(open[t], now)
              /\ DueLevel(open[t], now) > 0
                   => \E id \in open[t].working :
                        queue'[id].escalation = DueLevel(open[t], now)
  <2>. DEFINE due == DueLevel(open[t], now)
              level == open[t].level
  <2>1. /\ due \in Nat /\ level \in Nat /\ level <= due
    BY <1>1, DueLevels DEF OpenTask, MaxEscalationLevel
  <2>2. t \in Overdue(open, now) <=> due # level
    BY DEF Overdue
  <2>. HIDE DEF due, level
  <2>3. /\ open[t].working \subseteq Ids(queue)
        /\ \A id \in open[t].working :
             queue[id].escalation <= level /\ queue[id].escalation \in Nat
        /\ level > 0 => \E id \in open[t].working : queue[id].escalation = level
    <3>1. open[t].working \subseteq Ids(queue)
      BY DEF IInv, TrackerConsistent
    <3>2. \A id \in Ids(queue) : queue[id].escalation \in Nat
      <4>1. \A id \in Ids(queue) : queue[id] \in QueueEntry
        BY <1>1, ElementOfSeq, LenProperties DEF Ids
      <4>. QED
        BY <4>1 DEF QueueEntry, MaxEscalationLevel
    <3>3. /\ \A id \in open[t].working : queue[id].escalation <= level
          /\ level > 0
               => \E id \in open[t].working : queue[id].escalation = level
      BY Zenon DEF IInv, EscalationCarried, level
    <3>. QED
      BY <3>1, <3>2, <3>3
  <2>4. ASSUME NEW id \in open[t].working, id \in DOMAIN levels
        PROVE  id = open[t].latest /\ t \in Overdue(open, now)
               /\ levels[id] = due
    BY <2>4, EscalationTargets DEF levels, due
  <2>5. ASSUME NEW id \in open[t].working PROVE queue'[id].escalation <= due
    <3>1. CASE id \in DOMAIN levels
      BY <1>9, <2>1, <2>3, <2>4, <3>1
    <3>2. CASE id \notin DOMAIN levels
      BY <1>9, <2>1, <2>3, <3>2
    <3>. QED
      BY <3>1, <3>2
  <2>6. ASSUME due > 0
        PROVE  \E id \in open[t].working : queue'[id].escalation = due
    <3>1. CASE due # level
      <4>1. open[t].latest \in open[t].working \cap DOMAIN levels
        BY <2>2, <3>1, EscalationTargets DEF levels
      <4>. QED
        BY <1>9, <2>3, <2>4, <4>1
    <3>2. CASE due = level
      <4>. PICK id \in open[t].working : queue[id].escalation = level
        BY <2>3, <2>6, <3>2
      <4>1. id \notin DOMAIN levels
        BY <2>2, <2>4, <3>2
      <4>. QED
        BY <1>9, <2>3, <3>2, <4>1
    <3>. QED
      BY <3>1, <3>2
  <2>. QED
    BY <2>5, <2>6 DEF due
<1>14. EscalationCarried'
  BY <1>8, <1>10, <1>11, <1>12, <1>13 DEF EscalationCarried, TaskOf
<1>. QED
  BY <1>1, <1>9, <1>10, <1>11, <1>14, QuietStep

-----------------------------------------------------------------------------
(* Commands and outcomes.                                                  *)

(* Rescoring: updating the score of one entry after a step that kept the   *)
(* frame keeps it too.                                                     *)
LEMMA Rescoring ==
  ASSUME IInv, NEW r, Keeps(queue, r), NEW id
  PROVE  Keeps(queue, UpdateEntryScore(r, events, id, now))
<1>1. r \in Seq(QueueEntry) /\ Len(r) = Len(events)
  BY DEF IInv, TypeOK, Keeps, KeepsFrame
<1>2. Keeps(r, UpdateEntryScore(r, events, id, now))
  BY <1>1, ScoredKeeps DEF IInv, TypeOK, UpdateEntryScore
<1>. QED
  BY <1>2, KeepsTransitive DEF IInv, TypeOK

LEMMA AttentionStep ==
  ASSUME IInv, NEW c, NEW id,
         ClientAck(c, id) \/ ClientDismiss(c, id) \/ ClientDetails(c, id)
  PROVE  IInv'
<1>1. queue \in Seq(QueueEntry) /\ Keeps(queue, queue) /\ now \in Nat
  BY KeepsItself DEF IInv, TypeOK
<1>2. CASE ClientAck(c, id)
  <2>1. Keeps(queue, queue')
    BY <1>1, <1>2, AttentionKeeps DEF ClientAck, CanAck, Known
  <2>. QED
    BY <1>1, <1>2, <2>1, StillStep DEF ClientAck
<1>3. CASE ClientDismiss(c, id)
  <2>1. Keeps(queue, queue')
    BY <1>1, <1>3, AttentionKeeps DEF ClientDismiss, CanDismiss, Known
  <2>. QED
    BY <1>1, <1>3, <2>1, StillStep DEF ClientDismiss
<1>4. CASE ClientDetails(c, id)
  <2>1. Keeps(queue, queue')
    <3>1. CASE ~CanAck(queue, id)
      BY <1>1, <1>4, <3>1 DEF ClientDetails
    <3>2. CASE CanAck(queue, id)
      <4>1. Keeps(queue, Ack(queue, id))
        BY <1>1, <3>2, AttentionKeeps DEF CanAck, Known
      <4>. QED
        BY <1>4, <3>2, <4>1, Rescoring DEF ClientDetails
    <3>. QED
      BY <3>1, <3>2
  <2>. QED
    BY <1>1, <1>4, <2>1, StillStep DEF ClientDetails
<1>. QED
  BY <1>2, <1>3, <1>4

(* Answerable: a request that may be answered has a resolution.            *)
LEMMA Answerable ==
  ASSUME NEW id, RespondVerdict(queue, id) = "ok"
  PROVE  id \in Ids(queue) /\ queue[id].resolution # "None"
BY DEF RespondVerdict, Known

LEMMA RespondStep ==
  ASSUME IInv, NEW c, NEW id, NEW decision \in Decisions,
         ClientRespond(c, id, decision)
  PROVE  IInv'
<1>1. queue \in Seq(QueueEntry) /\ Keeps(queue, queue) /\ now \in Nat
  BY KeepsItself DEF IInv, TypeOK
<1>. DEFINE pending == UpdateEntryScore(RespondRequest(queue, id),
                                        events, id, now)
<1>2. ASSUME RespondVerdict(queue, id) = "ok"
      PROVE  /\ pending \in Seq(QueueEntry) /\ Keeps(queue, pending)
             /\ id \in Ids(pending) /\ pending[id].resolution # "None"
  <2>1. id \in Ids(queue) /\ queue[id].resolution # "None"
    BY <1>2, Answerable
  <2>2. Keeps(queue, RespondRequest(queue, id))
    BY <1>1, <2>1, ResolutionKeeps
  <2>3. Keeps(queue, pending)
    BY <2>2, Rescoring
  <2>. QED
    BY <1>1, <2>1, <2>3, LenProperties DEF Keeps, KeepsFrame, Ids
<1>. HIDE DEF pending
<1>3. CASE RespondRefused(c, id)
  BY <1>1, <1>3, StillStep DEF RespondRefused
<1>4. CASE RespondSent(c, id, decision)
  <2>1. Keeps(queue, queue')
    BY <1>2, <1>4 DEF RespondSent, pending
  <2>. QED
    BY <1>1, <1>4, <2>1, StillStep DEF RespondSent
<1>5. CASE RespondOverflow(c, id, decision)
  <2>1. Keeps(pending, MarkDeliveryFailed(pending, id))
    BY <1>2, <1>5, ResolutionKeeps DEF RespondOverflow
  <2>2. Keeps(queue, MarkDeliveryFailed(pending, id))
    BY <1>1, <1>2, <1>5, <2>1, KeepsTransitive DEF RespondOverflow
  <2>3. Keeps(queue, queue')
    BY <1>5, <2>2, Rescoring DEF RespondOverflow, pending
  <2>. QED
    BY <1>1, <1>5, <2>3, StillStep DEF RespondOverflow
<1>6. CASE RespondUnattended(c, id, decision)
  <2>1. Keeps(pending, MarkDelivered(pending, id, decision))
    BY <1>2, <1>6, ResolutionKeeps DEF RespondUnattended
  <2>2. Keeps(queue, MarkDelivered(pending, id, decision))
    BY <1>1, <1>2, <1>6, <2>1, KeepsTransitive DEF RespondUnattended
  <2>3. Keeps(queue, queue')
    BY <1>6, <2>2, Rescoring DEF RespondUnattended, pending
  <2>. QED
    BY <1>1, <1>6, <2>3, StillStep DEF RespondUnattended
<1>. QED
  BY <1>3, <1>4, <1>5, <1>6 DEF ClientRespond

LEMMA ClientStep == IInv /\ ClientCommand => IInv'
<1>. SUFFICES ASSUME IInv, ClientCommand PROVE IInv'
  OBVIOUS
<1>1. Keeps(queue, queue) /\ now \in Nat
  BY KeepsItself DEF IInv, TypeOK
<1>. PICK c \in Clients :
       \/ ClientStartTask(c)
       \/ ClientQuery(c)
       \/ SendSnapshot(c)
       \/ \E id \in EventIds :
            \/ ClientAck(c, id)
            \/ ClientDismiss(c, id)
            \/ ClientDetails(c, id)
            \/ \E decision \in Decisions : ClientRespond(c, id, decision)
  BY DEF ClientCommand
<1>2. CASE ClientStartTask(c)
  BY <1>1, <1>2, StillStep DEF ClientStartTask
<1>3. CASE ClientQuery(c)
  BY <1>1, <1>3, StillStep DEF ClientQuery
<1>4. CASE SendSnapshot(c)
  BY <1>1, <1>4, StillStep DEF SendSnapshot
<1>5. ASSUME NEW id \in EventIds,
             ClientAck(c, id) \/ ClientDismiss(c, id) \/ ClientDetails(c, id)
      PROVE  IInv'
  BY <1>5, AttentionStep
<1>6. ASSUME NEW id \in EventIds, NEW decision \in Decisions,
             ClientRespond(c, id, decision)
      PROVE  IInv'
  BY <1>6, RespondStep
<1>. QED
  BY <1>2, <1>3, <1>4, <1>5, <1>6

LEMMA OutcomeStep == IInv /\ AdapterOutcome => IInv'
<1>. SUFFICES ASSUME IInv, NEW id \in Ids(queue),
                     \/ \E decision \in Decisions : Delivered(id, decision)
                     \/ DeliveryFailed(id)
              PROVE  IInv'
  BY DEF AdapterOutcome
<1>1. queue \in Seq(QueueEntry) /\ Keeps(queue, queue) /\ now \in Nat
  BY KeepsItself DEF IInv, TypeOK
<1>2. ASSUME NEW decision \in Decisions, Delivered(id, decision)
      PROVE  IInv'
  <2>1. CASE ~InDelivery(queue, id)
    BY <1>1, <1>2, <2>1, StillStep DEF Delivered
  <2>2. CASE InDelivery(queue, id)
    <3>1. Keeps(queue, MarkDelivered(queue, id, decision))
      BY <1>1, <2>2, ResolutionKeeps DEF InDelivery
    <3>2. Keeps(queue, queue')
      BY <1>2, <2>2, <3>1, Rescoring DEF Delivered
    <3>. QED
      BY <1>1, <1>2, <3>2, StillStep DEF Delivered
  <2>. QED
    BY <2>1, <2>2
<1>3. CASE DeliveryFailed(id)
  <2>1. CASE ~InDelivery(queue, id)
    BY <1>1, <1>3, <2>1, StillStep DEF DeliveryFailed
  <2>2. CASE InDelivery(queue, id)
    <3>1. Keeps(queue, MarkDeliveryFailed(queue, id))
      BY <1>1, <2>2, ResolutionKeeps DEF InDelivery
    <3>2. Keeps(queue, queue')
      BY <1>3, <2>2, <3>1, Rescoring DEF DeliveryFailed
    <3>. QED
      BY <1>1, <1>3, <3>2, StillStep DEF DeliveryFailed
  <2>. QED
    BY <2>1, <2>2
<1>. QED
  BY <1>2, <1>3

-----------------------------------------------------------------------------
(* Arrival of an event.                                                    *)

(* VerdictTyped: every kind is classified, with or without a request.      *)
LEMMA VerdictTyped ==
  ASSUME NEW kind \in Kinds, NEW hasRequest \in BOOLEAN
  PROVE  Verdict(kind, hasRequest) \in Categories \X Severities
<1>1. Classify(kind) \in Categories \X Severities
  <2>1. CASE kind \in UnknownKinds
    BY <2>1 DEF UnknownKinds, Classify, Categories, Severities
  <2>2. CASE kind \notin UnknownKinds
    <3>1. \E v \in Categories \X Severities : kind \in KindsOf(v[1], v[2])
      <4>. PICK c \in Categories, s \in Severities : kind \in KindsOf(c, s)
        BY <2>2 DEF Kinds
      <4>. QED
        BY <<c, s>> \in Categories \X Severities
    <3>. DEFINE chosen == CHOOSE v \in Categories \X Severities :
                            kind \in KindsOf(v[1], v[2])
    <3>2. chosen \in Categories \X Severities
      BY <3>1
    <3>. HIDE DEF chosen
    <3>3. Tabled[kind] = chosen
      BY <2>2 DEF Tabled, chosen
    <3>4. Classify(kind) = chosen
      BY <2>2, <3>3 DEF Classify, UnknownKinds
    <3>. QED
      BY <3>2, <3>4
  <2>. QED
    BY <2>1, <2>2
<1>. QED
  BY <1>1 DEF Verdict, Categories, Severities

(* SupersedeEffect: superseding changes nothing but the flag it sets.      *)
LEMMA SupersedeEffect ==
  ASSUME NEW q \in Seq(QueueEntry), NEW ids
  PROVE  /\ Supersede(q, ids) \in Seq(QueueEntry)
         /\ Len(Supersede(q, ids)) = Len(q)
         /\ \A id \in Ids(q) :
              /\ Supersede(q, ids)[id].tier = q[id].tier
              /\ Supersede(q, ids)[id].state = q[id].state
              /\ Supersede(q, ids)[id].resolution = q[id].resolution
              /\ Supersede(q, ids)[id].escalation = q[id].escalation
              /\ Supersede(q, ids)[id].superseded
                   <=> q[id].superseded \/ (id \in ids /\ CanSupersede(q, id))
<1>. DEFINE r == Supersede(q, ids)
<1>1. ASSUME NEW id \in Ids(q)
      PROVE  /\ r[id] \in QueueEntry
             /\ r[id].tier = q[id].tier
             /\ r[id].state = q[id].state
             /\ r[id].resolution = q[id].resolution
             /\ r[id].escalation = q[id].escalation
             /\ r[id].superseded
                  <=> q[id].superseded \/ (id \in ids /\ CanSupersede(q, id))
  <2>1. q[id] \in QueueEntry
    BY ElementOfSeq, LenProperties DEF Ids
  <2>2. r[id] = IF id \in ids /\ CanSupersede(q, id)
                THEN [q[id] EXCEPT !.superseded = TRUE] ELSE q[id]
    BY DEF Supersede
  <2>. QED
    BY <2>1, <2>2 DEF QueueEntry
<1>2. r \in [1..Len(q) -> QueueEntry] /\ Len(q) \in Nat
  BY <1>1, LenProperties DEF Supersede, Ids
<1>. HIDE DEF r
<1>3. r \in Seq(QueueEntry) /\ Len(r) = Len(q)
  BY <1>2, SeqOfFunction
<1>. QED
  BY <1>1, <1>3 DEF r

(* Arrival: an event comes in, of any kind and number; AdapterEvent is one *)
(* of those the model's adapters report.                                   *)
Arrival ==
  \E kind \in Kinds, hasRequest \in BOOLEAN, task \in Tasks \cup {NoTask},
     operation \in Operations, agentSeq \in Nat :
    RawEvent(kind, hasRequest, task, operation, agentSeq)

LEMMA AdapterArrives == AdapterEvent => Arrival
BY CoreAssumption DEF AdapterEvent, Arrival

(* ArrivalEffect: what an arriving event does to store, queue and tracker. *)
LEMMA ArrivalEffect ==
  ASSUME IInv, Arrival
  PROVE  \E event \in Event, stale \in SUBSET Ids(queue) :
           LET id == Len(events) + 1 IN
           /\ event.task \in Tasks \cup {NoTask}
           /\ events' = Append(events, event)
           /\ queue' \in Seq(QueueEntry) /\ Len(queue') = id
           /\ \A x \in Ids(queue) :
                /\ queue'[x].tier = queue[x].tier
                /\ queue'[x].state = queue[x].state
                /\ queue'[x].resolution = queue[x].resolution
                /\ queue'[x].escalation = queue[x].escalation
                /\ queue'[x].superseded <=> queue[x].superseded \/ x \in stale
           /\ queue'[id].tier = Tier(event.category)
           /\ queue'[id].state = "New"
           /\ ~queue'[id].superseded /\ queue'[id].escalation = 0
           /\ queue'[id].resolution = "None" <=> event.category # "Request"
           /\ queue'[id].resolution \in {"None", "Unresolved"}
           /\ \A x \in Ids(queue) :
                x \in stale <=> x \in Outdated(open, event)
                                /\ CanSupersede(queue, x)
           /\ open' = Observe(open, event, id)
           /\ now' = now
<1>. PICK kind \in Kinds, hasRequest \in BOOLEAN,
          task \in Tasks \cup {NoTask},
          operation \in Operations, agentSeq \in Nat :
            RawEvent(kind, hasRequest, task, operation, agentSeq)
  BY DEF Arrival
<1>. DEFINE verdict == Verdict(kind, hasRequest)
            event   == [task |-> task, category |-> verdict[1],
                        severity |-> verdict[2], operation |-> operation,
                        agentSeq |-> agentSeq, ts |-> now]
            id      == Len(events) + 1
            fresh   == NewEntry(event.category, 0)
            entry   == [fresh EXCEPT !.score = Score(fresh, event, now)]
            stored  == Append(queue, entry)
            stale   == {x \in Outdated(open, event) : CanSupersede(queue, x)}
<1>1. /\ queue \in Seq(QueueEntry) /\ events \in Seq(Event) /\ now \in Nat
      /\ Len(queue) = Len(events) /\ Len(events) \in Nat
      /\ Ids(queue) = 1..Len(events)
  BY LenProperties DEF IInv, TypeOK, Ids
<1>2. event \in Event
  <2>1. verdict \in Categories \X Severities
    BY VerdictTyped
  <2>. QED
    BY <1>1, <2>1 DEF Event
<1>3. /\ fresh \in QueueEntry
      /\ fresh.tier = Tier(event.category) /\ fresh.state = "New"
      /\ ~fresh.superseded /\ fresh.escalation = 0
      /\ fresh.resolution = "None" <=> event.category # "Request"
      /\ fresh.resolution \in {"None", "Unresolved"}
  BY <1>2 DEF NewEntry, QueueEntry, Tier, Event, Categories, EntryStates,
              Resolutions, MaxEscalationLevel
<1>4. Score(fresh, event, now) \in 0..100
  BY <1>1, <1>2, <1>3, ScoreInRange
<1>5. /\ entry \in QueueEntry
      /\ entry.tier = Tier(event.category) /\ entry.state = "New"
      /\ ~entry.superseded /\ entry.escalation = 0
      /\ entry.resolution = "None" <=> event.category # "Request"
      /\ entry.resolution \in {"None", "Unresolved"}
  <2>. HIDE DEF fresh, event
  <2>. QED  BY <1>3, <1>4 DEF QueueEntry
<1>. HIDE DEF entry
<1>6. /\ stored \in Seq(QueueEntry) /\ Len(stored) = id
      /\ Ids(stored) = 1..id
      /\ stored[id] = entry
      /\ \A x \in Ids(queue) : stored[x] = queue[x]
  BY <1>1, <1>5, AppendProperties, LenProperties DEF Ids
<1>7. stale \in SUBSET Ids(queue)
  BY DEF CanSupersede, Known
<1>8. \A x \in Ids(queue) : CanSupersede(stored, x) <=> CanSupersede(queue, x)
  BY <1>1, <1>6 DEF CanSupersede, Known
<1>9. id \notin stale
  BY <1>1, <1>7
<1>10. /\ queue' = Supersede(stored, stale)
       /\ events' = Append(events, event)
       /\ open' = Observe(open, event, id)
       /\ now' = now
  BY DEF RawEvent, Processed, entry
<1>. HIDE DEF stored, verdict
<1>11. /\ queue' \in Seq(QueueEntry) /\ Len(queue') = id
       /\ \A x \in Ids(stored) :
            /\ queue'[x].tier = stored[x].tier
            /\ queue'[x].state = stored[x].state
            /\ queue'[x].resolution = stored[x].resolution
            /\ queue'[x].escalation = stored[x].escalation
            /\ queue'[x].superseded
                 <=> stored[x].superseded
                       \/ (x \in stale /\ CanSupersede(stored, x))
  BY <1>6, <1>10, SupersedeEffect
<1>12. \A x \in Ids(queue) :
         /\ queue'[x].tier = queue[x].tier
         /\ queue'[x].state = queue[x].state
         /\ queue'[x].resolution = queue[x].resolution
         /\ queue'[x].escalation = queue[x].escalation
         /\ queue'[x].superseded <=> queue[x].superseded \/ x \in stale
  BY <1>1, <1>6, <1>8, <1>11
<1>13. /\ queue'[id].tier = Tier(event.category) /\ queue'[id].state = "New"
       /\ ~queue'[id].superseded /\ queue'[id].escalation = 0
       /\ queue'[id].resolution = "None" <=> event.category # "Request"
       /\ queue'[id].resolution \in {"None", "Unresolved"}
  BY <1>1, <1>5, <1>6, <1>9, <1>11
<1>14. event.task \in Tasks \cup {NoTask}
  OBVIOUS
<1>15. \A x \in Ids(queue) :
         x \in stale <=> x \in Outdated(open, event) /\ CanSupersede(queue, x)
  OBVIOUS
<1>. HIDE DEF event, stale
<1>. QED
  BY <1>2, <1>7, <1>10, <1>11, <1>12, <1>13, <1>14, <1>15

LEMMA ArrivalStep == IInv /\ Arrival => IInv'
<1>. SUFFICES ASSUME IInv, Arrival PROVE IInv'
  OBVIOUS
<1>1. /\ queue \in Seq(QueueEntry) /\ events \in Seq(Event) /\ now \in Nat
      /\ Len(queue) = Len(events) /\ Len(events) \in Nat
      /\ Ids(queue) = 1..Len(events)
      /\ DOMAIN open \subseteq Tasks
      /\ open \in [DOMAIN open -> OpenTask]
  BY LenProperties DEF IInv, TypeOK, Ids
<1>. PICK id \in Nat : id = Len(events) + 1
  BY <1>1
<1>. PICK event \in Event, stale \in SUBSET Ids(queue) :
       /\ event.task \in Tasks \cup {NoTask}
       /\ events' = Append(events, event)
       /\ queue' \in Seq(QueueEntry) /\ Len(queue') = id
       /\ \A x \in Ids(queue) :
            /\ queue'[x].tier = queue[x].tier
            /\ queue'[x].resolution = queue[x].resolution
            /\ queue'[x].escalation = queue[x].escalation
            /\ queue'[x].superseded <=> queue[x].superseded \/ x \in stale
       /\ queue'[id].tier = Tier(event.category)
       /\ ~queue'[id].superseded /\ queue'[id].escalation = 0
       /\ queue'[id].resolution = "None" <=> event.category # "Request"
       /\ \A x \in Ids(queue) :
            x \in stale <=> x \in Outdated(open, event) /\ CanSupersede(queue, x)
       /\ open' = Observe(open, event, id)
       /\ now' = now
  BY ArrivalEffect
<1>2. /\ events' \in Seq(Event) /\ Len(events') = id
      /\ events'[id] = event
      /\ \A x \in Ids(queue) : events'[x] = events[x]
      /\ Ids(queue') = 1..id
  BY <1>1, AppendProperties, LenProperties DEF Ids
<1>3. event.category \in Categories
  BY DEF Event
<1>. DEFINE record == Opened(open, event)
(* What the tracker holds of the task of the event, before and after.      *)
<1>4. /\ record \in OpenTask
      /\ event.task \notin DOMAIN open
           => record.working = {} /\ record.requests = {}
              /\ record.latest = NoEvent /\ record.level = 0
      /\ event.task \in DOMAIN open => record = open[event.task]
  BY <1>1 DEF Opened, NewTask, OpenTask, Event, MaxEscalationLevel
<1>5. /\ event.task = NoTask => open' = open
      /\ event.task # NoTask /\ Closes(event)
           => open' = Without(open, event.task)
      /\ event.task # NoTask /\ event.category = "Working"
           => open' = With(open, event.task,
                [record EXCEPT !.latest = id, !.working = @ \cup {id}])
      /\ event.task # NoTask /\ event.category = "Request"
           => open' = With(open, event.task, [record EXCEPT !.requests = {id}])
  BY <1>3 DEF Observe, Closes, Categories
<1>6. \A x \in Ids(queue) : x # id
  BY <1>1
<1>. HIDE DEF record
<1>7. /\ event.task # NoTask => event.task \in Tasks
      /\ \A w \in SUBSET Nat : w \cup {id} \in SUBSET Nat
  OBVIOUS
(* The record of the task of the event, if it is still open.               *)
<1>8. ASSUME event.task # NoTask, event.category = "Working"
       PROVE  LET t == event.task IN
              /\ DOMAIN open' = DOMAIN open \cup {t}
              /\ open'[t].working = record.working \cup {id}
              /\ open'[t].requests = record.requests
              /\ open'[t].latest = id
              /\ open'[t].level = record.level
              /\ \A x \in DOMAIN open \ {t} : open'[x] = open[x]
              /\ DOMAIN open' \subseteq Tasks
              /\ open' \in [DOMAIN open' -> OpenTask]
  <2>. DEFINE r == [record EXCEPT !.latest = id, !.working = @ \cup {id}]
  <2>1. /\ r \in OpenTask
        /\ r.working = record.working \cup {id}
        /\ r.requests = record.requests /\ r.latest = id
        /\ r.level = record.level
    BY <1>4, <1>7 DEF OpenTask
  <2>2. open' = With(open, event.task, r)
    BY <1>5, <1>8
  <2>. HIDE DEF r
  <2>3. event.task \in Tasks
    BY <1>7, <1>8
  <2>4. /\ DOMAIN open' = DOMAIN open \cup {event.task}
        /\ open'[event.task] = r
        /\ \A x \in DOMAIN open \ {event.task} : open'[x] = open[x]
        /\ DOMAIN open' \subseteq Tasks /\ open' \in [DOMAIN open' -> OpenTask]
    BY ONLY <1>1, <2>1, <2>2, <2>3 DEF With
  <2>. QED
    BY <2>1, <2>4
<1>9. ASSUME event.task # NoTask, event.category = "Request"
       PROVE  LET t == event.task IN
              /\ DOMAIN open' = DOMAIN open \cup {t}
              /\ open'[t].working = record.working
              /\ open'[t].requests = {id}
              /\ open'[t].latest = record.latest
              /\ open'[t].level = record.level
              /\ \A x \in DOMAIN open \ {t} : open'[x] = open[x]
              /\ DOMAIN open' \subseteq Tasks
              /\ open' \in [DOMAIN open' -> OpenTask]
  <2>. DEFINE r == [record EXCEPT !.requests = {id}]
  <2>1. /\ r \in OpenTask
        /\ r.working = record.working
        /\ r.requests = {id} /\ r.latest = record.latest
        /\ r.level = record.level
    BY <1>4, <1>7 DEF OpenTask
  <2>2. open' = With(open, event.task, r)
    BY <1>5, <1>9
  <2>. HIDE DEF r
  <2>3. event.task \in Tasks
    BY <1>7, <1>9
  <2>4. /\ DOMAIN open' = DOMAIN open \cup {event.task}
        /\ open'[event.task] = r
        /\ \A x \in DOMAIN open \ {event.task} : open'[x] = open[x]
        /\ DOMAIN open' \subseteq Tasks /\ open' \in [DOMAIN open' -> OpenTask]
    BY ONLY <1>1, <2>1, <2>2, <2>3 DEF With
  <2>. QED
    BY <2>1, <2>4
<1>10. DOMAIN open' \subseteq Tasks /\ open' \in [DOMAIN open' -> OpenTask]
  <2>1. CASE event.task = NoTask
    BY <1>1, <1>5, <2>1
  <2>2. CASE event.task # NoTask /\ Closes(event)
    BY <1>1, <1>5, <2>2 DEF Without
  <2>3. CASE event.task # NoTask /\ event.category \in {"Working", "Request"}
    BY <1>8, <1>9, <2>3
  <2>. QED
    BY <1>3, <2>1, <2>2, <2>3 DEF Closes, Categories
<1>11. TypeOK'
  <2>1. \A x \in Ids(queue') : queue'[x].tier = Tier(events'[x].category)
    BY <1>1, <1>2 DEF IInv, TypeOK
  <2>. QED
    BY <1>1, <1>2, <1>10, <2>1 DEF TypeOK
<1>12. RequestsResolvable'
  BY <1>1, <1>2 DEF IInv, RequestsResolvable, IsRequest
(* Each task keeps what it tracked, but for the one of the event.          *)
<1>13. ASSUME NEW t \in DOMAIN open'
       PROVE  \/ /\ t \in DOMAIN open /\ open'[t] = open[t]
                 /\ t = event.task => t = NoTask
              \/ /\ t = event.task /\ t # NoTask
                 /\ event.category = "Working"
                 /\ open'[t].working = record.working \cup {id}
                 /\ open'[t].requests = record.requests
                 /\ open'[t].latest = id
                 /\ open'[t].level = record.level
              \/ /\ t = event.task /\ t # NoTask
                 /\ event.category = "Request"
                 /\ open'[t].working = record.working
                 /\ open'[t].requests = {id}
                 /\ open'[t].latest = record.latest
                 /\ open'[t].level = record.level
  <2>1. CASE event.task = NoTask
    BY <1>5, <2>1
  <2>2. CASE event.task # NoTask /\ Closes(event)
    BY <1>5, <2>2 DEF Without
  <2>3. CASE event.task # NoTask /\ event.category = "Working"
    BY <1>8, <2>3
  <2>4. CASE event.task # NoTask /\ event.category = "Request"
    BY <1>9, <2>4
  <2>. QED
    BY <1>3, <2>1, <2>2, <2>3, <2>4 DEF Closes, Categories
<1>14. /\ \A x \in record.working :
             /\ x \in Ids(queue)
             /\ TaskOf(x) = event.task /\ events[x].category = "Working"
       /\ \A x \in record.requests :
             /\ x \in Ids(queue)
             /\ TaskOf(x) = event.task /\ IsRequest(x)
       /\ \A a, b \in record.requests : a = b
       /\ IF record.latest = NoEvent THEN record.working = {}
          ELSE record.latest \in record.working
  BY <1>4 DEF IInv, TrackerConsistent
<1>15. /\ TaskOf(id)' = event.task
       /\ \A x \in Ids(queue) : TaskOf(x)' = TaskOf(x)
       /\ id \in Ids(queue') /\ Ids(queue) \subseteq Ids(queue')
       /\ Ids(queue') = Ids(queue) \cup {id}
  BY <1>1, <1>2, <1>7 DEF TaskOf
<1>16. TrackerConsistent'
  <2>. SUFFICES ASSUME NEW t \in DOMAIN open'
                PROVE
         /\ \A x \in open'[t].working :
              /\ x \in Ids(queue')
              /\ TaskOf(x)' = t /\ events'[x].category = "Working"
         /\ \A x \in open'[t].requests :
              /\ x \in Ids(queue')
              /\ TaskOf(x)' = t /\ IsRequest(x)'
         /\ \A a, b \in open'[t].requests : a = b
         /\ IF open'[t].latest = NoEvent THEN open'[t].working = {}
            ELSE open'[t].latest \in open'[t].working
    BY DEF TrackerConsistent
  <2>1. CASE /\ t \in DOMAIN open /\ open'[t] = open[t]
    BY <1>2, <1>15, <2>1 DEF IInv, TrackerConsistent, IsRequest
  <2>2. CASE /\ t = event.task /\ event.category = "Working"
             /\ open'[t].working = record.working \cup {id}
             /\ open'[t].requests = record.requests
             /\ open'[t].latest = id
    BY <1>2, <1>7, <1>14, <1>15, <2>2, NoEventAssumption DEF IsRequest
  <2>3. CASE /\ t = event.task /\ event.category = "Request"
             /\ open'[t].working = record.working
             /\ open'[t].requests = {id}
             /\ open'[t].latest = record.latest
    BY <1>2, <1>14, <1>15, <2>3 DEF IsRequest
  <2>. QED
    BY <1>13, <2>1, <2>2, <2>3
<1>17. WorkingShownWhileOpen'
  <2>. SUFFICES ASSUME NEW x \in Ids(queue'),
                       events'[x].category = "Working", TaskOf(x)' # NoTask
                PROVE  queue'[x].superseded <=> ~Tracked(x)'
    BY DEF WorkingShownWhileOpen
  <2>1. CASE x = id
    <3>1. event.task # NoTask /\ event.category = "Working"
      BY <1>2, <1>15, <2>1
    <3>2. event.task \in DOMAIN open' /\ id \in open'[event.task].working
      BY <1>8, <3>1
    <3>. QED
      BY <1>15, <2>1, <3>2 DEF Tracked
  <2>2. CASE x \in Ids(queue)
    <3>1. /\ events[x].category = "Working" /\ TaskOf(x) # NoTask
          /\ queue[x].superseded <=> ~Tracked(x)
      BY <1>2, <1>15, <2>2 DEF IInv, WorkingShownWhileOpen
    <3>2. queue[x].resolution = "None" /\ ~IsRequest(x)
      BY <2>2, <3>1 DEF IInv, RequestsResolvable, IsRequest
    <3>3. CanSupersede(queue, x) <=> ~queue[x].superseded
      BY <2>2, <3>2 DEF CanSupersede, Known, Decisions
    <3>4. x \in Outdated(open, event)
            <=> /\ event.task \in DOMAIN open /\ Closes(event)
                /\ x \in open[event.task].working
      <4>1. event.task \in DOMAIN open => x \notin open[event.task].requests
        BY <3>2 DEF IInv, TrackerConsistent
      <4>. QED
        BY <1>3, <4>1 DEF Outdated, Closes, Categories
    <3>5. Tracked(x)' <=> /\ Tracked(x)
                          /\ ~(TaskOf(x) = event.task /\ Closes(event))
      <4>1. TaskOf(x)' = TaskOf(x) /\ x # id
        BY <1>6, <1>15, <2>2
      <4>2. CASE event.task = NoTask
        BY <1>5, <3>1, <4>1, <4>2 DEF Tracked
      <4>3. CASE event.task # NoTask /\ Closes(event)
        BY <1>5, <4>1, <4>3 DEF Tracked, Without
      <4>4. CASE event.task # NoTask /\ event.category = "Working"
        <5>1. CASE TaskOf(x) = event.task
          BY <1>4, <1>8, <3>1, <4>1, <4>4, <5>1 DEF Tracked, Closes
        <5>2. CASE TaskOf(x) # event.task
          BY <1>8, <4>1, <4>4, <5>2 DEF Tracked
        <5>. QED
          BY <5>1, <5>2
      <4>5. CASE event.task # NoTask /\ event.category = "Request"
        <5>1. CASE TaskOf(x) = event.task
          <6>1. x \notin record.requests
            BY <1>14, <3>2
          <6>. QED
            BY <1>4, <1>9, <4>1, <4>5, <5>1, <6>1 DEF Tracked, Closes
        <5>2. CASE TaskOf(x) # event.task
          BY <1>9, <4>1, <4>5, <5>2 DEF Tracked
        <5>. QED
          BY <5>1, <5>2
      <4>. QED
        BY <1>3, <4>2, <4>3, <4>4, <4>5 DEF Closes, Categories
    <3>6. Tracked(x) <=> /\ TaskOf(x) \in DOMAIN open
                         /\ x \in open[TaskOf(x)].working
      BY <3>2 DEF Tracked, IInv, TrackerConsistent
    <3>7. x \in stale <=> x \in Outdated(open, event) /\ ~queue[x].superseded
      BY <2>2, <3>3
    <3>8. queue'[x].superseded <=> queue[x].superseded \/ x \in stale
      BY <2>2
    <3>9. event.task \in DOMAIN open /\ x \in open[event.task].working
            => TaskOf(x) = event.task
      BY DEF IInv, TrackerConsistent
    <3>. QED
      BY <3>1, <3>4, <3>5, <3>6, <3>7, <3>8, <3>9
  <2>. QED
    BY <1>15, <2>1, <2>2
<1>18. ASSUME NEW x \in Ids(queue'), queue'[x].escalation > 0
       PROVE  events'[x].category = "Working" /\ TaskOf(x)' # NoTask
  <2>1. x \in Ids(queue)
    BY <1>15, <1>18
  <2>. QED
    BY <1>2, <1>15, <1>18, <2>1 DEF IInv, EscalationCarried
<1>19. /\ \A x \in record.working :
            queue[x].escalation <= record.level
       /\ record.level > 0
            => \E x \in record.working : queue[x].escalation = record.level
       /\ record.level \in Nat
  <2>1. CASE event.task \in DOMAIN open
    BY <1>4, <2>1 DEF IInv, EscalationCarried, OpenTask, MaxEscalationLevel
  <2>2. CASE event.task \notin DOMAIN open
    BY <1>4, <2>2
  <2>. QED
    BY <2>1, <2>2
<1>20. ASSUME NEW t \in DOMAIN open'
       PROVE  /\ \A x \in open'[t].working :
                   queue'[x].escalation <= open'[t].level
              /\ open'[t].level > 0
                   => \E x \in open'[t].working :
                        queue'[x].escalation = open'[t].level
  <2>1. CASE t \in DOMAIN open /\ open'[t] = open[t]
    <3>1. open[t].working \subseteq Ids(queue)
      BY <2>1 DEF IInv, TrackerConsistent
    <3>. QED
      BY <2>1, <3>1 DEF IInv, EscalationCarried
  <2>2. CASE /\ open'[t].working = record.working \cup {id}
             /\ open'[t].level = record.level
    BY <1>14, <1>19, <2>2
  <2>3. CASE /\ open'[t].working = record.working
             /\ open'[t].level = record.level
    BY <1>14, <1>19, <2>3
  <2>. QED
    BY <1>13, <2>1, <2>2, <2>3
<1>21. EscalationCarried'
  BY <1>18, <1>20 DEF EscalationCarried
<1>. QED
  BY <1>11, <1>12, <1>16, <1>17, <1>21 DEF IInv

-----------------------------------------------------------------------------
(* The theorems.                                                           *)

(* Invariance: IInv holds in every state of every behaviour of the core.   *)
THEOREM Invariance == Spec => []IInv
<1>1. Init => IInv
  BY InitIInv
<1>2. IInv /\ [Next]_vars => IInv'
  <2>. SUFFICES ASSUME IInv, [Next]_vars PROVE IInv'
    OBVIOUS
  <2>1. now \in Nat /\ Keeps(queue, queue)
    BY KeepsItself DEF IInv, TypeOK
  <2>2. CASE Advance
    BY <2>1, <2>2, StillStep, CoreAssumption DEF Advance
  <2>3. CASE AdapterEvent
    BY <2>3, ArrivalStep, AdapterArrives
  <2>4. CASE DropMalformed
    BY <2>1, <2>4, StillStep DEF DropMalformed
  <2>5. CASE Tick
    BY <2>5, TickStep
  <2>6. CASE ClientCommand
    BY <2>6, ClientStep
  <2>7. CASE AdapterOutcome
    BY <2>7, OutcomeStep
  <2>8. CASE TakeCommand
    BY <2>1, <2>8, StillStep DEF TakeCommand
  <2>9. CASE UNCHANGED vars
    BY <2>1, <2>9, StillStep DEF vars
  <2>. QED
    BY <2>2, <2>3, <2>4, <2>5, <2>6, <2>7, <2>8, <2>9 DEF Next
<1>. QED
  BY <1>1, <1>2, PTL DEF Spec

(* TypeCorrect: the store, the queue and the tracker always hold values of *)
(* their types, one entry per event, in the tier of its category.          *)
THEOREM TypeCorrect == Spec => []TypeOK
<1>1. IInv => TypeOK
  BY DEF IInv
<1>. QED
  BY <1>1, Invariance, PTL

(* TrackerSound: what the tracker holds are events of the task it holds    *)
(* them for, and at most one of them is a request.                         *)
THEOREM TrackerSound == Spec => []TrackerConsistent
<1>1. IInv => TrackerConsistent
  BY DEF IInv
<1>. QED
  BY <1>1, Invariance, PTL

(* WorkingShown: a working entry is hidden exactly when its task is over,  *)
(* whatever the number of tasks and events and however they interleave.    *)
THEOREM WorkingShown == Spec => []WorkingShownWhileOpen
<1>1. IInv => WorkingShownWhileOpen
  BY DEF IInv
<1>. QED
  BY <1>1, Invariance, PTL

(* LevelsCarried: whatever the watchdog raises is shown by an entry of the *)
(* task it was raised for, and no entry shows more, however ticks, events  *)
(* and the ends of tasks fall.                                             *)
THEOREM LevelsCarried == Spec => []EscalationCarried
<1>1. IInv => EscalationCarried
  BY DEF IInv
<1>. QED
  BY <1>1, Invariance, PTL

-----------------------------------------------------------------------------
(* Below the due.  No live entry of the queue sorts below what it is due.  *)
(*                                                                         *)
(* The argument: of what a score depends on, age and an acknowledgement    *)
(* can only lower it, so an entry that nobody rescores keeps at least what *)
(* it is due.  Whatever could raise it is rescored in the same step.       *)


(* Sound: the entries of q, those in S apart, have at least their due.     *)
SoundBut(q, es, t, S) ==
  \A id \in Ids(q) \ S :
    IsLive(q[id]) => q[id].score >= Score(q[id], es[id], t)

Sound(q, es, t) == SoundBut(q, es, t, {})

QueueTyped(q, es, t) ==
  q \in Seq(QueueEntry) /\ es \in Seq(Event) /\ Len(q) = Len(es) /\ t \in Nat

-----------------------------------------------------------------------------
(* Scores.                                                                 *)

(* BonusDecays: a bonus is a number, and never grows with age.             *)
LEMMA BonusDecays ==
  ASSUME NEW category, NEW a \in Int, NEW b \in Int, a <= b
  PROVE  /\ RecencyBonus(category, a) \in Int
         /\ RecencyBonus(category, b) <= RecencyBonus(category, a)
<1>. PICK da \in Int : da = (40 * (1800 - a) + 1800) \div 3600
  OBVIOUS
<1>. PICK db \in Int : db = (40 * (1800 - b) + 1800) \div 3600
  OBVIOUS
<1>1. /\ RecencyBonus(category, a) =
           IF category = "Working" \/ a >= 1800 THEN 0
           ELSE IF a <= 0 THEN 20 ELSE da
      /\ RecencyBonus(category, b) =
           IF category = "Working" \/ b >= 1800 THEN 0
           ELSE IF b <= 0 THEN 20 ELSE db
  BY DEF RecencyBonus, RecencyMaxBonus, RecencyWindow
<1>2. /\ a < 1800 => 0 <= da
      /\ 0 < b /\ b < 1800 => 0 <= db /\ db <= 20
      /\ db <= da
  OBVIOUS
<1>. QED
  BY <1>1, <1>2

(* ClampMonotone: bounding keeps the order.                                *)
LEMMA ClampMonotone ==
  ASSUME NEW m \in Int, NEW n \in Int, m <= n
  PROVE  Clamp(m, 0, 100) <= Clamp(n, 0, 100)
BY DEF Clamp

(* ScoreFalls: a score falls with time and with an acknowledgement.        *)
LEMMA ScoreFalls ==
  ASSUME NEW e \in QueueEntry, NEW f \in QueueEntry, NEW event \in Event,
         NEW s \in Nat, NEW t \in Nat, s <= t,
         f.escalation = e.escalation, f.resolution = e.resolution,
         f.state = e.state \/ (e.state = "New" /\ f.state = "Seen")
  PROVE  Score(f, event, t) <= Score(e, event, s)
<1>. DEFINE base    == BaseScore(event.severity)
            young   == RecencyBonus(event.category, s - event.ts)
            old     == RecencyBonus(event.category, t - event.ts)
            level   == EscalationBonus(event.category, e.escalation)
            seen(x) == IF x.state = "Seen" THEN SeenPenalty ELSE 0
            decided == IF e.resolution \in Decisions
                       THEN ResolvedPenalty ELSE 0
<1>1. base \in Int
  BY DEF BaseScore, Event, Severities
<1>2. young \in Int /\ old \in Int /\ old <= young
  <2>1. /\ s - event.ts \in Int /\ t - event.ts \in Int
        /\ s - event.ts <= t - event.ts
    BY DEF Event
  <2>2. old \in Int /\ young \in Int
    BY <2>1, BonusDecays
  <2>. QED
    BY <2>1, <2>2, BonusDecays
<1>3. level \in Int
  BY DEF EscalationBonus
<1>4. decided \in Int
  BY DEF ResolvedPenalty
<1>5. seen(e) \in Int /\ seen(f) \in Int /\ seen(e) <= seen(f)
  BY DEF SeenPenalty
<1>6. /\ Score(e, event, s) =
           Clamp(base + young + level - seen(e) - decided, 0, 100)
      /\ Score(f, event, t) =
           Clamp(base + old + level - seen(f) - decided, 0, 100)
  BY DEF Score
<1>. HIDE DEF base, young, old, level, seen, decided
<1>. QED
  BY <1>1, <1>2, <1>3, <1>4, <1>5, <1>6, ClampMonotone

(* OwnScore: a score does not depend on the one recorded.                  *)
LEMMA OwnScore ==
  ASSUME NEW e \in QueueEntry, NEW event \in Event, NEW t \in Nat, NEW n
  PROVE  Score([e EXCEPT !.score = n], event, t) = Score(e, event, t)
<1>1. /\ [e EXCEPT !.score = n].state = e.state
      /\ [e EXCEPT !.score = n].resolution = e.resolution
      /\ [e EXCEPT !.score = n].escalation = e.escalation
  BY DEF QueueEntry
<1>. QED
  BY <1>1 DEF Score

-----------------------------------------------------------------------------
(* Steps of the queue.                                                     *)

(* RescoredSound: entries that are rescored have their due.                *)
LEMMA RescoredSound ==
  ASSUME NEW q, NEW es, NEW t, NEW S, QueueTyped(q, es, t), SoundBut(q, es, t, S)
  PROVE  Sound(Scored(q, es, S, t), es, t)
<1>. DEFINE r == Scored(q, es, S, t)
<1>. SUFFICES ASSUME NEW id \in Ids(q), IsLive(r[id])
              PROVE  r[id].score >= Score(r[id], es[id], t)
  BY DEF Sound, SoundBut, Scored, Ids
<1>1. q[id] \in QueueEntry /\ es[id] \in Event /\ t \in Nat
  BY ElementOfSeq, LenProperties DEF Ids, QueueTyped
<1>. DEFINE due == Score(q[id], es[id], t)
<1>2. due \in Int
  BY <1>1, ScoreInRange
<1>3. r[id] = IF id \in S THEN [q[id] EXCEPT !.score = due] ELSE q[id]
  BY DEF Scored
<1>4. Score([q[id] EXCEPT !.score = due], es[id], t) = due
  BY <1>1, OwnScore
<1>. HIDE DEF due, r
<1>5. CASE id \in S
  <2>1. r[id].score = due
    BY <1>1, <1>3, <1>5 DEF QueueEntry
  <2>. QED
    BY <1>2, <1>3, <1>4, <1>5, <2>1
<1>6. CASE id \notin S
  BY <1>3, <1>6 DEF SoundBut
<1>. QED
  BY <1>5, <1>6

(* OneRescored: so a step may do what it likes to one entry it rescores.   *)
LEMMA OneRescored ==
  ASSUME IInv, NeverUnderrated, NEW r, NEW id, Keeps(queue, r),
         \A x \in Ids(queue) \ {id} : r[x] = queue[x]
  PROVE  Sound(UpdateEntryScore(r, events, id, now), events, now)
<1>1. QueueTyped(r, events, now) /\ Ids(r) = Ids(queue)
  BY LenProperties DEF IInv, TypeOK, Keeps, KeepsFrame, QueueTyped, Ids
<1>2. SoundBut(r, events, now, {id})
  BY <1>1 DEF SoundBut, NeverUnderrated
<1>. QED
  BY <1>1, <1>2, RescoredSound DEF UpdateEntryScore

(* Untouched: what is changed of one entry leaves the others.              *)
LEMMA Untouched ==
  ASSUME NEW q \in Seq(QueueEntry), NEW id
  PROVE  \A x \in Ids(q) \ {id} :
           /\ Ack(q, id)[x] = q[x]
           /\ RespondRequest(q, id)[x] = q[x]
           /\ MarkDeliveryFailed(q, id)[x] = q[x]
BY DEF Ack, RespondRequest, MarkDeliveryFailed, Ids

LEMMA UntouchedByDelivery ==
  ASSUME NEW q \in Seq(QueueEntry), NEW id, NEW d
  PROVE  \A x \in Ids(q) \ {id} : MarkDelivered(q, id, d)[x] = q[x]
BY DEF MarkDelivered, Ids

LEMMA UntouchedByScore ==
  ASSUME NEW q \in Seq(QueueEntry), NEW id, NEW es, NEW t
  PROVE  \A x \in Ids(q) \ {id} : UpdateEntryScore(q, es, id, t)[x] = q[x]
BY DEF UpdateEntryScore, Scored, Ids

-----------------------------------------------------------------------------
(* Steps of the core.                                                      *)

LEMMA SoundIs == NeverUnderrated <=> Sound(queue, events, now)
BY DEF NeverUnderrated, Sound, SoundBut

LEMMA SoundStays ==
  ASSUME NeverUnderrated, UNCHANGED <<queue, events, now>>
  PROVE  NeverUnderrated'
BY DEF NeverUnderrated

LEMMA SoundNext ==
  ASSUME Sound(queue', events, now), UNCHANGED <<events, now>>
  PROVE  NeverUnderrated'
BY DEF NeverUnderrated, Sound, SoundBut

LEMMA Entries ==
  ASSUME IInv
  PROVE  /\ queue \in Seq(QueueEntry) /\ now \in Nat
         /\ \A x \in Ids(queue) : queue[x] \in QueueEntry /\ events[x] \in Event
BY ElementOfSeq, LenProperties DEF IInv, TypeOK, Ids

LEMMA AdvanceSound == IInv /\ NeverUnderrated /\ Advance => NeverUnderrated'
<1>. SUFFICES ASSUME IInv, NeverUnderrated, Advance,
                     NEW id \in Ids(queue), IsLive(queue[id])
              PROVE  queue[id].score >= Score(queue[id], events[id], now')
  BY DEF Advance, NeverUnderrated
<1>1. /\ queue[id] \in QueueEntry /\ events[id] \in Event
      /\ now \in Nat /\ now' \in Nat /\ now <= now'
  BY Entries, CoreAssumption DEF Advance
<1>2. /\ Score(queue[id], events[id], now') <= Score(queue[id], events[id], now)
      /\ Score(queue[id], events[id], now) \in Int
      /\ Score(queue[id], events[id], now') \in Int
  BY <1>1, ScoreFalls, ScoreInRange
<1>3. queue[id].score >= Score(queue[id], events[id], now)
  BY DEF NeverUnderrated
<1>4. queue[id].score \in Int
  BY <1>1 DEF QueueEntry
<1>. QED
  BY <1>2, <1>3, <1>4

LEMMA AckSound ==
  ASSUME IInv, NeverUnderrated, NEW c, NEW id, ClientAck(c, id)
  PROVE  NeverUnderrated'
<1>1. CASE ~CanAck(queue, id)
  BY <1>1, SoundStays DEF ClientAck
<1>2. CASE CanAck(queue, id)
  <2>. DEFINE e == [queue[id] EXCEPT !.state = "Seen"]
  <2>1. /\ queue \in Seq(QueueEntry) /\ now \in Nat /\ id \in Ids(queue)
        /\ queue[id] \in QueueEntry /\ events[id] \in Event
        /\ queue[id].state = "New"
    BY <1>2, Entries DEF CanAck, Known
  <2>2. /\ e \in QueueEntry /\ e.state = "Seen" /\ e.score = queue[id].score
        /\ e.escalation = queue[id].escalation
        /\ e.resolution = queue[id].resolution
        /\ e.superseded = queue[id].superseded
    BY <2>1 DEF QueueEntry, EntryStates
  <2>3. /\ queue'[id] = e /\ Ids(queue') = Ids(queue)
        /\ \A x \in Ids(queue) \ {id} : queue'[x] = queue[x]
        /\ UNCHANGED <<events, now>>
    BY <1>2, <2>1 DEF ClientAck, Ack, Ids
  <2>. HIDE DEF e
  <2>4. /\ Score(e, events[id], now) <= Score(queue[id], events[id], now)
        /\ Score(e, events[id], now) \in Int
        /\ Score(queue[id], events[id], now) \in Int
        /\ e.score \in Int
    <3>1. Score(e, events[id], now) <= Score(queue[id], events[id], now)
      BY <2>1, <2>2, ScoreFalls
    <3>2. /\ Score(e, events[id], now) \in 0..100
          /\ Score(queue[id], events[id], now) \in 0..100
      BY <2>1, <2>2, ScoreInRange
    <3>3. e.score \in 0..100
      BY <2>2 DEF QueueEntry
    <3>. QED
      BY <3>1, <3>2, <3>3
  <2>5. IsLive(e) => e.score >= Score(e, events[id], now)
    <3>. SUFFICES ASSUME IsLive(e) PROVE e.score >= Score(e, events[id], now)
      OBVIOUS
    <3>1. IsLive(queue[id])
      BY <2>1, <2>2 DEF IsLive
    <3>2. queue[id].score >= Score(queue[id], events[id], now)
      BY <2>1, <3>1 DEF NeverUnderrated
    <3>. QED
      BY <2>2, <2>4, <3>2
  <2>. QED
    BY <2>3, <2>5 DEF NeverUnderrated
<1>. QED
  BY <1>1, <1>2

LEMMA DismissSound ==
  ASSUME IInv, NeverUnderrated, NEW c, NEW id, ClientDismiss(c, id)
  PROVE  NeverUnderrated'
<1>1. CASE ~CanDismiss(queue, id)
  BY <1>1, SoundStays DEF ClientDismiss
<1>2. CASE CanDismiss(queue, id)
  <2>1. /\ Ids(queue') = Ids(queue) /\ UNCHANGED <<events, now>>
        /\ \A x \in Ids(queue) \ {id} : queue'[x] = queue[x]
    BY <1>2 DEF ClientDismiss, Dismiss, Ids
  <2>2. ~IsLive(queue'[id])
    BY <1>2, Entries DEF ClientDismiss, Dismiss, CanDismiss, Known, IsLive,
                         QueueEntry, Ids
  <2>. QED
    BY <2>1, <2>2 DEF NeverUnderrated
<1>. QED
  BY <1>1, <1>2

LEMMA DetailsSound ==
  ASSUME IInv, NeverUnderrated, NEW c, NEW id, ClientDetails(c, id)
  PROVE  NeverUnderrated'
<1>1. CASE ~CanAck(queue, id)
  BY <1>1, SoundStays DEF ClientDetails
<1>2. CASE CanAck(queue, id)
  <2>1. Keeps(queue, Ack(queue, id))
    BY <1>2, Entries, AttentionKeeps DEF CanAck, Known
  <2>2. Sound(UpdateEntryScore(Ack(queue, id), events, id, now), events, now)
    BY <2>1, Entries, Untouched, OneRescored
  <2>. QED
    BY <1>2, <2>2, SoundNext DEF ClientDetails
<1>. QED
  BY <1>1, <1>2

LEMMA RespondSound ==
  ASSUME IInv, NeverUnderrated, NEW c, NEW id, NEW decision \in Decisions,
         ClientRespond(c, id, decision)
  PROVE  NeverUnderrated'
<1>. DEFINE asked   == RespondRequest(queue, id)
            pending == UpdateEntryScore(asked, events, id, now)
<1>1. CASE RespondRefused(c, id)
  BY <1>1, SoundStays DEF RespondRefused
<1>2. ASSUME RespondVerdict(queue, id) = "ok"
      PROVE  /\ Keeps(queue, asked) /\ Keeps(queue, pending)
             /\ \A x \in Ids(queue) \ {id} :
                  asked[x] = queue[x] /\ pending[x] = queue[x]
             /\ id \in Ids(pending) /\ pending[id].resolution # "None"
             /\ pending \in Seq(QueueEntry) /\ Ids(pending) = Ids(queue)
  <2>1. id \in Ids(queue) /\ queue[id].resolution # "None"
    BY <1>2, Answerable
  <2>2. Keeps(queue, asked)
    BY <2>1, Entries, ResolutionKeeps
  <2>. HIDE DEF asked
  <2>3. Keeps(queue, pending)
    BY <2>2, Rescoring
  <2>4. /\ asked \in Seq(QueueEntry) /\ Ids(asked) = Ids(queue)
        /\ pending \in Seq(QueueEntry) /\ Ids(pending) = Ids(queue)
    <3>. HIDE DEF pending
    <3>. QED
      BY <2>2, <2>3, Entries, LenProperties DEF Keeps, KeepsFrame, Ids
  <2>5. \A x \in Ids(queue) \ {id} : asked[x] = queue[x]
    BY Entries, Untouched DEF asked
  <2>6. \A x \in Ids(queue) \ {id} : pending[x] = queue[x]
    <3>1. \A x \in Ids(asked) \ {id} : pending[x] = asked[x]
      BY <2>4, UntouchedByScore
    <3>. QED
      BY <2>4, <2>5, <3>1
  <2>. HIDE DEF pending
  <2>. QED
    BY <2>1, <2>2, <2>3, <2>4, <2>5, <2>6 DEF Keeps, KeepsFrame
<1>3. CASE RespondSent(c, id, decision)
  <2>1. Sound(pending, events, now)
    BY <1>2, <1>3, OneRescored DEF RespondSent
  <2>. QED
    BY <1>3, <2>1, SoundNext DEF RespondSent
<1>. HIDE DEF pending
<1>4. CASE RespondOverflow(c, id, decision)
  <2>. DEFINE undone == MarkDeliveryFailed(pending, id)
  <2>1. Keeps(pending, undone)
    BY <1>2, <1>4, ResolutionKeeps DEF RespondOverflow
  <2>2. \A x \in Ids(queue) \ {id} : undone[x] = queue[x]
    <3>1. \A x \in Ids(pending) \ {id} : undone[x] = pending[x]
      BY <1>2, <1>4, Untouched DEF RespondOverflow
    <3>. QED
      BY <1>2, <1>4, <3>1 DEF RespondOverflow
  <2>. HIDE DEF undone
  <2>3. Keeps(queue, undone)
    BY <1>2, <1>4, <2>1, Entries, KeepsTransitive DEF RespondOverflow
  <2>4. Sound(UpdateEntryScore(undone, events, id, now), events, now)
    BY <2>2, <2>3, OneRescored
  <2>. QED
    BY <1>4, <2>4, SoundNext DEF RespondOverflow, pending, undone
<1>5. CASE RespondUnattended(c, id, decision)
  <2>. DEFINE done == MarkDelivered(pending, id, decision)
  <2>1. Keeps(pending, done)
    BY <1>2, <1>5, ResolutionKeeps DEF RespondUnattended
  <2>2. \A x \in Ids(queue) \ {id} : done[x] = queue[x]
    <3>1. \A x \in Ids(pending) \ {id} : done[x] = pending[x]
      BY <1>2, <1>5, UntouchedByDelivery DEF RespondUnattended
    <3>. QED
      BY <1>2, <1>5, <3>1 DEF RespondUnattended
  <2>. HIDE DEF done
  <2>3. Keeps(queue, done)
    BY <1>2, <1>5, <2>1, Entries, KeepsTransitive DEF RespondUnattended
  <2>4. Sound(UpdateEntryScore(done, events, id, now), events, now)
    BY <2>2, <2>3, OneRescored
  <2>. QED
    BY <1>5, <2>4, SoundNext DEF RespondUnattended, pending, done
<1>. QED
  BY <1>1, <1>3, <1>4, <1>5 DEF ClientRespond

LEMMA OutcomeSound ==
  ASSUME IInv, NeverUnderrated, AdapterOutcome PROVE NeverUnderrated'
<1>. PICK id \in Ids(queue) :
       \/ \E decision \in Decisions : Delivered(id, decision)
       \/ DeliveryFailed(id)
  BY DEF AdapterOutcome
<1>1. queue \in Seq(QueueEntry)
  BY Entries
<1>2. CASE ~InDelivery(queue, id)
  BY <1>2, SoundStays DEF Delivered, DeliveryFailed
<1>3. ASSUME InDelivery(queue, id), NEW decision \in Decisions,
             Delivered(id, decision)
      PROVE  NeverUnderrated'
  <2>1. Keeps(queue, MarkDelivered(queue, id, decision))
    BY <1>1, <1>3, ResolutionKeeps DEF InDelivery
  <2>2. \A x \in Ids(queue) \ {id} :
          MarkDelivered(queue, id, decision)[x] = queue[x]
    BY <1>1, UntouchedByDelivery
  <2>3. Sound(UpdateEntryScore(MarkDelivered(queue, id, decision),
                               events, id, now), events, now)
    BY <2>1, <2>2, OneRescored
  <2>. QED
    BY <1>3, <2>3, SoundNext DEF Delivered
<1>4. ASSUME InDelivery(queue, id), DeliveryFailed(id) PROVE NeverUnderrated'
  <2>1. Keeps(queue, MarkDeliveryFailed(queue, id))
    BY <1>1, <1>4, ResolutionKeeps DEF InDelivery
  <2>2. Sound(UpdateEntryScore(MarkDeliveryFailed(queue, id),
                               events, id, now), events, now)
    BY <1>1, <2>1, Untouched, OneRescored
  <2>. QED
    BY <1>4, <2>2, SoundNext DEF DeliveryFailed
<1>. QED
  BY <1>2, <1>3, <1>4

LEMMA TickSound ==
  ASSUME IInv, NeverUnderrated, Tick PROVE NeverUnderrated'
<1>. DEFINE live     == {id \in Ids(queue) : IsLive(queue[id])}
            rescored == Rescore(queue, events, now)
            levels   == Escalations(open, now)
            raised   == {id \in Ids(queue) : CanEscalate(queue, id, levels)}
            leveled  == Escalate(rescored, levels)
<1>1. /\ queue \in Seq(QueueEntry) /\ QueueTyped(queue, events, now)
      /\ open \in [DOMAIN open -> OpenTask]
  BY DEF IInv, TypeOK, QueueTyped
<1>2. rescored = Scored(queue, events, live, now)
  BY DEF Rescore
<1>3. Sound(rescored, events, now)
  <2>1. SoundBut(queue, events, now, live)
    BY DEF SoundBut
  <2>. QED
    BY <1>1, <1>2, <2>1, RescoredSound
<1>4. Keeps(queue, rescored)
  BY <1>1, <1>2, ScoredKeeps DEF QueueTyped
<1>5. QueueTyped(rescored, events, now) /\ Ids(rescored) = Ids(queue)
  <2>. HIDE DEF rescored
  <2>. QED
    BY <1>1, <1>4, LenProperties DEF Keeps, KeepsFrame, QueueTyped, Ids
<1>6. \A id \in DOMAIN levels : levels[id] \in 0..MaxEscalationLevel
  BY <1>1, EscalationTargets, DueLevels DEF QueueTyped, Overdue
<1>. HIDE DEF rescored, levels
<1>7. KeepsFrame(rescored, leveled)
  BY <1>5, <1>6, EscalateEffect DEF QueueTyped
<1>8. \A id \in Ids(queue) : CanEscalate(queue, id, levels)
                               <=> CanEscalate(rescored, id, levels)
  BY <1>4, <1>5 DEF CanEscalate, Keeps, KeepsLevels
<1>9. /\ Ids(leveled) = Ids(queue)
      /\ \A id \in Ids(queue) \ raised : leveled[id] = rescored[id]
  BY <1>5, <1>8 DEF Escalate, Ids
<1>10. QueueTyped(leveled, events, now)
  <2>. HIDE DEF leveled
  <2>. QED
    BY <1>5, <1>7 DEF KeepsFrame, QueueTyped
<1>. HIDE DEF leveled, raised
<1>11. SoundBut(leveled, events, now, raised)
  BY <1>3, <1>5, <1>9 DEF Sound, SoundBut
<1>12. Sound(Scored(leveled, events, raised, now), events, now)
  BY <1>10, <1>11, RescoredSound
<1>. QED
  BY <1>12, SoundNext DEF Tick, leveled, raised, rescored, levels

LEMMA ArrivalSound ==
  ASSUME IInv, NeverUnderrated, AdapterEvent PROVE NeverUnderrated'
<1>. PICK kind \in RawKinds, hasRequest \in BOOLEAN,
          task \in Tasks \cup {NoTask},
          operation \in RawOperations, agentSeq \in RawSeqs :
            RawEvent(kind, hasRequest, task, operation, agentSeq)
  BY DEF AdapterEvent
<1>. DEFINE event  == Processed(kind, hasRequest, task, operation, agentSeq)
            id     == Len(events) + 1
            fresh  == NewEntry(event.category, 0)
            due    == Score(fresh, event, now)
            entry  == [fresh EXCEPT !.score = due]
            stored == Append(queue, entry)
            stale  == {x \in Outdated(open, event) : CanSupersede(queue, x)}
<1>1. /\ queue \in Seq(QueueEntry) /\ events \in Seq(Event) /\ now \in Nat
      /\ Len(queue) = Len(events) /\ Len(events) \in Nat
      /\ Ids(queue) = 1..Len(events)
  BY LenProperties DEF IInv, TypeOK, Ids
<1>2. event \in Event
  <2>1. Verdict(kind, hasRequest) \in Categories \X Severities
    BY VerdictTyped, CoreAssumption
  <2>. QED
    BY <1>1, <2>1, CoreAssumption DEF Event, Processed
<1>. HIDE DEF event
<1>3. fresh \in QueueEntry
  BY <1>2 DEF NewEntry, QueueEntry, Tier, Event, Categories, EntryStates,
              Resolutions, MaxEscalationLevel
<1>. HIDE DEF fresh
<1>4. due \in 0..100
  BY <1>1, <1>2, <1>3, ScoreInRange
<1>5. /\ entry \in QueueEntry /\ entry.score = due
      /\ Score(entry, event, now) = due
  <2>1. Score(entry, event, now) = due
    BY <1>1, <1>2, <1>3, OwnScore
  <2>. HIDE DEF due
  <2>. QED
    BY <1>3, <1>4, <2>1 DEF QueueEntry
<1>. HIDE DEF due, entry
<1>6. /\ queue' = Supersede(stored, stale)
      /\ events' = Append(events, event) /\ now' = now
  BY DEF RawEvent, event, entry, due, fresh
<1>7. /\ Ids(stored) = 1..id /\ stored[id] = entry
      /\ \A x \in 1..id : stored[x] \in QueueEntry
      /\ \A x \in Ids(queue) : stored[x] = queue[x] /\ events'[x] = events[x]
      /\ events'[id] = event
  BY <1>1, <1>2, <1>5, <1>6, AppendProperties, LenProperties, ElementOfSeq
     DEF Ids
<1>. HIDE DEF stored, stale
<1>8. /\ Ids(queue') = 1..id
      /\ \A x \in 1..id : queue'[x] = stored[x] \/ ~IsLive(queue'[x])
  BY <1>6, <1>7 DEF Supersede, Ids, IsLive, QueueEntry
<1>9. \A x \in 1..id : x = id \/ x \in Ids(queue)
  BY <1>1
<1>10. ASSUME NEW x \in 1..id, IsLive(queue'[x])
       PROVE  queue'[x].score >= Score(queue'[x], events'[x], now)
  <2>1. queue'[x] = stored[x]
    BY <1>8, <1>10
  <2>2. CASE x = id
    BY <1>4, <1>5, <1>7, <2>1, <2>2
  <2>3. CASE x \in Ids(queue)
    BY <1>7, <1>10, <2>1, <2>3 DEF NeverUnderrated
  <2>. QED
    BY <1>9, <2>2, <2>3
<1>. QED
  BY <1>6, <1>8, <1>10 DEF NeverUnderrated

LEMMA ClientSound ==
  ASSUME IInv, NeverUnderrated, ClientCommand PROVE NeverUnderrated'
<1>. PICK c \in Clients :
       \/ ClientStartTask(c)
       \/ ClientQuery(c)
       \/ SendSnapshot(c)
       \/ \E id \in EventIds :
            \/ ClientAck(c, id)
            \/ ClientDismiss(c, id)
            \/ ClientDetails(c, id)
            \/ \E decision \in Decisions : ClientRespond(c, id, decision)
  BY DEF ClientCommand
<1>1. CASE ClientStartTask(c) \/ ClientQuery(c) \/ SendSnapshot(c)
  BY <1>1, SoundStays DEF ClientStartTask, ClientQuery, SendSnapshot
<1>2. ASSUME NEW id \in EventIds,
             ClientAck(c, id) \/ ClientDismiss(c, id) \/ ClientDetails(c, id)
      PROVE  NeverUnderrated'
  BY <1>2, AckSound, DismissSound, DetailsSound
<1>3. ASSUME NEW id \in EventIds, NEW decision \in Decisions,
             ClientRespond(c, id, decision)
      PROVE  NeverUnderrated'
  BY <1>3, RespondSound
<1>. QED
  BY <1>1, <1>2, <1>3

-----------------------------------------------------------------------------
(* ScoresSound: a score is recomputed by ticks and by some commands only,  *)
(* yet at no time, whatever the clock and whatever clients and the adapter *)
(* do, does a live entry sort below its due.                               *)
THEOREM ScoresSound == Spec => []NeverUnderrated
<1>1. Init => NeverUnderrated
  BY DEF Init, NeverUnderrated, Ids
<1>2. IInv /\ NeverUnderrated /\ [Next]_vars => NeverUnderrated'
  <2>. SUFFICES ASSUME IInv, NeverUnderrated, [Next]_vars PROVE NeverUnderrated'
    OBVIOUS
  <2>1. CASE Advance
    BY <2>1, AdvanceSound
  <2>2. CASE AdapterEvent
    BY <2>2, ArrivalSound
  <2>3. CASE Tick
    BY <2>3, TickSound
  <2>4. CASE ClientCommand
    BY <2>4, ClientSound
  <2>5. CASE AdapterOutcome
    BY <2>5, OutcomeSound
  <2>6. CASE DropMalformed \/ TakeCommand \/ UNCHANGED vars
    BY <2>6, SoundStays DEF DropMalformed, TakeCommand, vars
  <2>. QED
    BY <2>1, <2>2, <2>3, <2>4, <2>5, <2>6 DEF Next
<1>. QED
  BY <1>1, <1>2, Invariance, PTL DEF Spec

-----------------------------------------------------------------------------
(* The life of a request.                                                  *)

(* Statuses, Carried: the variables of the lifecycle, as the refinement     *)
(* mapping has them; Meaning is what it makes of one command.              *)
Statuses(q) == [id \in Ids(q) |-> q[id].resolution]

Meaning(command) ==
  IF command.type = "respond" THEN <<command.id, command.decision>> ELSE <<>>

Carried(cs) == [i \in DOMAIN cs |->
                  IF cs[i].type = "respond" THEN <<cs[i].id, cs[i].decision>>
                  ELSE <<>>]

CommandsTyped == \E S : commands \in Seq(S)

NothingPending ==
  ~HasResponder => \A id \in Ids(queue) : queue[id].resolution # "PendingDelivery"

LInv == IInv /\ CommandsTyped /\ NothingPending

-----------------------------------------------------------------------------
(* Sequences.                                                              *)

LEMMA CarriedTyped ==
  ASSUME NEW S, NEW cs \in Seq(S)
  PROVE  /\ Carried(cs) \in Seq({Meaning(c) : c \in S})
         /\ Len(Carried(cs)) = Len(cs) /\ Len(cs) \in Nat
         /\ \A i \in 1..Len(cs) : Carried(cs)[i] = Meaning(cs[i])
<1>. DEFINE m == Carried(cs)
            T == {Meaning(c) : c \in S}
<1>1. /\ Len(cs) \in Nat /\ DOMAIN cs = 1..Len(cs)
      /\ \A i \in 1..Len(cs) : cs[i] \in S
  BY LenProperties, ElementOfSeq
<1>2. \A i \in 1..Len(cs) : m[i] = Meaning(cs[i])
  BY <1>1 DEF Carried, Meaning
<1>3. m \in [1..Len(cs) -> T]
  BY <1>1, <1>2 DEF Carried
<1>. HIDE DEF m, T
<1>4. m \in Seq(T) /\ Len(m) = Len(cs)
  BY <1>1, <1>3, SeqOfFunction
<1>. QED
  BY <1>1, <1>2, <1>4 DEF m, T

LEMMA CarriedAppend ==
  ASSUME NEW S, NEW cs \in Seq(S), NEW c
  PROVE  Carried(Append(cs, c)) = Append(Carried(cs), Meaning(c))
<1>. DEFINE U == S \cup {c}
            T == {Meaning(x) : x \in U}
            ds == Append(cs, c)
            m  == Carried(cs)
            n  == Append(m, Meaning(c))
<1>1. cs \in Seq(U) /\ c \in U /\ Meaning(c) \in T
  OBVIOUS
<1>2. /\ ds \in Seq(U) /\ Len(ds) = Len(cs) + 1 /\ Len(cs) \in Nat
      /\ \A i \in 1..Len(cs) : ds[i] = cs[i]
      /\ ds[Len(cs) + 1] = c
  BY <1>1, AppendProperties, LenProperties
<1>. HIDE DEF U, ds
<1>3. /\ m \in Seq(T) /\ Len(m) = Len(cs)
      /\ \A i \in 1..Len(cs) : m[i] = Meaning(cs[i])
  BY <1>1, CarriedTyped
<1>4. /\ Carried(ds) \in Seq(T) /\ Len(Carried(ds)) = Len(ds)
      /\ \A i \in 1..Len(ds) : Carried(ds)[i] = Meaning(ds[i])
  BY <1>2, CarriedTyped
<1>. HIDE DEF T, m
<1>5. /\ n \in Seq(T) /\ Len(n) = Len(cs) + 1
      /\ \A i \in 1..Len(cs) : n[i] = m[i]
      /\ n[Len(cs) + 1] = Meaning(c)
  BY <1>1, <1>3, AppendProperties, LenProperties
<1>. HIDE DEF n
<1>6. \A i \in 1..Len(n) : n[i] = Carried(ds)[i]
  <2>1. \A i \in 1..Len(n) : i = Len(cs) + 1 \/ i \in 1..Len(cs)
    BY <1>2, <1>5
  <2>. QED
    BY <1>2, <1>3, <1>4, <1>5, <2>1
<1>7. n = Carried(ds)
  BY <1>2, <1>4, <1>5, <1>6, SeqEqual
<1>. QED
  BY <1>7 DEF n, m, ds

LEMMA CarriedTail ==
  ASSUME NEW S, NEW cs \in Seq(S), cs # <<>>
  PROVE  Carried(cs) # <<>> /\ Carried(Tail(cs)) = Tail(Carried(cs))
<1>. DEFINE T == {Meaning(x) : x \in S}
            m == Carried(cs)
            l == Carried(Tail(cs))
<1>1. /\ Tail(cs) \in Seq(S) /\ Len(Tail(cs)) = Len(cs) - 1
      /\ \A i \in 1..Len(Tail(cs)) : Tail(cs)[i] = cs[i + 1]
      /\ Len(cs) \in Nat \ {0}
  BY HeadTailProperties, EmptySeq
<1>2. /\ m \in Seq(T) /\ Len(m) = Len(cs)
      /\ \A i \in 1..Len(cs) : m[i] = Meaning(cs[i])
  BY CarriedTyped
<1>3. /\ l \in Seq(T) /\ Len(l) = Len(Tail(cs))
      /\ \A i \in 1..Len(Tail(cs)) : l[i] = Meaning(Tail(cs)[i])
  BY <1>1, CarriedTyped
<1>. HIDE DEF T, m, l
<1>4. m # <<>>
  BY <1>1, <1>2, EmptySeq
<1>5. /\ Tail(m) \in Seq(T) /\ Len(Tail(m)) = Len(m) - 1
      /\ \A i \in 1..Len(Tail(m)) : Tail(m)[i] = m[i + 1]
  BY <1>2, <1>4, HeadTailProperties
<1>6. \A i \in 1..Len(l) : l[i] = Tail(m)[i]
  BY <1>1, <1>2, <1>3, <1>5
<1>7. l = Tail(m)
  BY <1>1, <1>2, <1>3, <1>5, <1>6, SeqEqual
<1>. QED
  BY <1>4, <1>7 DEF m, l

-----------------------------------------------------------------------------
(* Resolutions.                                                            *)

LEMMA SameStatuses ==
  ASSUME NEW q, NEW r, Ids(r) = Ids(q),
         \A id \in Ids(q) : r[id].resolution = q[id].resolution
  PROVE  Statuses(r) = Statuses(q)
BY DEF Statuses

LEMMA ScoredStatuses ==
  ASSUME NEW q \in Seq(QueueEntry), NEW es, NEW S, NEW t
  PROVE  Statuses(Scored(q, es, S, t)) = Statuses(q)
<1>1. \A id \in Ids(q) : q[id] \in QueueEntry
  BY ElementOfSeq, LenProperties DEF Ids
<1>2. /\ Ids(Scored(q, es, S, t)) = Ids(q)
      /\ \A id \in Ids(q) :
           Scored(q, es, S, t)[id].resolution = q[id].resolution
  BY <1>1 DEF Scored, Ids, QueueEntry
<1>. QED
  BY <1>2, SameStatuses

LEMMA EscalatedStatuses ==
  ASSUME NEW q \in Seq(QueueEntry), NEW levels
  PROVE  Statuses(Escalate(q, levels)) = Statuses(q)
<1>1. \A id \in Ids(q) : q[id] \in QueueEntry
  BY ElementOfSeq, LenProperties DEF Ids
<1>2. /\ Ids(Escalate(q, levels)) = Ids(q)
      /\ \A id \in Ids(q) :
           Escalate(q, levels)[id].resolution = q[id].resolution
  BY <1>1 DEF Escalate, Ids, QueueEntry
<1>. QED
  BY <1>2, SameStatuses

LEMMA AttentionStatuses ==
  ASSUME NEW q \in Seq(QueueEntry), NEW id
  PROVE  /\ Statuses(Ack(q, id)) = Statuses(q)
         /\ Statuses(Dismiss(q, id)) = Statuses(q)
<1>1. \A x \in Ids(q) : q[x] \in QueueEntry
  BY ElementOfSeq, LenProperties DEF Ids
<1>2. /\ Ids(Ack(q, id)) = Ids(q) /\ Ids(Dismiss(q, id)) = Ids(q)
      /\ \A x \in Ids(q) :
           /\ Ack(q, id)[x].resolution = q[x].resolution
           /\ Dismiss(q, id)[x].resolution = q[x].resolution
  BY <1>1 DEF Ack, Dismiss, Ids, QueueEntry
<1>. QED
  BY <1>2, SameStatuses

(* Overwritten: of two changes at one place the last one counts.           *)
LEMMA Overwritten ==
  ASSUME NEW D, NEW S, NEW f \in [D -> S], NEW id \in D, NEW x, NEW y
  PROVE  /\ [[f EXCEPT ![id] = x] EXCEPT ![id] = y] = [f EXCEPT ![id] = y]
         /\ f[id] = y => [f EXCEPT ![id] = y] = f
OBVIOUS

(* StatusesTyped: a queue gives each of its entries a resolution.          *)
LEMMA StatusesTyped ==
  ASSUME NEW q \in Seq(QueueEntry)
  PROVE  /\ Statuses(q) \in [Ids(q) -> Resolutions]
         /\ DOMAIN Statuses(q) = Ids(q)
         /\ \A id \in Ids(q) : Statuses(q)[id] = q[id].resolution
<1>1. \A id \in Ids(q) : q[id] \in QueueEntry
  BY ElementOfSeq, LenProperties DEF Ids
<1>2. \A id \in Ids(q) : q[id].resolution \in Resolutions
  BY <1>1 DEF QueueEntry
<1>. QED
  BY <1>2 DEF Statuses

Resolving(e, x) == [e EXCEPT !.resolution = x]

SetResolution(q, id, x) == [q EXCEPT ![id].resolution = x]

LEMMA ResolvedEntry ==
  ASSUME NEW e \in QueueEntry, NEW x \in Resolutions
  PROVE  Resolving(e, x) \in QueueEntry /\ Resolving(e, x).resolution = x
BY DEF QueueEntry, Resolving

(* ResolvedStatuses: a resolution is changed in one place.                 *)
LEMMA ResolvedStatuses ==
  ASSUME NEW q \in Seq(QueueEntry), NEW id \in Ids(q), NEW x \in Resolutions,
         NEW r, r = SetResolution(q, id, x)
  PROVE  /\ r \in Seq(QueueEntry) /\ Len(r) = Len(q) /\ Ids(r) = Ids(q)
         /\ r[id].resolution = x
         /\ Statuses(r) = [Statuses(q) EXCEPT ![id] = x]
<1>1. /\ Len(q) \in Nat /\ Ids(q) = 1..Len(q) /\ DOMAIN q = 1..Len(q)
      /\ \A y \in Ids(q) : q[y] \in QueueEntry
  BY ElementOfSeq, LenProperties DEF Ids
<1>2. PICK e \in QueueEntry : e = Resolving(q[id], x) /\ e.resolution = x
  BY <1>1, ResolvedEntry
<1>3. r = [y \in 1..Len(q) |-> IF y = id THEN e ELSE q[y]]
  BY <1>1, <1>2 DEF SetResolution, Resolving
<1>4. r \in [1..Len(q) -> QueueEntry] /\ Ids(r) = Ids(q)
  BY <1>1, <1>3 DEF Ids
<1>5. r \in Seq(QueueEntry) /\ Len(r) = Len(q)
  BY <1>1, <1>4, SeqOfFunction
<1>6. \A y \in Ids(q) : r[y].resolution = IF y = id THEN x ELSE q[y].resolution
  BY <1>1, <1>2, <1>3
<1>7. Statuses(r) = [Statuses(q) EXCEPT ![id] = x]
  <2>1. Statuses(r) = [y \in Ids(q) |-> IF y = id THEN x ELSE q[y].resolution]
    BY <1>4, <1>6 DEF Statuses
  <2>. PICK f : f = Statuses(q)
    OBVIOUS
  <2>2. /\ f \in [Ids(q) -> Resolutions]
        /\ \A y \in Ids(q) : f[y] = q[y].resolution
    BY StatusesTyped
  <2>3. [f EXCEPT ![id] = x]
          = [y \in Ids(q) |-> IF y = id THEN x ELSE f[y]]
    BY <2>2
  <2>. QED
    BY <2>1, <2>2, <2>3
<1>. QED
  BY <1>4, <1>5, <1>6, <1>7

(* RespondedStatuses: a decision taken is in delivery.                     *)
LEMMA RespondedStatuses ==
  ASSUME NEW q \in Seq(QueueEntry), NEW id \in Ids(q)
  PROVE  LET r == RespondRequest(q, id) IN
         /\ r \in Seq(QueueEntry) /\ Len(r) = Len(q)
         /\ Statuses(r) = [Statuses(q) EXCEPT ![id] = "PendingDelivery"]
<1>1. "PendingDelivery" \in Resolutions
  BY DEF Resolutions
<1>2. RespondRequest(q, id) = SetResolution(q, id, "PendingDelivery")
  BY DEF RespondRequest, SetResolution
<1>. QED
  BY <1>1, <1>2, ResolvedStatuses

(* FailedStatuses: a failed delivery reopens the one request.              *)
LEMMA FailedStatuses ==
  ASSUME NEW q \in Seq(QueueEntry), NEW id \in Ids(q)
  PROVE  LET r == MarkDeliveryFailed(q, id) IN
         /\ r \in Seq(QueueEntry) /\ Len(r) = Len(q)
         /\ Statuses(r) = [Statuses(q) EXCEPT ![id] = "Unresolved"]
<1>1. "Unresolved" \in Resolutions
  BY DEF Resolutions
<1>2. MarkDeliveryFailed(q, id) = SetResolution(q, id, "Unresolved")
  BY DEF MarkDeliveryFailed, SetResolution
<1>. QED
  BY <1>1, <1>2, ResolvedStatuses

(* DeliveredStatuses: a delivered decision settles the one request.        *)
LEMMA DeliveredStatuses ==
  ASSUME NEW q \in Seq(QueueEntry), NEW id \in Ids(q), NEW d \in Decisions
  PROVE  LET r == MarkDelivered(q, id, d) IN
         /\ r \in Seq(QueueEntry) /\ Len(r) = Len(q)
         /\ Statuses(r) = [Statuses(q) EXCEPT ![id] = d]
<1>1. d \in Resolutions
  BY DEF Resolutions
<1>2. MarkDelivered(q, id, d) = SetResolution(q, id, d)
  BY DEF MarkDelivered, SetResolution
<1>. QED
  BY <1>1, <1>2, ResolvedStatuses

-----------------------------------------------------------------------------
(* What a step may do to resolutions and commands.                         *)

Still == Statuses(queue') = Statuses(queue) /\ commands' = commands

Changes(id, from, to) ==
  /\ id \in Ids(queue) /\ queue[id].resolution = from
  /\ Statuses(queue') = [Statuses(queue) EXCEPT ![id] = to]

Effect ==
  \/ Still
  \/ \E x \in {"None", "Unresolved"} :
       /\ Len(queue') = Len(queue) + 1
       /\ Statuses(queue') =
            [id \in 1..Len(queue) + 1 |->
               IF id \in Ids(queue) THEN queue[id].resolution ELSE x]
       /\ commands' = commands
  \/ /\ Statuses(queue') = Statuses(queue)
     /\ commands' = Append(commands, StartTask)
  \/ /\ Statuses(queue') = Statuses(queue)
     /\ commands # <<>> /\ commands' = Tail(commands)
  \/ \E id \in Ids(queue), decision \in Decisions :
       \/ /\ HasResponder /\ Changes(id, "Unresolved", "PendingDelivery")
          /\ commands' = Append(commands, RespondCommand(id, decision))
       \/ /\ ~HasResponder /\ Changes(id, "Unresolved", decision)
          /\ commands' = commands
       \/ /\ HasResponder /\ Changes(id, "PendingDelivery", decision)
          /\ commands' = commands
       \/ /\ HasResponder /\ Changes(id, "PendingDelivery", "Unresolved")
          /\ commands' = commands

LEMMA Store ==
  ASSUME IInv
  PROVE  /\ queue \in Seq(QueueEntry) /\ events \in Seq(Event)
         /\ Len(queue) = Len(events) /\ now \in Nat /\ Len(queue) \in Nat
         /\ Ids(queue) = 1..Len(queue)
         /\ \A id \in Ids(queue) : queue[id] \in QueueEntry
BY ElementOfSeq, LenProperties DEF IInv, TypeOK, Ids

LEMMA TickEffect == ASSUME IInv, Tick PROVE Still
<1>. DEFINE rescored == Rescore(queue, events, now)
            levels   == Escalations(open, now)
            raised   == {id \in Ids(queue) : CanEscalate(queue, id, levels)}
            leveled  == Escalate(rescored, levels)
<1>1. /\ queue \in Seq(QueueEntry) /\ events \in Seq(Event)
      /\ Len(queue) = Len(events) /\ now \in Nat
      /\ open \in [DOMAIN open -> OpenTask]
  BY DEF IInv, TypeOK
<1>2. rescored \in Seq(QueueEntry) /\ Statuses(rescored) = Statuses(queue)
  BY <1>1, ScoredKeeps, ScoredStatuses DEF Rescore, Keeps, KeepsFrame
<1>3. \A id \in DOMAIN levels : levels[id] \in 0..MaxEscalationLevel
  BY <1>1, EscalationTargets, DueLevels DEF Overdue
<1>. HIDE DEF rescored, levels
<1>4. leveled \in Seq(QueueEntry) /\ Statuses(leveled) = Statuses(rescored)
  BY <1>2, <1>3, EscalateEffect, EscalatedStatuses DEF KeepsFrame
<1>. HIDE DEF leveled
<1>5. Statuses(Scored(leveled, events, raised, now)) = Statuses(leveled)
  BY <1>4, ScoredStatuses
<1>. QED
  BY <1>2, <1>4, <1>5 DEF Tick, Still, leveled, rescored, levels

LEMMA ArrivalChanges == ASSUME IInv, Arrival PROVE Effect
<1>1. /\ Len(queue) = Len(events) /\ Len(queue) \in Nat
      /\ Ids(queue) = 1..Len(queue)
  BY Store
<1>. PICK id \in Nat : id = Len(queue) + 1
  BY <1>1
<1>2. /\ queue' \in Seq(QueueEntry) /\ Len(queue') = id
      /\ \A y \in Ids(queue) : queue'[y].resolution = queue[y].resolution
      /\ queue'[id].resolution \in {"None", "Unresolved"}
  BY <1>1, ArrivalEffect
<1>3. commands' = commands
  BY DEF Arrival, RawEvent
<1>4. Ids(queue') = 1..id
  BY <1>2, LenProperties DEF Ids
<1>5. \A y \in 1..id : y = id \/ y \in Ids(queue)
  BY <1>1
<1>6. id \notin Ids(queue)
  BY <1>1
<1>7. Statuses(queue') =
        [y \in 1..id |-> IF y \in Ids(queue) THEN queue[y].resolution
                         ELSE queue'[id].resolution]
  BY <1>2, <1>4, <1>5, <1>6 DEF Statuses
<1>. QED
  BY <1>2, <1>3, <1>7 DEF Effect

(* Rescoring one entry afterwards changes no resolution.                   *)
LEMMA ThenRescored ==
  ASSUME IInv, NEW r \in Seq(QueueEntry), Len(r) = Len(queue), NEW id
  PROVE  LET s == UpdateEntryScore(r, events, id, now) IN
         s \in Seq(QueueEntry) /\ Len(s) = Len(r) /\ Statuses(s) = Statuses(r)
BY Store, ScoredKeeps, ScoredStatuses DEF UpdateEntryScore, Keeps, KeepsFrame

LEMMA RespondChanges ==
  ASSUME IInv, NEW c, NEW id, NEW decision \in Decisions,
         ClientRespond(c, id, decision)
  PROVE  Effect
<1>. DEFINE asked   == RespondRequest(queue, id)
            pending == UpdateEntryScore(asked, events, id, now)
<1>1. CASE RespondRefused(c, id)
  BY <1>1 DEF RespondRefused, Effect, Still
<1>2. ASSUME RespondVerdict(queue, id) = "ok"
      PROVE  /\ id \in Ids(queue) /\ queue[id].resolution = "Unresolved"
             /\ pending \in Seq(QueueEntry) /\ Len(pending) = Len(queue)
             /\ Ids(pending) = Ids(queue)
             /\ Statuses(pending)
                  = [Statuses(queue) EXCEPT ![id] = "PendingDelivery"]
  <2>1. id \in Ids(queue) /\ queue[id].resolution = "Unresolved"
    BY <1>2, Store DEF RespondVerdict, Known, QueueEntry, Resolutions
  <2>2. /\ asked \in Seq(QueueEntry) /\ Len(asked) = Len(queue)
        /\ Statuses(asked) = [Statuses(queue) EXCEPT ![id] = "PendingDelivery"]
    BY <2>1, Store, RespondedStatuses
  <2>. HIDE DEF asked
  <2>3. /\ pending \in Seq(QueueEntry) /\ Len(pending) = Len(queue)
        /\ Statuses(pending) = Statuses(asked)
    BY <2>2, ThenRescored
  <2>. HIDE DEF pending
  <2>4. Ids(pending) = Ids(queue)
    BY <2>3, Store, LenProperties DEF Ids
  <2>. QED
    BY <2>1, <2>2, <2>3, <2>4
<1>3. CASE HasResponder /\ RespondSent(c, id, decision)
  BY <1>2, <1>3 DEF RespondSent, Effect, Changes
<1>. HIDE DEF pending
<1>4. CASE RespondOverflow(c, id, decision)
  <2>. DEFINE undone == MarkDeliveryFailed(pending, id)
  <2>1. RespondVerdict(queue, id) = "ok"
    BY <1>4 DEF RespondOverflow
  <2>2. /\ id \in Ids(queue) /\ queue[id].resolution = "Unresolved"
        /\ pending \in Seq(QueueEntry) /\ Len(pending) = Len(queue)
        /\ id \in Ids(pending)
        /\ Statuses(pending)
             = [Statuses(queue) EXCEPT ![id] = "PendingDelivery"]
    BY <1>2, <2>1
  <2>3. /\ undone \in Seq(QueueEntry) /\ Len(undone) = Len(queue)
        /\ Statuses(undone) = [Statuses(pending) EXCEPT ![id] = "Unresolved"]
    BY <2>2, FailedStatuses
  <2>. HIDE DEF undone
  <2>4. /\ Statuses(queue) \in [Ids(queue) -> Resolutions]
        /\ Statuses(queue)[id] = "Unresolved"
    BY <2>2, Store, StatusesTyped
  <2>5. Statuses(undone) = Statuses(queue)
    BY <2>2, <2>3, <2>4, Overwritten
  <2>6. Statuses(UpdateEntryScore(undone, events, id, now)) = Statuses(queue)
    BY <2>3, <2>5, ThenRescored
  <2>. QED
    BY <1>4, <2>6 DEF RespondOverflow, Effect, Still, undone, pending
<1>5. CASE ~HasResponder /\ RespondUnattended(c, id, decision)
  <2>. DEFINE done == MarkDelivered(pending, id, decision)
  <2>1. RespondVerdict(queue, id) = "ok"
    BY <1>5 DEF RespondUnattended
  <2>2. /\ id \in Ids(queue) /\ queue[id].resolution = "Unresolved"
        /\ pending \in Seq(QueueEntry) /\ Len(pending) = Len(queue)
        /\ id \in Ids(pending)
        /\ Statuses(pending)
             = [Statuses(queue) EXCEPT ![id] = "PendingDelivery"]
    BY <1>2, <2>1
  <2>3. /\ done \in Seq(QueueEntry) /\ Len(done) = Len(queue)
        /\ Statuses(done) = [Statuses(pending) EXCEPT ![id] = decision]
    <3>1. /\ pending \in Seq(QueueEntry) /\ Len(pending) = Len(queue)
          /\ id \in Ids(pending)
      BY <2>2
    <3>. HIDE DEF pending
    <3>. QED
      BY <3>1, DeliveredStatuses
  <2>. HIDE DEF done
  <2>4. Statuses(queue) \in [Ids(queue) -> Resolutions]
    BY Store, StatusesTyped
  <2>5. Statuses(done) = [Statuses(queue) EXCEPT ![id] = decision]
    BY <2>2, <2>3, <2>4, Overwritten
  <2>6. Statuses(UpdateEntryScore(done, events, id, now)) = Statuses(done)
    BY <2>3, ThenRescored
  <2>7. Changes(id, "Unresolved", decision)
    BY <1>5, <2>2, <2>5, <2>6 DEF RespondUnattended, Changes, done, pending
  <2>. QED
    BY <1>5, <2>2, <2>7 DEF RespondUnattended, Effect
<1>. QED
  BY <1>1, <1>3, <1>4, <1>5 DEF ClientRespond

LEMMA AttentionChanges ==
  ASSUME IInv, NEW c, NEW id,
         ClientAck(c, id) \/ ClientDismiss(c, id) \/ ClientDetails(c, id)
  PROVE  Still
<1>1. queue \in Seq(QueueEntry)
  BY Store
<1>2. CASE ClientAck(c, id) \/ ClientDismiss(c, id)
  BY <1>1, <1>2, AttentionStatuses DEF ClientAck, ClientDismiss, Still
<1>3. CASE ClientDetails(c, id)
  <2>1. CASE ~CanAck(queue, id)
    BY <1>3, <2>1 DEF ClientDetails, Still
  <2>2. CASE CanAck(queue, id)
    <3>1. Ack(queue, id) \in Seq(QueueEntry) /\ Len(Ack(queue, id)) = Len(queue)
      BY <1>1, <2>2, AttentionKeeps DEF CanAck, Known, Keeps, KeepsFrame
    <3>2. Statuses(UpdateEntryScore(Ack(queue, id), events, id, now))
            = Statuses(queue)
      BY <1>1, <3>1, ThenRescored, AttentionStatuses
    <3>. QED
      BY <1>3, <2>2, <3>2 DEF ClientDetails, Still
  <2>. QED
    BY <2>1, <2>2
<1>. QED
  BY <1>2, <1>3

LEMMA OutcomeChanges == ASSUME LInv, AdapterOutcome PROVE Effect
<1>. PICK id \in Ids(queue) :
       \/ \E decision \in Decisions : Delivered(id, decision)
       \/ DeliveryFailed(id)
  BY DEF AdapterOutcome
<1>1. queue \in Seq(QueueEntry) /\ IInv
  BY Store DEF LInv
<1>2. CASE ~InDelivery(queue, id)
  BY <1>2 DEF Delivered, DeliveryFailed, Effect, Still
<1>3. ASSUME InDelivery(queue, id)
      PROVE  HasResponder /\ queue[id].resolution = "PendingDelivery"
  BY <1>3, CoreAssumption DEF InDelivery, LInv, NothingPending
<1>4. ASSUME InDelivery(queue, id), NEW decision \in Decisions,
             Delivered(id, decision)
      PROVE  Effect
  <2>. DEFINE done == MarkDelivered(queue, id, decision)
  <2>1. /\ done \in Seq(QueueEntry) /\ Len(done) = Len(queue)
        /\ Statuses(done) = [Statuses(queue) EXCEPT ![id] = decision]
    BY <1>1, DeliveredStatuses
  <2>. HIDE DEF done
  <2>2. Statuses(UpdateEntryScore(done, events, id, now)) = Statuses(done)
    BY <1>1, <2>1, ThenRescored
  <2>3. Changes(id, "PendingDelivery", decision) /\ commands' = commands
    BY <1>3, <1>4, <2>1, <2>2 DEF Delivered, Changes, done
  <2>. QED
    BY <1>3, <1>4, <2>3 DEF Effect
<1>5. ASSUME InDelivery(queue, id), DeliveryFailed(id) PROVE Effect
  <2>. DEFINE undone == MarkDeliveryFailed(queue, id)
  <2>1. /\ undone \in Seq(QueueEntry) /\ Len(undone) = Len(queue)
        /\ Statuses(undone) = [Statuses(queue) EXCEPT ![id] = "Unresolved"]
    BY <1>1, FailedStatuses
  <2>. HIDE DEF undone
  <2>2. Statuses(UpdateEntryScore(undone, events, id, now)) = Statuses(undone)
    BY <1>1, <2>1, ThenRescored
  <2>3. Changes(id, "PendingDelivery", "Unresolved") /\ commands' = commands
    BY <1>3, <1>5, <2>1, <2>2 DEF DeliveryFailed, Changes, undone
  <2>. QED
    BY <1>3, <1>5, <2>3 DEF Effect, Decisions
<1>. QED
  BY <1>2, <1>4, <1>5

LEMMA ClientChanges == ASSUME IInv, ClientCommand PROVE Effect
<1>. PICK c \in Clients :
       \/ ClientStartTask(c)
       \/ ClientQuery(c)
       \/ SendSnapshot(c)
       \/ \E id \in EventIds :
            \/ ClientAck(c, id)
            \/ ClientDismiss(c, id)
            \/ ClientDetails(c, id)
            \/ \E decision \in Decisions : ClientRespond(c, id, decision)
  BY DEF ClientCommand
<1>1. CASE ClientStartTask(c) \/ ClientQuery(c) \/ SendSnapshot(c)
  BY <1>1 DEF ClientStartTask, ClientQuery, SendSnapshot, Effect, Still
<1>2. ASSUME NEW id \in EventIds,
             ClientAck(c, id) \/ ClientDismiss(c, id) \/ ClientDetails(c, id)
      PROVE  Effect
  BY <1>2, AttentionChanges DEF Effect
<1>3. ASSUME NEW id \in EventIds, NEW decision \in Decisions,
             ClientRespond(c, id, decision)
      PROVE  Effect
  BY <1>3, RespondChanges
<1>. QED
  BY <1>1, <1>2, <1>3

LEMMA StepChanges == ASSUME LInv, [Next]_vars PROVE Effect
<1>1. IInv
  BY DEF LInv
<1>2. CASE Advance \/ DropMalformed \/ UNCHANGED vars
  BY <1>2 DEF Advance, DropMalformed, vars, Effect, Still
<1>3. CASE TakeCommand
  BY <1>3 DEF TakeCommand, Effect
<1>4. CASE Tick
  BY <1>1, <1>4, TickEffect DEF Effect
<1>5. CASE AdapterEvent
  BY <1>1, <1>5, AdapterArrives, ArrivalChanges
<1>6. CASE ClientCommand
  BY <1>1, <1>6, ClientChanges
<1>7. CASE AdapterOutcome
  BY <1>7, OutcomeChanges
<1>. QED
  BY <1>2, <1>3, <1>4, <1>5, <1>6, <1>7 DEF Next

-----------------------------------------------------------------------------
(* Effects keep the invariant and are steps of the lifecycle.              *)

LEMMA EffectInvariant ==
  ASSUME LInv, IInv', Effect PROVE LInv'
<1>1. CommandsTyped'
  <2>. PICK S : commands \in Seq(S)
    BY DEF LInv, CommandsTyped
  <2>1. CASE commands' = commands
    BY <2>1 DEF CommandsTyped
  <2>2. ASSUME NEW x, commands' = Append(commands, x) PROVE CommandsTyped'
    <3>1. commands \in Seq(S \cup {x}) /\ x \in S \cup {x}
      OBVIOUS
    <3>2. commands' \in Seq(S \cup {x})
      BY <2>2, <3>1, AppendProperties
    <3>. QED
      BY <3>2 DEF CommandsTyped
  <2>3. CASE commands # <<>> /\ commands' = Tail(commands)
    <3>1. commands' \in Seq(S)
      BY <2>3, HeadTailProperties
    <3>. QED
      BY <3>1 DEF CommandsTyped
  <2>. QED
    BY <2>1, <2>2, <2>3 DEF Effect, Still
<1>2. NothingPending'
  <2>. SUFFICES ASSUME ~HasResponder, NEW y \in Ids(queue')
                PROVE  queue'[y].resolution # "PendingDelivery"
    BY DEF NothingPending
  <2>1. /\ y \in DOMAIN Statuses(queue')
        /\ queue'[y].resolution = Statuses(queue')[y]
    BY DEF Statuses
  <2>2. \A x \in DOMAIN Statuses(queue) :
          Statuses(queue)[x] # "PendingDelivery"
    BY DEF LInv, NothingPending, Statuses
  <2>3. CASE Statuses(queue') = Statuses(queue)
    BY <2>1, <2>2, <2>3
  <2>4. ASSUME NEW x \in {"None", "Unresolved"},
               Statuses(queue') =
                 [id \in 1..Len(queue) + 1 |->
                    IF id \in Ids(queue) THEN queue[id].resolution ELSE x]
        PROVE  queue'[y].resolution # "PendingDelivery"
    BY <2>1, <2>4 DEF LInv, NothingPending
  <2>5. ASSUME NEW id \in Ids(queue), NEW decision \in Decisions,
               Statuses(queue') = [Statuses(queue) EXCEPT ![id] = decision]
        PROVE  queue'[y].resolution # "PendingDelivery"
    BY <2>1, <2>2, <2>5 DEF Decisions
  <2>. QED
    BY <2>3, <2>4, <2>5 DEF Effect, Still, Changes
<1>. QED
  BY <1>1, <1>2 DEF LInv

(* AppendStatus: one more entry is one more resolution.                    *)
LEMMA AppendStatus ==
  ASSUME NEW S, NEW f \in Seq(S), NEW x \in S
  PROVE  Append(f, x) = [i \in 1..Len(f) + 1 |->
                           IF i \in 1..Len(f) THEN f[i] ELSE x]
<1>. DEFINE g == [i \in 1..Len(f) + 1 |-> IF i \in 1..Len(f) THEN f[i] ELSE x]
<1>1. /\ Append(f, x) \in Seq(S) /\ Len(Append(f, x)) = Len(f) + 1
      /\ \A i \in 1..Len(f) : Append(f, x)[i] = f[i]
      /\ Append(f, x)[Len(f) + 1] = x
      /\ Len(f) \in Nat /\ Len(f) + 1 \in Nat
  BY AppendProperties, LenProperties
<1>2. g \in [1..Len(f) + 1 -> S]
  BY ElementOfSeq
<1>3. g \in Seq(S) /\ Len(g) = Len(f) + 1
  BY <1>1, <1>2, SeqOfFunction
<1>4. \A i \in 1..Len(f) + 1 : g[i] = Append(f, x)[i]
  BY <1>1
<1>. HIDE DEF g
<1>5. g = Append(f, x)
  BY <1>1, <1>3, <1>4, SeqEqual
<1>. QED
  BY <1>5 DEF g

(* EffectRefines: each of the effects is one step of the lifecycle.        *)
LEMMA EffectRefines ==
  ASSUME LInv, Effect PROVE [Lifecycle!Next]_(Lifecycle!vars)
<1>. PICK S : commands \in Seq(S)
  BY DEF LInv, CommandsTyped
<1>1. /\ queue \in Seq(QueueEntry) /\ Len(queue) \in Nat
      /\ Ids(queue) = 1..Len(queue)
      /\ Statuses(queue) \in [Ids(queue) -> Resolutions]
      /\ DOMAIN Statuses(queue) = Ids(queue)
      /\ \A id \in Ids(queue) : Statuses(queue)[id] = queue[id].resolution
  BY Store, StatusesTyped DEF LInv
<1>2. CASE Still
  BY <1>2 DEF Still, Lifecycle!vars, Statuses, Carried
<1>3. ASSUME NEW x \in {"None", "Unresolved"}, commands' = commands,
             Statuses(queue') =
               [id \in 1..Len(queue) + 1 |->
                  IF id \in Ids(queue) THEN queue[id].resolution ELSE x]
      PROVE  Lifecycle!Arrive
  <2>1. Statuses(queue) \in Seq(Resolutions)
        /\ Len(Statuses(queue)) = Len(queue)
    BY <1>1, SeqOfFunction
  <2>2. Append(Statuses(queue), x) =
          [id \in 1..Len(queue) + 1 |->
             IF id \in 1..Len(queue) THEN Statuses(queue)[id] ELSE x]
    BY <2>1, AppendStatus DEF Resolutions
  <2>3. Statuses(queue') = Append(Statuses(queue), x)
    BY <1>1, <1>3, <2>2
  <2>. QED
    BY <1>3, <2>3 DEF Lifecycle!Arrive, Statuses, Carried
<1>4. ASSUME Statuses(queue') = Statuses(queue),
             commands' = Append(commands, StartTask)
      PROVE  Lifecycle!Prompt
  <2>1. Carried(commands') = Append(Carried(commands), <<>>)
    BY <1>4, CarriedAppend DEF Meaning, StartTask
  <2>. QED
    BY <1>4, <2>1 DEF Lifecycle!Prompt, Statuses, Carried
<1>5. ASSUME Statuses(queue') = Statuses(queue),
             commands # <<>>, commands' = Tail(commands)
      PROVE  Lifecycle!Take
  <2>1. Carried(commands) # <<>> /\ Carried(commands') = Tail(Carried(commands))
    BY <1>5, CarriedTail
  <2>. QED
    BY <1>5, <2>1 DEF Lifecycle!Take, Statuses, Carried
<1>6. ASSUME NEW id \in Ids(queue), NEW decision \in Decisions, HasResponder,
             Changes(id, "Unresolved", "PendingDelivery"),
             commands' = Append(commands, RespondCommand(id, decision))
      PROVE  Lifecycle!Accept(id)
  <2>. DEFINE sent == RespondCommand(id, decision)
  <2>0. Meaning(sent) = <<id, decision>>
    BY DEF Meaning, RespondCommand
  <2>. HIDE DEF sent
  <2>1. Carried(commands') = Append(Carried(commands), <<id, decision>>)
    BY <1>6, <2>0, CarriedAppend DEF sent
  <2>2. /\ Statuses(queue)[id] = "Unresolved"
        /\ Statuses(queue') =
             [Statuses(queue) EXCEPT ![id] = "PendingDelivery"]
    BY <1>1, <1>6 DEF Changes
  <2>. QED
    BY <1>6, <2>1, <2>2 DEF Lifecycle!Accept, Statuses, Carried
<1>7. ASSUME NEW id \in Ids(queue), NEW decision \in Decisions,
             commands' = commands,
             Changes(id, IF HasResponder THEN "PendingDelivery"
                         ELSE "Unresolved", decision)
      PROVE  Lifecycle!Settle(id, decision)
  <2>1. /\ Statuses(queue)[id] =
             IF HasResponder THEN "PendingDelivery" ELSE "Unresolved"
        /\ Statuses(queue') = [Statuses(queue) EXCEPT ![id] = decision]
    BY <1>1, <1>7 DEF Changes
  <2>. QED
    BY <1>7, <2>1 DEF Lifecycle!Settle, Statuses, Carried
<1>8. ASSUME NEW id \in Ids(queue), commands' = commands,
             Changes(id, "PendingDelivery", "Unresolved")
      PROVE  Lifecycle!Reopen(id)
  <2>1. /\ Statuses(queue)[id] = "PendingDelivery"
        /\ Statuses(queue') = [Statuses(queue) EXCEPT ![id] = "Unresolved"]
    BY <1>1, <1>8 DEF Changes
  <2>. QED
    BY <1>8, <2>1 DEF Lifecycle!Reopen, Statuses, Carried
<1>9. ASSUME NEW id \in Ids(queue),
             \/ Lifecycle!Accept(id)
             \/ Lifecycle!Reopen(id)
             \/ \E decision \in Decisions : Lifecycle!Settle(id, decision)
      PROVE  Lifecycle!Next
  BY <1>9 DEF Lifecycle!Next
<1>. QED
  BY <1>2, <1>3, <1>4, <1>5, <1>6, <1>7, <1>8, <1>9 DEF Effect, Lifecycle!Next

-----------------------------------------------------------------------------
(* AnsweredOnce: the core implements the lifecycle, for every number of    *)
(* events, clients and commands under way: a request has one decision on   *)
(* its way at most, one command carries it, and a decision that has been   *)
(* delivered is never taken back or replaced.                              *)
THEOREM AnsweredOnce == Spec => RequestAnsweredOnce
<1>1. Init => LInv /\ Lifecycle!Init
  <2>. SUFFICES ASSUME Init PROVE LInv /\ Lifecycle!Init
    OBVIOUS
  <2>1. queue = <<>> /\ commands = <<>> /\ Ids(queue) = {}
    BY DEF Init, Ids
  <2>2. commands \in Seq({})
    BY <2>1
  <2>3. LInv
    BY <2>1, <2>2, InitIInv DEF LInv, CommandsTyped, NothingPending
  <2>4. Lifecycle!Init
    BY <2>1 DEF Lifecycle!Init
  <2>. QED
    BY <2>3, <2>4
<1>2. LInv /\ IInv' /\ [Next]_vars
        => LInv' /\ [Lifecycle!Next]_(Lifecycle!vars)
  BY StepChanges, EffectInvariant, EffectRefines
<1>. QED
  BY <1>1, <1>2, Invariance, PTL DEF Spec, RequestAnsweredOnce, Lifecycle!Spec

-----------------------------------------------------------------------------
(* What a request that can be answered was before.                         *)

(* NoneRevived: what is dismissed or superseded stays so.                  *)
NoneRevived(q, r) ==
  \A id \in Ids(q) : id \in Ids(r) /\ (IsLive(r[id]) => IsLive(q[id]))

LEMMA RevivedTransitive ==
  ASSUME NEW q, NEW r, NEW s, NoneRevived(q, r), NoneRevived(r, s)
  PROVE  NoneRevived(q, s)
BY DEF NoneRevived

LEMMA OperatorsRevive ==
  ASSUME NEW q \in Seq(QueueEntry)
  PROVE  /\ NoneRevived(q, q)
         /\ \A id : CanAck(q, id) => NoneRevived(q, Ack(q, id))
         /\ \A id : NoneRevived(q, Dismiss(q, id))
         /\ \A es, S, t : NoneRevived(q, Scored(q, es, S, t))
         /\ \A levels : NoneRevived(q, Escalate(q, levels))
         /\ \A id, x : NoneRevived(q, [q EXCEPT ![id].resolution = x])
<1>1. \A id \in Ids(q) : q[id] \in QueueEntry
  BY ElementOfSeq, LenProperties DEF Ids
<1>2. ASSUME NEW e \in QueueEntry
      PROVE  /\ IsLive([e EXCEPT !.state = "Dismissed"]) => IsLive(e)
             /\ e.state = "New" /\ IsLive([e EXCEPT !.state = "Seen"]) => IsLive(e)
             /\ \A x : IsLive([e EXCEPT !.score = x]) => IsLive(e)
             /\ \A x : IsLive([e EXCEPT !.escalation = x]) => IsLive(e)
             /\ \A x : IsLive([e EXCEPT !.resolution = x]) => IsLive(e)
  BY DEF IsLive, QueueEntry
<1>3. ASSUME NEW id, CanAck(q, id) PROVE NoneRevived(q, Ack(q, id))
  BY <1>1, <1>2, <1>3 DEF Ack, CanAck, Known, NoneRevived, Ids
<1>4. ASSUME NEW id PROVE NoneRevived(q, Dismiss(q, id))
  BY <1>1, <1>2 DEF Dismiss, NoneRevived, Ids
<1>5. ASSUME NEW es, NEW S, NEW t PROVE NoneRevived(q, Scored(q, es, S, t))
  BY <1>1, <1>2 DEF Scored, NoneRevived, Ids
<1>6. ASSUME NEW levels PROVE NoneRevived(q, Escalate(q, levels))
  BY <1>1, <1>2 DEF Escalate, NoneRevived, Ids
<1>7. ASSUME NEW id, NEW x PROVE NoneRevived(q, [q EXCEPT ![id].resolution = x])
  BY <1>1, <1>2 DEF NoneRevived, Ids
<1>8. NoneRevived(q, q)
  BY DEF NoneRevived
<1>. QED
  BY <1>3, <1>4, <1>5, <1>6, <1>7, <1>8

LEMMA RespondRevives ==
  ASSUME IInv, NEW c, NEW id, NEW decision \in Decisions,
         ClientRespond(c, id, decision)
  PROVE  NoneRevived(queue, queue')
<1>. DEFINE asked   == RespondRequest(queue, id)
            pending == UpdateEntryScore(asked, events, id, now)
<1>1. queue \in Seq(QueueEntry) /\ NoneRevived(queue, queue)
  BY Store, OperatorsRevive
<1>2. CASE RespondRefused(c, id)
  BY <1>1, <1>2 DEF RespondRefused
<1>3. ASSUME RespondVerdict(queue, id) = "ok"
      PROVE  /\ pending \in Seq(QueueEntry) /\ Len(pending) = Len(queue)
             /\ id \in Ids(pending) /\ NoneRevived(queue, pending)
  <2>1. id \in Ids(queue)
    BY <1>3, Answerable
  <2>2. /\ asked \in Seq(QueueEntry) /\ Len(asked) = Len(queue)
        /\ NoneRevived(queue, asked)
    BY <1>1, <2>1, RespondedStatuses, OperatorsRevive DEF RespondRequest
  <2>. HIDE DEF asked
  <2>3. /\ pending \in Seq(QueueEntry) /\ Len(pending) = Len(queue)
        /\ NoneRevived(asked, pending)
    BY <2>2, ThenRescored, OperatorsRevive DEF UpdateEntryScore
  <2>. HIDE DEF pending
  <2>. QED
    BY <1>1, <2>1, <2>2, <2>3, RevivedTransitive, LenProperties DEF Ids
<1>4. CASE RespondSent(c, id, decision)
  BY <1>3, <1>4 DEF RespondSent
<1>. HIDE DEF pending
<1>5. ASSUME RespondVerdict(queue, id) = "ok", NEW x \in Resolutions,
             queue' = UpdateEntryScore([pending EXCEPT ![id].resolution = x],
                                       events, id, now)
      PROVE  NoneRevived(queue, queue')
  <2>. DEFINE settled == [pending EXCEPT ![id].resolution = x]
  <2>0. pending \in Seq(QueueEntry) /\ id \in Ids(pending)
    BY <1>3, <1>5
  <2>1. settled \in Seq(QueueEntry)
    <3>1. settled = SetResolution(pending, id, x)
      BY DEF SetResolution
    <3>. HIDE DEF settled
    <3>. QED
      BY <1>5, <2>0, <3>1, ResolvedStatuses
  <2>2. NoneRevived(pending, settled)
    BY <2>0, OperatorsRevive
  <2>3. NoneRevived(queue, settled)
    BY <1>3, <1>5, <2>2, RevivedTransitive
  <2>. HIDE DEF settled
  <2>4. NoneRevived(settled, queue')
    BY <1>5, <2>1, OperatorsRevive DEF UpdateEntryScore, settled
  <2>. QED
    BY <2>3, <2>4, RevivedTransitive
<1>6. CASE RespondOverflow(c, id, decision)
  BY <1>5, <1>6 DEF RespondOverflow, MarkDeliveryFailed, Resolutions, pending
<1>7. CASE RespondUnattended(c, id, decision)
  BY <1>5, <1>7 DEF RespondUnattended, MarkDelivered, Resolutions, pending
<1>. QED
  BY <1>2, <1>4, <1>6, <1>7 DEF ClientRespond

(* QuietRevives: no step but an arrival revives an entry or touches what   *)
(* the tracker holds.                                                      *)
LEMMA QuietRevives ==
  ASSUME IInv, [Next]_vars, ~AdapterEvent
  PROVE  /\ NoneRevived(queue, queue') /\ events' = events
         /\ DOMAIN open' = DOMAIN open
         /\ \A t \in DOMAIN open : /\ open'[t].working = open[t].working
                                   /\ open'[t].requests = open[t].requests
<1>1. /\ queue \in Seq(QueueEntry) /\ NoneRevived(queue, queue)
      /\ open \in [DOMAIN open -> OpenTask]
  BY Store, OperatorsRevive DEF IInv, TypeOK
<1>2. CASE Advance \/ DropMalformed \/ TakeCommand \/ UNCHANGED vars
  BY <1>1, <1>2 DEF Advance, DropMalformed, TakeCommand, vars
<1>3. CASE Tick
  <2>. DEFINE rescored == Rescore(queue, events, now)
              levels   == Escalations(open, now)
              raised   == {id \in Ids(queue) : CanEscalate(queue, id, levels)}
              leveled  == Escalate(rescored, levels)
  <2>1. rescored \in Seq(QueueEntry) /\ NoneRevived(queue, rescored)
    BY <1>1, Store, ScoredKeeps, OperatorsRevive DEF Rescore, Keeps, KeepsFrame
  <2>2. \A id \in DOMAIN levels : levels[id] \in 0..MaxEscalationLevel
    BY <1>1, Store, EscalationTargets, DueLevels DEF Overdue
  <2>. HIDE DEF rescored, levels
  <2>3. leveled \in Seq(QueueEntry) /\ NoneRevived(rescored, leveled)
    BY <2>1, <2>2, EscalateEffect, OperatorsRevive DEF KeepsFrame
  <2>. HIDE DEF leveled
  <2>4. NoneRevived(leveled, Scored(leveled, events, raised, now))
    BY <2>3, OperatorsRevive
  <2>5. NoneRevived(queue, queue')
    BY <1>3, <2>1, <2>3, <2>4, RevivedTransitive
       DEF Tick, rescored, levels, leveled
  <2>. QED
    BY <1>1, <1>3, <2>5 DEF Tick, Ticked, OpenTask
<1>4. CASE ClientCommand
  <2>. PICK c \in Clients :
         \/ ClientStartTask(c)
         \/ ClientQuery(c)
         \/ SendSnapshot(c)
         \/ \E id \in EventIds :
              \/ ClientAck(c, id)
              \/ ClientDismiss(c, id)
              \/ ClientDetails(c, id)
              \/ \E decision \in Decisions : ClientRespond(c, id, decision)
    BY <1>4 DEF ClientCommand
  <2>1. CASE ClientStartTask(c) \/ ClientQuery(c) \/ SendSnapshot(c)
    BY <1>1, <2>1 DEF ClientStartTask, ClientQuery, SendSnapshot
  <2>2. ASSUME NEW id \in EventIds, ClientAck(c, id) \/ ClientDismiss(c, id)
        PROVE  NoneRevived(queue, queue') /\ UNCHANGED <<events, open>>
    BY <1>1, <2>2, OperatorsRevive DEF ClientAck, ClientDismiss
  <2>3. ASSUME NEW id \in EventIds, ClientDetails(c, id)
        PROVE  NoneRevived(queue, queue') /\ UNCHANGED <<events, open>>
    <3>1. CASE ~CanAck(queue, id)
      BY <1>1, <2>3, <3>1 DEF ClientDetails
    <3>2. CASE CanAck(queue, id)
      <4>1. /\ Ack(queue, id) \in Seq(QueueEntry)
            /\ NoneRevived(queue, Ack(queue, id))
        BY <1>1, <3>2, AttentionKeeps, OperatorsRevive
           DEF CanAck, Known, Keeps, KeepsFrame
      <4>2. NoneRevived(Ack(queue, id), queue')
        BY <2>3, <3>2, <4>1, OperatorsRevive DEF ClientDetails, UpdateEntryScore
      <4>. QED
        BY <2>3, <4>1, <4>2, RevivedTransitive DEF ClientDetails
    <3>. QED
      BY <3>1, <3>2
  <2>4. ASSUME NEW id \in EventIds, NEW decision \in Decisions,
               ClientRespond(c, id, decision)
        PROVE  NoneRevived(queue, queue') /\ UNCHANGED <<events, open>>
    BY <2>4, RespondRevives DEF ClientRespond, RespondRefused, RespondSent,
                                RespondOverflow, RespondUnattended
  <2>. QED
    BY <2>1, <2>2, <2>3, <2>4
<1>5. CASE AdapterOutcome
  <2>. PICK id \in Ids(queue) :
         \/ \E decision \in Decisions : Delivered(id, decision)
         \/ DeliveryFailed(id)
    BY <1>5 DEF AdapterOutcome
  <2>1. CASE queue' = queue
    BY <1>1, <2>1 DEF Delivered, DeliveryFailed
  <2>2. ASSUME NEW x \in Resolutions,
               queue' = UpdateEntryScore([queue EXCEPT ![id].resolution = x],
                                         events, id, now)
        PROVE  NoneRevived(queue, queue')
    <3>. DEFINE settled == [queue EXCEPT ![id].resolution = x]
    <3>0. settled = SetResolution(queue, id, x)
      BY DEF SetResolution
    <3>1. settled \in Seq(QueueEntry) /\ NoneRevived(queue, settled)
      <4>1. NoneRevived(queue, settled)
        BY <1>1, OperatorsRevive
      <4>. HIDE DEF settled
      <4>. QED
        BY <1>1, <2>2, <3>0, <4>1, ResolvedStatuses
    <3>. HIDE DEF settled
    <3>2. NoneRevived(settled, queue')
      BY <2>2, <3>1, OperatorsRevive DEF UpdateEntryScore, settled
    <3>. QED
      BY <3>1, <3>2, RevivedTransitive
  <2>3. NoneRevived(queue, queue')
    BY <2>1, <2>2 DEF Delivered, DeliveryFailed, MarkDelivered,
                      MarkDeliveryFailed, Resolutions
  <2>. QED
    BY <2>3 DEF Delivered, DeliveryFailed
<1>. QED
  BY <1>2, <1>3, <1>4, <1>5 DEF Next

(* EffectReopens: a request that is undecided after a step was so before,  *)
(* or a decision was on its way.                                           *)
LEMMA EffectReopens ==
  ASSUME LInv, Effect, NEW id \in Ids(queue), id \in Ids(queue'),
         queue'[id].resolution = "Unresolved"
  PROVE  queue[id].resolution \in {"Unresolved", "PendingDelivery"}
<1>. DEFINE f == Statuses(queue)
            g == Statuses(queue')
<1>1. /\ f \in [Ids(queue) -> Resolutions] /\ f[id] = queue[id].resolution
      /\ g[id] = "Unresolved"
      /\ id \in 1..Len(queue) + 1
  <2>1. f \in [Ids(queue) -> Resolutions] /\ f[id] = queue[id].resolution
    BY Store, StatusesTyped DEF LInv
  <2>2. g[id] = "Unresolved"
    BY DEF Statuses
  <2>3. id \in 1..Len(queue) + 1
    BY Store DEF LInv
  <2>. QED
    BY <2>1, <2>2, <2>3
<1>2. /\ Effect => \/ g = f
                   \/ \E x : g = [y \in 1..Len(queue) + 1 |->
                                   IF y \in Ids(queue) THEN queue[y].resolution ELSE x]
                   \/ \E y \in Ids(queue), x \in Decisions \cup {"PendingDelivery"} :
                        g = [f EXCEPT ![y] = x]
                   \/ \E y \in Ids(queue) : /\ f[y] = "PendingDelivery"
                                            /\ g = [f EXCEPT ![y] = "Unresolved"]
  <2>1. \A y \in Ids(queue) : f[y] = queue[y].resolution
    BY Store, StatusesTyped DEF LInv
  <2>. QED
    BY <2>1 DEF Effect, Still, Changes
<1>. HIDE DEF f, g
<1>. QED
  BY <1>1, <1>2 DEF Decisions

(* ArrivalForgets: an arriving event supersedes what it makes the tracker  *)
(* drop, so it leaves nothing behind that can be answered.                 *)
LEMMA ArrivalForgets ==
  ASSUME IInv, AdapterEvent, NEW id \in Ids(queue), Forgotten(id)'
  PROVE  Forgotten(id)
<1>1. /\ queue \in Seq(QueueEntry) /\ events \in Seq(Event)
      /\ Len(queue) = Len(events) /\ Ids(queue) = 1..Len(queue)
      /\ Len(events) \in Nat /\ open \in [DOMAIN open -> OpenTask]
  BY Store DEF IInv, TypeOK
<1>. PICK new \in Nat : new = Len(events) + 1
  BY <1>1
<1>. PICK event \in Event, stale \in SUBSET Ids(queue) :
       /\ events' = Append(events, event)
       /\ \A x \in Ids(queue) :
            /\ queue'[x].tier = queue[x].tier
            /\ queue'[x].state = queue[x].state
            /\ queue'[x].resolution = queue[x].resolution
            /\ queue'[x].superseded <=> queue[x].superseded \/ x \in stale
       /\ \A x \in Ids(queue) :
            x \in stale <=> x \in Outdated(open, event) /\ CanSupersede(queue, x)
       /\ open' = Observe(open, event, new)
  BY ArrivalEffect, AdapterArrives
<1>2. TaskOf(id)' = TaskOf(id) /\ TaskOf(id)' # NoTask /\ id # new
  BY <1>1, AppendProperties DEF Forgotten, TaskOf
<1>3. IsActionable(queue[id]) /\ id \notin stale
  BY DEF Forgotten, IsActionable, IsLive
<1>4. id \notin Outdated(open, event)
  BY <1>3 DEF IsActionable, IsLive, CanSupersede, Known, Decisions
<1>. PICK task : task = TaskOf(id)
  OBVIOUS
<1>. DEFINE tracks(o) == task \in DOMAIN o
                         /\ id \in o[task].working \cup o[task].requests
<1>5. ~tracks(open')
  BY <1>2 DEF Forgotten, Tracked
<1>6. event.category \in Categories
  BY DEF Event
<1>7. ~tracks(open)
  <2>. SUFFICES ASSUME tracks(open) PROVE FALSE
    OBVIOUS
  <2>1. open[task] \in OpenTask
    BY <1>1
  <2>2. CASE event.task # task
    BY <1>5, <1>6, <2>2 DEF Observe, With, Without, Closes, Categories
  <2>3. CASE event.task = task
    <3>1. ~Closes(event) /\ event.category \in {"Working", "Request"}
      BY <1>4, <1>6, <2>3 DEF Outdated, Closes, Categories
    <3>2. Opened(open, event) = open[task] /\ event.task # NoTask
      BY <1>2, <2>3 DEF Opened
    <3>3. CASE event.category = "Working"
      <4>. PICK r : r = [open[task] EXCEPT !.latest = new, !.working = @ \cup {new}]
        OBVIOUS
      <4>1. open' = With(open, task, r)
        BY <2>3, <3>1, <3>2, <3>3 DEF Observe
      <4>2. r.working = open[task].working \cup {new} /\ r.requests = open[task].requests
        BY <2>1 DEF OpenTask
      <4>. QED
        BY <1>5, <4>1, <4>2 DEF With
    <3>4. CASE event.category = "Request"
      <4>. PICK r : r = [open[task] EXCEPT !.requests = {new}]
        OBVIOUS
      <4>1. open' = With(open, task, r)
        BY <2>3, <3>1, <3>2, <3>4 DEF Observe
      <4>2. r.working = open[task].working
        BY <2>1 DEF OpenTask
      <4>3. id \in open[task].working
        BY <1>4, <2>3, <3>1, <3>4 DEF Outdated
      <4>. QED
        BY <1>5, <4>1, <4>2, <4>3 DEF With
    <3>. QED
      BY <3>1, <3>3, <3>4
  <2>. QED
    BY <2>2, <2>3
<1>. QED
  BY <1>2, <1>3, <1>7 DEF Forgotten, Tracked

LEMMA LInvariance == Spec => []LInv
<1>1. Init => LInv
  <2>1. Init => queue = <<>> /\ commands \in Seq({}) /\ Ids(queue) = {}
    BY DEF Init, Ids
  <2>. QED
    BY <2>1, InitIInv DEF LInv, CommandsTyped, NothingPending
<1>2. LInv /\ IInv' /\ [Next]_vars => LInv'
  BY StepChanges, EffectInvariant
<1>. QED
  BY <1>1, <1>2, Invariance, PTL DEF Spec

(* ForgottenByReopen: whatever tasks close and requests replace each other *)
(* while decisions are under way, a request that the tracker has dropped   *)
(* can be answered only because a decision on it failed.                   *)
THEOREM ForgottenByReopen == Spec => OutlivesTaskByReopenOnly
<1>. DEFINE Reopened == \A id \in Ids(queue) :
              Forgotten(id)' /\ ~Forgotten(id)
                => queue[id].resolution = "PendingDelivery"
<1>1. LInv /\ IInv' /\ [Next]_vars => Reopened
  <2>. SUFFICES ASSUME LInv, IInv', [Next]_vars, NEW id \in Ids(queue),
                       Forgotten(id)', ~Forgotten(id)
                PROVE  queue[id].resolution = "PendingDelivery"
    OBVIOUS
  <2>1. IInv /\ Effect /\ ~AdapterEvent
    BY StepChanges, ArrivalForgets DEF LInv
  <2>2. /\ NoneRevived(queue, queue') /\ events' = events
        /\ DOMAIN open' = DOMAIN open
        /\ \A t \in DOMAIN open : /\ open'[t].working = open[t].working
                                  /\ open'[t].requests = open[t].requests
    BY <2>1, QuietRevives
  <2>3. TaskOf(id)' = TaskOf(id) /\ (Tracked(id)' <=> Tracked(id))
    BY <2>2 DEF TaskOf, Tracked
  <2>4. id \in Ids(queue') /\ IsLive(queue[id])
    BY <2>2 DEF Forgotten, IsActionable, NoneRevived
  <2>5. queue'[id].tier = queue[id].tier
    BY <2>1, <2>2, <2>4 DEF IInv, TypeOK
  <2>6. queue[id].resolution \in {"Unresolved", "PendingDelivery"}
    BY <2>1, <2>4, EffectReopens DEF Forgotten, IsActionable
  <2>. QED
    BY <2>3, <2>4, <2>5, <2>6 DEF Forgotten, IsActionable
<1>2. LInv /\ IInv' /\ [Next]_vars => [Reopened]_vars
  BY <1>1
<1>. QED
  BY <1>2, LInvariance, Invariance, PTL DEF Spec, OutlivesTaskByReopenOnly

-----------------------------------------------------------------------------
(* What a mirror comes to.  Folding ApplyPush over the messages of a       *)
(* command is a run of a function over their indices; that it exists, and  *)
(* what it ends in, takes induction, on sets of numbers.                   *)

(* LeastElement: the numbers are well-founded.                             *)
LEMMA LeastElement ==
  ASSUME NEW T, T \subseteq Nat, T # {}
  PROVE  \E x \in T : \A y \in T : ~(y < x)
<1>. DEFINE R == OpToRel(<, Nat)
<1>1. IsWellFoundedOn(R, Nat)
  BY NatLessThanWellFounded
<1>. HIDE DEF R
<1>2. \E x \in T : \A y \in T : ~(<<y, x>> \in R)
  BY <1>1, WFMin
<1>3. \A x, y \in Nat : y < x => <<y, x>> \in R
  BY DEF R, OpToRel
<1>. QED
  BY <1>2, <1>3

(* ByInduction: a set with 0 in it and the successor of each of its numbers*)
(* has them all.                                                           *)
LEMMA ByInduction ==
  ASSUME NEW S, 0 \in S, \A n \in Nat : n \in S => n + 1 \in S
  PROVE  Nat \subseteq S
<1>. SUFFICES ASSUME Nat \ S # {} PROVE FALSE
  OBVIOUS
<1>. PICK x \in Nat \ S : \A y \in Nat \ S : ~(y < x)
  BY LeastElement
<1>1. x # 0 /\ x - 1 \in Nat /\ x - 1 < x
  OBVIOUS
<1>2. x - 1 \in S
  BY <1>1
<1>. QED
  BY <1>1, <1>2

(* Steps: F holds the mirror after each of the messages of w.              *)
Steps(q, w, F) ==
  /\ DOMAIN F = 0..Len(w) /\ F[0] = q
  /\ \A i \in 1..Len(w) : F[i] = ApplyPush(F[i - 1], w[i])

Top(s) == CHOOSE x \in s : \A y \in s : x >= y

(* Unrolls: what FoldLeft is, as the community modules define it.          *)
Unrolls(q, w, n, f) ==
  f = [s \in SUBSET (1..n) |->
         IF s = {} THEN q ELSE ApplyPush(f[s \ {Top(s)}], w[Top(s)])]

LEMMA TopIs ==
  ASSUME NEW s, NEW m \in s, s \subseteq Int, \A y \in s : m >= y
  PROVE  Top(s) = m
<1>. DEFINE P(x) == \A y \in s : x >= y
<1>1. P(m) /\ \A x \in s : P(x) => x = m
  OBVIOUS
<1>. HIDE DEF P
<1>2. (CHOOSE x \in s : P(x)) = m
  BY <1>1
<1>. QED
  BY <1>2 DEF Top, P

(* FoldExists: the recursion has a solution.                               *)
LEMMA FoldExists ==
  ASSUME NEW q, NEW w, NEW n \in Nat
  PROVE  \E f : Unrolls(q, w, n, f)
<1>. DEFINE Rec(f, k) == Unrolls(q, w, k, f)
            S == {k \in Nat : \E f : Rec(f, k)}
<1>1. 0 \in S
  <2>. DEFINE f == [s \in SUBSET (1..0) |-> q]
  <2>1. \A s \in SUBSET (1..0) : s = {}
    OBVIOUS
  <2>2. Rec(f, 0)
    BY <2>1 DEF Unrolls
  <2>. QED
    BY <2>2
<1>2. ASSUME NEW k \in Nat, k \in S PROVE k + 1 \in S
  <2>1. PICK f : Rec(f, k)
    BY <1>2
  <2>. DEFINE g == [s \in SUBSET (1..(k + 1)) |->
                      IF s \in SUBSET (1..k) THEN f[s]
                      ELSE ApplyPush(f[s \ {k + 1}], w[k + 1])]
  <2>2. ASSUME NEW s \in SUBSET (1..(k + 1))
        PROVE  g[s] = IF s = {} THEN q
                      ELSE ApplyPush(g[s \ {Top(s)}], w[Top(s)])
    <3>1. CASE s \in SUBSET (1..k)
      <4>1. g[s] = f[s] /\ g[s \ {Top(s)}] = f[s \ {Top(s)}]
        BY <3>1
      <4>2. f[s] = IF s = {} THEN q
                   ELSE ApplyPush(f[s \ {Top(s)}], w[Top(s)])
        BY <2>1, <3>1 DEF Unrolls
      <4>. HIDE DEF g
      <4>. QED
        BY <4>1, <4>2
    <3>2. CASE s \notin SUBSET (1..k)
      <4>1. k + 1 \in s /\ \A y \in s : y \in 1..k \/ y = k + 1
        BY <3>2
      <4>2. Top(s) = k + 1
        <5>1. s \subseteq Int /\ \A y \in s : k + 1 >= y
          BY <4>1
        <5>. QED
          BY <4>1, <5>1, TopIs
      <4>3. s \ {k + 1} \in SUBSET (1..k)
        BY <4>1
      <4>4. g[s \ {k + 1}] = f[s \ {k + 1}]
            /\ g[s] = ApplyPush(f[s \ {k + 1}], w[k + 1])
        BY <3>2, <4>3
      <4>. HIDE DEF g
      <4>. QED
        BY <4>1, <4>2, <4>4
    <3>. QED
      BY <3>1, <3>2
  <2>3. g = [s \in SUBSET (1..(k + 1)) |-> g[s]]
    OBVIOUS
  <2>. HIDE DEF g
  <2>4. Rec(g, k + 1)
    BY <2>2, <2>3 DEF Unrolls
  <2>. QED
    BY <2>4
<1>. HIDE DEF Rec
<1>3. n \in S
  <2>. HIDE DEF S
  <2>. QED
    BY <1>1, <1>2, ByInduction
<1>. QED
  BY <1>3 DEF Rec

(* FoldSteps: folding is applying the messages one after the other.        *)
LEMMA FoldSteps ==
  ASSUME NEW q, NEW w, NEW n \in Nat, Len(w) = n, DOMAIN w = 1..n
  PROVE  \E F : Steps(q, w, F) /\ FoldLeft(ApplyPush, q, w) = F[n]
<1>. DEFINE It == CHOOSE f : f = [s \in SUBSET (1..n) |->
                       IF s = {} THEN q
                       ELSE ApplyPush(f[s \ {Top(s)}], w[Top(s)])]
<1>1. It = [s \in SUBSET (1..n) |->
                       IF s = {} THEN q
                       ELSE ApplyPush(It[s \ {Top(s)}], w[Top(s)])]
  <2>. DEFINE P(f) == Unrolls(q, w, n, f)
  <2>1. \E f : P(f)
    BY FoldExists
  <2>. HIDE DEF P
  <2>2. P(CHOOSE f : P(f))
    BY <2>1
  <2>. QED
    BY <2>2 DEF P, Unrolls
<1>2. FoldLeft(ApplyPush, q, w) = It[1..n]
  BY DEF FoldLeft, MapThenFoldSet, Max, Top
<1>. HIDE DEF It
<1>. DEFINE F == [i \in 0..n |-> It[1..i]]
<1>3. F[0] = q
  BY <1>1
<1>4. ASSUME NEW i \in 1..n PROVE F[i] = ApplyPush(F[i - 1], w[i])
  <2>1. Top(1..i) = i
    BY DEF Top
  <2>2. (1..i) \ {i} = 1..(i - 1) /\ 1..i # {} /\ 1..i \in SUBSET (1..n)
    OBVIOUS
  <2>3. It[1..i] = ApplyPush(It[(1..i) \ {Top(1..i)}], w[Top(1..i)])
    BY <1>1, <2>2
  <2>4. It[1..i] = ApplyPush(It[1..(i - 1)], w[i])
    BY <2>1, <2>2, <2>3
  <2>. QED
    BY <2>4
<1>5. DOMAIN F = 0..n /\ F[n] = It[1..n]
  OBVIOUS
<1>. HIDE DEF F
<1>6. Steps(q, w, F)
  BY <1>3, <1>4, <1>5 DEF Steps
<1>. QED
  BY <1>2, <1>5, <1>6

-----------------------------------------------------------------------------
(* Leads(q, w, r) when the messages of w, applied in order, lead from q to *)
(* r.                                                                      *)
Leads(q, w, r) ==
  \E M, F : w \in Seq(M) /\ Steps(q, w, F) /\ F[Len(w)] = r

(* ToldFolds: and then folding them does.                                  *)
LEMMA ToldFolds ==
  ASSUME NEW q, NEW w, NEW r, Leads(q, w, r)
  PROVE  FoldLeft(ApplyPush, q, w) = r
<1>1. PICK M, F : w \in Seq(M) /\ Steps(q, w, F) /\ F[Len(w)] = r
  BY DEF Leads
<1>. PICK n \in Nat : n = Len(w)
  BY <1>1, LenProperties
<1>2. DOMAIN w = 1..n
  BY <1>1, LenProperties
<1>3. PICK G : Steps(q, w, G) /\ FoldLeft(ApplyPush, q, w) = G[n]
  BY <1>2, FoldSteps
<1>. DEFINE S == {i \in Nat : i <= n => F[i] = G[i]}
<1>4. 0 \in S
  BY <1>1, <1>3 DEF Steps
<1>5. ASSUME NEW i \in Nat, i \in S PROVE i + 1 \in S
  <2>. SUFFICES ASSUME i + 1 <= n PROVE F[i + 1] = G[i + 1]
    OBVIOUS
  <2>1. i + 1 \in 1..Len(w) /\ (i + 1) - 1 = i /\ F[i] = G[i]
    BY <1>5
  <2>. QED
    BY <2>1, <1>1, <1>3 DEF Steps
<1>6. n \in S
  <2>. HIDE DEF S
  <2>. QED
    BY <1>4, <1>5, ByInduction
<1>. QED
  BY <1>1, <1>3, <1>6

LEMMA Widens ==
  ASSUME NEW S, NEW T, S \subseteq T, NEW s \in Seq(S)
  PROVE  s \in Seq(T)
BY SeqDef

(* ToldThen: what two lists of messages tell, one after the other.         *)
LEMMA ToldThen ==
  ASSUME NEW q, NEW v, NEW r, NEW w, NEW u, Leads(q, v, r), Leads(r, w, u)
  PROVE  Leads(q, v \o w, u)
<1>1. PICK M, F : v \in Seq(M) /\ Steps(q, v, F) /\ F[Len(v)] = r
  BY DEF Leads
<1>2. PICK N, G : w \in Seq(N) /\ Steps(r, w, G) /\ G[Len(w)] = u
  BY DEF Leads
<1>. DEFINE U == M \cup N
<1>3. v \in Seq(U) /\ w \in Seq(U)
  BY <1>1, <1>2, Widens
<1>. HIDE DEF U
<1>. PICK n \in Nat, m \in Nat : n = Len(v) /\ m = Len(w)
  BY <1>1, <1>2, LenProperties
<1>4. /\ v \o w \in Seq(U) /\ Len(v \o w) = n + m
      /\ \A i \in 1..n : (v \o w)[i] = v[i]
      /\ \A i \in 1..m : (v \o w)[n + i] = w[i]
  BY <1>3, ConcatProperties
<1>. DEFINE H == [i \in 0..(n + m) |-> IF i <= n THEN F[i] ELSE G[i - n]]
<1>5. H[0] = q /\ H[n + m] = u
  <2>1. 0 \in 0..(n + m) /\ n + m \in 0..(n + m) /\ 0 <= n /\ H[0] = F[0]
    OBVIOUS
  <2>2. F[0] = q /\ G[0] = r /\ F[n] = r /\ G[m] = u
    BY <1>1, <1>2 DEF Steps
  <2>3. CASE m = 0
    BY <2>1, <2>2, <2>3
  <2>4. CASE m > 0
    <3>1. H[n + m] = G[m]
      BY <2>4
    <3>. QED
      BY <2>1, <2>2, <3>1
  <2>. QED
    BY <2>3, <2>4
<1>6. ASSUME NEW i \in 1..(n + m)
      PROVE  H[i] = ApplyPush(H[i - 1], (v \o w)[i])
  <2>1. CASE i <= n
    <3>1. F[i] = ApplyPush(F[i - 1], v[i])
      BY <1>1, <2>1 DEF Steps
    <3>2. H[i] = F[i] /\ H[i - 1] = F[i - 1] /\ (v \o w)[i] = v[i]
      BY <2>1, <1>4
    <3>. HIDE DEF H
    <3>. QED
      BY <3>1, <3>2
  <2>2. CASE i > n
    <3>. PICK j \in 1..m : i = n + j
      BY <2>2
    <3>1. G[j] = ApplyPush(G[j - 1], w[j])
      BY <1>2 DEF Steps
    <3>2. H[i] = G[j] /\ (v \o w)[i] = w[j]
      BY <1>4
    <3>3. H[i - 1] = G[j - 1]
      BY <1>1, <1>2 DEF Steps
    <3>. HIDE DEF H
    <3>. QED
      BY <3>1, <3>2, <3>3
  <2>. QED
    BY <2>1, <2>2
<1>7. DOMAIN H = 0..(n + m)
  OBVIOUS
<1>. HIDE DEF H
<1>8. Steps(q, v \o w, H)
  BY <1>4, <1>5, <1>6, <1>7 DEF Steps
<1>. QED
  BY <1>4, <1>5, <1>8 DEF Leads

LEMMA ToldNothing ==
  ASSUME NEW q
  PROVE  Leads(q, <<>>, q)
<1>. DEFINE F == [i \in 0..0 |-> q]
<1>1. <<>> \in Seq({}) /\ Len(<<>>) = 0
  OBVIOUS
<1>2. Steps(q, <<>>, F) /\ F[0] = q
  BY <1>1 DEF Steps
<1>. QED
  BY <1>1, <1>2 DEF Leads

LEMMA ToldOne ==
  ASSUME NEW q, NEW m
  PROVE  Leads(q, <<m>>, ApplyPush(q, m))
<1>. DEFINE F == [i \in 0..1 |-> IF i = 0 THEN q ELSE ApplyPush(q, m)]
<1>1. <<m>> \in Seq({m}) /\ Len(<<m>>) = 1 /\ <<m>>[1] = m
  OBVIOUS
<1>2. F[0] = q /\ F[1] = ApplyPush(q, m) /\ DOMAIN F = 0..1
  OBVIOUS
<1>. HIDE DEF F
<1>3. Steps(q, <<m>>, F)
  BY <1>1, <1>2 DEF Steps
<1>. QED
  BY <1>1, <1>2, <1>3 DEF Leads

(* ToldQuiet: replies, forwarded decisions and prompts lead nowhere else.  *)
LEMMA ToldQuiet ==
  ASSUME NEW q, NEW m,
         m.type \notin {"event", "score_update", "state_update"}
  PROVE  Leads(q, <<m>>, q)
BY ToldOne DEF ApplyPush

-----------------------------------------------------------------------------
(* A finite set as a list.                                                 *)

(* Listed: SetToSeq lists the elements of a finite set.                    *)
LEMMA Listed ==
  ASSUME NEW S, IsFiniteSet(S)
  PROVE  /\ SetToSeq(S) \in Seq(S)
         /\ \A x \in S : \E i \in 1..Len(SetToSeq(S)) : SetToSeq(S)[i] = x
<1>. DEFINE n == Cardinality(S)
<1>1. n \in Nat
  BY FS_CardinalityType
<1>. HIDE DEF n
<1>2. PICK g : g \in Bijection(1..n, S)
  BY FS_CardinalityType DEF ExistsBijection, n
<1>3. g \in [1..n -> S] /\ IsInjective(g)
  BY <1>2 DEF Bijection, Injection
<1>4. SetToSeq(S) \in [1..n -> S] /\ IsInjective(SetToSeq(S))
  <2>. DEFINE P(f) == f \in [1..n -> S] /\ IsInjective(f)
  <2>1. SetToSeq(S) = CHOOSE f \in [1..n -> S] : IsInjective(f)
    BY DEF SetToSeq, n
  <2>. QED
    BY <1>3, <2>1
<1>. PICK f : f = SetToSeq(S)
  OBVIOUS
<1>5. f \in Injection(1..n, S)
  BY <1>4 DEF Injection
<1>6. Cardinality(1..n) = n
  BY <1>1, FS_Interval
<1>7. f \in Surjection(1..n, S)
  BY <1>5, <1>6, FS_Injection DEF n
<1>8. \A x \in S : \E i \in 1..n : f[i] = x
  BY <1>7 DEF Surjection
<1>. QED
  BY <1>1, <1>4, <1>8, SeqOfFunction

-----------------------------------------------------------------------------
(* The messages that rewrite entries.                                      *)

WithScore(e, f) == [e EXCEPT !.score = f.score, !.escalation = f.escalation]

WithState(e, f) ==
  [e EXCEPT !.state = f.state, !.resolution = f.resolution,
            !.superseded = f.superseded]

Rewrites(q, m, id, e) == ApplyPush(q, m) = [q EXCEPT ![id] = e]

(* PushScore, PushState: each message rewrites the one entry it is about.  *)
LEMMA PushScore ==
  ASSUME NEW D, NEW q \in [D -> QueueEntry], NEW r, NEW id \in D
  PROVE  Rewrites(q, ScoreUpdate(r, id), id, WithScore(q[id], r[id]))
<1>1. \A m : m.type = "score_update"
        => ApplyPush(q, m) = [q EXCEPT ![m.id].score = m.score,
                                       ![m.id].escalation = m.escalation]
  BY DEF ApplyPush
<1>. PICK m : m = ScoreUpdate(r, id)
  OBVIOUS
<1>2. /\ m.type = "score_update" /\ m.id = id /\ m.score = r[id].score
      /\ m.escalation = r[id].escalation
  BY DEF ScoreUpdate
<1>. PICK s : s = m.score
  OBVIOUS
<1>. PICK k : k = m.escalation
  OBVIOUS
<1>3. ApplyPush(q, m) = [q EXCEPT ![id].score = s, ![id].escalation = k]
  BY <1>1, <1>2
<1>4. [q EXCEPT ![id].score = s, ![id].escalation = k]
        = [q EXCEPT ![id] = [q[id] EXCEPT !.score = s, !.escalation = k]]
  BY DEF QueueEntry
<1>. PICK e : e = WithScore(q[id], r[id])
  OBVIOUS
<1>5. e = [q[id] EXCEPT !.score = s, !.escalation = k]
  BY <1>2 DEF WithScore
<1>6. ApplyPush(q, m) = [q EXCEPT ![id] = e]
  BY <1>3, <1>4, <1>5
<1>. QED
  BY <1>6 DEF Rewrites

LEMMA PushState ==
  ASSUME NEW D, NEW q \in [D -> QueueEntry], NEW r, NEW id \in D
  PROVE  Rewrites(q, StateUpdate(r, id), id, WithState(q[id], r[id]))
<1>1. \A m : m.type = "state_update"
        => ApplyPush(q, m) = [q EXCEPT ![m.id].state = m.state,
                                       ![m.id].resolution = m.resolution,
                                       ![m.id].superseded = m.superseded]
  BY DEF ApplyPush
<1>. PICK m : m = StateUpdate(r, id)
  OBVIOUS
<1>2. /\ m.type = "state_update" /\ m.id = id /\ m.state = r[id].state
      /\ m.resolution = r[id].resolution /\ m.superseded = r[id].superseded
  BY DEF StateUpdate
<1>. PICK s : s = m.state
  OBVIOUS
<1>. PICK k : k = m.resolution
  OBVIOUS
<1>. PICK u : u = m.superseded
  OBVIOUS
<1>3. ApplyPush(q, m) = [q EXCEPT ![id].state = s, ![id].resolution = k,
                                  ![id].superseded = u]
  BY <1>1, <1>2
<1>4. [q EXCEPT ![id].state = s, ![id].resolution = k, ![id].superseded = u]
        = [q EXCEPT ![id] = [q[id] EXCEPT !.state = s, !.resolution = k,
                                          !.superseded = u]]
  BY DEF QueueEntry
<1>. PICK e : e = WithState(q[id], r[id])
  OBVIOUS
<1>5. e = [q[id] EXCEPT !.state = s, !.resolution = k, !.superseded = u]
  BY <1>2 DEF WithState
<1>6. ApplyPush(q, m) = [q EXCEPT ![id] = e]
  BY <1>3, <1>4, <1>5
<1>. QED
  BY <1>6 DEF Rewrites

LEMMA Rewritten ==
  ASSUME NEW e \in QueueEntry, NEW f \in QueueEntry
  PROVE  /\ WithScore(e, f) \in QueueEntry
         /\ WithScore(WithScore(e, f), f) = WithScore(e, f)
         /\ WithState(e, f) \in QueueEntry
         /\ WithState(WithState(e, f), f) = WithState(e, f)
<1>1. WithScore(e, f) \in QueueEntry
  BY DEF WithScore, QueueEntry
<1>2. WithScore(WithScore(e, f), f) = WithScore(e, f)
  BY DEF WithScore, QueueEntry
<1>3. WithState(e, f) \in QueueEntry
  BY DEF WithState, QueueEntry
<1>4. WithState(WithState(e, f), f) = WithState(e, f)
  BY DEF WithState, QueueEntry
<1>. QED
  BY <1>1, <1>2, <1>3, <1>4

Scores(q, r, S) ==
  [x \in DOMAIN q |-> IF x \in S THEN WithScore(q[x], r[x]) ELSE q[x]]

States(q, r, S) ==
  [x \in DOMAIN q |-> IF x \in S THEN WithState(q[x], r[x]) ELSE q[x]]

(* ScoresTold, StatesTold: a list of them rewrites those listed, in        *)
(* whatever order they are.                                                *)
LEMMA ScoresTold ==
  ASSUME NEW D, NEW q \in [D -> QueueEntry], NEW r \in [D -> QueueEntry],
         NEW S \in SUBSET D, IsFiniteSet(S), NEW o, o = SetToSeq(S)
  PROVE  Leads(q, [i \in DOMAIN o |-> ScoreUpdate(r, o[i])], Scores(q, r, S))
<1>1. o \in Seq(S) /\ \A x \in S : \E i \in 1..Len(o) : o[i] = x
  BY Listed
<1>. PICK n \in Nat : n = Len(o)
  BY <1>1, LenProperties
<1>2. DOMAIN o = 1..n /\ \A i \in 1..n : o[i] \in S
  BY <1>1, LenProperties, ElementOfSeq
<1>. DEFINE w == [i \in 1..n |-> ScoreUpdate(r, o[i])]
            M == {ScoreUpdate(r, x) : x \in S}
            F == [i \in 0..n |->
                    [x \in D |-> IF \E j \in 1..i : o[j] = x
                                 THEN WithScore(q[x], r[x]) ELSE q[x]]]
<1>3. w \in Seq(M) /\ Len(w) = n
  <2>1. w \in [1..n -> M]
    BY <1>2
  <2>. HIDE DEF w, M
  <2>. QED
    BY <2>1, SeqOfFunction
<1>4. F[0] = q
  OBVIOUS
<1>5. ASSUME NEW i \in 0..n
      PROVE  F[i] \in [D -> QueueEntry]
  <2>1. \A x \in D : WithScore(q[x], r[x]) \in QueueEntry
    BY Rewritten
  <2>. QED
    BY <2>1
<1>6. ASSUME NEW i \in 1..n
      PROVE  F[i] = ApplyPush(F[i - 1], w[i])
  <2>1. w[i] = ScoreUpdate(r, o[i]) /\ o[i] \in D /\ i - 1 \in 0..n
    BY <1>2
  <2>2. F[i - 1] \in [D -> QueueEntry]
    BY <1>5, <2>1
  <2>3. ApplyPush(F[i - 1], ScoreUpdate(r, o[i]))
          = [x \in D |-> IF x = o[i] THEN WithScore(F[i - 1][x], r[x])
                         ELSE F[i - 1][x]]
    <3>. HIDE DEF F
    <3>. PICK g : g = F[i - 1]
      OBVIOUS
    <3>. PICK y : y = o[i]
      OBVIOUS
    <3>1. y \in D /\ g \in [D -> QueueEntry]
      BY <2>1, <2>2
    <3>2. ApplyPush(g, ScoreUpdate(r, y))
            = [g EXCEPT ![y] = WithScore(g[y], r[y])]
      <4>1. Rewrites(g, ScoreUpdate(r, y), y, WithScore(g[y], r[y]))
        BY <3>1, PushScore
      <4>. QED
        BY <4>1 DEF Rewrites
    <3>3. [g EXCEPT ![y] = WithScore(g[y], r[y])]
            = [x \in D |-> IF x = y THEN WithScore(g[x], r[x]) ELSE g[x]]
      BY <3>1
    <3>. QED
      BY <3>2, <3>3
  <2>4. ASSUME NEW x \in D
        PROVE  F[i][x] = IF x = o[i] THEN WithScore(F[i - 1][x], r[x])
                         ELSE F[i - 1][x]
    <3>1. WithScore(WithScore(q[x], r[x]), r[x]) = WithScore(q[x], r[x])
      BY Rewritten
    <3>2. F[i][x] = IF \E j \in 1..i : o[j] = x
                    THEN WithScore(q[x], r[x]) ELSE q[x]
      OBVIOUS
    <3>3. F[i - 1][x] = IF \E j \in 1..(i - 1) : o[j] = x
                        THEN WithScore(q[x], r[x]) ELSE q[x]
      BY <2>1
    <3>. HIDE DEF F
    <3>4. (\E j \in 1..i : o[j] = x)
            <=> x = o[i] \/ \E j \in 1..(i - 1) : o[j] = x
      OBVIOUS
    <3>. QED
      BY <3>1, <3>2, <3>3, <3>4
  <2>. HIDE DEF F
  <2>5. F[i] = [x \in D |-> F[i][x]]
    BY <1>5
  <2>. QED
    BY <2>1, <2>3, <2>4, <2>5
<1>7. F[n] = Scores(q, r, S)
  <2>1. \A x \in D : (\E j \in 1..n : o[j] = x) <=> x \in S
    BY <1>1, <1>2
  <2>2. F[n] = [x \in D |-> IF \E j \in 1..n : o[j] = x
                             THEN WithScore(q[x], r[x]) ELSE q[x]]
    OBVIOUS
  <2>3. DOMAIN q = D
    OBVIOUS
  <2>. HIDE DEF F
  <2>. QED
    BY <2>1, <2>2, <2>3 DEF Scores
<1>8. DOMAIN F = 0..n
  OBVIOUS
<1>. HIDE DEF F, M
<1>9. Steps(q, w, F)
  BY <1>3, <1>4, <1>6, <1>8 DEF Steps
<1>10. Leads(q, w, Scores(q, r, S))
  BY <1>3, <1>7, <1>9 DEF Leads
<1>. QED
  BY <1>2, <1>10

LEMMA StatesTold ==
  ASSUME NEW D, NEW q \in [D -> QueueEntry], NEW r \in [D -> QueueEntry],
         NEW S \in SUBSET D, IsFiniteSet(S), NEW o, o = SetToSeq(S)
  PROVE  Leads(q, [i \in DOMAIN o |-> StateUpdate(r, o[i])], States(q, r, S))
<1>1. o \in Seq(S) /\ \A x \in S : \E i \in 1..Len(o) : o[i] = x
  BY Listed
<1>. PICK n \in Nat : n = Len(o)
  BY <1>1, LenProperties
<1>2. DOMAIN o = 1..n /\ \A i \in 1..n : o[i] \in S
  BY <1>1, LenProperties, ElementOfSeq
<1>. DEFINE w == [i \in 1..n |-> StateUpdate(r, o[i])]
            M == {StateUpdate(r, x) : x \in S}
            F == [i \in 0..n |->
                    [x \in D |-> IF \E j \in 1..i : o[j] = x
                                 THEN WithState(q[x], r[x]) ELSE q[x]]]
<1>3. w \in Seq(M) /\ Len(w) = n
  <2>1. w \in [1..n -> M]
    BY <1>2
  <2>. HIDE DEF w, M
  <2>. QED
    BY <2>1, SeqOfFunction
<1>4. F[0] = q
  OBVIOUS
<1>5. ASSUME NEW i \in 0..n
      PROVE  F[i] \in [D -> QueueEntry]
  <2>1. \A x \in D : WithState(q[x], r[x]) \in QueueEntry
    BY Rewritten
  <2>. QED
    BY <2>1
<1>6. ASSUME NEW i \in 1..n
      PROVE  F[i] = ApplyPush(F[i - 1], w[i])
  <2>1. w[i] = StateUpdate(r, o[i]) /\ o[i] \in D /\ i - 1 \in 0..n
    BY <1>2
  <2>2. F[i - 1] \in [D -> QueueEntry]
    BY <1>5, <2>1
  <2>3. ApplyPush(F[i - 1], StateUpdate(r, o[i]))
          = [x \in D |-> IF x = o[i] THEN WithState(F[i - 1][x], r[x])
                         ELSE F[i - 1][x]]
    <3>. HIDE DEF F
    <3>. PICK g : g = F[i - 1]
      OBVIOUS
    <3>. PICK y : y = o[i]
      OBVIOUS
    <3>1. y \in D /\ g \in [D -> QueueEntry]
      BY <2>1, <2>2
    <3>2. ApplyPush(g, StateUpdate(r, y))
            = [g EXCEPT ![y] = WithState(g[y], r[y])]
      <4>1. Rewrites(g, StateUpdate(r, y), y, WithState(g[y], r[y]))
        BY <3>1, PushState
      <4>. QED
        BY <4>1 DEF Rewrites
    <3>3. [g EXCEPT ![y] = WithState(g[y], r[y])]
            = [x \in D |-> IF x = y THEN WithState(g[x], r[x]) ELSE g[x]]
      BY <3>1
    <3>. QED
      BY <3>2, <3>3
  <2>4. ASSUME NEW x \in D
        PROVE  F[i][x] = IF x = o[i] THEN WithState(F[i - 1][x], r[x])
                         ELSE F[i - 1][x]
    <3>1. WithState(WithState(q[x], r[x]), r[x]) = WithState(q[x], r[x])
      BY Rewritten
    <3>2. F[i][x] = IF \E j \in 1..i : o[j] = x
                    THEN WithState(q[x], r[x]) ELSE q[x]
      OBVIOUS
    <3>3. F[i - 1][x] = IF \E j \in 1..(i - 1) : o[j] = x
                        THEN WithState(q[x], r[x]) ELSE q[x]
      BY <2>1
    <3>. HIDE DEF F
    <3>4. (\E j \in 1..i : o[j] = x)
            <=> x = o[i] \/ \E j \in 1..(i - 1) : o[j] = x
      OBVIOUS
    <3>. QED
      BY <3>1, <3>2, <3>3, <3>4
  <2>. HIDE DEF F
  <2>5. F[i] = [x \in D |-> F[i][x]]
    BY <1>5
  <2>. QED
    BY <2>1, <2>3, <2>4, <2>5
<1>7. F[n] = States(q, r, S)
  <2>1. \A x \in D : (\E j \in 1..n : o[j] = x) <=> x \in S
    BY <1>1, <1>2
  <2>2. F[n] = [x \in D |-> IF \E j \in 1..n : o[j] = x
                             THEN WithState(q[x], r[x]) ELSE q[x]]
    OBVIOUS
  <2>3. DOMAIN q = D
    OBVIOUS
  <2>. HIDE DEF F
  <2>. QED
    BY <2>1, <2>2, <2>3 DEF States
<1>8. DOMAIN F = 0..n
  OBVIOUS
<1>. HIDE DEF F, M
<1>9. Steps(q, w, F)
  BY <1>3, <1>4, <1>6, <1>8 DEF Steps
<1>10. Leads(q, w, States(q, r, S))
  BY <1>3, <1>7, <1>9 DEF Leads
<1>. QED
  BY <1>2, <1>10

-----------------------------------------------------------------------------
(* One entry rewritten.                                                    *)

At(q, id, e) == [q EXCEPT ![id] = e]

LEMMA AtProperties ==
  ASSUME NEW n \in Nat, NEW q \in [1..n -> QueueEntry], NEW id \in 1..n,
         NEW e \in QueueEntry
  PROVE  /\ At(q, id, e) \in [1..n -> QueueEntry]
         /\ At(q, id, e)[id] = e
         /\ \A x \in 1..n \ {id} : At(q, id, e)[x] = q[x]
         /\ \A f \in QueueEntry : At(At(q, id, e), id, f) = At(q, id, f)
BY DEF At

LEMMA AtSelf ==
  ASSUME NEW n \in Nat, NEW q \in [1..n -> QueueEntry], NEW id \in 1..n
  PROVE  At(q, id, q[id]) = q
BY DEF At

LEMMA SubsetFinite ==
  ASSUME NEW n \in Nat, NEW S \in SUBSET (1..n)
  PROVE  IsFiniteSet(S)
<1>1. IsFiniteSet(1..n)
  BY FS_Interval
<1>. QED
  BY <1>1, FS_Subset

(* ScoresSent: the updates between p and r, applied to q.                  *)
LEMMA ScoresSent ==
  ASSUME NEW n \in Nat, NEW q \in [1..n -> QueueEntry],
         NEW p \in [1..n -> QueueEntry], NEW r \in [1..n -> QueueEntry],
         NEW S, S = {x \in 1..n : p[x].score # r[x].score}
  PROVE  Leads(q, ScoreUpdates(p, r), Scores(q, r, S))
<1>1. S \in SUBSET (1..n) /\ IsFiniteSet(S)
  BY SubsetFinite
<1>. PICK o : o = SetToSeq(S)
  OBVIOUS
<1>2. Leads(q, [i \in DOMAIN o |-> ScoreUpdate(r, o[i])], Scores(q, r, S))
  BY <1>1, ScoresTold
<1>3. S = {id \in Ids(p) : p[id].score # r[id].score}
  BY DEF Ids
<1>. QED
  BY <1>2, <1>3 DEF ScoreUpdates

LEMMA StatesSent ==
  ASSUME NEW n \in Nat, NEW q \in [1..n -> QueueEntry],
         NEW r \in [1..n -> QueueEntry], NEW S \in SUBSET (1..n)
  PROVE  Leads(q, StateUpdates(r, S), States(q, r, S))
<1>1. IsFiniteSet(S)
  BY SubsetFinite
<1>. PICK o : o = SetToSeq(S)
  OBVIOUS
<1>2. Leads(q, [i \in DOMAIN o |-> StateUpdate(r, o[i])], States(q, r, S))
  BY <1>1, StatesTold
<1>. QED
  BY <1>2 DEF StateUpdates

(* OneScore: entry id was d when the updates were made, and becomes f; the *)
(* mirror has e there.                                                     *)
LEMMA OneScore ==
  ASSUME NEW n \in Nat, NEW q \in [1..n -> QueueEntry], NEW id \in 1..n,
         NEW d \in QueueEntry, NEW e \in QueueEntry, NEW f \in QueueEntry,
         e.score = d.score, e.escalation = f.escalation
  PROVE  Leads(At(q, id, e), ScoreUpdates(At(q, id, d), At(q, id, f)),
              At(q, id, WithScore(e, f)))
<1>. PICK g \in [1..n -> QueueEntry] : g = At(q, id, e)
  BY AtProperties
<1>. PICK p \in [1..n -> QueueEntry] : p = At(q, id, d)
  BY AtProperties
<1>. PICK r \in [1..n -> QueueEntry] : r = At(q, id, f)
  BY AtProperties
<1>. PICK S : S = {x \in 1..n : p[x].score # r[x].score}
  OBVIOUS
<1>. PICK h : h = WithScore(e, f)
  OBVIOUS
<1>1. Leads(g, ScoreUpdates(p, r), Scores(g, r, S))
  BY ScoresSent
<1>2. /\ g[id] = e /\ p[id] = d /\ r[id] = f
      /\ \A x \in 1..n \ {id} : g[x] = q[x] /\ p[x] = q[x] /\ r[x] = q[x]
  BY DEF At
<1>3. S \subseteq {id} /\ (id \in S <=> d.score # f.score)
  BY <1>2
<1>4. h \in QueueEntry
  BY Rewritten
<1>5. d.score = f.score => h = e
  BY DEF WithScore, QueueEntry
<1>6. Scores(g, r, S) = [x \in 1..n |-> IF x \in S THEN WithScore(g[x], r[x])
                                        ELSE g[x]]
  BY DEF Scores
<1>7. At(q, id, h) = [x \in 1..n |-> IF x = id THEN h ELSE q[x]]
  BY DEF At
<1>8. ASSUME NEW x \in 1..n
      PROVE  (IF x \in S THEN WithScore(g[x], r[x]) ELSE g[x])
               = IF x = id THEN h ELSE q[x]
  <2>1. CASE x = id
    BY <1>2, <1>3, <1>5, <2>1
  <2>2. CASE x # id
    BY <1>2, <1>3, <2>2
  <2>. QED
    BY <2>1, <2>2
<1>9. Scores(g, r, S) = At(q, id, h)
  BY <1>6, <1>7, <1>8
<1>. QED
  BY <1>1, <1>9

LEMMA OneState ==
  ASSUME NEW n \in Nat, NEW q \in [1..n -> QueueEntry], NEW id \in 1..n,
         NEW e \in QueueEntry, NEW f \in QueueEntry
  PROVE  Leads(At(q, id, e), <<StateUpdate(At(q, id, f), id)>>,
              At(q, id, WithState(e, f)))
<1>. PICK g \in [1..n -> QueueEntry] : g = At(q, id, e)
  BY AtProperties
<1>. PICK r \in [1..n -> QueueEntry] : r = At(q, id, f)
  BY AtProperties
<1>. PICK h : h = WithState(e, f)
  OBVIOUS
<1>1. g[id] = e /\ r[id] = f /\ h \in QueueEntry
  <2>1. g[id] = e /\ r[id] = f
    BY DEF At
  <2>2. h \in QueueEntry
    BY Rewritten
  <2>. QED
    BY <2>1, <2>2
<1>2. Rewrites(g, StateUpdate(r, id), id, WithState(g[id], r[id]))
  BY PushState
<1>3. ApplyPush(g, StateUpdate(r, id)) = At(g, id, h)
  BY <1>1, <1>2 DEF Rewrites, At
<1>4. At(g, id, h) = At(q, id, h)
  BY DEF At
<1>5. Leads(g, <<StateUpdate(r, id)>>, At(q, id, h))
  BY <1>3, <1>4, ToldOne
<1>. QED
  BY <1>5

LEMMA ScoreAndState ==
  ASSUME NEW e \in QueueEntry, NEW f \in QueueEntry, e.tier = f.tier
  PROVE  /\ WithState(WithScore(e, f), f) = f
         /\ WithScore(WithState(e, f), f) = f
<1>1. WithState(WithScore(e, f), f) = f
  BY DEF WithScore, WithState, QueueEntry
<1>2. WithScore(WithState(e, f), f) = f
  BY DEF WithScore, WithState, QueueEntry
<1>. QED
  BY <1>1, <1>2

(* OneTold: both, in either order.                                         *)
LEMMA OneTold ==
  ASSUME NEW n \in Nat, NEW q \in [1..n -> QueueEntry], NEW id \in 1..n,
         NEW f \in QueueEntry, f.tier = q[id].tier,
         f.escalation = q[id].escalation,
         NEW r, r = At(q, id, f)
  PROVE  /\ Leads(q, ScoreUpdates(q, r) \o <<StateUpdate(r, id)>>, r)
         /\ Leads(q, <<StateUpdate(r, id)>> \o ScoreUpdates(q, r), r)
<1>. PICK e \in QueueEntry : e = q[id]
  OBVIOUS
<1>1. At(q, id, e) = q
  BY AtSelf
<1>2. /\ WithScore(e, f) \in QueueEntry /\ WithState(e, f) \in QueueEntry
      /\ WithState(WithScore(e, f), f) = f
      /\ WithScore(WithState(e, f), f) = f
  BY Rewritten, ScoreAndState
<1>3. Leads(q, ScoreUpdates(q, r) \o <<StateUpdate(r, id)>>, r)
  <2>. PICK g \in QueueEntry : g = WithScore(e, f)
    BY <1>2
  <2>1. Leads(q, ScoreUpdates(q, r), At(q, id, g))
    BY <1>1, OneScore
  <2>2. Leads(At(q, id, g), <<StateUpdate(r, id)>>, r)
    BY <1>2, OneState
  <2>. QED
    BY <2>1, <2>2, ToldThen
<1>4. Leads(q, <<StateUpdate(r, id)>> \o ScoreUpdates(q, r), r)
  <2>. PICK g \in QueueEntry : g = WithState(e, f)
    BY <1>2
  <2>1. Leads(q, <<StateUpdate(r, id)>>, At(q, id, g))
    BY <1>1, OneState
  <2>2. g.score = e.score /\ g.escalation = f.escalation
    BY DEF WithState, QueueEntry
  <2>3. Leads(At(q, id, g), ScoreUpdates(q, r), r)
    <3>1. Leads(At(q, id, g), ScoreUpdates(At(q, id, e), At(q, id, f)),
               At(q, id, WithScore(g, f)))
      BY <2>2, OneScore
    <3>. QED
      BY <1>1, <1>2, <3>1
  <2>. QED
    BY <2>1, <2>3, ToldThen
<1>. QED
  BY <1>3, <1>4

-----------------------------------------------------------------------------
(* Commands.                                                               *)

Quiet(m) == m.type \notin {"event", "score_update", "state_update"}

LEMMA Juxtaposed ==
  ASSUME NEW a, NEW b, NEW c
  PROVE  <<a>> \o <<b>> = <<a, b>> /\ <<a>> \o <<b, c>> = <<a, b, c>>
<1>. DEFINE M == {a, b, c}
<1>1. /\ <<a>> \in Seq(M) /\ <<b>> \in Seq(M) /\ <<b, c>> \in Seq(M)
      /\ <<a, b>> \in Seq(M) /\ <<a, b, c>> \in Seq(M)
  OBVIOUS
<1>. HIDE DEF M
<1>2. <<a>> \o <<b>> = <<a, b>>
  <2>. PICK s : s = <<a>> \o <<b>>
    OBVIOUS
  <2>. PICK t : t = <<a, b>>
    OBVIOUS
  <2>1. s \in Seq(M) /\ Len(s) = 2 /\ s[1] = a /\ s[2] = b
    BY <1>1
  <2>2. t \in Seq(M) /\ Len(t) = 2 /\ t[1] = a /\ t[2] = b
    BY <1>1
  <2>3. \A i \in 1..Len(s) : s[i] = t[i]
    <3>1. \A i \in 1..2 : i = 1 \/ i = 2
      OBVIOUS
    <3>. QED
      BY <2>1, <2>2, <3>1
  <2>. QED
    BY <2>1, <2>2, <2>3, SeqEqual
<1>3. <<a>> \o <<b, c>> = <<a, b, c>>
  <2>. PICK s : s = <<a>> \o <<b, c>>
    OBVIOUS
  <2>. PICK t : t = <<a, b, c>>
    OBVIOUS
  <2>1. s \in Seq(M) /\ Len(s) = 3 /\ s[1] = a /\ s[2] = b /\ s[3] = c
    BY <1>1
  <2>2. t \in Seq(M) /\ Len(t) = 3 /\ t[1] = a /\ t[2] = b /\ t[3] = c
    BY <1>1
  <2>3. \A i \in 1..Len(s) : s[i] = t[i]
    BY <2>1, <2>2
  <2>. QED
    BY <2>1, <2>2, <2>3, SeqEqual
<1>. QED
  BY <1>2, <1>3

LEMMA ToldAlong ==
  ASSUME NEW q, NEW r, NEW a, Leads(q, <<a>>, r), NEW b, Quiet(b)
  PROVE  Leads(q, <<a, b>>, r)
<1>1. Leads(r, <<b>>, r)
  BY ToldQuiet DEF Quiet
<1>2. Leads(q, <<a>> \o <<b>>, r)
  BY <1>1, ToldThen
<1>3. <<a>> \o <<b>> = <<a, b>>
  BY Juxtaposed
<1>. QED
  BY <1>2, <1>3

LEMMA ToldAlongTwo ==
  ASSUME NEW q, NEW r, NEW a, Leads(q, <<a>>, r), NEW b, Quiet(b),
         NEW c, Quiet(c)
  PROVE  Leads(q, <<a, b, c>>, r)
<1>1. Leads(r, <<b, c>>, r)
  BY ToldQuiet, ToldAlong DEF Quiet
<1>2. Leads(q, <<a>> \o <<b, c>>, r)
  BY <1>1, ToldThen
<1>3. <<a>> \o <<b, c>> = <<a, b, c>>
  BY Juxtaposed
<1>. QED
  BY <1>2, <1>3

LEMMA QuietMessages ==
  /\ \A c, x : Quiet(CommandResult(c, x))
  /\ \A c, id, decision : Quiet(Forward(c, id, decision))
  /\ \A c : Quiet(ErrorReply(c))
  /\ \A c, q, id : Quiet(EventDetails(c, q, id))
  /\ \A c, q : Quiet(Snapshot(c, q))
  /\ Quiet(StartTask)
<1>1. \A c, x : Quiet(CommandResult(c, x))
  BY DEF Quiet, CommandResult
<1>2. \A c, id, decision : Quiet(Forward(c, id, decision))
  BY DEF Quiet, Forward
<1>3. \A c : Quiet(ErrorReply(c))
  BY DEF Quiet, ErrorReply
<1>4. \A c, q, id : Quiet(EventDetails(c, q, id))
  BY DEF Quiet, EventDetails
<1>5. ASSUME NEW c, NEW q PROVE Quiet(Snapshot(c, q))
  <2>1. Snapshot(c, q).type = "snapshot"
    BY DEF Snapshot
  <2>. QED
    BY <2>1 DEF Quiet
<1>6. Quiet(StartTask)
  BY DEF Quiet, StartTask
<1>. QED
  BY <1>1, <1>2, <1>3, <1>4, <1>5, <1>6

Dated(e, event, t) == [e EXCEPT !.score = Score(e, event, t)]

LEMMA DatedEntry ==
  ASSUME NEW e \in QueueEntry, NEW event \in Event, NEW t \in Nat
  PROVE  /\ Dated(e, event, t) \in QueueEntry
         /\ Dated(e, event, t).tier = e.tier
         /\ Dated(e, event, t).escalation = e.escalation
<1>. PICK s \in 0..100 : s = Score(e, event, t)
  BY ScoreInRange
<1>. QED
  BY DEF Dated, QueueEntry

LEMMA DatedAt ==
  ASSUME NEW n \in Nat, NEW q \in [1..n -> QueueEntry], NEW id \in 1..n,
         NEW e \in QueueEntry, NEW es, NEW t
  PROVE  UpdateEntryScore(At(q, id, e), es, id, t)
           = At(q, id, Dated(e, es[id], t))
<1>. PICK p \in [1..n -> QueueEntry] : p = At(q, id, e)
  BY AtProperties
<1>1. p[id] = e /\ \A x \in 1..n \ {id} : p[x] = q[x]
  BY DEF At
<1>. PICK d : d = Dated(e, es[id], t)
  OBVIOUS
<1>2. UpdateEntryScore(p, es, id, t)
        = [x \in 1..n |-> IF x \in {id}
                          THEN [p[x] EXCEPT !.score = Score(p[x], es[x], t)]
                          ELSE p[x]]
  BY DEF UpdateEntryScore, Scored, Ids
<1>3. ASSUME NEW x \in 1..n
      PROVE  (IF x \in {id}
              THEN [p[x] EXCEPT !.score = Score(p[x], es[x], t)] ELSE p[x])
               = IF x = id THEN d ELSE q[x]
  <2>1. CASE x = id
    <3>1. [p[x] EXCEPT !.score = Score(p[x], es[x], t)] = d
      BY <1>1, <2>1 DEF Dated
    <3>. QED
      BY <2>1, <3>1
  <2>2. CASE x # id
    BY <1>1, <2>2
  <2>. QED
    BY <2>1, <2>2
<1>4. At(q, id, d) = [x \in 1..n |-> IF x = id THEN d ELSE q[x]]
  BY DEF At
<1>. QED
  BY <1>2, <1>3, <1>4

(* What the attention state of an entry becomes, and what it keeps.        *)
Attended(e, x) == [e EXCEPT !.state = x]

LEMMA ChangedEntry ==
  ASSUME NEW e \in QueueEntry
  PROVE  /\ \A x \in Resolutions : /\ Resolving(e, x) \in QueueEntry
                                   /\ Resolving(e, x).tier = e.tier
                                   /\ Resolving(e, x).escalation = e.escalation
         /\ \A x \in EntryStates : /\ Attended(e, x) \in QueueEntry
                                   /\ Attended(e, x).tier = e.tier
                                   /\ Attended(e, x).escalation = e.escalation
BY DEF Resolving, Attended, QueueEntry

SetState(q, id, x) == [q EXCEPT ![id].state = x]

LEMMA AttendedAt ==
  ASSUME NEW n \in Nat, NEW q \in [1..n -> QueueEntry], NEW id \in 1..n, NEW x,
         NEW f, f = Attended(q[id], x)
  PROVE  SetState(q, id, x) = At(q, id, f)
BY DEF At, Attended, SetState

(* Resolving: an entry takes another resolution and is scored again.       *)
Concluded(e, x, event, t) == Dated(Resolving(e, x), event, t)

LEMMA ConcludedEntry ==
  ASSUME NEW e \in QueueEntry, NEW x \in Resolutions, NEW event \in Event,
         NEW t \in Nat, NEW f, f = Concluded(e, x, event, t)
  PROVE  f \in QueueEntry /\ f.tier = e.tier /\ f.escalation = e.escalation
<1>. PICK d : d = Resolving(e, x)
  OBVIOUS
<1>1. d \in QueueEntry /\ d.tier = e.tier /\ d.escalation = e.escalation
  BY ChangedEntry
<1>2. f = Dated(d, event, t)
  BY DEF Concluded
<1>. QED
  BY <1>1, <1>2, DatedEntry

LEMMA ConcludedAt ==
  ASSUME NEW n \in Nat, NEW q \in [1..n -> QueueEntry], NEW id \in 1..n,
         NEW e \in QueueEntry, NEW x \in Resolutions, NEW es, NEW t
  PROVE  UpdateEntryScore(SetResolution(At(q, id, e), id, x), es, id, t)
           = At(q, id, Concluded(e, x, es[id], t))
<1>. PICK d \in QueueEntry : d = Resolving(e, x)
  BY ChangedEntry
<1>1. SetResolution(At(q, id, e), id, x) = At(q, id, d)
  BY DEF At, Resolving, SetResolution
<1>2. UpdateEntryScore(At(q, id, d), es, id, t) = At(q, id, Dated(d, es[id], t))
  BY DatedAt
<1>. QED
  BY <1>1, <1>2 DEF Concluded

LEMMA StoredEntries ==
  ASSUME IInv
  PROVE  \E n \in Nat :
           /\ queue \in [1..n -> QueueEntry] /\ Ids(queue) = 1..n
           /\ Len(queue) = n
           /\ \A x \in 1..n : events[x] \in Event
           /\ now \in Nat
<1>1. /\ queue \in Seq(QueueEntry) /\ events \in Seq(Event)
      /\ Len(queue) = Len(events) /\ now \in Nat /\ Len(queue) \in Nat
  BY Store
<1>2. queue \in [1..Len(queue) -> QueueEntry]
  BY <1>1, LenProperties, ElementOfSeq
<1>3. Ids(queue) = 1..Len(queue)
  BY <1>1, Store
<1>4. \A x \in 1..Len(queue) : events[x] \in Event
  BY <1>1, ElementOfSeq
<1>. QED
  BY <1>1, <1>2, <1>3, <1>4

LEMMA AttentionTold ==
  ASSUME IInv, NEW c, NEW id, ClientAck(c, id) \/ ClientDismiss(c, id)
  PROVE  Leads(queue, out', queue')
<1>. PICK n \in Nat :
       /\ queue \in [1..n -> QueueEntry] /\ Ids(queue) = 1..n
  BY StoredEntries
<1>. DEFINE Tells(x) ==
       /\ id \in 1..n /\ x \in EntryStates
       /\ queue' = [queue EXCEPT ![id].state = x]
       /\ out' = <<StateUpdate(queue', id), CommandResult(c, "ok")>>
<1>1. \/ queue' = queue /\ \E x : out' = <<CommandResult(c, x)>>
      \/ \E x : Tells(x)
  BY DEF ClientAck, ClientDismiss, CanAck, CanDismiss, Ack, Dismiss, Known,
         EntryStates
<1>2. ASSUME NEW x, Tells(x) PROVE Leads(queue, out', queue')
  <2>. PICK f : f = Attended(queue[id], x)
    OBVIOUS
  <2>1. f \in QueueEntry /\ f.tier = queue[id].tier
    BY <1>2, ChangedEntry
  <2>. PICK r : r = queue'
    OBVIOUS
  <2>2. r = At(queue, id, f)
    <3>1. queue' = SetState(queue, id, x)
      BY <1>2 DEF SetState
    <3>. QED
      BY <1>2, <3>1, AttendedAt
  <2>3. Leads(queue, <<StateUpdate(r, id)>>, r)
    <3>. PICK e \in QueueEntry : e = queue[id]
      BY <1>2
    <3>1. At(queue, id, e) = queue /\ id \in 1..n
      BY <1>2, AtSelf
    <3>2. Leads(queue, <<StateUpdate(r, id)>>, At(queue, id, WithState(e, f)))
      <4>1. Leads(At(queue, id, e), <<StateUpdate(At(queue, id, f), id)>>,
                 At(queue, id, WithState(e, f)))
        BY <2>1, <3>1, OneState
      <4>. QED
        BY <2>2, <3>1, <4>1
    <3>3. WithState(e, f) = f
      BY <1>2 DEF WithState, Attended, QueueEntry
    <3>. QED
      BY <2>2, <3>2, <3>3
  <2>. QED
    BY <1>2, <2>3, ToldAlong, QuietMessages
<1>3. ASSUME NEW x, queue' = queue, out' = <<CommandResult(c, x)>>
      PROVE  Leads(queue, out', queue')
  BY <1>3, ToldQuiet, QuietMessages DEF Quiet
<1>. HIDE DEF Tells
<1>. QED
  BY <1>1, <1>2, <1>3

LEMMA DetailsTold ==
  ASSUME IInv, NEW c, NEW id, ClientDetails(c, id)
  PROVE  Leads(queue, out', queue')
<1>. PICK n \in Nat :
       /\ queue \in [1..n -> QueueEntry] /\ Ids(queue) = 1..n
       /\ \A x \in 1..n : events[x] \in Event
       /\ now \in Nat
  BY StoredEntries
<1>1. CASE ~Known(queue, id)
  <2>1. queue' = queue /\ out' = <<ErrorReply(c)>>
    BY <1>1 DEF ClientDetails, CanAck
  <2>. QED
    BY <2>1, ToldQuiet, QuietMessages DEF Quiet
<1>2. CASE Known(queue, id) /\ ~CanAck(queue, id)
  <2>. PICK m : m = EventDetails(c, queue', id)
    OBVIOUS
  <2>1. queue' = queue /\ out' = <<>> \o <<m>>
    BY <1>2 DEF ClientDetails
  <2>2. Leads(queue, <<m>>, queue)
    BY ToldQuiet, QuietMessages DEF Quiet
  <2>. QED
    BY <2>1, <2>2, ToldNothing, ToldThen
<1>3. CASE CanAck(queue, id)
  <2>. PICK m : m = EventDetails(c, queue', id)
    OBVIOUS
  <2>. PICK r : r = UpdateEntryScore(Ack(queue, id), events, id, now)
    OBVIOUS
  <2>1. /\ queue' = r
        /\ out' = <<StateUpdate(r, id)>> \o ScoreUpdates(queue, r) \o <<m>>
    BY <1>3 DEF ClientDetails, CanAck
  <2>2. id \in 1..n
    BY <1>3 DEF CanAck, Known
  <2>. PICK e : e = Attended(queue[id], "Seen")
    OBVIOUS
  <2>3. e \in QueueEntry /\ e.tier = queue[id].tier
        /\ e.escalation = queue[id].escalation
    BY <2>2, ChangedEntry DEF EntryStates
  <2>4. Ack(queue, id) = At(queue, id, e)
    <3>1. Ack(queue, id) = SetState(queue, id, "Seen")
      BY DEF Ack, SetState
    <3>. QED
      BY <2>2, <3>1, AttendedAt
  <2>. PICK f : f = Dated(e, events[id], now)
    OBVIOUS
  <2>5. f \in QueueEntry /\ f.tier = e.tier /\ f.escalation = e.escalation
    BY <2>2, <2>3, DatedEntry
  <2>6. r = At(queue, id, f)
    BY <2>2, <2>3, <2>4, DatedAt
  <2>7. Leads(queue, <<StateUpdate(r, id)>> \o ScoreUpdates(queue, r), r)
    BY <2>2, <2>3, <2>5, <2>6, OneTold
  <2>8. Leads(r, <<m>>, r)
    BY ToldQuiet, QuietMessages DEF Quiet
  <2>. QED
    BY <2>1, <2>7, <2>8, ToldThen
<1>. QED
  BY <1>1, <1>2, <1>3 DEF CanAck

(* RespondTold: an answer is told, and so is undoing it when the channel to*)
(* the adapter is full.                                                    *)
LEMMA RespondTold ==
  ASSUME IInv, NEW c, NEW id, NEW decision \in Decisions,
         ClientRespond(c, id, decision)
  PROVE  Leads(queue, out', queue')
<1>. PICK n \in Nat :
       /\ queue \in [1..n -> QueueEntry] /\ Ids(queue) = 1..n
       /\ \A x \in 1..n : events[x] \in Event
       /\ now \in Nat
  BY StoredEntries
<1>. PICK e : e = queue[id]
  OBVIOUS
<1>. PICK p : p = UpdateEntryScore(RespondRequest(queue, id), events, id, now)
  OBVIOUS
<1>. PICK d : d = Concluded(e, "PendingDelivery", events[id], now)
  OBVIOUS
<1>0. /\ "PendingDelivery" \in Resolutions /\ "Unresolved" \in Resolutions
      /\ decision \in Resolutions
  BY DEF Resolutions
<1>1. CASE RespondRefused(c, id)
  <2>1. queue' = queue /\ \E x : out' = <<CommandResult(c, x)>>
    BY <1>1 DEF RespondRefused
  <2>. QED
    BY <2>1, ToldQuiet, QuietMessages DEF Quiet
<1>2. ASSUME RespondVerdict(queue, id) = "ok"
      PROVE  /\ id \in 1..n /\ e \in QueueEntry
             /\ d \in QueueEntry /\ d.tier = e.tier
             /\ d.escalation = e.escalation /\ p = At(queue, id, d)
             /\ queue = At(queue, id, e) /\ events[id] \in Event
  <2>1. id \in 1..n
    BY <1>2 DEF RespondVerdict, Known
  <2>2. e \in QueueEntry /\ queue = At(queue, id, e)
    BY <2>1, AtSelf
  <2>3. d \in QueueEntry /\ d.tier = e.tier /\ d.escalation = e.escalation
    BY <2>1, <2>2, <1>0, ConcludedEntry
  <2>4. UpdateEntryScore(SetResolution(At(queue, id, e), id,
                                       "PendingDelivery"), events, id, now)
          = At(queue, id, d)
    BY <1>0, <2>1, <2>2, ConcludedAt
  <2>5. p = At(queue, id, d)
    BY <2>2, <2>4 DEF RespondRequest, SetResolution
  <2>. QED
    BY <2>1, <2>2, <2>3, <2>5
<1>21. now \in Nat
  OBVIOUS
<1>3. CASE RespondSent(c, id, decision)
  <2>1. RespondVerdict(queue, id) = "ok"
    BY <1>3 DEF RespondSent
  <2>2. /\ queue' = p
        /\ out' = ScoreUpdates(queue, p)
                    \o <<StateUpdate(p, id), Forward(c, id, decision),
                         CommandResult(c, "ok")>>
    BY <1>3 DEF RespondSent
  <2>. PICK g : g = WithScore(e, d)
    OBVIOUS
  <2>3. Leads(queue, ScoreUpdates(queue, p), At(queue, id, g))
    BY <1>2, <2>1, OneScore
  <2>4. g \in QueueEntry /\ WithState(g, d) = d
    BY <1>2, <2>1, Rewritten, ScoreAndState
  <2>5. Leads(At(queue, id, g), <<StateUpdate(p, id)>>, p)
    BY <1>2, <2>1, <2>4, OneState
  <2>6. Leads(At(queue, id, g),
             <<StateUpdate(p, id), Forward(c, id, decision),
               CommandResult(c, "ok")>>, p)
    BY <2>5, ToldAlongTwo, QuietMessages
  <2>. QED
    BY <2>2, <2>3, <2>6, ToldThen
<1>4. CASE RespondOverflow(c, id, decision)
  <2>1. RespondVerdict(queue, id) = "ok"
    BY <1>4 DEF RespondOverflow
  <2>. PICK r : r = UpdateEntryScore(MarkDeliveryFailed(p, id), events, id, now)
    OBVIOUS
  <2>2. /\ queue' = r
        /\ out' = ScoreUpdates(queue, p)
                    \o <<StateUpdate(p, id), Forward(c, id, decision)>>
                    \o ScoreUpdates(p, r)
                    \o <<StateUpdate(r, id),
                         CommandResult(c, "delivery_failed")>>
    BY <1>4 DEF RespondOverflow
  <2>. PICK f : f = Concluded(d, "Unresolved", events[id], now)
    OBVIOUS
  <2>3. /\ r = At(queue, id, f) /\ f \in QueueEntry /\ f.tier = d.tier
        /\ f.escalation = d.escalation
    <3>1. f \in QueueEntry /\ f.tier = d.tier /\ f.escalation = d.escalation
      <4>1. events[id] \in Event /\ d \in QueueEntry
        BY <1>2, <2>1
      <4>. QED
        BY <1>0, <1>21, <4>1, ConcludedEntry
    <3>2. UpdateEntryScore(SetResolution(At(queue, id, d), id, "Unresolved"),
                           events, id, now)
            = At(queue, id, f)
      BY <1>0, <1>2, <2>1, ConcludedAt
    <3>. QED
      BY <1>2, <2>1, <3>1, <3>2 DEF MarkDeliveryFailed, SetResolution
  <2>. PICK g : g = WithScore(e, d)
    OBVIOUS
  <2>. PICK h : h = WithScore(d, f)
    OBVIOUS
  <2>4. /\ g \in QueueEntry /\ WithState(g, d) = d
        /\ h \in QueueEntry /\ WithState(h, f) = f
    BY <1>2, <2>1, <2>3, Rewritten, ScoreAndState
  <2>5. Leads(queue, ScoreUpdates(queue, p), At(queue, id, g))
    BY <1>2, <2>1, OneScore
  <2>6. Leads(At(queue, id, g),
             <<StateUpdate(p, id), Forward(c, id, decision)>>, p)
    <3>1. Leads(At(queue, id, g), <<StateUpdate(p, id)>>, p)
      BY <1>2, <2>1, <2>4, OneState
    <3>. QED
      BY <3>1, ToldAlong, QuietMessages
  <2>7. Leads(p, ScoreUpdates(p, r), At(queue, id, h))
    BY <1>2, <2>1, <2>3, OneScore
  <2>8. Leads(At(queue, id, h),
             <<StateUpdate(r, id), CommandResult(c, "delivery_failed")>>, r)
    <3>1. Leads(At(queue, id, h), <<StateUpdate(r, id)>>, r)
      BY <1>2, <2>1, <2>3, <2>4, OneState
    <3>. QED
      BY <3>1, ToldAlong, QuietMessages
  <2>. QED
    <3>. PICK v : v = ScoreUpdates(queue, p)
      OBVIOUS
    <3>. PICK w : w = <<StateUpdate(p, id), Forward(c, id, decision)>>
      OBVIOUS
    <3>. PICK x : x = ScoreUpdates(p, r)
      OBVIOUS
    <3>. PICK y : y = <<StateUpdate(r, id), CommandResult(c, "delivery_failed")>>
      OBVIOUS
    <3>1. Leads(queue, v \o w, p)
      BY <2>5, <2>6, ToldThen
    <3>2. Leads(queue, v \o w \o x, At(queue, id, h))
      BY <3>1, <2>7, ToldThen
    <3>3. Leads(queue, v \o w \o x \o y, r)
      BY <3>2, <2>8, ToldThen
    <3>. QED
      BY <2>2, <3>3
<1>5. CASE RespondUnattended(c, id, decision)
  <2>1. RespondVerdict(queue, id) = "ok"
    BY <1>5 DEF RespondUnattended
  <2>. PICK r : r = UpdateEntryScore(MarkDelivered(p, id, decision), events,
                                     id, now)
    OBVIOUS
  <2>2. /\ queue' = r
        /\ out' = ScoreUpdates(queue, p)
                    \o <<Forward(c, id, decision)>>
                    \o ScoreUpdates(p, r)
                    \o <<StateUpdate(r, id), CommandResult(c, "ok")>>
    BY <1>5 DEF RespondUnattended
  <2>. PICK f : f = Concluded(d, decision, events[id], now)
    OBVIOUS
  <2>3. /\ r = At(queue, id, f) /\ f \in QueueEntry /\ f.tier = d.tier
        /\ f.escalation = d.escalation
    <3>1. f \in QueueEntry /\ f.tier = d.tier /\ f.escalation = d.escalation
      <4>1. events[id] \in Event /\ d \in QueueEntry
        BY <1>2, <2>1
      <4>. QED
        BY <1>0, <1>21, <4>1, ConcludedEntry
    <3>2. UpdateEntryScore(SetResolution(At(queue, id, d), id, decision),
                           events, id, now)
            = At(queue, id, f)
      BY <1>0, <1>2, <2>1, ConcludedAt
    <3>. QED
      BY <1>2, <2>1, <3>1, <3>2 DEF MarkDelivered, SetResolution
  <2>. PICK g : g = WithScore(e, d)
    OBVIOUS
  <2>. PICK h : h = WithScore(g, f)
    OBVIOUS
  <2>4. /\ g \in QueueEntry /\ g.tier = f.tier
        /\ g.score = d.score /\ g.escalation = f.escalation
    <3>1. g \in QueueEntry
      BY <1>2, <2>1, Rewritten
    <3>. QED
      BY <1>2, <2>1, <2>3, <3>1 DEF WithScore, QueueEntry
  <2>5. h \in QueueEntry /\ WithState(h, f) = f
    BY <2>3, <2>4, Rewritten, ScoreAndState
  <2>6. Leads(queue, ScoreUpdates(queue, p), At(queue, id, g))
    BY <1>2, <2>1, OneScore
  <2>7. Leads(At(queue, id, g), <<Forward(c, id, decision)>>, At(queue, id, g))
    BY ToldQuiet, QuietMessages DEF Quiet
  <2>8. Leads(At(queue, id, g), ScoreUpdates(p, r), At(queue, id, h))
    BY <1>2, <2>1, <2>3, <2>4, OneScore
  <2>9. Leads(At(queue, id, h),
             <<StateUpdate(r, id), CommandResult(c, "ok")>>, r)
    <3>1. Leads(At(queue, id, h), <<StateUpdate(r, id)>>, r)
      BY <1>2, <2>1, <2>3, <2>5, OneState
    <3>. QED
      BY <3>1, ToldAlong, QuietMessages
  <2>. QED
    <3>. PICK v : v = ScoreUpdates(queue, p)
      OBVIOUS
    <3>. PICK w : w = <<Forward(c, id, decision)>>
      OBVIOUS
    <3>. PICK x : x = ScoreUpdates(p, r)
      OBVIOUS
    <3>. PICK y : y = <<StateUpdate(r, id), CommandResult(c, "ok")>>
      OBVIOUS
    <3>1. Leads(queue, v \o w, At(queue, id, g))
      BY <2>6, <2>7, ToldThen
    <3>2. Leads(queue, v \o w \o x, At(queue, id, h))
      BY <3>1, <2>8, ToldThen
    <3>3. Leads(queue, v \o w \o x \o y, r)
      BY <3>2, <2>9, ToldThen
    <3>. QED
      BY <2>2, <3>3
<1>. QED
  BY <1>1, <1>3, <1>4, <1>5 DEF ClientRespond

(* OutcomeTold: whatever became of a decision is told.                     *)
LEMMA OutcomeTold ==
  ASSUME IInv, AdapterOutcome
  PROVE  Leads(queue, out', queue')
<1>. PICK n \in Nat :
       /\ queue \in [1..n -> QueueEntry] /\ Ids(queue) = 1..n
       /\ \A x \in 1..n : events[x] \in Event
       /\ now \in Nat
  BY StoredEntries
<1>. PICK id \in 1..n :
       (\E decision \in Decisions : Delivered(id, decision)) \/ DeliveryFailed(id)
  BY DEF AdapterOutcome
<1>1. \/ queue' = queue /\ out' = <<>>
      \/ \E x \in Resolutions : \E r :
           /\ r = UpdateEntryScore(SetResolution(queue, id, x), events, id, now)
           /\ queue' = r
           /\ out' = ScoreUpdates(queue, r) \o <<StateUpdate(r, id)>>
  <2>1. ASSUME NEW decision \in Decisions, Delivered(id, decision),
               InDelivery(queue, id)
        PROVE  \E x \in Resolutions : \E r :
           /\ r = UpdateEntryScore(SetResolution(queue, id, x), events, id, now)
           /\ queue' = r
           /\ out' = ScoreUpdates(queue, r) \o <<StateUpdate(r, id)>>
    BY <2>1 DEF Delivered, MarkDelivered, SetResolution, Resolutions
  <2>2. ASSUME DeliveryFailed(id), InDelivery(queue, id)
        PROVE  \E x \in Resolutions : \E r :
           /\ r = UpdateEntryScore(SetResolution(queue, id, x), events, id, now)
           /\ queue' = r
           /\ out' = ScoreUpdates(queue, r) \o <<StateUpdate(r, id)>>
    BY <2>2 DEF DeliveryFailed, MarkDeliveryFailed, SetResolution, Resolutions
  <2>3. ASSUME ~InDelivery(queue, id) PROVE queue' = queue /\ out' = <<>>
    BY <2>3 DEF Delivered, DeliveryFailed
  <2>. QED
    BY <2>1, <2>2, <2>3
<1>2. CASE queue' = queue /\ out' = <<>>
  BY <1>2, ToldNothing
<1>3. ASSUME NEW x \in Resolutions, NEW r,
             r = UpdateEntryScore(SetResolution(queue, id, x), events, id, now),
             queue' = r, out' = ScoreUpdates(queue, r) \o <<StateUpdate(r, id)>>
      PROVE  Leads(queue, out', queue')
  <2>. PICK e \in QueueEntry : e = queue[id]
    OBVIOUS
  <2>. PICK v \in Event : v = events[id]
    OBVIOUS
  <2>. PICK f : f = Concluded(e, x, v, now)
    OBVIOUS
  <2>1. f \in QueueEntry /\ f.tier = e.tier /\ f.escalation = e.escalation
    BY ConcludedEntry
  <2>2. At(queue, id, e) = queue
    BY AtSelf
  <2>3. UpdateEntryScore(SetResolution(At(queue, id, e), id, x), events, id, now)
          = At(queue, id, Concluded(e, x, events[id], now))
    BY ConcludedAt
  <2>4. r = At(queue, id, f)
    BY <1>3, <2>2, <2>3
  <2>. QED
    BY <1>3, <2>1, <2>4, OneTold
<1>. QED
  BY <1>1, <1>2, <1>3

LEMMA ToldAppend ==
  ASSUME NEW q, NEW w, NEW r, NEW m, NEW u, Leads(q, w, r), Leads(r, <<m>>, u)
  PROVE  Leads(q, Append(w, m), u)
<1>1. Leads(q, w \o <<m>>, u)
  BY ToldThen
<1>2. PICK M : w \in Seq(M)
  BY DEF Leads
<1>3. w \in Seq(M \cup {m})
  BY <1>2, Widens
<1>4. Append(w, m) = w \o <<m>>
  BY <1>3, AppendIsConcat
<1>. QED
  BY <1>1, <1>4

Alike(r, s, n) == \A x \in 1..n : r[x] = s[x]

LEMMA StatesAlike ==
  ASSUME NEW n \in Nat, NEW S \in SUBSET (1..n), NEW r, NEW s, Alike(r, s, n)
  PROVE  StateUpdates(r, S) = StateUpdates(s, S)
<1>1. IsFiniteSet(S)
  BY SubsetFinite
<1>. PICK o : o = SetToSeq(S)
  OBVIOUS
<1>2. o \in Seq(S)
  BY <1>1, Listed
<1>3. \A i \in DOMAIN o : o[i] \in 1..n
  BY <1>2, ElementOfSeq, LenProperties
<1>4. \A x \in 1..n : StateUpdate(r, x) = StateUpdate(s, x)
  BY DEF StateUpdate, Alike
<1>5. [i \in DOMAIN o |-> StateUpdate(r, o[i])]
        = [i \in DOMAIN o |-> StateUpdate(s, o[i])]
  BY <1>3, <1>4
<1>. QED
  BY <1>5 DEF StateUpdates

-----------------------------------------------------------------------------
(* A working entry is scored by its level: whatever its score goes back to,*)
(* no other level gives it.                                                *)

Marks(severity, level) ==
  LET full == BaseScore(severity) + EscalationBonus("Working", level)
  IN  {full, Clamp(full - SeenPenalty, 0, 100)}

RatedEntry(e, event) ==
  event.category = "Working" =>
    /\ event.severity \in {"Routine", "Notable"}
    /\ e.resolution = "None"
    /\ e.score \in Marks(event.severity, e.escalation)

Rated(q, es) == \A id \in Ids(q) : RatedEntry(q[id], es[id])

WorkingRated == Rated(queue, events)

(* MarksApart: two levels share no score.                                  *)
LEMMA MarksApart ==
  ASSUME NEW severity \in {"Routine", "Notable"},
         NEW a \in 0..MaxEscalationLevel, NEW b \in 0..MaxEscalationLevel,
         a # b
  PROVE  Marks(severity, a) \cap Marks(severity, b) = {}
<1>1. /\ BaseScore("Routine") = 10 /\ BaseScore("Notable") = 25
  BY DEF BaseScore
<1>2. \A k \in 0..2 : EscalationBonus("Working", k)
         = IF k = 0 THEN 0 ELSE IF k = 1 THEN 30 ELSE 60
  BY DEF EscalationBonus
<1>. QED
  BY <1>1, <1>2 DEF Marks, Clamp, SeenPenalty, MaxEscalationLevel

LEMMA ScoreMarks ==
  ASSUME NEW e \in QueueEntry, NEW event \in Event, NEW t \in Nat,
         event.category = "Working",
         event.severity \in {"Routine", "Notable"}, e.resolution = "None"
  PROVE  Score(e, event, t) \in Marks(event.severity, e.escalation)
<1>1. RecencyBonus(event.category, t - event.ts) = 0
  BY DEF RecencyBonus
<1>2. e.resolution \notin Decisions
  BY DEF Decisions
<1>. PICK b \in {10, 25} : b = BaseScore(event.severity)
  BY DEF BaseScore
<1>. PICK k \in {0, 30, 60} : k = EscalationBonus("Working", e.escalation)
  BY DEF EscalationBonus, QueueEntry, MaxEscalationLevel
<1>. PICK s \in {0, 15} : s = IF e.state = "Seen" THEN SeenPenalty ELSE 0
  BY DEF SeenPenalty
<1>3. Score(e, event, t) = Clamp(b + 0 + k - s - 0, 0, 100)
  BY <1>1, <1>2 DEF Score
<1>4. Marks(event.severity, e.escalation) = {b + k, Clamp(b + k - 15, 0, 100)}
  BY DEF Marks, SeenPenalty
<1>. QED
  BY <1>3, <1>4 DEF Clamp

LEMMA RatedScored ==
  ASSUME NEW q \in Seq(QueueEntry), NEW es \in Seq(Event), Len(q) = Len(es),
         NEW S, NEW t \in Nat, Rated(q, es)
  PROVE  Rated(Scored(q, es, S, t), es)
<1>. PICK r : r = Scored(q, es, S, t)
  OBVIOUS
<1>1. Ids(r) = Ids(q)
  BY DEF Scored, Ids
<1>2. ASSUME NEW id \in Ids(q) PROVE RatedEntry(r[id], es[id])
  <2>. PICK e \in QueueEntry : e = q[id]
    BY ElementOfSeq, LenProperties DEF Ids
  <2>. PICK v \in Event : v = es[id]
    BY ElementOfSeq, LenProperties DEF Ids
  <2>1. RatedEntry(e, v)
    BY DEF Rated
  <2>2. CASE id \in S
    <3>1. r[id] = Dated(e, v, t)
      BY <2>2 DEF Scored, Dated
    <3>. SUFFICES ASSUME v.category = "Working"
                  PROVE  RatedEntry(Dated(e, v, t), v)
      BY <3>1 DEF RatedEntry
    <3>2. Score(e, v, t) \in Marks(v.severity, e.escalation)
      BY <2>1, ScoreMarks DEF RatedEntry
    <3>. PICK s : s = Score(e, v, t)
      OBVIOUS
    <3>3. /\ Dated(e, v, t).score = s
          /\ Dated(e, v, t).resolution = e.resolution
          /\ Dated(e, v, t).escalation = e.escalation
      BY DEF Dated, QueueEntry
    <3>. QED
      BY <2>1, <3>2, <3>3 DEF RatedEntry
  <2>3. CASE id \notin S
    BY <2>1, <2>3 DEF Scored
  <2>. QED
    BY <2>2, <2>3
<1>. QED
  BY <1>1, <1>2 DEF Rated

LEMMA RatedState ==
  ASSUME NEW q \in Seq(QueueEntry), NEW es, NEW id, NEW x, Rated(q, es)
  PROVE  Rated([q EXCEPT ![id].state = x], es)
<1>. PICK r : r = [q EXCEPT ![id].state = x]
  OBVIOUS
<1>1. Ids(r) = Ids(q)
  BY DEF Ids
<1>2. ASSUME NEW y \in Ids(q) PROVE RatedEntry(r[y], es[y])
  <2>. PICK e \in QueueEntry : e = q[y]
    BY ElementOfSeq, LenProperties DEF Ids
  <2>1. RatedEntry(e, es[y])
    BY DEF Rated
  <2>2. r[y] = IF y = id THEN [e EXCEPT !.state = x] ELSE e
    BY DEF Ids
  <2>. PICK d : d = r[y]
    OBVIOUS
  <2>3. d.resolution = e.resolution /\ d.score = e.score
        /\ d.escalation = e.escalation
    BY <2>2 DEF QueueEntry
  <2>. QED
    BY <2>1, <2>3 DEF RatedEntry
<1>. QED
  BY <1>1, <1>2 DEF Rated

LEMMA RatedResolution ==
  ASSUME NEW q \in Seq(QueueEntry), NEW es, NEW id, NEW x, Rated(q, es),
         id \in Ids(q), q[id].resolution # "None"
  PROVE  Rated([q EXCEPT ![id].resolution = x], es)
<1>. PICK r : r = [q EXCEPT ![id].resolution = x]
  OBVIOUS
<1>1. Ids(r) = Ids(q)
  BY DEF Ids
<1>2. ASSUME NEW y \in Ids(q) PROVE RatedEntry(r[y], es[y])
  <2>. PICK e \in QueueEntry : e = q[y]
    BY ElementOfSeq, LenProperties DEF Ids
  <2>1. RatedEntry(e, es[y])
    BY DEF Rated
  <2>2. CASE y = id
    BY <2>1, <2>2 DEF RatedEntry
  <2>3. CASE y # id
    BY <2>1, <2>3 DEF Ids
  <2>. QED
    BY <2>2, <2>3
<1>. QED
  BY <1>1, <1>2 DEF Rated

(* WorkingVerdict: the classifier calls no working kind important.         *)
LEMMA WorkingVerdict ==
  ASSUME NEW kind \in Kinds, NEW hasRequest \in BOOLEAN,
         Verdict(kind, hasRequest)[1] = "Working"
  PROVE  Verdict(kind, hasRequest)[2] \in {"Routine", "Notable"}
<1>1. Verdict(kind, hasRequest) = Classify(kind)
  BY DEF Verdict
<1>2. CASE kind \in UnknownKinds
  BY <1>1, <1>2 DEF UnknownKinds, Classify
<1>3. CASE kind \notin UnknownKinds
  <2>1. \E v \in Categories \X Severities : kind \in KindsOf(v[1], v[2])
    <3>. PICK c \in Categories, s \in Severities : kind \in KindsOf(c, s)
      BY <1>3 DEF Kinds
    <3>. QED
      BY <<c, s>> \in Categories \X Severities
  <2>. DEFINE chosen == CHOOSE v \in Categories \X Severities :
                          kind \in KindsOf(v[1], v[2])
  <2>2. kind \in KindsOf(chosen[1], chosen[2])
    BY <2>1
  <2>. HIDE DEF chosen
  <2>3. Classify(kind) = chosen
    <3>1. Tabled[kind] = chosen
      BY <1>3 DEF Tabled, chosen
    <3>. QED
      BY <1>3, <3>1 DEF Classify, UnknownKinds
  <2>. PICK c : c = chosen[1]
    OBVIOUS
  <2>. PICK s : s = chosen[2]
    OBVIOUS
  <2>4. c = "Working" /\ kind \in KindsOf(c, s)
    BY <1>1, <2>2, <2>3
  <2>5. s \in {"Routine", "Notable"}
    <3>1. s \notin {"Routine", "Notable"} => KindsOf(c, s) = {}
      BY <2>4 DEF KindsOf
    <3>. QED
      BY <2>4, <3>1
  <2>. QED
    BY <1>1, <2>3, <2>5
<1>. QED
  BY <1>2, <1>3

(* ScoredTold: what rescoring changes it tells.                            *)
LEMMA ScoredTold ==
  ASSUME NEW n \in Nat, NEW q \in [1..n -> QueueEntry],
         NEW r \in [1..n -> QueueEntry],
         \A x \in 1..n : \/ r[x] = q[x]
                         \/ r[x].score # q[x].score /\ WithScore(q[x], r[x]) = r[x]
  PROVE  Leads(q, ScoreUpdates(q, r), r)
<1>. PICK S : S = {x \in 1..n : q[x].score # r[x].score}
  OBVIOUS
<1>1. Leads(q, ScoreUpdates(q, r), Scores(q, r, S))
  BY ScoresSent
<1>2. Scores(q, r, S) = r
  <2>1. Scores(q, r, S) = [x \in 1..n |-> IF x \in S THEN WithScore(q[x], r[x])
                                          ELSE q[x]]
    BY DEF Scores
  <2>2. ASSUME NEW x \in 1..n
        PROVE  (IF x \in S THEN WithScore(q[x], r[x]) ELSE q[x]) = r[x]
    OBVIOUS
  <2>3. r = [x \in 1..n |-> r[x]]
    OBVIOUS
  <2>. QED
    BY <2>1, <2>2, <2>3
<1>. QED
  BY <1>1, <1>2

Marked(e, s) == [e EXCEPT !.score = s]

IsScore(s) == s \in 0..100

LEMMA ScoreReplaced ==
  ASSUME NEW e \in QueueEntry, NEW s, IsScore(s),
         NEW f, f = Marked(e, s)
  PROVE  /\ f \in QueueEntry /\ f.score = s /\ f.escalation = e.escalation
         /\ f.resolution = e.resolution
BY DEF QueueEntry, Marked, IsScore

Leveled(e, k) == [e EXCEPT !.escalation = k]

LEMMA LevelReplaced ==
  ASSUME NEW e \in QueueEntry, NEW k \in 0..MaxEscalationLevel,
         NEW d, d = Leveled(e, k)
  PROVE  /\ d \in QueueEntry /\ d.escalation = k
         /\ d.resolution = e.resolution
BY DEF QueueEntry, Leveled

(* Raising: another level gives another score, and changes nothing else.   *)
LEMMA Raising ==
  ASSUME NEW e \in QueueEntry, NEW v \in Event, NEW t \in Nat,
         NEW k \in 0..MaxEscalationLevel, k # e.escalation,
         RatedEntry(e, v), v.category = "Working",
         NEW f, f = Dated(Leveled(e, k), v, t)
  PROVE  /\ f \in QueueEntry /\ RatedEntry(f, v) /\ f.score # e.score
         /\ WithScore(e, f) = f
<1>. PICK d : d = Leveled(e, k)
  OBVIOUS
<1>1. d \in QueueEntry /\ d.escalation = k /\ d.resolution = e.resolution
  BY LevelReplaced
<1>2. v.severity \in {"Routine", "Notable"} /\ e.resolution = "None"
      /\ e.score \in Marks(v.severity, e.escalation)
  BY DEF RatedEntry
<1>. PICK s \in 0..100 : s = Score(d, v, t)
  BY <1>1, ScoreInRange
<1>3. s \in Marks(v.severity, k)
  BY <1>1, <1>2, ScoreMarks
<1>4. e.escalation \in 0..MaxEscalationLevel
  BY DEF QueueEntry
<1>5. s # e.score
  BY <1>2, <1>3, <1>4, MarksApart
<1>6. f = Marked(d, s)
  BY DEF Dated, Marked
<1>7. /\ f \in QueueEntry /\ f.score = s /\ f.escalation = k
      /\ f.resolution = e.resolution
  <2>1. /\ f \in QueueEntry /\ f.score = s /\ f.escalation = d.escalation
        /\ f.resolution = d.resolution
    <3>1. IsScore(s)
      BY DEF IsScore
    <3>. QED
      BY <1>1, <1>6, <3>1, ScoreReplaced
  <2>. QED
    BY <1>1, <2>1
<1>8. WithScore(e, f) = f
  BY <1>6, <1>7 DEF WithScore, QueueEntry, Leveled, Marked
<1>9. RatedEntry(f, v)
  BY <1>2, <1>3, <1>7 DEF RatedEntry
<1>. QED
  BY <1>5, <1>7, <1>8, <1>9

(* TickTold: what is rescored and what the watchdog raises is told; a raise *)
(* because the score it gives is another.                                  *)
LEMMA TickTold ==
  ASSUME IInv, WorkingRated, Tick
  PROVE  Leads(queue, out', queue') /\ WorkingRated'
<1>. PICK n \in Nat :
       /\ queue \in [1..n -> QueueEntry] /\ Ids(queue) = 1..n /\ Len(queue) = n
       /\ \A x \in 1..n : events[x] \in Event
       /\ now \in Nat
  BY StoredEntries
<1>0. queue \in Seq(QueueEntry) /\ events \in Seq(Event) /\ Len(events) = n
      /\ open \in [DOMAIN open -> OpenTask]
  BY Store DEF IInv, TypeOK
<1>. DEFINE live   == {id \in Ids(queue) : IsLive(queue[id])}
            raised == {id \in Ids(queue) :
                         CanEscalate(queue, id, Escalations(open, now))}
<1>. PICK rescored : rescored = Rescore(queue, events, now)
  OBVIOUS
<1>. PICK levels : levels = Escalations(open, now)
  OBVIOUS
<1>. PICK leveled : leveled = Escalate(rescored, levels)
  OBVIOUS
<1>. PICK r : r = Scored(leveled, events, raised, now)
  OBVIOUS
<1>1. /\ queue' = r
      /\ out' = ScoreUpdates(queue, rescored) \o ScoreUpdates(rescored, r)
      /\ events' = events
  BY DEF Tick
<1>2. ASSUME NEW id \in DOMAIN levels
      PROVE  levels[id] \in 0..MaxEscalationLevel /\ id \in 1..n
             /\ events[id].category = "Working"
  <2>. PICK t \in Overdue(open, now) : open[t].latest = id
    BY EscalationTargets
  <2>1. t \in DOMAIN open /\ id \in open[t].working
        /\ levels[id] = DueLevel(open[t], now)
    BY EscalationTargets DEF Overdue
  <2>2. levels[id] \in 0..MaxEscalationLevel
    BY <1>0, <2>1, DueLevels
  <2>3. id \in Ids(queue) /\ events[id].category = "Working"
    BY <2>1 DEF IInv, TrackerConsistent
  <2>. QED
    BY <2>2, <2>3
<1>3. /\ rescored \in Seq(QueueEntry) /\ Len(rescored) = n
      /\ Rated(rescored, events)
  BY <1>0, ScoredKeeps, RatedScored DEF Rescore, Keeps, KeepsFrame, WorkingRated
<1>4. rescored \in [1..n -> QueueEntry]
  BY <1>3, LenProperties, ElementOfSeq
<1>. HIDE DEF live, raised
<1>5. ASSUME NEW x \in 1..n
      PROVE  rescored[x] = IF x \in live THEN Dated(queue[x], events[x], now)
                           ELSE queue[x]
  BY DEF Rescore, Scored, Dated, Ids, live
<1>6. Leads(queue, ScoreUpdates(queue, rescored), rescored)
  <2>1. ASSUME NEW x \in 1..n
        PROVE  \/ rescored[x] = queue[x]
               \/ /\ rescored[x].score # queue[x].score
                  /\ WithScore(queue[x], rescored[x]) = rescored[x]
    <3>. PICK e \in QueueEntry : e = queue[x]
      OBVIOUS
    <3>. PICK s : s = Score(e, events[x], now)
      OBVIOUS
    <3>1. rescored[x] = e \/ rescored[x] = [e EXCEPT !.score = s]
      BY <1>5 DEF Dated
    <3>. PICK d : d = [e EXCEPT !.score = s]
      OBVIOUS
    <3>2. d.score = s /\ WithScore(e, d) = d /\ (s = e.score => d = e)
      BY DEF WithScore, QueueEntry
    <3>. QED
      BY <3>1, <3>2
  <2>. QED
    BY <1>4, <2>1, ScoredTold
<1>7. ASSUME NEW x \in 1..n
      PROVE  /\ rescored[x].escalation = queue[x].escalation
             /\ CanEscalate(rescored, x, levels)
                  <=> CanEscalate(queue, x, levels)
  <2>1. rescored[x].escalation = queue[x].escalation
    <3>. PICK e \in QueueEntry : e = queue[x]
      OBVIOUS
    <3>. QED
      BY <1>5 DEF Dated, QueueEntry
  <2>2. Ids(rescored) = Ids(queue)
    BY <1>4 DEF Ids
  <2>. QED
    BY <2>1, <2>2 DEF CanEscalate
<1>8. ASSUME NEW x \in 1..n
      PROVE  IF x \in raised
             THEN /\ x \in DOMAIN levels /\ levels[x] # rescored[x].escalation
                  /\ leveled[x] = [rescored[x] EXCEPT !.escalation = levels[x]]
                  /\ r[x] = Dated(leveled[x], events[x], now)
             ELSE leveled[x] = rescored[x] /\ r[x] = leveled[x]
  <2>1. Ids(rescored) = 1..n /\ Ids(leveled) = 1..n
    BY <1>4 DEF Ids, Escalate
  <2>2. x \in raised <=> CanEscalate(rescored, x, levels)
    BY <1>7 DEF raised
  <2>3. leveled[x] = IF CanEscalate(rescored, x, levels)
                     THEN [rescored[x] EXCEPT !.escalation = levels[x]]
                     ELSE rescored[x]
    BY <2>1 DEF Escalate
  <2>4. r[x] = IF x \in raised THEN Dated(leveled[x], events[x], now)
               ELSE leveled[x]
    BY <2>1 DEF Scored, Dated
  <2>. QED
    BY <2>2, <2>3, <2>4 DEF CanEscalate
<1>9. ASSUME NEW x \in 1..n
      PROVE  /\ r[x] \in QueueEntry /\ RatedEntry(r[x], events[x])
             /\ \/ r[x] = rescored[x]
                \/ /\ r[x].score # rescored[x].score
                   /\ WithScore(rescored[x], r[x]) = r[x]
  <2>. PICK e \in QueueEntry : e = rescored[x]
    BY <1>4
  <2>. PICK v \in Event : v = events[x]
    OBVIOUS
  <2>1. RatedEntry(e, v)
    BY <1>3, <1>4 DEF Rated, Ids
  <2>2. CASE x \notin raised
    BY <1>8, <2>1, <2>2
  <2>3. CASE x \in raised
    <3>. PICK k : k = levels[x]
      OBVIOUS
    <3>1. x \in DOMAIN levels /\ k # e.escalation
          /\ r[x] = Dated(Leveled(e, k), v, now)
      BY <1>8, <2>3 DEF Leveled
    <3>2. k \in 0..MaxEscalationLevel /\ v.category = "Working"
      BY <1>2, <3>1
    <3>. QED
      BY <2>1, <3>1, <3>2, Raising
  <2>. QED
    BY <2>2, <2>3
<1>10. DOMAIN r = 1..n /\ r \in [1..n -> QueueEntry]
  <2>1. r = [x \in 1..n |-> r[x]]
    BY <1>4 DEF Ids, Escalate, Scored
  <2>. QED
    BY <1>9, <2>1
<1>11. Leads(rescored, ScoreUpdates(rescored, r), r)
  BY <1>4, <1>9, <1>10, ScoredTold
<1>12. Leads(queue, out', queue')
  BY <1>1, <1>6, <1>11, ToldThen
<1>13. WorkingRated'
  BY <1>1, <1>9, <1>10 DEF WorkingRated, Rated, Ids
<1>. QED
  BY <1>12, <1>13

LEMMA NewRated ==
  ASSUME NEW v \in Event, NEW t \in Nat,
         v.category = "Working" => v.severity \in {"Routine", "Notable"},
         NEW f, f = Marked(NewEntry(v.category, 0),
                           Score(NewEntry(v.category, 0), v, t))
  PROVE  f \in QueueEntry /\ RatedEntry(f, v)
<1>. PICK y : y = NewEntry(v.category, 0)
  OBVIOUS
<1>1. /\ y \in QueueEntry /\ y.escalation = 0
      /\ v.category = "Working" => y.resolution = "None"
  BY DEF NewEntry, QueueEntry, Tier, Event, Categories, EntryStates,
         Resolutions, MaxEscalationLevel
<1>. PICK s \in 0..100 : s = Score(y, v, t)
  BY <1>1, ScoreInRange
<1>2. v.category = "Working" => s \in Marks(v.severity, 0)
  BY <1>1, ScoreMarks
<1>3. f \in QueueEntry /\ f.score = s /\ f.escalation = y.escalation
      /\ f.resolution = y.resolution
  <2>1. IsScore(s)
    BY DEF IsScore
  <2>. QED
    BY <1>1, <2>1, ScoreReplaced
<1>. QED
  BY <1>1, <1>2, <1>3 DEF RatedEntry

(* ArrivalTold: what an event makes outdated is told before the event.     *)
LEMMA ArrivalTold ==
  ASSUME IInv, WorkingRated, Arrival
  PROVE  Leads(queue, out', queue') /\ WorkingRated'
<1>. PICK n \in Nat :
       /\ queue \in [1..n -> QueueEntry] /\ Ids(queue) = 1..n /\ Len(queue) = n
  BY StoredEntries
<1>0. queue \in Seq(QueueEntry) /\ Len(events) = n
  BY Store
<1>. PICK kind \in Kinds, hasRequest \in BOOLEAN,
          task \in Tasks \cup {NoTask},
          operation \in Operations, agentSeq \in Nat :
            RawEvent(kind, hasRequest, task, operation, agentSeq)
  BY DEF Arrival
<1>. DEFINE event  == Processed(kind, hasRequest, task, operation, agentSeq)
            fresh  == NewEntry(event.category, 0)
            entry  == [fresh EXCEPT !.score = Score(fresh, event, now)]
            stored == Append(queue, entry)
            stale  == {x \in Outdated(open, event) : CanSupersede(queue, x)}
            id     == n + 1
<1>. PICK r : r = queue'
  OBVIOUS
<1>1. /\ r = Supersede(stored, stale)
      /\ out' = Append(StateUpdates(r, stale), EventPush(r, events', id))
  BY <1>0 DEF RawEvent
<1>2. r \in Seq(QueueEntry) /\ Len(r) = id
  BY <1>0, ArrivalEffect
<1>3. stale \in SUBSET (1..n)
  BY DEF CanSupersede, Known
<1>4. \A x \in stale : CanSupersede(queue, x)
  OBVIOUS
<1>5. DOMAIN stored = 1..id /\ \A x \in 1..n : stored[x] = queue[x]
  <2>. HIDE DEF entry
  <2>. QED
    BY <1>0
<1>51. entry \in QueueEntry /\ RatedEntry(entry, event)
       /\ stored[id] = entry /\ event \in Event
       /\ events' = Append(events, event)
  <2>1. event \in Event
    <3>. DEFINE verdict == Verdict(kind, hasRequest)
    <3>1. verdict \in Categories \X Severities /\ now \in Nat
      BY VerdictTyped, Store
    <3>. HIDE DEF verdict
    <3>2. event = [task |-> task, category |-> verdict[1],
                   severity |-> verdict[2], operation |-> operation,
                   agentSeq |-> agentSeq, ts |-> now]
      BY DEF Processed, verdict
    <3>3. verdict[1] \in Categories /\ verdict[2] \in Severities
      BY <3>1
    <3>. QED
      BY <3>1, <3>2, <3>3 DEF Event
  <2>2. event.category = "Working"
          => event.severity \in {"Routine", "Notable"}
    BY WorkingVerdict DEF Processed
  <2>3. events' = Append(events, event)
    BY DEF RawEvent
  <2>4. entry \in QueueEntry /\ RatedEntry(entry, event)
    <3>. PICK v \in Event : v = event
      BY <2>1
    <3>. PICK f : f = entry
      OBVIOUS
    <3>1. f = Marked(NewEntry(v.category, 0),
                     Score(NewEntry(v.category, 0), v, now))
      BY DEF Marked
    <3>2. v.category = "Working" => v.severity \in {"Routine", "Notable"}
      BY <2>2
    <3>. HIDE DEF entry, event
    <3>3. f \in QueueEntry /\ RatedEntry(f, v)
      BY <3>1, <3>2, NewRated, Store
    <3>. QED
      BY <3>3
  <2>. HIDE DEF entry, event
  <2>9. stored[id] = entry
    BY <1>0, <2>4
  <2>. QED
    BY <2>1, <2>3, <2>4, <2>9
<1>. HIDE DEF stored, stale, entry, event
<1>6. ASSUME NEW x \in 1..n
      PROVE  r[x] = IF x \in stale THEN [queue[x] EXCEPT !.superseded = TRUE]
                    ELSE queue[x]
  <2>1. x \in Ids(stored) /\ stored[x] = queue[x]
    BY <1>5 DEF Ids
  <2>2. CanSupersede(stored, x) <=> CanSupersede(queue, x)
    BY <2>1 DEF CanSupersede, Known
  <2>3. r[x] = IF x \in stale /\ CanSupersede(stored, x)
               THEN [stored[x] EXCEPT !.superseded = TRUE] ELSE stored[x]
    BY <1>1, <2>1 DEF Supersede
  <2>. QED
    BY <1>4, <2>1, <2>2, <2>3
<1>7. r \in [1..id -> QueueEntry]
  BY <1>2, LenProperties, ElementOfSeq
<1>. DEFINE r0 == [x \in 1..n |-> r[x]]
<1>8. r0 \in [1..n -> QueueEntry] /\ \A x \in 1..n : r0[x] = r[x]
  BY <1>7
<1>. HIDE DEF r0
<1>9. States(queue, r0, stale) = r0
  <2>1. ASSUME NEW x \in 1..n
        PROVE  (IF x \in stale THEN WithState(queue[x], r0[x]) ELSE queue[x])
                 = r0[x]
    <3>. PICK e \in QueueEntry : e = queue[x]
      OBVIOUS
    <3>1. CASE x \in stale
      <4>1. r0[x] = [e EXCEPT !.superseded = TRUE]
        BY <1>6, <1>8, <3>1
      <4>2. WithState(e, [e EXCEPT !.superseded = TRUE])
              = [e EXCEPT !.superseded = TRUE]
        BY DEF WithState, QueueEntry
      <4>. QED
        BY <3>1, <4>1, <4>2
    <3>2. CASE x \notin stale
      BY <1>6, <1>8, <3>2
    <3>. QED
      BY <3>1, <3>2
  <2>2. States(queue, r0, stale)
          = [x \in 1..n |-> IF x \in stale THEN WithState(queue[x], r0[x])
                            ELSE queue[x]]
    BY DEF States
  <2>3. r0 = [x \in 1..n |-> r0[x]]
    BY <1>8
  <2>. QED
    BY <2>1, <2>2, <2>3
<1>10. Leads(queue, StateUpdates(r0, stale), r0)
  BY <1>3, <1>8, <1>9, StatesSent
<1>11. StateUpdates(r0, stale) = StateUpdates(r, stale)
  <2>. PICK S \in SUBSET (1..n) : S = stale
    BY <1>3
  <2>1. Alike(r0, r, n)
    BY <1>8 DEF Alike
  <2>2. StateUpdates(r0, S) = StateUpdates(r, S)
    BY <2>1, StatesAlike
  <2>. QED
    BY <2>2
<1>. PICK m : m = EventPush(r, events', id)
  OBVIOUS
<1>12. ApplyPush(r0, m) = r
  <2>1. m.type = "event" /\ m.entry = r[id]
    BY DEF EventPush
  <2>2. ApplyPush(r0, m) = Append(r0, r[id])
    BY <2>1 DEF ApplyPush
  <2>3. r0 \in Seq(QueueEntry) /\ Len(r0) = n /\ r[id] \in QueueEntry
    BY <1>7, <1>8, SeqOfFunction
  <2>. PICK a : a = Append(r0, r[id])
    OBVIOUS
  <2>4. /\ a \in Seq(QueueEntry) /\ Len(a) = n + 1
        /\ \A i \in 1..n : a[i] = r0[i]
        /\ a[n + 1] = r[id]
    BY <2>3, AppendProperties
  <2>5. \A i \in 1..(n + 1) : a[i] = r[i]
    <3>1. \A i \in 1..(n + 1) : i \in 1..n \/ i = n + 1
      OBVIOUS
    <3>. QED
      BY <1>8, <2>4, <3>1
  <2>6. a = r
    BY <1>2, <2>4, <2>5, SeqEqual
  <2>. QED
    BY <2>2, <2>6
<1>13. Leads(r0, <<m>>, r)
  BY <1>12, ToldOne
<1>14. Leads(queue, Append(StateUpdates(r, stale), m), r)
  BY <1>10, <1>11, <1>13, ToldAppend
<1>15. WorkingRated'
  <2>1. Ids(r) = 1..id /\ Ids(queue) = 1..n
    BY <1>7 DEF Ids
  <2>2. /\ \A x \in 1..n : events'[x] = events[x]
        /\ events'[id] = event
    BY <1>0, <1>51, AppendProperties DEF IInv, TypeOK
  <2>3. ASSUME NEW x \in 1..n PROVE RatedEntry(r[x], events'[x])
    <3>. PICK e \in QueueEntry : e = queue[x]
      OBVIOUS
    <3>1. RatedEntry(e, events[x])
      BY <2>1 DEF WorkingRated, Rated
    <3>. PICK f : f = r[x]
      OBVIOUS
    <3>2. f = [e EXCEPT !.superseded = TRUE] \/ f = e
      BY <1>6
    <3>3. f.resolution = e.resolution /\ f.score = e.score
          /\ f.escalation = e.escalation
      BY <3>2 DEF QueueEntry
    <3>. QED
      BY <2>2, <3>1, <3>3 DEF RatedEntry
  <2>4. r[id] = entry
    <3>1. id \notin stale /\ id \in Ids(stored)
      BY <1>3, <1>5 DEF Ids
    <3>2. r[id] = stored[id]
      BY <1>1, <3>1 DEF Supersede
    <3>. QED
      BY <1>51, <3>2
  <2>5. \A x \in 1..id : x \in 1..n \/ x = id
    OBVIOUS
  <2>6. \A x \in Ids(r) : RatedEntry(r[x], events'[x])
    BY <1>51, <2>1, <2>2, <2>3, <2>4, <2>5
  <2>. QED
    BY <2>6 DEF WorkingRated, Rated
<1>. QED
  BY <1>1, <1>14, <1>15



LEMMA AttentionRated ==
  ASSUME IInv, WorkingRated, NEW c, NEW id,
         ClientAck(c, id) \/ ClientDismiss(c, id) \/ ClientDetails(c, id)
  PROVE  WorkingRated'
<1>0. events' = events /\ queue \in Seq(QueueEntry)
  BY Store DEF ClientAck, ClientDismiss, ClientDetails
<1>1. CASE queue' = queue
  BY <1>0, <1>1 DEF WorkingRated
<1>2. ASSUME NEW x, queue' = [queue EXCEPT ![id].state = x]
      PROVE  WorkingRated'
  <2>1. Rated([queue EXCEPT ![id].state = x], events)
    BY <1>0, RatedState DEF WorkingRated
  <2>. QED
    BY <1>0, <1>2, <2>1 DEF WorkingRated
<1>3. ASSUME CanAck(queue, id), ClientDetails(c, id) PROVE WorkingRated'
  <2>. PICK r : r = Ack(queue, id)
    OBVIOUS
  <2>1. Rated(r, events)
    <3>1. Rated([queue EXCEPT ![id].state = "Seen"], events)
      BY <1>0, RatedState DEF WorkingRated
    <3>. QED
      BY <3>1 DEF Ack
  <2>2. r \in Seq(QueueEntry) /\ Len(r) = Len(events)
    BY <1>0, <1>3, Store, AttentionKeeps DEF CanAck, Known, Keeps, KeepsFrame
  <2>3. Rated(Scored(r, events, {id}, now), events)
    BY <2>1, <2>2, Store, RatedScored
  <2>4. queue' = Scored(r, events, {id}, now)
    BY <1>3 DEF ClientDetails, UpdateEntryScore
  <2>. QED
    BY <1>0, <2>3, <2>4 DEF WorkingRated
<1>. QED
  BY <1>1, <1>2, <1>3 DEF ClientAck, ClientDismiss, ClientDetails, Ack, Dismiss

(* ResolvingRated: an entry takes another resolution and is scored again.  *)
LEMMA ResolvingRated ==
  ASSUME NEW q \in Seq(QueueEntry), NEW es \in Seq(Event), Len(q) = Len(es),
         NEW t \in Nat, Rated(q, es), NEW id \in Ids(q),
         q[id].resolution # "None", NEW x \in Resolutions, x # "None",
         NEW r, r = UpdateEntryScore(SetResolution(q, id, x), es, id, t)
  PROVE  /\ r \in Seq(QueueEntry) /\ Len(r) = Len(q) /\ Rated(r, es)
         /\ id \in Ids(r) /\ r[id].resolution # "None"
<1>. PICK s : s = SetResolution(q, id, x)
  OBVIOUS
<1>1. s = [q EXCEPT ![id].resolution = x]
  BY DEF SetResolution
<1>2. Rated(s, es)
  <2>1. Rated([q EXCEPT ![id].resolution = x], es)
    BY RatedResolution
  <2>. QED
    BY <1>1, <2>1
<1>3. /\ s \in Seq(QueueEntry) /\ Len(s) = Len(q) /\ s[id].resolution = x
      /\ Ids(s) = Ids(q)
  <2>1. id \in 1..Len(q) /\ DOMAIN q = 1..Len(q)
    BY LenProperties DEF Ids
  <2>. PICK e \in QueueEntry : e = q[id]
    BY <2>1, ElementOfSeq
  <2>. PICK f : f = [e EXCEPT !.resolution = x]
    OBVIOUS
  <2>2. f \in QueueEntry /\ f.resolution = x
    BY DEF QueueEntry
  <2>3. s = [q EXCEPT ![id] = f]
    BY <1>1
  <2>4. s \in Seq(QueueEntry) /\ Len(s) = Len(q) /\ s[id] = f
    BY <2>1, <2>2, <2>3, ExceptSeq
  <2>. QED
    BY <2>2, <2>3, <2>4 DEF Ids
<1>4. Keeps(s, r)
  BY <1>3, ScoredKeeps DEF UpdateEntryScore
<1>5. Rated(r, es)
  BY <1>2, <1>3, RatedScored DEF UpdateEntryScore
<1>6. Ids(r) = Ids(s)
  BY <1>3, <1>4, LenProperties DEF Keeps, KeepsFrame, Ids
<1>. QED
  BY <1>3, <1>4, <1>5, <1>6 DEF Keeps, KeepsFrame

LEMMA RespondRated ==
  ASSUME IInv, WorkingRated, NEW c, NEW id, NEW decision \in Decisions,
         ClientRespond(c, id, decision)
  PROVE  WorkingRated'
<1>0. events' = events /\ events \in Seq(Event) /\ queue \in Seq(QueueEntry)
      /\ Len(queue) = Len(events) /\ now \in Nat
  BY Store DEF ClientRespond, RespondRefused, RespondSent, RespondOverflow,
               RespondUnattended
<1>. PICK p : p = UpdateEntryScore(SetResolution(queue, id, "PendingDelivery"),
                                   events, id, now)
  OBVIOUS
<1>1. ASSUME RespondVerdict(queue, id) = "ok"
      PROVE  /\ p \in Seq(QueueEntry) /\ Len(p) = Len(events)
             /\ Rated(p, events)
             /\ id \in Ids(p) /\ p[id].resolution # "None"
  <2>1. id \in Ids(queue) /\ queue[id].resolution # "None"
    BY <1>1 DEF RespondVerdict, Known
  <2>. PICK x \in Resolutions : x = "PendingDelivery"
    BY DEF Resolutions
  <2>2. p = UpdateEntryScore(SetResolution(queue, id, x), events, id, now)
    OBVIOUS
  <2>. QED
    BY <1>0, <2>1, <2>2, ResolvingRated DEF WorkingRated
<1>2. \/ queue' = queue
      \/ RespondVerdict(queue, id) = "ok" /\ queue' = p
      \/ /\ RespondVerdict(queue, id) = "ok"
         /\ \E x \in Resolutions \ {"None"} :
              queue' = UpdateEntryScore(SetResolution(p, id, x), events, id, now)
  BY DEF ClientRespond, RespondRefused, RespondSent, RespondOverflow,
         RespondUnattended, RespondRequest, MarkDeliveryFailed, MarkDelivered,
         SetResolution, Resolutions, Decisions
<1>3. ASSUME RespondVerdict(queue, id) = "ok",
             NEW x \in Resolutions \ {"None"},
             queue' = UpdateEntryScore(SetResolution(p, id, x), events, id, now)
      PROVE  WorkingRated'
  <2>. PICK r : r = queue'
    OBVIOUS
  <2>1. Rated(r, events)
    BY <1>0, <1>1, <1>3, ResolvingRated
  <2>. QED
    BY <1>0, <2>1 DEF WorkingRated
<1>. QED
  BY <1>0, <1>1, <1>2, <1>3 DEF WorkingRated

LEMMA OutcomeRated ==
  ASSUME IInv, WorkingRated, AdapterOutcome
  PROVE  WorkingRated'
<1>. PICK id \in Ids(queue) :
       (\E decision \in Decisions : Delivered(id, decision)) \/ DeliveryFailed(id)
  BY DEF AdapterOutcome
<1>0. events' = events /\ events \in Seq(Event) /\ queue \in Seq(QueueEntry)
      /\ Len(queue) = Len(events) /\ now \in Nat
  BY Store DEF Delivered, DeliveryFailed
<1>1. \/ queue' = queue
      \/ /\ queue[id].resolution # "None"
         /\ \E x \in Resolutions \ {"None"} :
              queue' = UpdateEntryScore(SetResolution(queue, id, x), events,
                                        id, now)
  BY DEF Delivered, DeliveryFailed, InDelivery, MarkDeliveryFailed,
         MarkDelivered, SetResolution, Resolutions, Decisions
<1>2. ASSUME queue[id].resolution # "None", NEW x \in Resolutions \ {"None"},
             queue' = UpdateEntryScore(SetResolution(queue, id, x), events,
                                       id, now)
      PROVE  WorkingRated'
  <2>. PICK r : r = queue'
    OBVIOUS
  <2>1. Rated(r, events)
    BY <1>0, <1>2, ResolvingRated DEF WorkingRated
  <2>. QED
    BY <1>0, <2>1 DEF WorkingRated
<1>. QED
  BY <1>0, <1>1, <1>2 DEF WorkingRated

(* StepTold: every command tells what it changes.                          *)
LEMMA StepTold ==
  ASSUME IInv, WorkingRated, Next
  PROVE  Leads(queue, out', queue') /\ WorkingRated'
<1>1. CASE Advance \/ DropMalformed \/ TakeCommand
  <2>1. queue' = queue /\ events' = events /\ out' = <<>>
    BY <1>1 DEF Advance, DropMalformed, TakeCommand
  <2>. QED
    BY <2>1, ToldNothing DEF WorkingRated
<1>2. CASE AdapterEvent
  BY <1>2, AdapterArrives, ArrivalTold
<1>3. CASE Tick
  BY <1>3, TickTold
<1>4. CASE AdapterOutcome
  BY <1>4, OutcomeTold, OutcomeRated
<1>5. CASE ClientCommand
  <2>. PICK c \in Clients :
         \/ ClientStartTask(c)
         \/ ClientQuery(c)
         \/ SendSnapshot(c)
         \/ \E id \in EventIds :
              \/ ClientAck(c, id)
              \/ ClientDismiss(c, id)
              \/ ClientDetails(c, id)
              \/ \E decision \in Decisions : ClientRespond(c, id, decision)
    BY <1>5 DEF ClientCommand
  <2>1. CASE ClientStartTask(c)
    <3>1. queue' = queue /\ events' = events
          /\ out' = <<StartTask, CommandResult(c, "ok")>>
      BY <2>1 DEF ClientStartTask
    <3>2. Leads(queue, <<StartTask>>, queue)
      BY ToldQuiet, QuietMessages DEF Quiet
    <3>3. Leads(queue, <<StartTask, CommandResult(c, "ok")>>, queue)
      BY <3>2, ToldAlong, QuietMessages
    <3>. QED
      BY <3>1, <3>3 DEF WorkingRated
  <2>2. CASE ClientQuery(c) \/ SendSnapshot(c)
    <3>1. queue' = queue /\ events' = events
      BY <2>2 DEF ClientQuery, SendSnapshot
    <3>2. \E m : out' = <<m>> /\ Quiet(m)
      <4>1. CASE ClientQuery(c)
        BY <4>1, QuietMessages DEF ClientQuery, Quiet
      <4>2. CASE SendSnapshot(c)
        BY <4>2, QuietMessages DEF SendSnapshot
      <4>. QED
        BY <2>2, <4>1, <4>2
    <3>. QED
      BY <3>1, <3>2, ToldQuiet DEF WorkingRated, Quiet
  <2>3. ASSUME NEW id \in EventIds,
               \/ ClientAck(c, id)
               \/ ClientDismiss(c, id)
               \/ ClientDetails(c, id)
        PROVE  Leads(queue, out', queue') /\ WorkingRated'
    BY <2>3, AttentionTold, DetailsTold, AttentionRated
  <2>4. ASSUME NEW id \in EventIds, NEW decision \in Decisions,
               ClientRespond(c, id, decision)
        PROVE  Leads(queue, out', queue') /\ WorkingRated'
    BY <2>4, RespondTold, RespondRated
  <2>. QED
    BY <2>1, <2>2, <2>3, <2>4
<1>. QED
  BY <1>1, <1>2, <1>3, <1>4, <1>5 DEF Next

(* PushesTold: no handler changes the queue without telling.  What a client *)
(* has to do with the messages of one command to follow the queue is       *)
(* ApplyPush, one after the other.  That the watchdog's updates reach it   *)
(* rests on the invariant WorkingRated: the core sends an update where a   *)
(* score changed, and levels change scores, whatever rounding and clamping *)
(* do to them.                                                             *)
THEOREM PushesTold == Spec => PushesTellAll
<1>1. Init => WorkingRated
  <2>. SUFFICES ASSUME Init PROVE WorkingRated
    OBVIOUS
  <2>1. Ids(queue) = {}
    BY DEF Init, Ids
  <2>. QED
    BY <2>1 DEF WorkingRated, Rated
<1>2. IInv /\ WorkingRated /\ [Next]_vars => WorkingRated'
  <2>. SUFFICES ASSUME IInv, WorkingRated, [Next]_vars PROVE WorkingRated'
    OBVIOUS
  <2>1. CASE Next
    BY <2>1, StepTold
  <2>2. CASE UNCHANGED vars
    BY <2>2 DEF vars, WorkingRated
  <2>. QED
    BY <2>1, <2>2
<1>3. IInv /\ WorkingRated /\ [Next]_vars
        => [FoldLeft(ApplyPush, queue, out') = queue']_vars
  <2>. SUFFICES ASSUME IInv, WorkingRated, Next
                PROVE  FoldLeft(ApplyPush, queue, out') = queue'
    OBVIOUS
  <2>. QED
    BY StepTold, ToldFolds
<1>. QED
  BY <1>1, <1>2, <1>3, Invariance, PTL DEF Spec, PushesTellAll

=============================================================================
