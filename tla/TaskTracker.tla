---------------------------- MODULE TaskTracker ----------------------------
(***************************************************************************)
(* The task tracker and its watchdog.  `open` is the map of open tasks: a  *)
(* function whose domain is the set of tasks that have one.  The code keeps*)
(* the events of a task in vectors; their order is never used, so they are *)
(* sets here.                                                              *)
(***************************************************************************)
EXTENDS EventModel, FiniteSets

CONSTANTS
  Expected,     \* expected duration of each operation, in seconds
  NoEvent       \* "no working event yet"

ASSUME ExpectedAssumption == Expected \in [Operations -> Nat \ {0}]
ASSUME NoEventAssumption  == NoEvent \notin Nat

OpenTask == [operation : Operations, startedAt : Nat,
             latest : Nat \cup {NoEvent}, working : SUBSET Nat,
             requests : SUBSET Nat, level : 0..MaxEscalationLevel]

NewTask(event) ==
  [operation |-> event.operation, startedAt |-> event.ts, latest |-> NoEvent,
   working |-> {}, requests |-> {}, level |-> 0]

Opened(open, event) ==
  IF event.task \in DOMAIN open THEN open[event.task] ELSE NewTask(event)

With(open, task, record) ==
  [t \in DOMAIN open \cup {task} |-> IF t = task THEN record ELSE open[t]]

Without(open, task) == [t \in DOMAIN open \ {task} |-> open[t]]

Closes(event) == event.category \in {"Completed", "Error"}

(* Variant: a new request joins the previous ones instead of replacing them.*)
Observe_RequestAdded(open, event, id) ==
  LET t == Opened(open, event) IN
  CASE event.task = NoTask -> open
    [] event.task # NoTask /\ Closes(event) -> Without(open, event.task)
    [] event.task # NoTask /\ event.category = "Working" ->
         With(open, event.task,
              [t EXCEPT !.latest = id, !.working = @ \cup {id}])
    [] event.task # NoTask /\ event.category = "Request" ->
         With(open, event.task, [t EXCEPT !.requests = @ \cup {id}])

(* The tracker after it observes event `id`.                               *)
Observe(open, event, id) ==
  LET t == Opened(open, event) IN
  CASE event.task = NoTask -> open
    [] event.task # NoTask /\ Closes(event) -> Without(open, event.task)
    [] event.task # NoTask /\ event.category = "Working" ->
         With(open, event.task,
              [t EXCEPT !.latest = id, !.working = @ \cup {id}])
    [] event.task # NoTask /\ event.category = "Request" ->
         With(open, event.task, [t EXCEPT !.requests = {id}])

(* Variant: a task that closes supersedes its requests only.               *)
Outdated_RequestsOnly(open, event) ==
  IF event.task \notin DOMAIN open \/ event.category = "Working" THEN {}
  ELSE open[event.task].requests

(* Variant: an agent at work again has no request left.                    *)
Outdated_ByWorking(open, event) ==
  IF event.task \notin DOMAIN open THEN {}
  ELSE IF Closes(event) THEN open[event.task].working \cup open[event.task].requests
  ELSE open[event.task].requests

(* The events it asks the queue to supersede while doing so.               *)
Outdated(open, event) ==
  IF event.task \notin DOMAIN open THEN {}
  ELSE CASE Closes(event) ->
              open[event.task].working \cup open[event.task].requests
         [] event.category = "Request" -> open[event.task].requests
         [] event.category = "Working" -> {}

-----------------------------------------------------------------------------
(* The watchdog.                                                           *)

Elapsed(task, now) == now - task.startedAt

(* Variant: a task that shows no working entry is escalated too.           *)
DueLevel_Unshown(task, now) ==
  IF Elapsed(task, now) >= 2 * Expected[task.operation] THEN 2
  ELSE IF Elapsed(task, now) >= Expected[task.operation] /\ task.level < 1
       THEN 1
  ELSE task.level

DueLevel(task, now) ==
  IF task.latest = NoEvent THEN task.level
  ELSE IF Elapsed(task, now) >= 2 * Expected[task.operation] THEN 2
  ELSE IF Elapsed(task, now) >= Expected[task.operation] /\ task.level < 1
       THEN 1
  ELSE task.level

Overdue(open, now) ==
  {t \in DOMAIN open : DueLevel(open[t], now) # open[t].level}

Ticked(open, now) ==
  [t \in DOMAIN open |-> [open[t] EXCEPT !.level = DueLevel(open[t], now)]]

(* The escalations of one tick: latest working event of the task -> level. *)
Escalations(open, now) ==
  [id \in {open[t].latest : t \in Overdue(open, now)} |->
     LET t == CHOOSE t \in Overdue(open, now) : open[t].latest = id
     IN  DueLevel(open[t], now)]

=============================================================================
