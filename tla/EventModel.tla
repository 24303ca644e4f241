----------------------------- MODULE EventModel -----------------------------
(***************************************************************************)
(* The vocabulary the daemon and its clients share: what a processed event *)
(* carries, how its kind is classified, the mutable queue entry made for   *)
(* it, and the score that orders entries inside a tier.                    *)
(*                                                                         *)
(* An event is identified by its global sequence number.  The code gives   *)
(* it a UUID as well; the two are assigned together and never change.      *)
(***************************************************************************)
EXTENDS Integers, Sequences

CONSTANTS
  Tasks,        \* task identifiers an event may carry
  NoTask        \* the event carries none (or a blank one)

ASSUME TasksAssumption == NoTask \notin Tasks

Categories == {"Request", "Error", "Completed", "Working"}
Severities == {"Routine", "Notable", "Important", "Critical"}
Operations == {"Build", "Test", "Install", "Analyze", "Edit", "Other"}

Tier(category) ==
  CASE category = "Request"   -> 0
    [] category = "Error"     -> 1
    [] category = "Completed" -> 2
    [] category = "Working"   -> 3

-----------------------------------------------------------------------------
(* Classification: the table of kinds, grouped by the verdict they share.  *)

KindsOf(category, severity) ==
  CASE category = "Request" /\ severity = "Critical" ->
         {"approval_required", "input_required", "credential_required",
          "command_confirmation", "file_edit_confirmation",
          "workspace_trust", "user_question", "question"}
    [] category = "Error" /\ severity = "Critical" ->
         {"error", "build_failed", "command_failed", "adapter_error"}
    [] category = "Error" /\ severity = "Important" ->
         {"test_failed", "cancelled_by_agent", "aborted"}
    [] category = "Completed" /\ severity = "Important" ->
         {"completed", "build_completed", "task_completed"}
    [] category = "Completed" /\ severity = "Notable" ->
         {"tests_passed", "install_completed", "cancelled_by_user",
          "cancelled"}
    [] category = "Working" /\ severity = "Notable" -> {"started", "waiting"}
    [] category = "Working" /\ severity = "Routine" ->
         {"progress", "installing", "idle"}
    [] OTHER -> {}

(* Kinds outside the table are told apart only by their suffix; these three *)
(* stand for an unknown "*_failed", an unknown "*_completed" and the rest. *)
UnknownKinds == {"other_failed", "other_completed", "other"}

Kinds == UnknownKinds \cup
         UNION {KindsOf(c, s) : c \in Categories, s \in Severities}

(* The verdict of each kind of the table.                                  *)
Tabled == [kind \in Kinds \ UnknownKinds |->
             CHOOSE v \in Categories \X Severities :
               kind \in KindsOf(v[1], v[2])]

Classify(kind) ==
  CASE kind = "other_failed"    -> <<"Error", "Critical">>
    [] kind = "other_completed" -> <<"Completed", "Important">>
    [] kind = "other"           -> <<"Working", "Routine">>
    [] OTHER                    -> Tabled[kind]

(* An event that carries a structured request is a request whatever its    *)
(* kind says, except a completed one, whose request is stripped.           *)
Verdict(kind, hasRequest) ==
  IF hasRequest /\ Classify(kind)[1] \notin {"Request", "Completed"}
  THEN <<"Request", "Critical">>
  ELSE Classify(kind)

Event == [task : Tasks \cup {NoTask}, category : Categories,
          severity : Severities, operation : Operations,
          agentSeq : Nat, ts : Nat]

-----------------------------------------------------------------------------
(* The queue entry of an event.                                            *)

EntryStates == {"New", "Seen", "Dismissed"}
Decisions   == {"Approved", "Denied"}      \* the resolutions that are final
Resolutions == {"None", "Unresolved", "PendingDelivery"} \cup Decisions

MaxEscalationLevel == 2

QueueEntry == [tier : 0..3, score : 0..100, state : EntryStates,
               resolution : Resolutions, superseded : BOOLEAN,
               escalation : 0..MaxEscalationLevel]

IsLive(entry) == entry.state # "Dismissed" /\ ~entry.superseded

IsActionable(entry) ==
  /\ entry.tier = 0
  /\ entry.resolution = "Unresolved"
  /\ IsLive(entry)

NewEntry(category, score) ==
  [tier       |-> Tier(category),
   score      |-> score,
   state      |-> "New",
   resolution |-> IF category = "Request" THEN "Unresolved" ELSE "None",
   superseded |-> FALSE,
   escalation |-> 0]

-----------------------------------------------------------------------------
(* Scoring.  Times are seconds.                                            *)

RecencyMaxBonus == 20
RecencyWindow   == 30 * 60
SeenPenalty     == 15
ResolvedPenalty == 40

BaseScore(severity) ==
  CASE severity = "Routine"   -> 10
    [] severity = "Notable"   -> 25
    [] severity = "Important" -> 45
    [] severity = "Critical"  -> 70

(* A linear decay, rounded to the nearest integer.                         *)
RecencyBonus(category, age) ==
  IF category = "Working" \/ age >= RecencyWindow THEN 0
  ELSE IF age <= 0 THEN RecencyMaxBonus
  ELSE (2 * RecencyMaxBonus * (RecencyWindow - age) + RecencyWindow)
         \div (2 * RecencyWindow)

EscalationBonus(category, level) ==
  IF category # "Working" THEN 0
  ELSE CASE level = 0 -> 0 [] level = 1 -> 30 [] OTHER -> 60

Clamp(n, lo, hi) == IF n < lo THEN lo ELSE IF n > hi THEN hi ELSE n

(* Score with the bounds forgotten: a variant the checks must catch, as are*)
(* all the definitions of these modules that a comment calls variants.     *)
Score_Unclamped(entry, event, now) ==
  BaseScore(event.severity)
    + RecencyBonus(event.category, now - event.ts)
    + EscalationBonus(event.category, entry.escalation)
    - (IF entry.state = "Seen" THEN SeenPenalty ELSE 0)
    - (IF entry.resolution \in Decisions THEN ResolvedPenalty ELSE 0)

Score(entry, event, now) ==
  Clamp(BaseScore(event.severity)
          + RecencyBonus(event.category, now - event.ts)
          + EscalationBonus(event.category, entry.escalation)
          - (IF entry.state = "Seen" THEN SeenPenalty ELSE 0)
          - (IF entry.resolution \in Decisions THEN ResolvedPenalty ELSE 0),
        0, 100)

=============================================================================
