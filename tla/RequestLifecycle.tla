-------------------------- MODULE RequestLifecycle --------------------------
(***************************************************************************)
(* What the daemon promises about the answers to requests, whoever asks    *)
(* and whatever else happens: a request is answered at most once.  It is   *)
(* unresolved until somebody decides; the decision is in delivery until    *)
(* the adapter side says what became of it; if the delivery failed the     *)
(* request can be decided again; once delivered, the decision is final.    *)
(***************************************************************************)
EXTENDS Sequences, Naturals

CONSTANTS
  Decisions,    \* the answers a request can get
  Delivery      \* is there somebody to deliver an answer to?

VARIABLES
  status,       \* the resolution of each event, in order of arrival
  commands      \* answers accepted and not yet taken for delivery

vars == <<status, commands>>

Init == status = <<>> /\ commands = <<>>

Arrive ==
  /\ \E s \in {"None", "Unresolved"} : status' = Append(status, s)
  /\ UNCHANGED commands

(* An answer is accepted exactly when a command for it is queued.          *)
Accept(id) ==
  /\ status[id] = "Unresolved" /\ Delivery
  /\ status' = [status EXCEPT ![id] = "PendingDelivery"]
  /\ \E decision \in Decisions :
       commands' = Append(commands, <<id, decision>>)

(* A prompt goes through the same channel.                                 *)
Prompt ==
  /\ commands' = Append(commands, <<>>)
  /\ UNCHANGED status

Take ==
  /\ commands # <<>>
  /\ commands' = Tail(commands)
  /\ UNCHANGED status

Settle(id, decision) ==
  /\ status[id] = IF Delivery THEN "PendingDelivery" ELSE "Unresolved"
  /\ status' = [status EXCEPT ![id] = decision]
  /\ UNCHANGED commands

Reopen(id) ==
  /\ status[id] = "PendingDelivery"
  /\ status' = [status EXCEPT ![id] = "Unresolved"]
  /\ UNCHANGED commands

Next ==
  \/ Arrive
  \/ Prompt
  \/ Take
  \/ \E id \in DOMAIN status :
       \/ Accept(id)
       \/ Reopen(id)
       \/ \E decision \in Decisions : Settle(id, decision)

Spec == Init /\ [][Next]_vars

=============================================================================
