------------------------------ MODULE Pairing ------------------------------
(***************************************************************************)
(* How a phone is paired, and what it needs to be let in afterwards.       *)
(*                                                                         *)
(* A command line or a terminal interface shows a code (create_session)    *)
(* and writes it to pairing_session.json, the one file it shares with the  *)
(* daemon.  A phone sends the code through the relay; the daemon marks it  *)
(* used, registers the device under a new token, tells the relay of the    *)
(* token and answers.  From then on the token is checked twice: by the     *)
(* relay, against the list it was sent, and by the daemon, against its     *)
(* registry.  The registry is also a file, which menus change on their own.*)
(*                                                                         *)
(* The daemon and the relay may restart and the trunk between them break;  *)
(* the relay may learn of a break late, and reads what an old trunk still  *)
(* holds beside the frames of the next.  Every frame of a trunk goes to    *)
(* every phone in the session, those that are pairing included.  The       *)
(* registry's file is written in place: who dies in a save leaves it       *)
(* without devices.  Secrets are not told apart from their codes.          *)
(***************************************************************************)
EXTENDS Naturals, Sequences, FiniteSets

CONSTANTS
  Phones,
  Local,       \* the phones that pair over the loopback server
  Devices,
  DeviceOf,    \* the device id each phone gives
  MaxCodes,    \* bound: codes shown, one after the other
  MaxExpired,  \* bound: those of them whose three minutes may pass
  MaxUpsets,   \* bound: restarts, breaks of the trunk and menus opened
  MaxTries,    \* bound: times the phones try to pair or to connect
  WireCap      \* capacity of the channels of the trunk

ASSUME PairingAssumption ==
  /\ Local \subseteq Phones
  /\ DeviceOf \in [Phones -> Devices]
  /\ {MaxCodes, MaxExpired, MaxUpsets, MaxTries} \subseteq Nat
  /\ WireCap \in Nat /\ WireCap >= 2

VARIABLES
  shown,     \* the codes shown so far are 1..shown
  expired,   \* those of them past their three minutes are 1..expired
  file,      \* pairing_session.json
  waiting,   \* codes whose command line still waits for the phone
  memory,    \* the sessions the daemon's PairingManager holds
  claims,    \* pair requests validated, whose device is not registered yet
  registry,  \* the daemon's DeviceRegistry
  disk,      \* devices.json
  menu,      \* the registry an open devices menu has loaded, or Closed
  trunk,     \* is the daemon's side of the trunk up?
  up, wire,  \* frames on the trunk, to the daemon and to the relay
  old,       \* for each trunk before, the frames the relay still reads
  relay,     \* what the relay keeps of the session
  phone,
  upsets, tries,
  issued,    \* history: for each token, the code and the device it is for
  dropped,   \* history: devices a menu changed, or a torn save lost, after
             \* they last paired
  stale      \* history: devices of whom the relay thinks what a frame of an
             \* earlier trunk has said since the last of the current one

files   == <<file, disk>>
daemon  == <<memory, claims, registry>>
link    == <<trunk, up, wire, old>>
bounds  == <<upsets, tries>>
history == <<issued, dropped, stale>>
vars == <<shown, expired, waiting, menu, files, daemon, link, relay, phone,
          upsets, tries, history>>

-----------------------------------------------------------------------------
Codes == 1..MaxCodes
NoSession == [code |-> 0, used |-> FALSE, device |-> "none"]
NoEntry   == [token |-> 0, revoked |-> FALSE]
Nobody    == [d \in Devices |-> NoEntry]
Closed    == [closed |-> TRUE]
NewPhone  == [status |-> "idle", token |-> 0]
Holding(token) == [status |-> "idle", token |-> token]
NewRelay  == [host |-> FALSE, pairing |-> 0, devices |-> Nobody]

Init ==
  /\ shown = 0 /\ expired = 0 /\ waiting = {} /\ file = NoSession
  /\ memory = [c \in Codes |-> "unknown"] /\ claims = {}
  /\ registry = Nobody /\ disk = Nobody /\ menu = Closed
  /\ trunk = FALSE /\ up = <<>> /\ wire = <<>> /\ old = <<>>
  /\ relay = NewRelay
  /\ phone = [p \in Phones |-> NewPhone]
  /\ upsets = 0 /\ tries = 0 /\ issued = <<>> /\ dropped = {} /\ stale = {}

Expired(c) == c <= expired

-----------------------------------------------------------------------------
(* The command line and the terminal interface.                            *)

(* A new code takes the place of whatever the file holds; only the command *)
(* line waits for the phone to use it.                                     *)
CreateSession ==
  /\ shown < MaxCodes
  /\ shown' = shown + 1
  /\ file' = [NoSession EXCEPT !.code = shown']
  /\ \E cli \in BOOLEAN :
       waiting' = IF cli THEN waiting \cup {shown'} ELSE waiting
  /\ UNCHANGED <<expired, disk, menu, daemon, link, relay, phone, bounds,
                 history>>

Expire ==
  /\ expired < shown /\ expired < MaxExpired
  /\ expired' = expired + 1
  /\ UNCHANGED <<shown, waiting, menu, files, daemon, link, relay, phone,
                 bounds, history>>

(* The command line sees its code used, or gives up and removes the file,  *)
(* whose ever code it holds by then.                                       *)
PairFlowEnds(c) ==
  /\ c \in waiting
  /\ waiting' = waiting \ {c}
  /\ \/ file.code = c /\ file.used /\ UNCHANGED file
     \/ Expired(c) /\ file' = NoSession
  /\ UNCHANGED <<shown, expired, disk, menu, daemon, link, relay, phone,
                 bounds, history>>

(* A menu loads the registry from the file and saves it whole after each   *)
(* change; the list it shows may be old by then.  The commands and the     *)
(* terminal interface open and close it for one change.  A save that ends  *)
(* early or overlaps another leaves a file that is read as no devices; a   *)
(* menu that reads it shows none and changes nothing.                      *)
Revoke(reg, d) == [reg EXCEPT ![d].revoked = TRUE]
Remove(reg, d) == [reg EXCEPT ![d] = NoEntry]

MenuOpens ==
  /\ menu = Closed /\ upsets < MaxUpsets
  /\ upsets' = upsets + 1 /\ UNCHANGED tries
  /\ menu' = disk
  /\ UNCHANGED <<shown, expired, waiting, files, daemon, link, relay, phone,
                 history>>

MenuForgets(d) ==
  /\ menu # Closed
  /\ menu[d] # NoEntry
  /\ menu' \in {Revoke(menu, d), Remove(menu, d)}
  /\ disk' \in {menu', Nobody}
  /\ dropped' = dropped \cup {x \in Devices : disk'[x] # disk[x]}
  /\ UNCHANGED <<shown, expired, waiting, file, daemon, link, relay, phone,
                 bounds, issued, stale>>

MenuCloses ==
  /\ menu # Closed
  /\ menu' = Closed
  /\ UNCHANGED <<shown, expired, waiting, files, daemon, link, relay, phone,
                 bounds, history>>

-----------------------------------------------------------------------------
(* Pairing at the daemon.                                                  *)

(* What the manager knows of a code: the file is read only for a code that *)
(* is not in memory.                                                       *)
Session(c) ==
  IF memory[c] # "unknown" THEN memory[c]
  ELSE IF file.code # c THEN "unknown"
  ELSE IF file.used THEN "used" ELSE "unused"

Consumable(c) == Session(c) = "unused" /\ ~Expired(c)

ValidateAndConsume_Copy(c) ==
  /\ memory' = [memory EXCEPT ![c] = Session(c)]
  /\ file' = IF Consumable(c)
             THEN [code |-> c, used |-> TRUE, device |-> "none"] ELSE file

ValidateAndConsume(c) ==
  /\ memory' = [memory EXCEPT ![c] =
                  IF Consumable(c) THEN "used" ELSE Session(c)]
  /\ file' = IF Consumable(c)
             THEN [code |-> c, used |-> TRUE, device |-> "none"] ELSE file

Authorized(d, token) ==
  registry[d].token = token /\ ~registry[d].revoked

(* A frame is lost when the trunk it is written to is down.                *)
Send(frames) == wire' = IF trunk THEN wire \o frames ELSE wire

RegisterDevice_Unsaved(d, token) ==
  /\ registry' = [registry EXCEPT ![d] = [token |-> token, revoked |-> FALSE]]
  /\ UNCHANGED disk

(* A device that pairs again replaces its entry; the daemon saves all it   *)
(* has in memory.                                                          *)
RegisterDevice(d, token) ==
  /\ registry' = [registry EXCEPT ![d] = [token |-> token, revoked |-> FALSE]]
  /\ disk' = registry'

(* The rest of a pair request, once the handler has the lock of the        *)
(* registry.  Recording the device saves the session again, over the file  *)
(* of a code shown since.                                                  *)
Register(claim) ==
  LET d == DeviceOf[claim.phone]
      token == Len(issued) + 1
  IN /\ claim \in claims
     /\ claims' = claims \ {claim}
     /\ RegisterDevice(d, token)
     /\ file' = [code |-> claim.code, used |-> memory[claim.code] = "used",
                 device |-> d]
     /\ issued' = Append(issued, [code |-> claim.code, device |-> d])
     /\ dropped' = dropped \ {d}
     /\ IF claim.phone \in Local
        THEN /\ phone' = [phone EXCEPT ![claim.phone] =
                            IF @.status = "pairing"
                            THEN Holding(token) ELSE @]
             /\ UNCHANGED wire
        ELSE /\ Len(wire) + 2 <= WireCap
             /\ Send(<<[type |-> "authorize_device", device |-> d,
                        token |-> token],
                       [type |-> "pair_response", token |-> token]>>)
             /\ UNCHANGED phone
     /\ UNCHANGED <<shown, expired, waiting, menu, memory, trunk, up, old,
                    relay, bounds, stale>>

(* The handler of the trunk reads no frame before it is done with the last.*)
TrunkReads ==
  /\ trunk /\ up # <<>>
  /\ claims \subseteq [phone : Local, code : Codes]
  /\ Len(wire) < WireCap
  /\ up' = Tail(up)
  /\ LET m == Head(up) IN
       IF m.type = "pair_request"
       THEN /\ ValidateAndConsume(m.code)
            /\ IF Consumable(m.code)
               THEN /\ claims' = claims \cup {[phone |-> m.phone,
                                               code |-> m.code]}
                    /\ UNCHANGED wire
               ELSE Send(<<[type |-> "error"]>>) /\ UNCHANGED claims
       ELSE /\ Send(<<[type |-> IF Authorized(DeviceOf[m.phone], m.token)
                                THEN "welcome" ELSE "error"]>>)
            /\ UNCHANGED <<memory, claims, file>>
  /\ UNCHANGED <<shown, expired, waiting, menu, disk, registry, trunk, old,
                 relay, phone, bounds, history>>

-----------------------------------------------------------------------------
(* The relay.                                                              *)

PairAdmitted(c) ==
  relay.pairing # 0 => relay.pairing = c /\ ~Expired(c)

(* A device the relay was not told of is let in only while it was told of  *)
(* none.                                                                   *)
Admitted(d, token) ==
  IF relay.devices[d] = NoEntry THEN relay.devices = Nobody
  ELSE relay.devices[d] = [token |-> token, revoked |-> FALSE]

Reset(p) == [phone[p] EXCEPT !.status = "idle"]

(* What a phone makes of a frame, whichever phone it is meant for.         *)
Took(p, m) ==
  CASE phone[p].status = "pairing" /\ m.type = "pair_response" ->
         Holding(m.token)
    [] phone[p].status = "pairing" /\ m.type = "error" -> Reset(p)
    [] phone[p].status = "hello" ->
         [phone[p] EXCEPT
            !.status = IF m.type = "welcome" THEN "connected" ELSE "idle"]
    [] OTHER -> phone[p]

(* What the handler of a trunk does with a frame.  It never asks whether   *)
(* its trunk is still the host's.                                          *)
Takes(m) ==
  IF m.type \in {"sync_devices", "sync_pairing", "authorize_device"}
  THEN /\ relay' =
            CASE m.type = "sync_devices" ->
                   [relay EXCEPT !.devices = m.devices]
              [] m.type = "sync_pairing" ->
                   [relay EXCEPT !.pairing = m.code]
              [] m.type = "authorize_device" ->
                   [relay EXCEPT !.devices[m.device] =
                      [token |-> m.token, revoked |-> FALSE]]
       /\ UNCHANGED phone
  ELSE /\ phone' = [p \in Phones |->
                      IF p \in Local THEN phone[p] ELSE Took(p, m)]
       /\ UNCHANGED relay

RelayTakes ==
  /\ wire # <<>>
  /\ wire' = Tail(wire)
  /\ LET m == Head(wire) IN
       /\ Takes(m)
       /\ stale' = CASE m.type = "sync_devices" -> {}
                    [] m.type = "authorize_device" -> stale \ {m.device}
                    [] OTHER -> stale
  /\ UNCHANGED <<shown, expired, waiting, menu, files, daemon, trunk, up, old,
                 bounds, issued, dropped>>

(* A relay that knew of no device let all in; the first one it is told of  *)
(* has the others refused.                                                 *)
OldTakes(k) ==
  /\ old[k] # <<>>
  /\ old' = [old EXCEPT ![k] = Tail(@)]
  /\ LET m == Head(old[k]) IN
       /\ Takes(m)
       /\ stale' = CASE m.type = "sync_devices" -> Devices
                    [] m.type = "authorize_device" ->
                         IF relay.devices = Nobody THEN Devices
                         ELSE stale \cup {m.device}
                    [] OTHER -> stale
  /\ UNCHANGED <<shown, expired, waiting, menu, files, daemon, trunk, up, wire,
                 bounds, issued, dropped>>

Hung == [p \in Phones |-> IF p \in Local THEN phone[p] ELSE Reset(p)]

(* The handler sees the end; what it has not read by then is lost.         *)
RelayNotices ==
  /\ relay.host /\ ~trunk
  /\ wire' = <<>>
  /\ relay' = [relay EXCEPT !.host = FALSE]
  /\ phone' = Hung
  /\ UNCHANGED <<shown, expired, waiting, menu, files, daemon, trunk, up, old,
                 bounds, history>>

-----------------------------------------------------------------------------
(* The trunk.                                                              *)

(* The relay keeps what it has of the session when a host comes back.      *)
Hosted == [relay EXCEPT !.host = TRUE]

(* What a new trunk tells the relay first.  A code that is shown later is  *)
(* not told.                                                               *)
TrunkConnects ==
  /\ ~trunk
  /\ claims \subseteq [phone : Local, code : Codes]
  /\ trunk' = TRUE
  /\ relay' = Hosted
  /\ up' = <<>>
  /\ wire' = <<[type |-> "sync_devices", devices |-> registry]>> \o
             IF file.code # 0 /\ ~file.used /\ ~Expired(file.code)
             THEN <<[type |-> "sync_pairing", code |-> file.code]>> ELSE <<>>
  /\ old' = IF wire = <<>> THEN old ELSE Append(old, wire)
  /\ UNCHANGED <<shown, expired, waiting, menu, files, daemon, phone, bounds,
                 history>>

(* What is on its way to the relay may still arrive, all of it or a part.  *)
Cut == trunk' = FALSE /\ up' = <<>> /\ UNCHANGED <<wire, old>>

TrunkBreaks ==
  /\ trunk /\ upsets < MaxUpsets
  /\ upsets' = upsets + 1 /\ UNCHANGED tries
  /\ Cut
  /\ UNCHANGED <<shown, expired, waiting, menu, files, daemon, relay, phone,
                 history>>

RelayRestarts ==
  /\ upsets < MaxUpsets
  /\ upsets' = upsets + 1 /\ UNCHANGED tries
  /\ trunk' = FALSE /\ up' = <<>> /\ wire' = <<>> /\ old' = <<>>
  /\ relay' = NewRelay
  /\ phone' = Hung
  /\ stale' = {}
  /\ UNCHANGED <<shown, expired, waiting, menu, files, daemon, issued,
                 dropped>>

(* The sessions are gone, the registry is read from its file: one a        *)
(* handler was about to save it to when the daemon died, or one that an    *)
(* open menu is saving.                                                    *)
DaemonRestarts ==
  /\ upsets < MaxUpsets
  /\ upsets' = upsets + 1 /\ UNCHANGED tries
  /\ Cut
  /\ memory' = [c \in Codes |-> "unknown"]
  /\ claims' = {}
  /\ disk' \in {disk} \cup (IF claims = {} THEN {} ELSE {Nobody})
  /\ registry' \in {disk'} \cup (IF menu = Closed THEN {} ELSE {Nobody})
  /\ dropped' = dropped \cup
       {x \in Devices : disk'[x] # disk[x] \/ registry'[x] # disk[x]}
  /\ phone' = [p \in Phones |-> IF p \in Local THEN Reset(p) ELSE phone[p]]
  /\ UNCHANGED <<shown, expired, waiting, menu, file, relay, issued, stale>>

-----------------------------------------------------------------------------
(* The phones.  An attempt the relay refuses leaves everything as it was.  *)

ToDaemon(m) ==
  up' = IF trunk /\ Len(up) < WireCap THEN Append(up, m) ELSE up

PhonePairs(p, c) ==
  /\ tries < MaxTries /\ tries' = tries + 1
  /\ p \notin Local /\ c <= shown
  /\ phone[p].status = "idle"
  /\ relay.host /\ PairAdmitted(c)
  /\ phone' = [phone EXCEPT ![p].status = "pairing"]
  /\ ToDaemon([type |-> "pair_request", phone |-> p, code |-> c])
  /\ UNCHANGED <<shown, expired, waiting, menu, files, daemon, trunk, wire,
                 old, relay, upsets, history>>

(* Over the loopback server every connection has a handler of its own.     *)
LocalPairs(p, c) ==
  /\ tries < MaxTries /\ tries' = tries + 1
  /\ p \in Local /\ c <= shown
  /\ phone[p].status = "idle"
  /\ ValidateAndConsume(c)
  /\ IF Consumable(c)
     THEN /\ claims' = claims \cup {[phone |-> p, code |-> c]}
          /\ phone' = [phone EXCEPT ![p].status = "pairing"]
     ELSE UNCHANGED <<claims, phone>>
  /\ UNCHANGED <<shown, expired, waiting, menu, disk, registry, link, relay,
                 upsets, history>>

PhoneConnects(p) ==
  /\ tries < MaxTries /\ tries' = tries + 1
  /\ p \notin Local
  /\ phone[p].status = "idle" /\ phone[p].token # 0
  /\ relay.host /\ Admitted(DeviceOf[p], phone[p].token)
  /\ phone' = [phone EXCEPT ![p].status = "hello"]
  /\ ToDaemon([type |-> "hello", phone |-> p, token |-> phone[p].token])
  /\ UNCHANGED <<shown, expired, waiting, menu, files, daemon, trunk, wire,
                 old, relay, upsets, history>>

(* It times out, loses its connection or is closed.                        *)
PhoneLeaves(p) ==
  /\ phone[p].status # "idle"
  /\ phone' = [phone EXCEPT ![p] = Reset(p)]
  /\ UNCHANGED <<shown, expired, waiting, menu, files, daemon, link, relay,
                 bounds, history>>

-----------------------------------------------------------------------------
Next ==
  \/ CreateSession \/ Expire
  \/ MenuOpens \/ MenuCloses
  \/ TrunkReads \/ TrunkConnects \/ TrunkBreaks
  \/ RelayTakes \/ RelayNotices \/ RelayRestarts \/ DaemonRestarts
  \/ \E k \in DOMAIN old : OldTakes(k)
  \/ \E c \in waiting : PairFlowEnds(c)
  \/ \E d \in Devices : MenuForgets(d)
  \/ \E claim \in claims : Register(claim)
  \/ \E p \in Phones :
       \/ PhoneConnects(p) \/ PhoneLeaves(p)
       \/ \E c \in Codes : PhonePairs(p, c) \/ LocalPairs(p, c)

Spec == Init /\ [][Next]_vars

-----------------------------------------------------------------------------
(* A code is good for one token.  It is kept in a file and in the memory   *)
(* of the daemon, two handlers may try it at once, the memory is lost in a *)
(* restart and the file may be replaced or removed by command lines that   *)
(* know nothing of the daemon (pairing.rs, validate_and_consume).          *)
CodeUsedOnce ==
  \A i, j \in DOMAIN issued : issued[i].code = issued[j].code => i = j

Latest(d, token) ==
  /\ token \in DOMAIN issued /\ issued[token].device = d
  /\ \A t \in DOMAIN issued : issued[t].device = d => t <= token

(* A phone that holds the last token given to its device, whose entry no   *)
(* menu has changed and no torn save lost since, is let in: the registry   *)
(* of the daemon has the token, after any restart, and a relay that has a  *)
(* host does not refuse it, whatever lists it was sent and lost            *)
(* (connection.rs, PairRequest: the registry is saved and the relay told   *)
(* before the phone is answered).  The one exception is a device of whom   *)
(* the relay has read a frame of an earlier trunk after the last of the    *)
(* current one: lib.rs 456-516 lets an old frame undo a newer.             *)
PairedIsAdmitted ==
  \A p \in Phones :
    LET d == DeviceOf[p] token == phone[p].token IN
    Latest(d, token) /\ d \notin dropped =>
      /\ Authorized(d, token)
      /\ relay.host /\ p \notin Local => Admitted(d, token) \/ d \in stale

(* Not so: without the exception an old frame turns such a phone away.     *)
PairedIsAlwaysAdmitted ==
  \A p \in Phones \ Local :
    LET d == DeviceOf[p] token == phone[p].token IN
    Latest(d, token) /\ d \notin dropped /\ relay.host => Admitted(d, token)

(* The trunk keeps the relay in step with the code on the owner's screen:  *)
(* once nothing is on its way, a phone that scans a code that is neither   *)
(* used nor expired is not turned away by the relay.                       *)
ShownCodeAdmitted ==
  trunk /\ relay.host /\ wire = <<>> /\ file.code # 0 /\ ~file.used
    /\ ~Expired(file.code) => PairAdmitted(file.code)
=============================================================================
