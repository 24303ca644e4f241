-------------------------- MODULE Pairing_proofs ---------------------------
(***************************************************************************)
(* A code is used once and a phone that paired is let in, but for what a   *)
(* frame of an earlier trunk makes stale: for any phones, devices and      *)
(* numbers of codes, however often the daemon, the relay and the trunk     *)
(* fail, and for any number of earlier trunks still being read.            *)
(*                                                                         *)
(* The first argument: a code is spent from the moment a handler claims    *)
(* it.  The memory of the daemon never takes a spent code for unused, and  *)
(* the file, when it holds one, says that it is used, which a restart      *)
(* relies on.                                                              *)
(***************************************************************************)
EXTENDS Pairing, SequenceTheorems, TLAPS

Spent(c) ==
  \/ \E x \in claims : x.code = c
  \/ \E i \in DOMAIN issued : issued[i].code = c

Typed ==
  /\ shown \in Nat
  /\ file.code \in Nat /\ file.used \in BOOLEAN
  /\ memory \in [Codes -> {"unknown", "unused", "used"}]
  /\ claims \subseteq [phone : Phones, code : Codes]
  /\ issued \in Seq([code : Codes, device : Devices])

(* Codes are shown before they are used, and a new one is a fresh one.     *)
KnownWasShown ==
  /\ file.code <= shown
  /\ \A c \in Codes : memory[c] # "unknown" \/ Spent(c) => c <= shown

SpentIsUseless ==
  \A c \in Codes : Spent(c) =>
    /\ memory[c] # "unused"
    /\ file.code = c => file.used = TRUE

(* One handler has a code, and the daemon remembers that.                  *)
ClaimIsAlone ==
  \A x \in claims :
    /\ memory[x.code] = "used"
    /\ \A y \in claims : y.code = x.code => y = x
    /\ \A i \in DOMAIN issued : issued[i].code # x.code

CodeInv ==
  Typed /\ KnownWasShown /\ SpentIsUseless /\ ClaimIsAlone /\ CodeUsedOnce

(* What phones send over the trunk.                                        *)
Request(m) ==
  m.type = "pair_request" => m.phone \in Phones /\ m.code \in Codes

UpTyped == \E S : up \in Seq(S) /\ \A m \in S : Request(m)

IInv == CodeInv /\ UpTyped

-----------------------------------------------------------------------------
(* Frames to the daemon.                                                   *)

LEMMA UpEmpty == ASSUME up' = <<>> PROVE UpTyped'
<1>1. up' \in Seq({}) /\ \A m \in {} : Request(m)
  OBVIOUS
<1>. QED
  BY <1>1 DEF UpTyped

LEMMA UpTail ==
  ASSUME UpTyped, up # <<>>, up' = Tail(up)
  PROVE  UpTyped' /\ Request(Head(up))
<1>. PICK S : up \in Seq(S) /\ \A m \in S : Request(m)
  BY DEF UpTyped
<1>1. up' \in Seq(S) /\ Head(up) \in S
  BY HeadTailProperties
<1>. QED
  BY <1>1 DEF UpTyped

LEMMA UpSent ==
  ASSUME UpTyped, NEW m, Request(m), ToDaemon(m)
  PROVE  UpTyped'
<1>. PICK S : up \in Seq(S) /\ \A x \in S : Request(x)
  BY DEF UpTyped
<1>. DEFINE T == S \cup {m}
<1>1. up \in Seq(T) /\ m \in T
  OBVIOUS
<1>2. up' \in Seq(T)
  BY <1>1, AppendProperties DEF ToDaemon
<1>3. \A x \in T : Request(x)
  OBVIOUS
<1>. QED
  BY <1>2, <1>3 DEF UpTyped

-----------------------------------------------------------------------------
(* Codes.                                                                  *)

(* Only an unspent code can be consumed.                                   *)
LEMMA ConsumableIsFresh ==
  ASSUME CodeInv, NEW c \in Codes, Consumable(c)
  PROVE  ~Spent(c) /\ c <= shown /\ memory[c] # "used"
<1>1. Session(c) = "unused"
  BY DEF Consumable
<1>2. CASE memory[c] # "unknown"
  BY <1>1, <1>2 DEF Session, CodeInv, SpentIsUseless, KnownWasShown
<1>3. CASE memory[c] = "unknown"
  <2>1. file.code = c /\ ~file.used
    BY <1>1, <1>3 DEF Session
  <2>. QED
    BY <1>3, <2>1 DEF CodeInv, SpentIsUseless, KnownWasShown
<1>. QED
  BY <1>2, <1>3

(* A step that leaves codes alone.                                         *)
LEMMA Quiet ==
  ASSUME CodeInv, UNCHANGED <<shown, file, memory, claims, issued>>
  PROVE  CodeInv'
BY DEF CodeInv, Typed, KnownWasShown, SpentIsUseless, ClaimIsAlone,
       CodeUsedOnce, Spent

(* A handler tries a code.                                                 *)
LEMMA ConsumeStep ==
  ASSUME CodeInv, NEW p \in Phones, NEW c \in Codes, ValidateAndConsume(c),
         claims' = IF Consumable(c)
                   THEN claims \cup {[phone |-> p, code |-> c]} ELSE claims,
         UNCHANGED <<shown, issued>>
  PROVE  CodeInv'
<1>. DEFINE claim == [phone |-> p, code |-> c]
<1>0. Codes \subseteq Nat \ {0}
  BY DEF Codes
<1>1. /\ Typed /\ KnownWasShown /\ SpentIsUseless /\ ClaimIsAlone /\ CodeUsedOnce
      /\ memory' = [memory EXCEPT ![c] =
                      IF Consumable(c) THEN "used" ELSE Session(c)]
  BY DEF CodeInv, ValidateAndConsume
<1>2. CASE Consumable(c)
  <2>1. /\ ~Spent(c) /\ c <= shown
    BY <1>2, ConsumableIsFresh
  <2>2. /\ memory'[c] = "used"
        /\ \A d \in Codes : d # c => memory'[d] = memory[d]
        /\ memory' \in [Codes -> {"unknown", "unused", "used"}]
    BY <1>1, <1>2 DEF Typed
  <2>3. file'.code = c /\ file'.used = TRUE
    BY <1>2 DEF ValidateAndConsume
  <2>4. claims' = claims \cup {claim} /\ claim.code = c
        /\ claim \in [phone : Phones, code : Codes]
    BY <1>2
  <2>. HIDE DEF claim
  <2>5. Typed'
    BY <1>0, <1>1, <2>2, <2>3, <2>4 DEF Typed
  <2>6. \A d \in Codes : Spent(d)' <=> Spent(d) \/ d = c
    BY <2>4 DEF Spent
  <2>7. KnownWasShown'
    BY <1>1, <2>1, <2>2, <2>3, <2>6 DEF KnownWasShown
  <2>8. SpentIsUseless'
    BY <1>1, <2>2, <2>3, <2>6 DEF SpentIsUseless
  <2>9. ClaimIsAlone'
    <3>1. \A x \in claims : x.code # c
      BY <2>1 DEF Spent
    <3>2. \A i \in DOMAIN issued : issued[i].code # c
      BY <2>1 DEF Spent
    <3>. QED
      BY <1>1, <2>2, <2>4, <3>1, <3>2 DEF ClaimIsAlone, Typed
  <2>. QED
    BY <1>1, <2>5, <2>7, <2>8, <2>9 DEF CodeInv, CodeUsedOnce
<1>3. CASE ~Consumable(c)
  <2>1. file' = file /\ claims' = claims
    BY <1>3 DEF ValidateAndConsume
  <2>2. /\ memory'[c] = Session(c)
        /\ \A d \in Codes : d # c => memory'[d] = memory[d]
    BY <1>1, <1>3 DEF Typed
  <2>3. /\ Session(c) \in {"unknown", "unused", "used"}
        /\ Session(c) # "unknown" => c <= shown
        /\ Spent(c) => Session(c) # "unused"
        /\ memory[c] = "used" => Session(c) = "used"
    BY <1>1 DEF Session, Typed, KnownWasShown, SpentIsUseless
  <2>4. memory' \in [Codes -> {"unknown", "unused", "used"}]
    BY <1>1, <1>3, <2>3 DEF Typed
  <2>5. \A d \in Codes : Spent(d)' <=> Spent(d)
    BY <2>1 DEF Spent
  <2>6. Typed' /\ KnownWasShown' /\ SpentIsUseless'
    BY <1>1, <2>1, <2>2, <2>3, <2>4, <2>5
       DEF Typed, KnownWasShown, SpentIsUseless
  <2>7. ClaimIsAlone'
    BY <1>1, <2>1, <2>2, <2>3 DEF ClaimIsAlone, Typed
  <2>. QED
    BY <1>1, <2>6, <2>7 DEF CodeInv, CodeUsedOnce
<1>. QED
  BY <1>2, <1>3

(* A claim becomes a token; the file says of its code that it is used.     *)
LEMMA RegisterStep ==
  ASSUME CodeInv, NEW claim \in claims, Register(claim)
  PROVE  CodeInv'
<1>. DEFINE c == claim.code
            entry == [code |-> c, device |-> DeviceOf[claim.phone]]
<1>1. /\ Typed /\ KnownWasShown /\ SpentIsUseless /\ ClaimIsAlone /\ CodeUsedOnce
      /\ claim.phone \in Phones /\ c \in Codes /\ c \in Nat
  BY DEF CodeInv, Typed, Codes
<1>2. /\ claims' = claims \ {claim} /\ issued' = Append(issued, entry)
      /\ UNCHANGED <<shown, memory>>
      /\ file'.code = c /\ file'.used = (memory[c] = "used")
  BY Zenon DEF Register
<1>3. file'.used = TRUE
  BY <1>1, <1>2 DEF ClaimIsAlone
<1>4. entry \in [code : Codes, device : Devices]
  BY <1>1, PairingAssumption
<1>. HIDE DEF entry
<1>5. /\ issued' \in Seq([code : Codes, device : Devices])
      /\ DOMAIN issued' = DOMAIN issued \cup {Len(issued) + 1}
      /\ \A i \in DOMAIN issued : issued'[i] = issued[i]
      /\ issued'[Len(issued) + 1] = entry
      /\ Len(issued) + 1 \notin DOMAIN issued
  BY <1>1, <1>2, <1>4, AppendProperties DEF Typed
<1>6. entry.code = c
  BY DEF entry
<1>7. \A d \in Codes : Spent(d)' => Spent(d)
  BY <1>2, <1>5, <1>6 DEF Spent
<1>8. Spent(c)
  BY DEF Spent
<1>9. Typed'
  BY <1>1, <1>2, <1>3, <1>5 DEF Typed
<1>10. KnownWasShown' /\ SpentIsUseless'
  BY <1>1, <1>2, <1>3, <1>7, <1>8 DEF KnownWasShown, SpentIsUseless
<1>11. ClaimIsAlone'
  BY <1>1, <1>2, <1>5, <1>6 DEF ClaimIsAlone
<1>12. CodeUsedOnce'
  <2>1. \A i \in DOMAIN issued : issued[i].code # c
    BY <1>1 DEF ClaimIsAlone
  <2>. QED
    BY <1>1, <1>5, <1>6, <2>1 DEF CodeUsedOnce
<1>. QED
  BY <1>9, <1>10, <1>11, <1>12 DEF CodeInv

(* A new code is none that was ever spent.                                 *)
LEMMA ShowStep == ASSUME CodeInv, CreateSession PROVE CodeInv'
<1>1. /\ Typed /\ KnownWasShown /\ SpentIsUseless /\ ClaimIsAlone /\ CodeUsedOnce
      /\ shown' = shown + 1 /\ file'.code = shown + 1 /\ file'.used = FALSE
      /\ UNCHANGED <<memory, claims, issued>>
  BY DEF CodeInv, CreateSession, NoSession, daemon, history
<1>2. \A c \in Codes : Spent(c)' <=> Spent(c)
  BY <1>1 DEF Spent
<1>3. \A c \in Codes : Spent(c) => c <= shown /\ c # shown + 1
  BY <1>1 DEF KnownWasShown, Typed, Codes
<1>4. Typed' /\ SpentIsUseless'
  <2>1. shown + 1 \in Nat /\ FALSE \in BOOLEAN
    BY <1>1 DEF Typed
  <2>2. Typed'
    BY Zenon, <1>1, <2>1 DEF Typed
  <2>3. \A c \in Codes : Spent(c)' => memory'[c] # "unused" /\ file'.code # c
    BY <1>1, <1>2, <1>3 DEF SpentIsUseless
  <2>. QED
    BY <2>2, <2>3 DEF SpentIsUseless
<1>5. KnownWasShown'
  BY <1>1, <1>2 DEF KnownWasShown, Typed, Codes
<1>. QED
  BY <1>1, <1>4, <1>5 DEF CodeInv, ClaimIsAlone, CodeUsedOnce

(* The file of a code goes away.                                           *)
LEMMA ForgetStep ==
  ASSUME CodeInv, file' = file \/ file' = NoSession,
         UNCHANGED <<shown, memory, claims, issued>>
  PROVE  CodeInv'
<1>1. CASE file' = file
  BY <1>1, Quiet
<1>2. CASE file' = NoSession
  <2>1. /\ Typed /\ KnownWasShown /\ SpentIsUseless /\ ClaimIsAlone
        /\ CodeUsedOnce /\ file'.code = 0 /\ file'.used = FALSE
    BY <1>2 DEF CodeInv, NoSession
  <2>2. \A c \in Codes : c # 0 /\ (Spent(c)' <=> Spent(c))
    BY DEF Spent, Codes
  <2>3. 0 \in Nat /\ FALSE \in BOOLEAN
    OBVIOUS
  <2>4. Typed'
    BY Zenon, <2>1, <2>3 DEF Typed
  <2>5. 0 <= shown
    BY <2>1 DEF Typed
  <2>6. KnownWasShown' /\ SpentIsUseless'
    BY <2>1, <2>2, <2>5 DEF KnownWasShown, SpentIsUseless
  <2>7. ClaimIsAlone' /\ CodeUsedOnce'
    BY <2>1 DEF ClaimIsAlone, CodeUsedOnce
  <2>. QED
    BY <2>4, <2>6, <2>7 DEF CodeInv
<1>. QED
  BY <1>1, <1>2

(* After a restart only the file knows what is spent.                      *)
LEMMA RestartStep == ASSUME CodeInv, DaemonRestarts PROVE CodeInv'
<1>1. /\ Typed /\ KnownWasShown /\ SpentIsUseless /\ ClaimIsAlone /\ CodeUsedOnce
      /\ memory' = [c \in Codes |-> "unknown"] /\ claims' = {}
      /\ UNCHANGED <<shown, file, issued>>
  BY DEF CodeInv, DaemonRestarts, files, history
<1>2. \A c \in Codes : memory'[c] = "unknown" /\ (Spent(c)' => Spent(c))
  BY <1>1 DEF Spent
<1>. QED
  BY <1>1, <1>2 DEF CodeInv, Typed, KnownWasShown, SpentIsUseless,
                    ClaimIsAlone, CodeUsedOnce

-----------------------------------------------------------------------------
LEMMA Initially == Init => IInv
<1>. SUFFICES ASSUME Init PROVE IInv
  OBVIOUS
<1>1. up \in Seq({}) /\ \A m \in {} : Request(m)
  BY DEF Init
<1>2. /\ shown = 0 /\ file.code = 0 /\ file.used = FALSE
      /\ memory = [c \in Codes |-> "unknown"] /\ claims = {} /\ issued = <<>>
  BY DEF Init, NoSession
<1>3. /\ 0 \in Nat /\ 0 <= 0 /\ FALSE \in BOOLEAN
      /\ <<>> \in Seq([code : Codes, device : Devices])
  OBVIOUS
<1>4. Typed
  <2>1. memory \in [Codes -> {"unknown", "unused", "used"}]
    BY <1>2
  <2>2. claims \subseteq [phone : Phones, code : Codes]
    BY <1>2
  <2>. QED
    BY Zenon, <1>2, <1>3, <2>1, <2>2 DEF Typed
<1>5. DOMAIN issued = {}
  BY <1>2
<1>6. \A c \in Codes : ~Spent(c) /\ memory[c] = "unknown"
  BY <1>2, <1>5 DEF Spent
<1>7. KnownWasShown /\ SpentIsUseless /\ ClaimIsAlone /\ CodeUsedOnce
  BY <1>2, <1>3, <1>5, <1>6
     DEF KnownWasShown, SpentIsUseless, ClaimIsAlone, CodeUsedOnce
<1>8. CodeInv
  BY <1>4, <1>7 DEF CodeInv
<1>. QED
  BY <1>1, <1>8 DEF IInv, UpTyped

LEMMA Inductive == IInv /\ [Next]_vars => IInv'
<1>. SUFFICES ASSUME IInv, [Next]_vars PROVE IInv'
  OBVIOUS
<1>. USE DEF files, daemon, link, bounds, history
<1>0. CodeInv /\ UpTyped
  BY DEF IInv
<1>1. ASSUME UNCHANGED <<shown, file, memory, claims, issued, up>>
      PROVE  IInv'
  BY <1>0, <1>1, Quiet DEF IInv, UpTyped
<1>2. CASE UNCHANGED vars
  BY <1>1, <1>2 DEF vars
<1>3. CASE CreateSession
  <2>1. up' = up
    BY <1>3 DEF CreateSession
  <2>. QED
    BY <1>0, <1>3, <2>1, ShowStep DEF IInv, UpTyped
<1>4. CASE \/ Expire \/ MenuOpens \/ MenuCloses \/ RelayTakes \/ RelayNotices
           \/ \E k \in DOMAIN old : OldTakes(k)
           \/ \E d \in Devices : MenuForgets(d)
           \/ \E p \in Phones : PhoneLeaves(p)
  BY <1>1, <1>4 DEF Expire, MenuOpens, MenuCloses, RelayTakes, OldTakes,
                    RelayNotices, MenuForgets, PhoneLeaves
<1>5. CASE TrunkReads
  <2>1. UpTyped' /\ Request(Head(up))
    BY <1>0, <1>5, UpTail DEF TrunkReads
  <2>2. UNCHANGED <<shown, issued>>
    BY <1>5 DEF TrunkReads
  <2>3. CASE Head(up).type = "pair_request"
    <3>1. /\ Head(up).phone \in Phones /\ Head(up).code \in Codes
          /\ ValidateAndConsume(Head(up).code)
          /\ claims' = IF Consumable(Head(up).code)
                       THEN claims \cup {[phone |-> Head(up).phone,
                                          code |-> Head(up).code]}
                       ELSE claims
      BY <1>5, <2>1, <2>3 DEF TrunkReads, Request
    <3>. QED
      BY <1>0, <2>1, <2>2, <3>1, ConsumeStep DEF IInv
  <2>4. CASE Head(up).type # "pair_request"
    <3>1. UNCHANGED <<memory, claims, file>>
      BY <1>5, <2>4 DEF TrunkReads
    <3>. QED
      BY <1>0, <2>1, <2>2, <3>1, Quiet DEF IInv
  <2>. QED
    BY <2>3, <2>4
<1>6. CASE TrunkConnects \/ TrunkBreaks \/ RelayRestarts
  <2>1. UNCHANGED <<shown, file, memory, claims, issued>> /\ up' = <<>>
    BY <1>6 DEF TrunkConnects, TrunkBreaks, RelayRestarts, Cut
  <2>. QED
    BY <1>0, <2>1, Quiet, UpEmpty DEF IInv
<1>7. CASE DaemonRestarts
  <2>1. up' = <<>>
    BY <1>7 DEF DaemonRestarts, Cut
  <2>. QED
    BY <1>0, <1>7, <2>1, RestartStep, UpEmpty DEF IInv
<1>8. ASSUME NEW c \in waiting, PairFlowEnds(c) PROVE IInv'
  <2>1. /\ file' = file \/ file' = NoSession
        /\ UNCHANGED <<shown, memory, claims, issued, up>>
    BY <1>8 DEF PairFlowEnds
  <2>. QED
    BY <1>0, <2>1, ForgetStep DEF IInv, UpTyped
<1>9. ASSUME NEW claim \in claims, Register(claim) PROVE IInv'
  <2>1. up' = up
    BY <1>9 DEF Register
  <2>. QED
    BY <1>0, <1>9, <2>1, RegisterStep DEF IInv, UpTyped
<1>10. ASSUME NEW p \in Phones, PhoneConnects(p) PROVE IInv'
  <2>1. UNCHANGED <<shown, file, memory, claims, issued>>
    BY <1>10 DEF PhoneConnects
  <2>2. /\ ToDaemon([type |-> "hello", phone |-> p, token |-> phone[p].token])
        /\ Request([type |-> "hello", phone |-> p, token |-> phone[p].token])
    BY <1>10 DEF PhoneConnects, Request
  <2>. QED
    BY <1>0, <2>1, <2>2, Quiet, UpSent DEF IInv
<1>11. ASSUME NEW p \in Phones, NEW c \in Codes, PhonePairs(p, c) PROVE IInv'
  <2>1. UNCHANGED <<shown, file, memory, claims, issued>>
    BY <1>11 DEF PhonePairs
  <2>2. /\ ToDaemon([type |-> "pair_request", phone |-> p, code |-> c])
        /\ Request([type |-> "pair_request", phone |-> p, code |-> c])
    BY <1>11 DEF PhonePairs, Request
  <2>. QED
    BY <1>0, <2>1, <2>2, Quiet, UpSent DEF IInv
<1>12. ASSUME NEW p \in Phones, NEW c \in Codes, LocalPairs(p, c) PROVE IInv'
  <2>1. /\ ValidateAndConsume(c)
        /\ claims' = IF Consumable(c)
                     THEN claims \cup {[phone |-> p, code |-> c]} ELSE claims
        /\ UNCHANGED <<shown, issued, up>>
    BY <1>12 DEF LocalPairs
  <2>. QED
    BY <1>0, <2>1, ConsumeStep DEF IInv, UpTyped
<1>. QED
  BY <1>2, <1>3, <1>4, <1>5, <1>6, <1>7, <1>8, <1>9, <1>10, <1>11, <1>12
     DEF Next

(* OneTokenPerCode: no code pairs two phones, whatever the daemon forgets  *)
(* and whatever command lines do to its file (validate_and_consume).       *)
THEOREM OneTokenPerCode == Spec => []CodeUsedOnce
<1>1. IInv => CodeUsedOnce
  BY DEF IInv, CodeInv
<1>. QED
  BY <1>1, Initially, Inductive, PTL DEF Spec

-----------------------------------------------------------------------------
(***************************************************************************)
(* A phone that paired is let in.                                          *)
(*                                                                         *)
(* The argument: what is on a trunk is in order.  The list of devices is   *)
(* the first frame of a trunk or none at all, a token is announced to the  *)
(* relay right before it is sent to the phone, and tokens grow, along a    *)
(* trunk and from one trunk to the next.  So when a phone takes its token  *)
(* the relay has been told of it, and the frames of the current trunk      *)
(* cannot take it back: only a later token of the device could, or a list, *)
(* which has it too.  A frame of an earlier trunk can, which makes the     *)
(* device stale until the current trunk tells of it again.                 *)
(***************************************************************************)
Entry    == [token : Nat, revoked : BOOLEAN]
Registry == [Devices -> Entry]
Good(token) == [token |-> token, revoked |-> FALSE]

Frame ==
  [type : {"sync_devices"}, devices : Registry]
    \cup [type : {"sync_pairing"}, code : Nat]
    \cup [type : {"authorize_device"}, device : Devices, token : Nat]
    \cup [type : {"pair_response"}, token : Nat]
    \cup [type : {"welcome", "error"}]

PhoneSet == [Phones -> [status : {"idle", "pairing", "hello", "connected"},
                        token : Nat]]
RelaySet == [host : BOOLEAN, pairing : Nat, devices : Registry]

PlacesTyped ==
  /\ registry \in Registry /\ disk \in Registry
  /\ menu # Closed => menu \in Registry
  /\ wire \in Seq(Frame) /\ old \in Seq(Seq(Frame))
  /\ relay \in RelaySet
  /\ phone \in PhoneSet
  /\ trunk \in BOOLEAN
  /\ \A p \in Phones : phone[p].token <= Len(issued)

(* A device whose entry no menu changed and no torn save lost has its last *)
(* token, in memory and on disk.                                           *)
Registered ==
  \A d \in Devices \ dropped : \A t \in DOMAIN issued :
    Latest(d, t) => registry[d] = Good(t) /\ disk[d] = Good(t)

(* What frames are on a trunk, in what order, for the tokens given so far. *)
Tells(m) == m.type \in {"authorize_device", "pair_response"}

ListComesFirst(s) == \A i \in DOMAIN s : s[i].type = "sync_devices" => i = 1

TellsAreIssued(s, given) ==
  \A i \in DOMAIN s :
    /\ Tells(s[i]) => s[i].token \in DOMAIN given
    /\ s[i].type = "authorize_device" => given[s[i].token].device = s[i].device

TokensGrow(s) ==
  \A i, j \in DOMAIN s :
    i < j /\ Tells(s[i]) /\ s[j].type = "authorize_device"
      => s[i].token < s[j].token

ToldBeforeAnswered(s) ==
  \A j \in DOMAIN s : s[j].type = "pair_response" /\ j # 1 =>
    s[j - 1].type = "authorize_device" /\ s[j - 1].token = s[j].token

Ordered(s, given) ==
  /\ ListComesFirst(s) /\ TellsAreIssued(s, given) /\ TokensGrow(s)
  /\ ToldBeforeAnswered(s)

AllOrdered ==
  Ordered(wire, issued) /\ \A k \in DOMAIN old : Ordered(old[k], issued)

(* The tokens that phones of the relay hold, or that earlier trunks tell   *)
(* of, are older than those the current one is about to announce.          *)
HeldIsOlder ==
  \A p \in Phones \ Local : \A i \in DOMAIN wire :
    wire[i].type = "authorize_device" => phone[p].token < wire[i].token

OldIsOlder ==
  \A k \in DOMAIN old : \A i \in DOMAIN old[k] : \A j \in DOMAIN wire :
    Tells(old[k][i]) /\ wire[j].type = "authorize_device"
      => old[k][i].token < wire[j].token

(* A list on its way has the tokens that are held or told of.              *)
Held(t) == \E p \in Phones \ Local : phone[p].token = t
ToldByOld(t) ==
  \E k \in DOMAIN old : \E i \in DOMAIN old[k] :
    Tells(old[k][i]) /\ old[k][i].token = t

ListIsNext == wire # <<>> /\ wire[1].type = "sync_devices"

ListKnows ==
  ListIsNext =>
    \A d \in Devices \ dropped : \A t \in DOMAIN issued :
      Latest(d, t) /\ (Held(t) \/ ToldByOld(t)) => wire[1].devices[d] = Good(t)

(* A token that a phone has, or may take next, is known to the relay.      *)
Answers(s, t) == s # <<>> /\ s[1].type = "pair_response" /\ s[1].token = t

Near(t) ==
  \/ Held(t)
  \/ Answers(wire, t)
  \/ \E k \in DOMAIN old : Answers(old[k], t)

Known(d, t) ==
  \/ d \in stale
  \/ relay.devices[d] = Good(t)
  \/ relay.devices = Nobody /\ IF wire = <<>> THEN ~trunk ELSE ListIsNext

RelayKnows ==
  \A d \in Devices \ dropped : \A t \in DOMAIN issued :
    Latest(d, t) /\ Near(t) => Known(d, t)

TrunkInv == AllOrdered /\ HeldIsOlder /\ OldIsOlder /\ ListKnows /\ RelayKnows

AdmitInv == PlacesTyped /\ Registered /\ TrunkInv

SameTokens == \A p \in Phones : phone'[p].token = phone[p].token

LEMMA NobodyTyped == NoEntry \in Entry /\ Nobody \in Registry
BY DEF NoEntry, Entry, Nobody, Registry

LEMMA FrameFields ==
  ASSUME NEW m \in Frame
  PROVE  /\ m.type = "sync_devices" => m.devices \in Registry
         /\ m.type = "sync_pairing" => m.code \in Nat
         /\ m.type = "authorize_device" => m.device \in Devices /\ m.token \in Nat
         /\ m.type = "pair_response" => m.token \in Nat
         /\ m.type \in {"sync_devices", "sync_pairing", "authorize_device",
                        "pair_response", "welcome", "error"}
BY DEF Frame

-----------------------------------------------------------------------------
(* The order of the frames of one trunk, s, for the tokens given.          *)

LEMMA OrderedEmpty == ASSUME NEW given PROVE Ordered(<<>>, given)
<1>1. DOMAIN <<>> = {}
  OBVIOUS
<1>. QED
  BY <1>1 DEF Ordered, ListComesFirst, TellsAreIssued, TokensGrow,
              ToldBeforeAnswered

(* It stays when tokens are given.                                         *)
LEMMA OrderedLater ==
  ASSUME NEW s, NEW given, NEW later, Ordered(s, given),
         DOMAIN given \subseteq DOMAIN later,
         \A i \in DOMAIN given : later[i] = given[i]
  PROVE  Ordered(s, later)
<1>1. TellsAreIssued(s, later)
  BY DEF Ordered, TellsAreIssued, Tells
<1>. QED
  BY <1>1 DEF Ordered

(* It stays when the first frame is taken, and a phone that is answered by *)
(* the next was announced by the first.                                    *)
LEMMA TailFacts ==
  ASSUME NEW s \in Seq(Frame), s # <<>>
  PROVE  /\ 1 \in DOMAIN s /\ Head(s) = s[1] /\ s[1] \in Frame
         /\ Tail(s) \in Seq(Frame) /\ DOMAIN Tail(s) = 1..(Len(s) - 1)
         /\ DOMAIN s = 1..Len(s) /\ Len(s) \in Nat \ {0}
         /\ \A i \in DOMAIN Tail(s) :
              i \in Nat /\ i + 1 \in DOMAIN s /\ Tail(s)[i] = s[i + 1]
         /\ Tail(s) # <<>> => 1 \in DOMAIN Tail(s)
<1>1. /\ Head(s) \in Frame /\ Tail(s) \in Seq(Frame)
      /\ Len(Tail(s)) = Len(s) - 1
      /\ \A i \in 1..Len(Tail(s)) : Tail(s)[i] = s[i + 1]
      /\ Head(s) = s[1] /\ Len(s) \in Nat \ {0}
  BY HeadTailProperties, LenProperties
<1>2. DOMAIN Tail(s) = 1..Len(Tail(s)) /\ DOMAIN s = 1..Len(s)
  BY <1>1, LenProperties
<1>3. Tail(s) # <<>> => Len(Tail(s)) # 0
  BY <1>1, EmptySeq
<1>. QED
  BY <1>1, <1>2, <1>3

LEMMA OrderedTail ==
  ASSUME NEW given, NEW s \in Seq(Frame), s # <<>>, Ordered(s, given)
  PROVE  /\ Ordered(Tail(s), given)
         /\ \A i \in DOMAIN Tail(s) : Tail(s)[i].type # "sync_devices"
         /\ \A t : Answers(Tail(s), t) =>
                     s[1].type = "authorize_device" /\ s[1].token = t
<1>. PICK r : r = Tail(s)
  OBVIOUS
<1>1. /\ DOMAIN r = 1..(Len(s) - 1) /\ DOMAIN s = 1..Len(s)
      /\ Len(s) \in Nat \ {0} /\ 1 \in DOMAIN s
      /\ \A i \in DOMAIN r : i \in Nat /\ i + 1 \in DOMAIN s /\ r[i] = s[i + 1]
      /\ r # <<>> => 1 \in DOMAIN r
  BY TailFacts
<1>2. /\ ListComesFirst(s) /\ TellsAreIssued(s, given) /\ TokensGrow(s)
      /\ ToldBeforeAnswered(s)
  BY DEF Ordered
<1>3. \A i \in DOMAIN r : r[i].type # "sync_devices"
  <2>. SUFFICES ASSUME NEW i \in DOMAIN r, s[i + 1].type = "sync_devices"
                PROVE  FALSE
    BY <1>1
  <2>1. i + 1 = 1 /\ i \in 1..(Len(s) - 1)
    BY <1>1, <1>2 DEF ListComesFirst
  <2>. QED
    BY <1>1, <2>1
<1>4. TellsAreIssued(r, given)
  BY <1>1, <1>2 DEF TellsAreIssued
<1>5. TokensGrow(r)
  <2>. SUFFICES ASSUME NEW i \in DOMAIN r, NEW j \in DOMAIN r, i < j,
                       Tells(r[i]), r[j].type = "authorize_device"
                PROVE  r[i].token < r[j].token
    BY DEF TokensGrow
  <2>1. i + 1 < j + 1 /\ i + 1 \in DOMAIN s /\ j + 1 \in DOMAIN s
        /\ r[i] = s[i + 1] /\ r[j] = s[j + 1]
    BY <1>1
  <2>. QED
    BY <1>2, <2>1 DEF TokensGrow
<1>6. ASSUME NEW j \in DOMAIN r, r[j].type = "pair_response"
      PROVE  s[j].type = "authorize_device" /\ s[j].token = r[j].token
  <2>. PICK k : k = j + 1
    OBVIOUS
  <2>1. k \in DOMAIN s /\ k # 1 /\ k - 1 = j /\ s[k] = r[j]
    BY <1>1
  <2>. QED
    BY <1>2, <1>6, <2>1 DEF ToldBeforeAnswered
<1>7. ToldBeforeAnswered(r)
  <2>. SUFFICES ASSUME NEW j \in DOMAIN r, r[j].type = "pair_response", j # 1
                PROVE  r[j - 1].type = "authorize_device"
                       /\ r[j - 1].token = r[j].token
    BY DEF ToldBeforeAnswered
  <2>1. s[j].type = "authorize_device" /\ s[j].token = r[j].token
    BY <1>6
  <2>2. j - 1 \in DOMAIN r /\ (j - 1) + 1 = j
    BY <1>1
  <2>3. r[j - 1] = s[j]
    BY <1>1, <2>2
  <2>. QED
    BY <2>1, <2>3
<1>8. ListComesFirst(r)
  BY <1>3 DEF ListComesFirst
<1>9. ASSUME NEW t, Answers(r, t)
      PROVE  s[1].type = "authorize_device" /\ s[1].token = t
  <2>1. 1 \in DOMAIN r /\ r[1].type = "pair_response" /\ r[1].token = t
    BY <1>1, <1>9 DEF Answers
  <2>. QED
    BY <1>6, <2>1
<1>. QED
  BY <1>3, <1>4, <1>5, <1>7, <1>8, <1>9 DEF Ordered

(* It stays when a frame is sent that tells of no token.                   *)
LEMMA SaidFacts ==
  ASSUME NEW s \in Seq(Frame), NEW m \in [type : {"welcome", "error"}]
  PROVE  /\ Append(s, m) \in Seq(Frame) /\ Append(s, m) # <<>>
         /\ \A i \in DOMAIN Append(s, m) :
              \/ i \in DOMAIN s /\ Append(s, m)[i] = s[i]
              \/ Append(s, m)[i].type \in {"welcome", "error"}
         /\ \A j \in DOMAIN s : j # 1 => j - 1 \in DOMAIN s
         /\ \A j \in DOMAIN s : Append(s, m)[j] = s[j]
         /\ 1 \in DOMAIN Append(s, m)
         /\ s # <<>> => Append(s, m)[1] = s[1]
<1>. PICK r : r = Append(s, m)
  OBVIOUS
<1>1. /\ Len(s) \in Nat /\ DOMAIN s = 1..Len(s) /\ DOMAIN r = 1..(Len(s) + 1)
      /\ r \in Seq(Frame)
      /\ \A i \in DOMAIN s : r[i] = s[i]
      /\ r[Len(s) + 1] = m
  <2>1. m \in Frame
    BY DEF Frame
  <2>. QED
    BY <2>1, AppendProperties, LenProperties
<1>2. m.type \in {"welcome", "error"}
  OBVIOUS
<1>3. \A i \in DOMAIN r :
        (i \in DOMAIN s /\ r[i] = s[i]) \/ r[i].type \in {"welcome", "error"}
  BY <1>1, <1>2
<1>4. r # <<>> /\ 1 \in DOMAIN r /\ (s # <<>> => r[1] = s[1])
  BY <1>1, EmptySeq
<1>5. \A j \in DOMAIN s : j # 1 => j - 1 \in DOMAIN s
  BY <1>1
<1>. QED
  BY <1>1, <1>3, <1>4, <1>5

LEMMA OrderedSaid ==
  ASSUME NEW given, NEW s, NEW r, Ordered(s, given),
         \A i \in DOMAIN r :
           (i \in DOMAIN s /\ r[i] = s[i]) \/ r[i].type \in {"welcome", "error"},
         \A j \in DOMAIN s : j # 1 => j - 1 \in DOMAIN s,
         \A j \in DOMAIN s : r[j] = s[j]
  PROVE  Ordered(r, given)
<1>4. /\ ListComesFirst(s) /\ TellsAreIssued(s, given) /\ TokensGrow(s)
      /\ ToldBeforeAnswered(s)
  BY DEF Ordered
<1>5. ListComesFirst(r) /\ TellsAreIssued(r, given)
  BY <1>4 DEF ListComesFirst, TellsAreIssued, Tells
<1>6. TokensGrow(r)
  BY <1>4 DEF TokensGrow, Tells
<1>7. ToldBeforeAnswered(r)
  <2>. SUFFICES ASSUME NEW j \in DOMAIN r, r[j].type = "pair_response", j # 1
                PROVE  r[j - 1].type = "authorize_device"
                       /\ r[j - 1].token = r[j].token
    BY DEF ToldBeforeAnswered
  <2>1. j \in DOMAIN s /\ r[j] = s[j]
    OBVIOUS
  <2>2. j - 1 \in DOMAIN s
    BY <2>1
  <2>. QED
    BY <1>4, <2>1, <2>2 DEF ToldBeforeAnswered
<1>. QED
  BY <1>5, <1>6, <1>7 DEF Ordered

(* It stays when a new token is announced and then sent to the phone.      *)
Appends(s, r, n, d) ==
  /\ Len(s) \in Nat /\ DOMAIN s = 1..Len(s) /\ DOMAIN r = 1..(Len(s) + 2)
  /\ \A i \in DOMAIN s : r[i] = s[i]
  /\ r[Len(s) + 1].type = "authorize_device"
  /\ r[Len(s) + 1].token = n /\ r[Len(s) + 1].device = d
  /\ r[Len(s) + 2].type = "pair_response" /\ r[Len(s) + 2].token = n

LEMMA ToldFacts ==
  ASSUME NEW s \in Seq(Frame), NEW n \in Nat, NEW d \in Devices, NEW r,
         r = s \o <<[type |-> "authorize_device", device |-> d, token |-> n],
                    [type |-> "pair_response", token |-> n]>>
  PROVE  r \in Seq(Frame) /\ Appends(s, r, n, d)
<1>. DEFINE a == [type |-> "authorize_device", device |-> d, token |-> n]
            b == [type |-> "pair_response", token |-> n]
<1>1. a \in Frame /\ b \in Frame
  BY DEF Frame
<1>2. /\ a.type = "authorize_device" /\ a.token = n /\ a.device = d
      /\ b.type = "pair_response" /\ b.token = n
  OBVIOUS
<1>3. r = s \o <<a, b>>
  OBVIOUS
<1>. HIDE DEF a, b
<1>4. <<a, b>> \in Seq(Frame) /\ Len(<<a, b>>) = 2
      /\ <<a, b>>[1] = a /\ <<a, b>>[2] = b
  BY <1>1
<1>5. /\ r \in Seq(Frame) /\ Len(s) \in Nat /\ DOMAIN s = 1..Len(s)
      /\ DOMAIN r = 1..(Len(s) + 2)
      /\ \A i \in DOMAIN s : r[i] = s[i]
      /\ r[Len(s) + 1] = a /\ r[Len(s) + 2] = b
  BY <1>3, <1>4, ConcatProperties, LenProperties
<1>. QED
  BY <1>2, <1>5 DEF Appends

LEMMA AppendedFacts ==
  ASSUME NEW s, NEW r, NEW n, NEW d, Appends(s, r, n, d)
  PROVE  /\ \A i \in DOMAIN r :
              \/ i \in DOMAIN s /\ r[i] = s[i]
              \/ r[i].type = "authorize_device" /\ r[i].token = n
              \/ i # 1 /\ r[i].type = "pair_response"
         /\ 1 \in DOMAIN r
         /\ s # <<>> /\ s \in Seq(Frame) => 1 \in DOMAIN s /\ r[1] = s[1]
<1>1. \A i \in DOMAIN r : i \in DOMAIN s \/ i = Len(s) + 1 \/ i = Len(s) + 2
  BY DEF Appends
<1>2. Len(s) + 2 # 1 /\ 1 \in DOMAIN r
  BY DEF Appends
<1>3. s # <<>> /\ s \in Seq(Frame) => 1 \in DOMAIN s
  BY TailFacts
<1>. QED
  BY <1>1, <1>2, <1>3 DEF Appends

LEMMA OrderedTold ==
  ASSUME NEW given, NEW later, NEW s, NEW r, NEW n \in Nat \ {0}, NEW d,
         Ordered(s, given), Appends(s, r, n, d),
         DOMAIN given = 1..(n - 1), DOMAIN later = 1..n,
         \A i \in DOMAIN given : later[i] = given[i],
         later[n].device = d
  PROVE  Ordered(r, later)
<1>. PICK L : L = Len(s)
  OBVIOUS
<1>2. /\ L \in Nat /\ DOMAIN s = 1..L /\ DOMAIN r = 1..(L + 2)
      /\ \A i \in DOMAIN s : r[i] = s[i]
  BY DEF Appends
<1>3. /\ r[L + 1].type = "authorize_device"
      /\ r[L + 1].token = n /\ r[L + 1].device = d
      /\ r[L + 2].type = "pair_response" /\ r[L + 2].token = n
  BY DEF Appends
<1>4. \A i \in DOMAIN r : i \in DOMAIN s \/ i = L + 1 \/ i = L + 2
  <2>1. L \in Nat /\ DOMAIN s = 1..L /\ DOMAIN r = 1..(L + 2)
    BY <1>2
  <2>. QED
    BY <2>1
<1>5. /\ ListComesFirst(s) /\ TellsAreIssued(s, given) /\ TokensGrow(s)
      /\ ToldBeforeAnswered(s)
  BY DEF Ordered
<1>6. \A i \in DOMAIN s : Tells(s[i]) => s[i].token \in 1..(n - 1)
  BY <1>5 DEF TellsAreIssued
<1>7. ListComesFirst(r)
  BY <1>2, <1>3, <1>4, <1>5 DEF ListComesFirst
<1>8. TellsAreIssued(r, later)
  <2>1. \A i \in DOMAIN s : Tells(s[i]) => s[i].token \in DOMAIN later
    BY <1>6
  <2>2. \A i \in DOMAIN s : s[i].type = "authorize_device" =>
          later[s[i].token].device = s[i].device
    BY <1>5, <1>6 DEF TellsAreIssued, Tells
  <2>3. n \in DOMAIN later
    OBVIOUS
  <2>. SUFFICES ASSUME NEW i \in DOMAIN r
                PROVE  /\ Tells(r[i]) => r[i].token \in DOMAIN later
                       /\ r[i].type = "authorize_device" =>
                            later[r[i].token].device = r[i].device
    BY DEF TellsAreIssued
  <2>4. CASE i \in DOMAIN s
    <3>1. r[i] = s[i]
      BY <1>2, <2>4
    <3>. QED
      BY <2>1, <2>2, <2>4, <3>1
  <2>5. CASE i = L + 1 \/ i = L + 2
    BY <1>2, <1>3, <2>3, <2>5
  <2>. QED
    BY <1>4, <2>4, <2>5
<1>9. TokensGrow(r)
  <2>. SUFFICES ASSUME NEW i \in DOMAIN r, NEW j \in DOMAIN r, i < j,
                       Tells(r[i]), r[j].type = "authorize_device"
                PROVE  r[i].token < r[j].token
    BY DEF TokensGrow
  <2>1. CASE j \in DOMAIN s
    <3>1. i \in DOMAIN s
      BY <1>2, <2>1
    <3>. QED
      BY <1>2, <1>5, <2>1, <3>1 DEF TokensGrow
  <2>2. CASE j = L + 1
    <3>1. i \in DOMAIN s
      BY <1>2, <2>2
    <3>2. s[i].token \in 1..(n - 1)
      BY <1>2, <1>6, <3>1
    <3>. QED
      BY <1>2, <1>3, <2>2, <3>1, <3>2
  <2>. QED
    BY <1>2, <1>3, <1>4, <2>1, <2>2
<1>10. ToldBeforeAnswered(r)
  <2>. SUFFICES ASSUME NEW j \in DOMAIN r, r[j].type = "pair_response", j # 1
                PROVE  r[j - 1].type = "authorize_device"
                       /\ r[j - 1].token = r[j].token
    BY DEF ToldBeforeAnswered
  <2>1. CASE j \in DOMAIN s
    <3>1. j - 1 \in DOMAIN s
      BY <1>2, <2>1
    <3>. QED
      BY <1>2, <1>5, <2>1, <3>1 DEF ToldBeforeAnswered
  <2>2. CASE j = L + 2
    <3>1. j - 1 = L + 1
      BY <1>2, <2>2
    <3>. QED
      BY <1>2, <1>3, <2>2, <3>1
  <2>. QED
    BY <1>2, <1>3, <1>4, <2>1, <2>2
<1>. QED
  BY <1>7, <1>8, <1>9, <1>10 DEF Ordered

-----------------------------------------------------------------------------
(* Steps that give no token and take no frame.                             *)

LEMMA RegistryKept ==
  ASSUME Registered, issued' = issued, dropped \subseteq dropped',
         \A d \in Devices \ dropped' :
           registry'[d] = registry[d] /\ disk'[d] = disk[d]
  PROVE  Registered'
BY DEF Registered, Latest

(* Frames, tokens and what the relay was told stay; the trunk may end.     *)
LEMMA TrunkKept ==
  ASSUME TrunkInv, UNCHANGED <<wire, old, issued, stale>>, SameTokens,
         trunk' = trunk \/ trunk' = FALSE,
         relay'.devices = relay.devices, dropped \subseteq dropped'
  PROVE  TrunkInv'
<1>1. AllOrdered'
  BY DEF TrunkInv, AllOrdered
<1>2. HeldIsOlder' /\ OldIsOlder'
  BY DEF TrunkInv, HeldIsOlder, OldIsOlder, SameTokens
<1>3. \A t : (Held(t)' <=> Held(t)) /\ (ToldByOld(t)' <=> ToldByOld(t))
  BY DEF Held, ToldByOld, SameTokens
<1>4. \A d, t : Latest(d, t)' <=> Latest(d, t)
  BY DEF Latest
<1>5. ListKnows'
  BY <1>3, <1>4 DEF TrunkInv, ListKnows, ListIsNext
<1>6. \A t : Near(t)' <=> Near(t)
  BY <1>3 DEF Near
<1>7. \A d, t : Known(d, t) => Known(d, t)'
  BY DEF Known, ListIsNext
<1>8. RelayKnows'
  BY <1>4, <1>6, <1>7 DEF TrunkInv, RelayKnows
<1>. QED
  BY <1>1, <1>2, <1>5, <1>8 DEF TrunkInv

(* The relay has seen the end of the trunk, or has lost everything.        *)
LEMMA DownKept ==
  ASSUME TrunkInv, wire' = <<>>, trunk' = FALSE,
         UNCHANGED <<issued, dropped>>, SameTokens,
         \/ old' = old /\ stale' = stale /\ relay'.devices = relay.devices
         \/ old' = <<>> /\ relay'.devices = Nobody
  PROVE  TrunkInv'
<1>1. DOMAIN wire' = {} /\ Ordered(wire', issued')
  <2>1. DOMAIN <<>> = {}
    OBVIOUS
  <2>. QED
    BY <2>1, OrderedEmpty
<1>2. old' = old \/ DOMAIN old' = {}
  OBVIOUS
<1>3. AllOrdered'
  BY <1>1, <1>2 DEF TrunkInv, AllOrdered
<1>4. HeldIsOlder' /\ OldIsOlder' /\ ListKnows'
  BY <1>1 DEF HeldIsOlder, OldIsOlder, ListKnows, ListIsNext
<1>5. RelayKnows'
  <2>. SUFFICES ASSUME NEW d \in Devices \ dropped, NEW t \in DOMAIN issued,
                       Latest(d, t)', Near(t)'
                PROVE  Known(d, t)'
    BY DEF RelayKnows
  <2>1. CASE relay'.devices = Nobody
    BY <2>1 DEF Known
  <2>2. CASE old' = old /\ stale' = stale /\ relay'.devices = relay.devices
    <3>1. Latest(d, t) /\ Near(t)
      BY <2>2 DEF Latest, Near, Held, Answers, SameTokens
    <3>2. Known(d, t)
      BY <3>1 DEF TrunkInv, RelayKnows
    <3>. QED
      BY <2>2, <3>2 DEF Known
  <2>. QED
    BY <2>1, <2>2
<1>. QED
  BY <1>3, <1>4, <1>5 DEF TrunkInv

(* The daemon sends a frame that tells of no token.                        *)
LEMMA SaidKept ==
  ASSUME PlacesTyped, TrunkInv, trunk, NEW m \in [type : {"welcome", "error"}],
         wire' = Append(wire, m),
         UNCHANGED <<issued, dropped, stale, old, trunk, phone, relay>>
  PROVE  TrunkInv' /\ wire' \in Seq(Frame)
<1>1. /\ Ordered(wire, issued) /\ \A k \in DOMAIN old : Ordered(old[k], issued)
      /\ wire \in Seq(Frame)
  BY DEF TrunkInv, AllOrdered, PlacesTyped
<1>2. /\ Ordered(wire', issued) /\ wire' \in Seq(Frame) /\ wire' # <<>>
      /\ \A i \in DOMAIN wire' : \/ i \in DOMAIN wire /\ wire'[i] = wire[i]
                                 \/ wire'[i].type \in {"welcome", "error"}
      /\ 1 \in DOMAIN wire'
      /\ wire # <<>> => wire'[1] = wire[1]
  <2>1. /\ wire' \in Seq(Frame) /\ wire' # <<>>
        /\ \A i \in DOMAIN wire' : \/ i \in DOMAIN wire /\ wire'[i] = wire[i]
                                   \/ wire'[i].type \in {"welcome", "error"}
        /\ \A j \in DOMAIN wire : j # 1 => j - 1 \in DOMAIN wire
        /\ \A j \in DOMAIN wire : wire'[j] = wire[j]
        /\ 1 \in DOMAIN wire'
        /\ wire # <<>> => wire'[1] = wire[1]
    BY <1>1, SaidFacts
  <2>2. Ordered(wire', issued)
    BY <1>1, <2>1, OrderedSaid
  <2>. QED
    BY <2>1, <2>2
<1>3. AllOrdered'
  BY <1>1, <1>2 DEF AllOrdered
<1>4. HeldIsOlder' /\ OldIsOlder'
  BY <1>2 DEF TrunkInv, HeldIsOlder, OldIsOlder
<1>5. wire = <<>> => wire'[1].type \in {"welcome", "error"}
  <2>1. wire = <<>> => DOMAIN wire = {}
    OBVIOUS
  <2>. QED
    BY <1>2, <2>1
<1>6. (ListIsNext' <=> ListIsNext) /\ (ListIsNext => wire'[1] = wire[1])
  BY <1>2, <1>5 DEF ListIsNext
<1>7. ListKnows'
  BY <1>6 DEF TrunkInv, ListKnows, Latest, Held, ToldByOld
<1>8. \A t : Answers(wire, t)' => Answers(wire, t)
  BY <1>2, <1>5 DEF Answers
<1>9. RelayKnows'
  BY <1>2, <1>6, <1>8 DEF TrunkInv, RelayKnows, Latest, Near, Held, Known, Answers
<1>. QED
  BY <1>2, <1>3, <1>4, <1>7, <1>9 DEF TrunkInv

(* A trunk begins with the list; the one before it becomes an old one.     *)
LEMMA ConnectsKept ==
  ASSUME CodeInv, AdmitInv, TrunkConnects
  PROVE  TrunkInv' /\ wire' \in Seq(Frame) /\ old' \in Seq(Seq(Frame))
<1>. DEFINE first == [type |-> "sync_devices", devices |-> registry]
            second == [type |-> "sync_pairing", code |-> file.code]
<1>1. /\ first \in Frame /\ second \in Frame
      /\ first.type = "sync_devices" /\ first.devices = registry
      /\ second.type = "sync_pairing"
  BY DEF AdmitInv, PlacesTyped, Frame, CodeInv, Typed
<1>2. /\ wire' = <<first>> \o IF file.code # 0 /\ ~file.used /\ ~Expired(file.code)
                              THEN <<second>> ELSE <<>>
      /\ relay'.devices = relay.devices
      /\ UNCHANGED <<issued, dropped, stale, phone>>
      /\ old' = IF wire = <<>> THEN old ELSE Append(old, wire)
  <2>1. relay' = [relay EXCEPT !.host = TRUE]
    BY DEF TrunkConnects, Hosted
  <2>2. relay'.devices = relay.devices
    BY <2>1 DEF AdmitInv, PlacesTyped, RelaySet
  <2>. QED
    BY <2>2 DEF TrunkConnects, history
<1>. HIDE DEF first, second
<1>3. /\ <<first>> \in Seq(Frame) /\ Len(<<first>>) = 1 /\ <<first>>[1] = first
      /\ <<second>> \in Seq(Frame) /\ Len(<<second>>) = 1 /\ <<second>>[1] = second
      /\ <<>> \in Seq(Frame) /\ Len(<<>>) = 0
  BY <1>1
<1>4. /\ wire' # <<>> /\ 1 \in DOMAIN wire' /\ wire'[1] = first
      /\ wire' \in Seq(Frame)
      /\ \A i \in DOMAIN wire' : i \in 1..2 /\ (i # 1 => wire'[i] = second)
  <2>1. CASE wire' = <<first>> \o <<second>>
    BY <1>3, <2>1, ConcatProperties, LenProperties
  <2>2. CASE wire' = <<first>> \o <<>>
    BY <1>3, <2>2, ConcatProperties, LenProperties
  <2>. QED
    BY <1>2, <2>1, <2>2
<1>5. \A i \in DOMAIN wire' :
        /\ wire'[i].type \in {"sync_devices", "sync_pairing"}
        /\ wire'[i].type = "sync_devices" => i = 1
  BY <1>1, <1>4
<1>6. Ordered(wire', issued')
  BY <1>5 DEF Ordered, ListComesFirst, TellsAreIssued, TokensGrow,
              ToldBeforeAnswered, Tells
<1>7. /\ old' \in Seq(Seq(Frame))
      /\ \A k \in DOMAIN old' :
           (k \in DOMAIN old /\ old'[k] = old[k]) \/ old'[k] = wire
      /\ wire \in Seq(Frame) /\ Ordered(wire, issued)
      /\ \A k \in DOMAIN old : Ordered(old[k], issued)
  <2>1. /\ wire \in Seq(Frame) /\ old \in Seq(Seq(Frame)) /\ Ordered(wire, issued)
        /\ \A k \in DOMAIN old : Ordered(old[k], issued)
    BY DEF AdmitInv, PlacesTyped, TrunkInv, AllOrdered
  <2>2. CASE wire = <<>>
    BY <1>2, <2>1, <2>2
  <2>3. CASE wire # <<>>
    <3>. PICK S : S = Seq(Frame)
      OBVIOUS
    <3>1. wire \in S /\ old \in Seq(S) /\ old' = Append(old, wire)
      BY <1>2, <2>1, <2>3
    <3>2. /\ old' \in Seq(S) /\ Len(old') = Len(old) + 1
          /\ \A i \in 1..Len(old) : old'[i] = old[i]
          /\ old'[Len(old) + 1] = wire
      BY <3>1, AppendProperties
    <3>3. DOMAIN old' = 1..(Len(old) + 1) /\ DOMAIN old = 1..Len(old)
          /\ Len(old) \in Nat
      BY <3>1, <3>2, LenProperties
    <3>. QED
      BY <2>1, <3>2, <3>3
  <2>. QED
    BY <2>2, <2>3
<1>8. AllOrdered'
  <2>1. \A k \in DOMAIN old' : Ordered(old'[k], issued)
    BY <1>7
  <2>. QED
    BY <1>2, <1>6, <2>1 DEF AllOrdered
<1>9. HeldIsOlder' /\ OldIsOlder'
  BY <1>5 DEF HeldIsOlder, OldIsOlder
<1>10. ListKnows'
  BY <1>1, <1>2, <1>4 DEF ListKnows, Latest, AdmitInv, Registered
<1>11. \A t : Near(t)' => Near(t)
  <2>. SUFFICES ASSUME NEW t, Near(t)' PROVE Near(t)
    OBVIOUS
  <2>1. ~Answers(wire, t)'
    BY <1>4, <1>5 DEF Answers
  <2>2. CASE Held(t)'
    BY <1>2, <2>2 DEF Near, Held
  <2>3. ASSUME NEW k \in DOMAIN old', Answers(old'[k], t) PROVE Near(t)
    BY <1>7, <2>3 DEF Near
  <2>. QED
    BY <2>1, <2>2, <2>3 DEF Near, Answers
<1>12. \A d, t : Known(d, t) => Known(d, t)'
  BY <1>1, <1>2, <1>4 DEF Known, ListIsNext
<1>13. RelayKnows'
  BY <1>2, <1>11, <1>12 DEF AdmitInv, TrunkInv, RelayKnows, Latest
<1>. QED
  BY <1>4, <1>7, <1>8, <1>9, <1>10, <1>13 DEF TrunkInv

-----------------------------------------------------------------------------
(* A device is registered: the one step that makes a token.                *)

(* The last token of the device is the new one, and of no other device.    *)
LEMMA LatestGrows ==
  ASSUME NEW e, e.device \in Devices,
         issued \in Seq([code : Codes, device : Devices]),
         e \in [code : Codes, device : Devices], issued' = Append(issued, e),
         NEW x, NEW t
  PROVE  Latest(x, t)' <=> IF x = e.device THEN t = Len(issued) + 1
                           ELSE Latest(x, t)
<1>1. /\ Len(issued) \in Nat /\ DOMAIN issued = 1..Len(issued)
      /\ DOMAIN issued' = 1..(Len(issued) + 1)
      /\ \A i \in DOMAIN issued : issued'[i] = issued[i]
      /\ issued'[Len(issued) + 1] = e
  BY AppendProperties, LenProperties
<1>2. CASE x = e.device
  BY <1>1, <1>2 DEF Latest
<1>3. CASE x # e.device
  BY <1>1, <1>3 DEF Latest
<1>. QED
  BY <1>2, <1>3

(* What a registration does to the tokens: the new one is the last of its  *)
(* device and nobody has it yet.                                           *)
Issues(d) ==
  /\ Len(issued) \in Nat /\ DOMAIN issued = 1..Len(issued)
  /\ DOMAIN issued' = 1..(Len(issued) + 1)
  /\ \A i \in DOMAIN issued : issued'[i] = issued[i]
  /\ issued'[Len(issued) + 1].device = d
  /\ \A x, t : Latest(x, t)' <=> IF x = d THEN t = Len(issued) + 1
                                 ELSE Latest(x, t)
  /\ dropped' = dropped \ {d}
  /\ \A p \in Phones \ Local : phone'[p].token = phone[p].token

LEMMA IssuesAlone ==
  ASSUME PlacesTyped, TrunkInv, NEW d, Issues(d), old' = old
  PROVE  /\ \A t : (Held(t)' <=> Held(t)) /\ (ToldByOld(t)' <=> ToldByOld(t))
         /\ \A t : Held(t) \/ ToldByOld(t) => t # Len(issued) + 1
         /\ \A x \in Devices \ dropped' : \A t \in DOMAIN issued' :
              Latest(x, t)' /\ t # Len(issued) + 1
                => Latest(x, t) /\ x \in Devices \ dropped /\ t \in DOMAIN issued
         /\ \A s : Ordered(s, issued) => Ordered(s, issued')
<1>1. \A t : (Held(t)' <=> Held(t)) /\ (ToldByOld(t)' <=> ToldByOld(t))
  BY DEF Issues, Held, ToldByOld
<1>2. \A t : Held(t) => t # Len(issued) + 1
  BY DEF PlacesTyped, PhoneSet, Held, Issues
<1>3. \A t : ToldByOld(t) => t # Len(issued) + 1
  <2>. SUFFICES ASSUME NEW k \in DOMAIN old, NEW i \in DOMAIN old[k],
                       Tells(old[k][i])
                PROVE  old[k][i].token # Len(issued) + 1
    BY DEF ToldByOld
  <2>1. old[k][i].token \in 1..Len(issued)
    BY DEF TrunkInv, AllOrdered, Ordered, TellsAreIssued, Issues
  <2>. QED
    BY <2>1 DEF Issues
<1>4. \A x \in Devices \ dropped' : \A t \in DOMAIN issued' :
        Latest(x, t)' /\ t # Len(issued) + 1
          => Latest(x, t) /\ x \in Devices \ dropped /\ t \in DOMAIN issued
  BY DEF Issues, Latest
<1>5. DOMAIN issued \subseteq DOMAIN issued'
      /\ \A i \in DOMAIN issued : issued'[i] = issued[i]
  BY DEF Issues
<1>6. \A s : Ordered(s, issued) => Ordered(s, issued')
  BY <1>5, OrderedLater
<1>. QED
  BY <1>1, <1>2, <1>3, <1>4, <1>6

(* The trunk after a registration it carries nothing of.                   *)
LEMMA TokenUntold ==
  ASSUME PlacesTyped, TrunkInv, NEW d, Issues(d),
         UNCHANGED <<wire, old, trunk, relay, stale>>
  PROVE  TrunkInv'
<1>1. /\ \A t : (Held(t)' <=> Held(t)) /\ (ToldByOld(t)' <=> ToldByOld(t))
      /\ \A t : Held(t) \/ ToldByOld(t) => t # Len(issued) + 1
      /\ \A x \in Devices \ dropped' : \A t \in DOMAIN issued' :
           Latest(x, t)' /\ t # Len(issued) + 1
             => Latest(x, t) /\ x \in Devices \ dropped /\ t \in DOMAIN issued
      /\ \A s : Ordered(s, issued) => Ordered(s, issued')
  BY IssuesAlone
<1>2. AllOrdered'
  BY <1>1 DEF TrunkInv, AllOrdered
<1>3. HeldIsOlder' /\ OldIsOlder'
  BY DEF TrunkInv, HeldIsOlder, OldIsOlder, Issues
<1>4. ListKnows'
  <2>1. ListIsNext' <=> ListIsNext
    BY DEF ListIsNext
  <2>. QED
    BY <1>1, <2>1 DEF TrunkInv, ListKnows
<1>5. \A t : Near(t) => t # Len(issued) + 1
  <2>. SUFFICES ASSUME NEW s, NEW t, Ordered(s, issued), s # <<>> => 1 \in DOMAIN s,
                       Answers(s, t)
                PROVE  t # Len(issued) + 1
    <3>1. \A s : s \in Seq(Frame) /\ s # <<>> => 1 \in DOMAIN s
      BY TailFacts
    <3>2. wire \in Seq(Frame) /\ \A k \in DOMAIN old : old[k] \in Seq(Frame)
      BY DEF PlacesTyped
    <3>. QED
      BY <1>1, <3>1, <3>2 DEF Near, TrunkInv, AllOrdered
  <2>1. t \in 1..Len(issued)
    BY DEF Answers, Ordered, TellsAreIssued, Tells, Issues
  <2>. QED
    BY <2>1 DEF Issues
<1>6. \A t : Near(t)' <=> Near(t)
  BY <1>1 DEF Near, Answers
<1>7. \A x, t : Known(x, t)' <=> Known(x, t)
  BY DEF Known, ListIsNext
<1>8. RelayKnows'
  BY <1>1, <1>5, <1>6, <1>7 DEF TrunkInv, RelayKnows
<1>. QED
  BY <1>2, <1>3, <1>4, <1>8 DEF TrunkInv

(* The trunk after one it tells of: the relay first, then the phone.       *)
LEMMA TokenTold ==
  ASSUME PlacesTyped, TrunkInv, trunk, NEW d \in Devices, Issues(d),
         wire' = wire \o <<[type |-> "authorize_device", device |-> d,
                            token |-> Len(issued) + 1],
                           [type |-> "pair_response", token |-> Len(issued) + 1]>>,
         UNCHANGED <<old, trunk, relay, stale>>
  PROVE  TrunkInv' /\ wire' \in Seq(Frame)
<1>. PICK n : n = Len(issued) + 1
  OBVIOUS
<1>1. /\ \A t : (Held(t)' <=> Held(t)) /\ (ToldByOld(t)' <=> ToldByOld(t))
      /\ \A t : Held(t) \/ ToldByOld(t) => t # n
      /\ \A x \in Devices \ dropped' : \A t \in DOMAIN issued' :
           Latest(x, t)' /\ t # n
             => Latest(x, t) /\ x \in Devices \ dropped /\ t \in DOMAIN issued
      /\ \A s : Ordered(s, issued) => Ordered(s, issued')
  BY IssuesAlone
<1>2. /\ Ordered(wire, issued) /\ \A k \in DOMAIN old : Ordered(old[k], issued)
      /\ wire \in Seq(Frame) /\ \A k \in DOMAIN old : old[k] \in Seq(Frame)
  BY DEF TrunkInv, AllOrdered, PlacesTyped
<1>3. /\ n \in Nat \ {0} /\ DOMAIN issued = 1..(n - 1) /\ DOMAIN issued' = 1..n
      /\ \A i \in DOMAIN issued : issued'[i] = issued[i]
      /\ issued'[n].device = d
  BY DEF Issues
<1>4. /\ Ordered(wire', issued') /\ wire' \in Seq(Frame) /\ wire' # <<>>
      /\ \A i \in DOMAIN wire' :
           \/ i \in DOMAIN wire /\ wire'[i] = wire[i]
           \/ wire'[i].type = "authorize_device" /\ wire'[i].token = n
           \/ i # 1 /\ wire'[i].type = "pair_response"
      /\ 1 \in DOMAIN wire'
      /\ wire # <<>> => 1 \in DOMAIN wire /\ wire'[1] = wire[1]
  <2>1. wire' \in Seq(Frame) /\ Appends(wire, wire', n, d)
    BY <1>2, <1>3, ToldFacts
  <2>2. Ordered(wire', issued')
    BY <1>2, <1>3, <2>1, OrderedTold
  <2>3. wire' # <<>>
    <3>1. 1 \in DOMAIN wire' /\ DOMAIN <<>> = {}
      BY <2>1, AppendedFacts
    <3>. QED
      BY <3>1
  <2>4. /\ \A i \in DOMAIN wire' :
             \/ i \in DOMAIN wire /\ wire'[i] = wire[i]
             \/ wire'[i].type = "authorize_device" /\ wire'[i].token = n
             \/ i # 1 /\ wire'[i].type = "pair_response"
        /\ 1 \in DOMAIN wire'
    BY <2>1, AppendedFacts
  <2>5. wire # <<>> => 1 \in DOMAIN wire /\ wire'[1] = wire[1]
    BY <1>2, <2>1, AppendedFacts
  <2>. QED
    BY <2>1, <2>2, <2>3, <2>4, <2>5
<1>5. AllOrdered'
  BY <1>1, <1>2, <1>4 DEF AllOrdered
<1>6. HeldIsOlder'
  <2>1. \A p \in Phones \ Local : phone[p].token < n
    BY DEF PlacesTyped, PhoneSet, Issues
  <2>. QED
    BY <1>4, <2>1 DEF TrunkInv, HeldIsOlder, Issues
<1>7. OldIsOlder'
  <2>1. \A k \in DOMAIN old : \A i \in DOMAIN old[k] :
          Tells(old[k][i]) => old[k][i].token < n
    <3>1. \A k \in DOMAIN old : \A i \in DOMAIN old[k] :
            Tells(old[k][i]) => old[k][i].token \in 1..(n - 1)
      BY <1>2, <1>3 DEF Ordered, TellsAreIssued
    <3>. QED
      BY <1>3, <3>1
  <2>. QED
    BY <1>4, <2>1 DEF TrunkInv, OldIsOlder
<1>8. wire = <<>> => wire'[1].type = "authorize_device"
  <2>1. wire = <<>> => DOMAIN wire = {}
    OBVIOUS
  <2>. QED
    BY <1>4, <2>1
<1>9. (ListIsNext' <=> ListIsNext) /\ (ListIsNext => wire'[1] = wire[1])
  BY <1>4, <1>8 DEF ListIsNext
<1>10. ListKnows'
  BY <1>1, <1>9 DEF TrunkInv, ListKnows
<1>11. ASSUME NEW t, Near(t)' PROVE Near(t) /\ t # n
  <2>1. ASSUME NEW s, Ordered(s, issued), s \in Seq(Frame), Answers(s, t)
        PROVE  t # n
    <3>1. 1 \in DOMAIN s
      BY <2>1, TailFacts DEF Answers
    <3>2. t \in 1..(n - 1)
      BY <1>3, <2>1, <3>1 DEF Answers, Ordered, TellsAreIssued, Tells
    <3>. QED
      BY <1>3, <3>2
  <2>2. Answers(wire, t)' => Answers(wire, t)
    BY <1>4, <1>8 DEF Answers
  <2>3. Near(t)
    BY <1>1, <1>11, <2>2 DEF Near, Answers
  <2>. QED
    BY <1>1, <1>2, <2>1, <2>3 DEF Near
<1>12. \A x, t : Known(x, t) => Known(x, t)'
  BY <1>4, <1>9 DEF Known
<1>13. RelayKnows'
  BY <1>1, <1>11, <1>12 DEF TrunkInv, RelayKnows
<1>. QED
  BY <1>4, <1>5, <1>6, <1>7, <1>10, <1>13 DEF TrunkInv

LEMMA RegisterKept ==
  ASSUME IInv, AdmitInv, NEW claim \in claims, Register(claim)
  PROVE  AdmitInv'
<1>. PICK d : d = DeviceOf[claim.phone]
  OBVIOUS
<1>. PICK n : n = Len(issued) + 1
  OBVIOUS
<1>. PICK e : e = [code |-> claim.code, device |-> d]
  OBVIOUS
<1>1. /\ claim.phone \in Phones /\ claim.code \in Codes /\ d \in Devices
      /\ issued \in Seq([code : Codes, device : Devices])
      /\ e \in [code : Codes, device : Devices] /\ e.device = d
  BY PairingAssumption DEF IInv, CodeInv, Typed
<1>2. /\ registry' = [registry EXCEPT ![d] = Good(n)] /\ disk' = registry'
      /\ issued' = Append(issued, e) /\ dropped' = dropped \ {d}
      /\ UNCHANGED <<menu, trunk, relay, old, stale>>
  BY DEF Register, RegisterDevice, Good
<1>3. /\ Len(issued) \in Nat /\ n \in Nat /\ DOMAIN issued = 1..Len(issued)
      /\ DOMAIN issued' = 1..(Len(issued) + 1) /\ Len(issued') = n
      /\ \A i \in DOMAIN issued : issued'[i] = issued[i]
      /\ issued'[n] = e
  BY <1>1, <1>2, AppendProperties, LenProperties
<1>4. \A x, t : Latest(x, t)' <=> IF x = d THEN t = Len(issued) + 1
                                  ELSE Latest(x, t)
  BY <1>1, <1>2, LatestGrows
<1>5. PlacesTyped /\ Registered /\ TrunkInv
  BY DEF AdmitInv
<1>6. Good(n) \in Entry
  BY <1>3 DEF Good, Entry
<1>7. registry' \in Registry /\ disk' \in Registry
  BY <1>2, <1>5, <1>6 DEF PlacesTyped, Registry
<1>8. Registered'
  <2>. SUFFICES ASSUME NEW x \in Devices \ dropped', NEW t \in DOMAIN issued',
                       Latest(x, t)'
                PROVE  registry'[x] = Good(t)
    BY <1>2 DEF Registered
  <2>1. CASE x = d
    BY <1>1, <1>2, <1>4, <1>5, <2>1 DEF PlacesTyped, Registry
  <2>2. CASE x # d
    <3>1. Latest(x, t) /\ t \in DOMAIN issued /\ x \in Devices \ dropped
      BY <1>2, <1>4, <2>2 DEF Latest
    <3>2. registry'[x] = registry[x]
      BY <1>2, <1>5, <2>2 DEF PlacesTyped, Registry
    <3>. QED
      BY <1>5, <3>1, <3>2 DEF Registered
  <2>. QED
    BY <2>1, <2>2
<1>9. CASE claim.phone \in Local
  <2>1. /\ wire' = wire
        /\ phone' = [phone EXCEPT ![claim.phone] =
                       IF @.status = "pairing" THEN Holding(n) ELSE @]
    BY <1>9 DEF Register
  <2>2. Holding(n) = [status |-> "idle", token |-> n]
    BY DEF Holding
  <2>3. /\ \A p \in Phones \ Local : phone'[p].token = phone[p].token
        /\ phone' \in PhoneSet
        /\ \A p \in Phones : phone'[p] = phone[p] \/ phone'[p].token = n
    BY <1>1, <1>3, <1>5, <1>9, <2>1, <2>2 DEF PlacesTyped, PhoneSet
  <2>4. PlacesTyped'
    <3>1. \A p \in Phones : phone'[p].token <= n
      BY <1>3, <1>5, <2>3 DEF PlacesTyped, PhoneSet
    <3>. QED
      BY <1>2, <1>3, <1>5, <1>7, <2>1, <2>3, <3>1 DEF PlacesTyped
  <2>5. Issues(d)
    BY <1>1, <1>2, <1>3, <1>4, <2>3 DEF Issues
  <2>6. TrunkInv'
    BY <1>2, <1>5, <2>1, <2>5, TokenUntold
  <2>. QED
    BY <1>8, <2>4, <2>6 DEF AdmitInv
<1>10. CASE claim.phone \notin Local
  <2>1. /\ phone' = phone
        /\ wire' = IF trunk
             THEN wire \o <<[type |-> "authorize_device", device |-> d,
                             token |-> n],
                            [type |-> "pair_response", token |-> n]>>
             ELSE wire
    BY <1>10 DEF Register, Send
  <2>2. Issues(d)
    BY <1>1, <1>2, <1>3, <1>4, <2>1 DEF Issues
  <2>3. TrunkInv' /\ wire' \in Seq(Frame)
    <3>1. CASE trunk
      BY <1>1, <1>2, <1>5, <2>1, <2>2, <3>1, TokenTold
    <3>2. CASE ~trunk
      BY <1>2, <1>5, <2>1, <2>2, <3>2, TokenUntold DEF PlacesTyped
    <3>. QED
      BY <3>1, <3>2
  <2>4. \A p \in Phones : phone'[p].token <= Len(issued')
    BY <1>3, <1>5, <2>1 DEF PlacesTyped, PhoneSet
  <2>. QED
    BY <1>2, <1>5, <1>7, <1>8, <2>1, <2>3, <2>4 DEF AdmitInv, PlacesTyped
<1>. QED
  BY <1>9, <1>10

-----------------------------------------------------------------------------
(* A handler of the relay takes a frame.                                   *)

(* What a phone of the relay has afterwards.                               *)
LEMMA TakenTokens ==
  ASSUME PlacesTyped, NEW m \in Frame, Takes(m)
  PROVE  /\ phone' \in PhoneSet
         /\ \A p \in Phones :
              \/ phone'[p].token = phone[p].token
              \/ /\ p \notin Local /\ m.type = "pair_response"
                 /\ phone'[p].token = m.token
<1>. DEFINE One == [status : {"idle", "pairing", "hello", "connected"},
                    token : Nat]
<1>1. phone \in [Phones -> One] /\ PhoneSet = [Phones -> One]
  BY DEF PlacesTyped, PhoneSet
<1>2. CASE phone' = phone
  BY <1>1, <1>2
<1>3. CASE phone' = [p \in Phones |-> IF p \in Local THEN phone[p] ELSE Took(p, m)]
  <2>1. ASSUME NEW p \in Phones
        PROVE  /\ Took(p, m) \in One
               /\ \/ Took(p, m).token = phone[p].token
                  \/ m.type = "pair_response" /\ Took(p, m).token = m.token
    <3>. PICK q \in One : q = phone[p]
      BY <1>1
    <3>1. CASE phone[p].status = "pairing" /\ m.type = "pair_response"
      <4>1. Took(p, m) = [status |-> "idle", token |-> m.token] /\ m.token \in Nat
        BY <1>1, <3>1, FrameFields DEF Took, Holding
      <4>. QED
        BY <3>1, <4>1
    <3>2. CASE phone[p].status = "pairing" /\ m.type = "error"
      <4>1. Took(p, m) = [q EXCEPT !.status = "idle"]
        BY <3>2 DEF Took, Reset
      <4>. QED
        BY <4>1
    <3>3. CASE phone[p].status = "hello"
      <4>1. \E st \in {"connected", "idle"} : Took(p, m) = [q EXCEPT !.status = st]
        BY <3>3 DEF Took
      <4>. QED
        BY <4>1
    <3>4. CASE /\ ~(phone[p].status = "pairing" /\ m.type = "pair_response")
               /\ ~(phone[p].status = "pairing" /\ m.type = "error")
               /\ ~(phone[p].status = "hello")
      <4>1. Took(p, m) = q
        BY <3>4 DEF Took
      <4>. QED
        BY <4>1
    <3>. QED
      BY <3>1, <3>2, <3>3, <3>4
  <2>2. phone' \in [Phones -> One]
    BY <1>1, <1>3, <2>1
  <2>3. \A p \in Phones : phone'[p] = IF p \in Local THEN phone[p] ELSE Took(p, m)
    BY <1>3
  <2>. QED
    BY <1>1, <2>1, <2>2, <2>3
<1>. QED
  BY <1>1, <1>2, <1>3 DEF Takes

LEMMA TakenRelay ==
  ASSUME PlacesTyped, NEW m \in Frame, Takes(m)
  PROVE  /\ relay' \in RelaySet
         /\ relay'.devices =
              IF m.type = "sync_devices" THEN m.devices
              ELSE IF m.type = "authorize_device"
              THEN [relay.devices EXCEPT ![m.device] = Good(m.token)]
              ELSE relay.devices
<1>1. relay \in RelaySet
  BY DEF PlacesTyped
<1>2. CASE m.type = "sync_devices"
  <2>1. relay' = [relay EXCEPT !.devices = m.devices] /\ m.devices \in Registry
    BY <1>1, <1>2, FrameFields DEF Takes
  <2>. QED
    BY <1>1, <1>2, <2>1 DEF RelaySet
<1>3. CASE m.type = "sync_pairing"
  <2>1. relay' = [relay EXCEPT !.pairing = m.code] /\ m.code \in Nat
    BY <1>1, <1>3, FrameFields DEF Takes
  <2>. QED
    BY <1>1, <1>3, <2>1 DEF RelaySet
<1>4. CASE m.type = "authorize_device"
  <2>1. /\ relay' = [relay EXCEPT !.devices[m.device] = Good(m.token)]
        /\ m.device \in Devices /\ m.token \in Nat
    BY <1>1, <1>4, FrameFields DEF Takes, Good
  <2>2. Good(m.token) \in Entry
    BY <2>1 DEF Good, Entry
  <2>. PICK g \in Entry : g = Good(m.token)
    BY <2>2
  <2>. PICK reg : reg = [relay.devices EXCEPT ![m.device] = g]
    OBVIOUS
  <2>3. reg \in Registry
    BY <1>1, <2>1 DEF Registry, RelaySet
  <2>4. relay' = [relay EXCEPT !.devices = reg]
    BY <2>1
  <2>5. relay'.devices = reg /\ relay' \in RelaySet
    BY <1>1, <2>3, <2>4 DEF RelaySet
  <2>. QED
    BY <1>4, <2>5
<1>5. CASE m.type \notin {"sync_devices", "sync_pairing", "authorize_device"}
  <2>1. relay' = relay
    BY <1>1, <1>5 DEF Takes
  <2>. QED
    BY <1>1, <1>5, <2>1
<1>. QED
  BY <1>2, <1>3, <1>4, <1>5

(* What a handler tells the relay of a device that is not the frame's.     *)
LEMMA TakenOther ==
  ASSUME PlacesTyped, NEW m \in Frame, Takes(m), m.type # "sync_devices",
         NEW d \in Devices, m.type = "authorize_device" => m.device # d
  PROVE  relay'.devices[d] = relay.devices[d]
<1>1. relay.devices \in [Devices -> Entry]
  BY DEF PlacesTyped, RelaySet, Registry
<1>2. CASE m.type = "authorize_device"
  <2>. PICK g : g = Good(m.token)
    OBVIOUS
  <2>1. relay'.devices = [relay.devices EXCEPT ![m.device] = g]
    BY <1>2, TakenRelay
  <2>. QED
    BY <1>1, <1>2, <2>1
<1>3. CASE m.type # "authorize_device"
  BY <1>3, TakenRelay
<1>. QED
  BY <1>2, <1>3

LEMMA TakenOwn ==
  ASSUME PlacesTyped, NEW m \in Frame, Takes(m), m.type = "authorize_device"
  PROVE  relay'.devices[m.device] = Good(m.token)
<1>1. relay.devices \in [Devices -> Entry] /\ m.device \in Devices
  BY FrameFields DEF PlacesTyped, RelaySet, Registry
<1>2. relay'.devices = [relay.devices EXCEPT ![m.device] = Good(m.token)]
  BY TakenRelay
<1>. QED
  BY <1>1, <1>2

(* The last token of a device is not older than one that is told of it.    *)
LEMMA LatestIsLatest ==
  ASSUME NEW d, NEW t, Latest(d, t), NEW s, NEW i \in DOMAIN s,
         Ordered(s, issued), s[i].type = "authorize_device"
  PROVE  /\ s[i].token \in DOMAIN issued
         /\ s[i].device = d => s[i].token <= t
         /\ s[i].token = t => s[i].device = d
BY DEF Latest, Ordered, TellsAreIssued, Tells

(* A frame of the current trunk.                                           *)
LEMMA TakesKept ==
  ASSUME PlacesTyped, TrunkInv, DOMAIN issued \subseteq Nat, RelayTakes
  PROVE  TrunkInv' /\ wire' \in Seq(Frame)
<1>. PICK m : m = Head(wire)
  OBVIOUS
<1>1. /\ Ordered(wire, issued) /\ \A k \in DOMAIN old : Ordered(old[k], issued)
      /\ HeldIsOlder /\ OldIsOlder /\ ListKnows /\ RelayKnows
  BY DEF TrunkInv, AllOrdered
<1>2. /\ wire # <<>> /\ wire' = Tail(wire) /\ Takes(m)
      /\ stale' = CASE m.type = "sync_devices" -> {}
                    [] m.type = "authorize_device" -> stale \ {m.device}
                    [] OTHER -> stale
      /\ UNCHANGED <<issued, dropped, trunk, old>>
  BY DEF RelayTakes
<1>3. wire \in Seq(Frame)
  BY DEF PlacesTyped
<1>4. /\ DOMAIN wire = 1..Len(wire) /\ DOMAIN wire' = 1..(Len(wire) - 1)
      /\ Len(wire) \in Nat \ {0} /\ 1 \in DOMAIN wire
      /\ m = wire[1] /\ m \in Frame /\ wire' \in Seq(Frame)
      /\ \A i \in DOMAIN wire' :
           i \in Nat /\ i + 1 \in DOMAIN wire /\ wire'[i] = wire[i + 1]
      /\ wire' # <<>> => 1 \in DOMAIN wire'
  BY <1>2, <1>3, TailFacts
<1>5. /\ Ordered(wire', issued)
      /\ \A i \in DOMAIN wire' : wire'[i].type # "sync_devices"
      /\ \A t : Answers(wire', t) => m.type = "authorize_device" /\ m.token = t
  BY <1>1, <1>2, <1>3, <1>4, OrderedTail
<1>6. AllOrdered'
  BY <1>1, <1>2, <1>5 DEF AllOrdered
<1>7. \A p \in Phones :
        \/ phone'[p].token = phone[p].token
        \/ m.type = "pair_response" /\ phone'[p].token = m.token
  BY <1>2, <1>4, TakenTokens
<1>8. HeldIsOlder'
  <2>. SUFFICES ASSUME NEW p \in Phones \ Local, NEW i \in DOMAIN wire',
                       wire'[i].type = "authorize_device"
                PROVE  phone'[p].token < wire'[i].token
    BY DEF HeldIsOlder
  <2>1. CASE phone'[p].token = phone[p].token
    BY <1>1, <1>4, <2>1 DEF HeldIsOlder
  <2>2. CASE m.type = "pair_response" /\ phone'[p].token = m.token
    <3>. PICK j : j = i + 1
      OBVIOUS
    <3>1. 1 < j /\ j \in DOMAIN wire /\ wire[j] = wire'[i] /\ Tells(wire[1])
      BY <1>4, <2>2 DEF Tells
    <3>. QED
      BY <1>1, <1>4, <2>2, <3>1 DEF Ordered, TokensGrow
  <2>. QED
    BY <1>7, <2>1, <2>2
<1>9. OldIsOlder'
  BY <1>1, <1>2, <1>4 DEF OldIsOlder
<1>10. ListKnows'
  BY <1>4, <1>5 DEF ListKnows, ListIsNext
<1>11. RelayKnows'
  <2>. SUFFICES ASSUME NEW d \in Devices \ dropped, NEW t \in DOMAIN issued,
                       Latest(d, t), Near(t)'
                PROVE  d \in stale' \/ relay'.devices[d] = Good(t)
    BY <1>2 DEF RelayKnows, Latest, Known
  <2>1. CASE m.type = "sync_devices"
    <3>1. ~Answers(wire', t)
      BY <1>5, <2>1
    <3>2. Held(t)' => Held(t)
      BY <1>7, <2>1 DEF Held
    <3>3. ASSUME NEW k \in DOMAIN old, Answers(old[k], t) PROVE ToldByOld(t)
      <4>1. 1 \in DOMAIN old[k]
        BY <3>3, TailFacts DEF Answers, PlacesTyped
      <4>. QED
        BY <3>3, <4>1 DEF Answers, ToldByOld, Tells
    <3>4. Held(t) \/ ToldByOld(t)
      BY <1>2, <3>1, <3>2, <3>3 DEF Near, Answers
    <3>5. m.devices[d] = Good(t)
      BY <1>1, <1>2, <1>4, <2>1, <3>4 DEF ListKnows, ListIsNext
    <3>. QED
      BY <1>2, <1>4, <2>1, <3>5, TakenRelay
  <2>2. CASE m.type = "authorize_device"
    <3>1. /\ m.token \in DOMAIN issued /\ (m.device = d => m.token <= t)
          /\ (m.token = t => m.device = d)
      BY <1>1, <1>4, <2>2, LatestIsLatest
    <3>2. CASE m.token = t
      BY <1>2, <1>4, <2>2, <3>1, <3>2, TakenOwn
    <3>3. CASE m.token # t
      <4>1. ~Answers(wire', t) /\ ~Answers(wire, t)
        BY <1>4, <1>5, <2>2, <3>3 DEF Answers
      <4>2. Held(t)' => Held(t)
        BY <1>7, <2>2 DEF Held
      <4>3. Held(t) => t < m.token
        BY <1>1, <1>4, <2>2 DEF HeldIsOlder, Held
      <4>4. ASSUME NEW k \in DOMAIN old, Answers(old[k], t) PROVE t < m.token
        <5>1. 1 \in DOMAIN old[k]
          BY <4>4, TailFacts DEF Answers, PlacesTyped
        <5>. QED
          BY <1>1, <1>4, <2>2, <4>4, <5>1 DEF OldIsOlder, Answers, Tells
      <4>5. Near(t) /\ t < m.token
        BY <1>2, <4>1, <4>2, <4>3, <4>4 DEF Near, Answers
      <4>6. m.device # d
        <5>1. t \in Nat
          OBVIOUS
        <5>2. m.token \in Nat
          BY <3>1
        <5>. QED
          BY <3>1, <4>5, <5>1, <5>2
      <4>7. Known(d, t)
        BY <1>1, <4>5 DEF RelayKnows
      <4>8. d \in stale \/ relay.devices[d] = Good(t)
        BY <1>2, <1>4, <2>2, <4>7 DEF Known, ListIsNext
      <4>9. relay'.devices[d] = relay.devices[d]
        BY <1>2, <1>4, <2>2, <4>6, TakenOther
      <4>. QED
        BY <1>2, <2>2, <4>6, <4>8, <4>9
    <3>. QED
      BY <3>2, <3>3
  <2>3. CASE m.type \notin {"sync_devices", "authorize_device"}
    <3>1. ~Answers(wire', t)
      BY <1>5, <2>3
    <3>2. Held(t)' => Held(t) \/ Answers(wire, t)
      BY <1>2, <1>4, <1>7 DEF Held, Answers
    <3>3. Near(t)
      BY <1>2, <3>1, <3>2 DEF Near, Answers
    <3>4. d \in stale \/ relay.devices[d] = Good(t)
      BY <1>1, <1>2, <1>4, <2>3, <3>3 DEF RelayKnows, Known, ListIsNext
    <3>5. relay'.devices[d] = relay.devices[d]
      BY <1>2, <1>4, <2>3, TakenOther
    <3>. QED
      BY <1>2, <2>3, <3>4, <3>5
  <2>. QED
    BY <2>1, <2>2, <2>3
<1>. QED
  BY <1>4, <1>6, <1>8, <1>9, <1>10, <1>11 DEF TrunkInv

(* A frame of an earlier trunk: a phone may take the token it answers, and *)
(* the devices it speaks of are stale.                                     *)
LEMMA OldTakesKept ==
  ASSUME PlacesTyped, TrunkInv, NEW k \in DOMAIN old, OldTakes(k)
  PROVE  TrunkInv' /\ old' \in Seq(Seq(Frame))
<1>. PICK m : m = Head(old[k])
  OBVIOUS
<1>. PICK s : s = old[k]
  OBVIOUS
<1>1. /\ Ordered(wire, issued) /\ \A j \in DOMAIN old : Ordered(old[j], issued)
      /\ HeldIsOlder /\ OldIsOlder /\ ListKnows /\ RelayKnows
  BY DEF TrunkInv, AllOrdered
<1>2. /\ s # <<>> /\ old' = [old EXCEPT ![k] = Tail(s)] /\ Takes(m) /\ m = Head(s)
      /\ stale' = CASE m.type = "sync_devices" -> Devices
                    [] m.type = "authorize_device" ->
                         IF relay.devices = Nobody THEN Devices
                         ELSE stale \cup {m.device}
                    [] OTHER -> stale
      /\ UNCHANGED <<issued, dropped, trunk, wire>>
  BY DEF OldTakes
<1>3. s \in Seq(Frame) /\ old \in Seq(Seq(Frame)) /\ Ordered(s, issued)
  BY <1>1 DEF PlacesTyped
<1>4. /\ 1 \in DOMAIN s /\ m = s[1] /\ m \in Frame /\ Tail(s) \in Seq(Frame)
      /\ \A i \in DOMAIN Tail(s) : i + 1 \in DOMAIN s /\ Tail(s)[i] = s[i + 1]
  BY <1>2, <1>3, TailFacts
<1>5. /\ Ordered(Tail(s), issued)
      /\ \A t : Answers(Tail(s), t) => m.type = "authorize_device" /\ m.token = t
  BY <1>2, <1>3, <1>4, OrderedTail
<1>6. /\ old' \in Seq(Seq(Frame)) /\ DOMAIN old' = DOMAIN old
      /\ \A j \in DOMAIN old : old'[j] = IF j = k THEN Tail(s) ELSE old[j]
  <2>. PICK S : S = Seq(Frame)
    OBVIOUS
  <2>. PICK r : r = Tail(s)
    OBVIOUS
  <2>1. old \in Seq(S) /\ r \in S /\ old' = [old EXCEPT ![k] = r]
    BY <1>2, <1>3, <1>4
  <2>2. DOMAIN old = 1..Len(old)
    BY <2>1, LenProperties
  <2>3. /\ old' \in Seq(S) /\ Len(old') = Len(old)
        /\ \A j \in 1..Len(old) : old'[j] = IF j = k THEN r ELSE old[j]
    BY <2>1, <2>2, ExceptSeq
  <2>4. DOMAIN old' = 1..Len(old')
    BY <2>3, LenProperties
  <2>. QED
    BY <2>2, <2>3, <2>4
<1>7. \A p \in Phones :
        \/ phone'[p].token = phone[p].token
        \/ m.type = "pair_response" /\ phone'[p].token = m.token
  BY <1>2, <1>4, TakenTokens
<1>8. AllOrdered'
  BY <1>1, <1>2, <1>5, <1>6 DEF AllOrdered
<1>9. HeldIsOlder'
  <2>1. \A i \in DOMAIN wire :
          m.type = "pair_response" /\ wire[i].type = "authorize_device"
            => m.token < wire[i].token
    BY <1>1, <1>4 DEF OldIsOlder, Tells
  <2>. QED
    BY <1>1, <1>2, <1>7, <2>1 DEF HeldIsOlder
<1>10. ASSUME NEW j \in DOMAIN old, NEW i \in DOMAIN old'[j]
       PROVE  \E h \in DOMAIN old[j] : old'[j][i] = old[j][h]
  <2>1. CASE j = k
    <3>1. i + 1 \in DOMAIN old[j] /\ old'[j][i] = old[j][i + 1]
      BY <1>4, <1>6, <2>1
    <3>. QED
      BY <3>1
  <2>2. CASE j # k
    BY <1>6, <2>2
  <2>. QED
    BY <2>1, <2>2
<1>11. OldIsOlder'
  <2>1. ASSUME NEW j \in DOMAIN old, NEW i \in DOMAIN old'[j],
               NEW l \in DOMAIN wire, Tells(old'[j][i]),
               wire[l].type = "authorize_device"
        PROVE  old'[j][i].token < wire[l].token
    <3>. PICK h \in DOMAIN old[j] : old'[j][i] = old[j][h]
      BY <1>10
    <3>. QED
      BY <1>1, <2>1 DEF OldIsOlder
  <2>. QED
    BY <1>2, <1>6, <2>1 DEF OldIsOlder, Tells
<1>12. \A t : Held(t)' =>
              Held(t) \/ (m.type = "pair_response" /\ m.token = t)
  <2>. SUFFICES ASSUME NEW t, NEW p \in Phones \ Local, phone'[p].token = t
                PROVE  Held(t) \/ (m.type = "pair_response" /\ m.token = t)
    BY DEF Held
  <2>1. phone[p].token = t \/ (m.type = "pair_response" /\ m.token = t)
    BY <1>7
  <2>2. phone[p].token = t => Held(t)
    BY DEF Held
  <2>. QED
    BY <2>1, <2>2
<1>13. \A t : ToldByOld(t)' => ToldByOld(t)
  <2>1. ASSUME NEW t, NEW j \in DOMAIN old, NEW i \in DOMAIN old'[j],
               Tells(old'[j][i]), old'[j][i].token = t
        PROVE  ToldByOld(t)
    <3>. PICK h \in DOMAIN old[j] : old'[j][i] = old[j][h]
      BY <1>10
    <3>. QED
      BY <2>1 DEF ToldByOld
  <2>. QED
    BY <1>6, <2>1 DEF ToldByOld, Tells
<1>14. ListKnows'
  <2>1. \A t : Held(t)' \/ ToldByOld(t)' => Held(t) \/ ToldByOld(t)
    <3>1. ASSUME NEW t, m.type = "pair_response" /\ m.token = t PROVE ToldByOld(t)
      BY <1>4, <3>1 DEF ToldByOld, Tells
    <3>. QED
      BY <1>12, <1>13, <3>1
  <2>2. (ListIsNext' <=> ListIsNext) /\ \A d, t : Latest(d, t)' <=> Latest(d, t)
    BY <1>2 DEF ListIsNext, Latest
  <2>. QED
    BY <1>1, <1>2, <2>1, <2>2 DEF ListKnows
<1>15. ASSUME NEW t, Near(t)', ~(m.type = "authorize_device" /\ m.token = t)
       PROVE  Near(t)
  <2>1. CASE Held(t)'
    <3>1. m.type = "pair_response" /\ m.token = t => Answers(old[k], t)
      BY <1>2, <1>4 DEF Answers
    <3>. QED
      BY <1>12, <2>1, <3>1 DEF Near
  <2>2. CASE Answers(wire, t)'
    BY <1>2, <2>2 DEF Near, Answers
  <2>3. ASSUME NEW j \in DOMAIN old, Answers(old'[j], t) PROVE Near(t)
    <3>1. j # k /\ old'[j] = old[j]
      BY <1>5, <1>6, <1>15, <2>3
    <3>. QED
      BY <2>3, <3>1 DEF Near
  <2>. QED
    BY <1>6, <1>15, <2>1, <2>2, <2>3 DEF Near, Answers
<1>16. RelayKnows'
  <2>. SUFFICES ASSUME NEW d \in Devices \ dropped, NEW t \in DOMAIN issued,
                       Latest(d, t), Near(t)'
                PROVE  Known(d, t)'
    BY <1>2 DEF RelayKnows, Latest
  <2>1. CASE m.type = "sync_devices"
    BY <1>2, <2>1 DEF Known
  <2>2. CASE m.type = "authorize_device"
    <3>1. m.token = t => m.device = d
      BY <1>3, <1>4, <2>2, LatestIsLatest
    <3>2. CASE relay.devices = Nobody \/ m.device = d
      BY <1>2, <2>2, <3>2 DEF Known
    <3>3. CASE relay.devices # Nobody /\ m.device # d
      <4>1. Known(d, t)
        BY <1>1, <1>15, <3>1, <3>3 DEF RelayKnows
      <4>2. d \in stale \/ relay.devices[d] = Good(t)
        BY <3>3, <4>1 DEF Known
      <4>3. relay'.devices[d] = relay.devices[d]
        BY <1>2, <1>4, <2>2, <3>3, TakenOther
      <4>4. d \in stale => d \in stale'
        BY <1>2, <2>2
      <4>. QED
        BY <4>2, <4>3, <4>4 DEF Known
    <3>. QED
      BY <3>2, <3>3
  <2>3. CASE m.type \notin {"sync_devices", "authorize_device"}
    <3>1. Known(d, t)
      BY <1>1, <1>15, <2>3 DEF RelayKnows
    <3>2. relay'.devices = relay.devices /\ stale' = stale
      BY <1>2, <1>4, <2>3, TakenRelay
    <3>. QED
      BY <1>2, <3>1, <3>2 DEF Known, ListIsNext
  <2>. QED
    BY <2>1, <2>2, <2>3
<1>. QED
  BY <1>6, <1>8, <1>9, <1>11, <1>14, <1>16 DEF TrunkInv

-----------------------------------------------------------------------------
(* The steps that tell the relay and the registry nothing.                 *)
LEMMA StillKept ==
  ASSUME AdmitInv, UNCHANGED <<registry, wire, old, issued, stale>>,
         trunk' = trunk \/ trunk' = FALSE, SameTokens, phone' \in PhoneSet,
         relay' \in RelaySet, relay'.devices = relay.devices,
         disk' \in Registry, menu' # Closed => menu' \in Registry,
         dropped \subseteq dropped',
         \A d \in Devices \ dropped' : disk'[d] = disk[d]
  PROVE  AdmitInv'
<1>1. PlacesTyped'
  <2>1. trunk' \in BOOLEAN
    BY DEF AdmitInv, PlacesTyped
  <2>2. \A p \in Phones : phone'[p].token <= Len(issued')
    BY DEF AdmitInv, PlacesTyped, SameTokens
  <2>. QED
    BY <2>1, <2>2 DEF AdmitInv, PlacesTyped
<1>2. Registered'
  BY RegistryKept DEF AdmitInv
<1>3. TrunkInv'
  BY TrunkKept DEF AdmitInv
<1>. QED
  BY <1>1, <1>2, <1>3 DEF AdmitInv

(* Phones change their status and keep their token.                        *)
LEMMA StatusOnly ==
  ASSUME PlacesTyped, NEW P \in SUBSET Phones,
         NEW st \in {"idle", "pairing", "hello", "connected"},
         phone' = [p \in Phones |-> IF p \in P THEN [phone[p] EXCEPT !.status = st]
                                   ELSE phone[p]]
  PROVE  SameTokens /\ phone' \in PhoneSet
<1>. DEFINE One == [status : {"idle", "pairing", "hello", "connected"},
                    token : Nat]
<1>1. ASSUME NEW p \in Phones
      PROVE  phone'[p] \in One /\ phone'[p].token = phone[p].token
  <2>. PICK q \in One : q = phone[p]
    BY DEF PlacesTyped, PhoneSet
  <2>1. CASE p \in P
    <3>1. phone'[p] = [q EXCEPT !.status = st]
      BY <2>1
    <3>. QED
      BY <3>1
  <2>2. CASE p \notin P
    BY <2>2
  <2>. QED
    BY <2>1, <2>2
<1>. QED
  BY <1>1 DEF SameTokens, PhoneSet

LEMMA OneStatus ==
  ASSUME PlacesTyped, NEW p \in Phones,
         NEW st \in {"idle", "pairing", "hello", "connected"},
         phone' = [phone EXCEPT ![p].status = st]
  PROVE  SameTokens /\ phone' \in PhoneSet
<1>1. phone' = [q \in Phones |-> IF q \in {p} THEN [phone[q] EXCEPT !.status = st]
                                ELSE phone[q]]
  BY DEF PlacesTyped, PhoneSet
<1>2. {p} \in SUBSET Phones
  OBVIOUS
<1>. QED
  BY <1>1, <1>2, StatusOnly

LEMMA AdmitInitially == Init => AdmitInv
<1>. SUFFICES ASSUME Init PROVE AdmitInv
  OBVIOUS
<1>1. /\ registry = Nobody /\ disk = Nobody /\ menu = Closed /\ trunk = FALSE
      /\ wire = <<>> /\ old = <<>> /\ issued = <<>> /\ Len(issued) = 0
      /\ DOMAIN wire = {} /\ DOMAIN old = {} /\ DOMAIN issued = {}
  BY DEF Init
<1>2. relay = [host |-> FALSE, pairing |-> 0, devices |-> Nobody]
  BY DEF Init, NewRelay
<1>3. \A p \in Phones : phone[p] = [status |-> "idle", token |-> 0]
  BY DEF Init, NewPhone
<1>4. phone \in PhoneSet
  BY <1>3 DEF Init, PhoneSet
<1>5. relay \in RelaySet
  BY <1>2, NobodyTyped DEF RelaySet
<1>6. wire \in Seq(Frame) /\ old \in Seq(Seq(Frame))
  BY <1>1
<1>7. PlacesTyped
  <2>1. trunk \in BOOLEAN
    BY <1>1
  <2>2. \A p \in Phones : phone[p].token <= Len(issued)
    BY <1>1, <1>3
  <2>3. registry \in Registry /\ disk \in Registry /\ menu = Closed
    BY <1>1, NobodyTyped
  <2>. QED
    BY <1>4, <1>5, <1>6, <2>1, <2>2, <2>3 DEF PlacesTyped
<1>8. \A d, t : ~Latest(d, t)
  BY <1>1 DEF Latest
<1>9. Registered
  BY <1>8 DEF Registered
<1>10. AllOrdered
  BY <1>1, OrderedEmpty DEF AllOrdered
<1>11. HeldIsOlder /\ OldIsOlder
  BY <1>1 DEF HeldIsOlder, OldIsOlder
<1>12. ListKnows /\ RelayKnows
  BY <1>8 DEF ListKnows, RelayKnows
<1>. QED
  BY <1>7, <1>9, <1>10, <1>11, <1>12 DEF AdmitInv, TrunkInv

(* A token that a trunk tells of has been given.                           *)
LEMMA TokensGiven ==
  ASSUME IInv, PlacesTyped, NEW s \in Seq(Frame), s # <<>>, Ordered(s, issued),
         Takes(Head(s))
  PROVE  phone' \in PhoneSet /\ \A p \in Phones : phone'[p].token <= Len(issued)
<1>. PICK m : m = Head(s)
  OBVIOUS
<1>1. 1 \in DOMAIN s /\ m = s[1] /\ m \in Frame /\ Takes(m)
  BY TailFacts
<1>2. /\ phone' \in PhoneSet
      /\ \A p \in Phones : \/ phone'[p].token = phone[p].token
                           \/ /\ m.type = "pair_response"
                              /\ phone'[p].token = m.token
  BY <1>1, TakenTokens
<1>3. m.type = "pair_response" => m.token \in DOMAIN issued
  BY <1>1 DEF Ordered, TellsAreIssued, Tells
<1>4. DOMAIN issued = 1..Len(issued) /\ Len(issued) \in Nat
  BY LenProperties DEF IInv, CodeInv, Typed
<1>5. m.type = "pair_response" => m.token <= Len(issued)
  BY <1>3, <1>4
<1>6. \A p \in Phones : phone[p].token <= Len(issued)
  BY DEF PlacesTyped
<1>. QED
  BY <1>2, <1>5, <1>6

LEMMA AdmitInductive == IInv /\ AdmitInv /\ [Next]_vars => AdmitInv'
<1>. SUFFICES ASSUME IInv, AdmitInv, [Next]_vars PROVE AdmitInv'
  OBVIOUS
<1>. USE DEF files, daemon, link, bounds, history
<1>0. /\ PlacesTyped /\ Registered /\ TrunkInv
      /\ phone \in PhoneSet /\ relay \in RelaySet /\ disk \in Registry
      /\ registry \in Registry /\ (menu # Closed => menu \in Registry)
  BY DEF AdmitInv, PlacesTyped
<1>1. ASSUME UNCHANGED <<registry, disk, wire, old, trunk, relay, issued, dropped,
                         stale>>,
             menu' # Closed => menu' \in Registry, SameTokens, phone' \in PhoneSet
      PROVE  AdmitInv'
  BY <1>0, <1>1, StillKept
<1>2. ASSUME UNCHANGED <<registry, disk, menu, wire, old, trunk, relay, phone,
                         issued, dropped, stale>>
      PROVE  AdmitInv'
  BY <1>0, <1>1, <1>2 DEF SameTokens
<1>3. CASE UNCHANGED vars
  BY <1>2, <1>3 DEF vars
<1>4. CASE CreateSession \/ Expire \/ \E c \in waiting : PairFlowEnds(c)
  BY <1>2, <1>4 DEF CreateSession, Expire, PairFlowEnds
<1>5. CASE MenuOpens \/ MenuCloses
  BY <1>0, <1>1, <1>5 DEF MenuOpens, MenuCloses, SameTokens
<1>6. ASSUME NEW d \in Devices, MenuForgets(d) PROVE AdmitInv'
  <2>1. menu \in Registry
    BY <1>0, <1>6 DEF MenuForgets
  <2>2. Revoke(menu, d) \in Registry /\ Remove(menu, d) \in Registry
    <3>. PICK q \in Entry : q = menu[d]
      BY <2>1 DEF Registry
    <3>. PICK r : r = [q EXCEPT !.revoked = TRUE]
      OBVIOUS
    <3>1. r \in Entry
      BY DEF Entry
    <3>2. Revoke(menu, d) = [menu EXCEPT ![d] = r]
      BY DEF Revoke
    <3>. QED
      BY <2>1, <3>1, <3>2, NobodyTyped DEF Remove, Registry
  <2>3. menu' \in Registry
    BY <1>6, <2>2 DEF MenuForgets
  <2>4. disk' \in Registry
    BY <1>6, <2>3, NobodyTyped DEF MenuForgets
  <2>5. /\ dropped' = dropped \cup {x \in Devices : disk'[x] # disk[x]}
        /\ UNCHANGED <<registry, wire, old, trunk, issued, relay, phone, stale>>
    BY <1>6 DEF MenuForgets
  <2>6. \A x \in Devices \ dropped' : disk'[x] = disk[x]
    BY <2>5
  <2>. QED
    BY <1>0, <2>3, <2>4, <2>5, <2>6, StillKept DEF SameTokens
<1>7. CASE TrunkReads
  <2>1. UNCHANGED <<registry, disk, menu, trunk, old, relay, phone, issued,
                    dropped, stale>> /\ trunk
    BY <1>7 DEF TrunkReads
  <2>2. \/ wire' = wire
        \/ \E m \in [type : {"welcome", "error"}] : wire' = wire \o <<m>>
    BY <1>7 DEF TrunkReads, Send
  <2>3. CASE wire' = wire
    BY <1>2, <2>1, <2>3
  <2>4. ASSUME NEW m \in [type : {"welcome", "error"}], wire' = wire \o <<m>>
        PROVE  AdmitInv'
    <3>1. wire \in Seq(Frame) /\ m \in Frame
      BY <1>0 DEF PlacesTyped, Frame
    <3>2. wire' = Append(wire, m)
      BY <2>4, <3>1, AppendIsConcat
    <3>3. TrunkInv' /\ wire' \in Seq(Frame)
      BY <1>0, <2>1, <3>2, SaidKept
    <3>4. Registered'
      BY <1>0, <2>1, RegistryKept
    <3>. QED
      BY <1>0, <2>1, <3>3, <3>4 DEF AdmitInv, PlacesTyped
  <2>. QED
    BY <2>2, <2>3, <2>4
<1>8. CASE TrunkConnects
  <2>1. /\ UNCHANGED <<registry, disk, menu, phone, issued, dropped>>
        /\ trunk' = TRUE /\ relay' = [relay EXCEPT !.host = TRUE]
    BY <1>8 DEF TrunkConnects, Hosted
  <2>2. TrunkInv' /\ wire' \in Seq(Frame) /\ old' \in Seq(Seq(Frame))
    BY <1>8, ConnectsKept DEF IInv
  <2>3. Registered'
    BY <1>0, <2>1, RegistryKept
  <2>4. relay' \in RelaySet
    BY <1>0, <2>1 DEF RelaySet
  <2>. QED
    BY <1>0, <2>1, <2>2, <2>3, <2>4 DEF AdmitInv, PlacesTyped
<1>9. CASE TrunkBreaks
  <2>1. /\ UNCHANGED <<registry, disk, menu, phone, relay, wire, old, issued,
                       dropped, stale>>
        /\ trunk' = FALSE
    BY <1>9 DEF TrunkBreaks, Cut
  <2>. QED
    BY <1>0, <2>1, StillKept DEF SameTokens
<1>10. Hung = [p \in Phones |-> IF p \in Phones \ Local
                                THEN [phone[p] EXCEPT !.status = "idle"]
                                ELSE phone[p]]
  BY DEF Hung, Reset
<1>11. phone' = Hung => SameTokens /\ phone' \in PhoneSet
  BY <1>0, <1>10, StatusOnly
<1>12. ASSUME UNCHANGED <<registry, disk, menu, issued, dropped>>, phone' = Hung,
              trunk' = FALSE, wire' = <<>>, relay' \in RelaySet,
              \/ old' = old /\ stale' = stale /\ relay'.devices = relay.devices
              \/ old' = <<>> /\ relay'.devices = Nobody
       PROVE  AdmitInv'
  <2>1. SameTokens /\ phone' \in PhoneSet
    BY <1>11, <1>12
  <2>2. TrunkInv'
    BY <1>0, <1>12, <2>1, DownKept
  <2>3. Registered'
    BY <1>0, <1>12, RegistryKept
  <2>4. wire' \in Seq(Frame) /\ old' \in Seq(Seq(Frame))
    <3>1. old \in Seq(Seq(Frame))
      BY <1>0 DEF PlacesTyped
    <3>2. <<>> \in Seq(Frame) /\ <<>> \in Seq(Seq(Frame))
      OBVIOUS
    <3>. QED
      BY <1>12, <3>1, <3>2
  <2>5. trunk' \in BOOLEAN
    BY <1>12
  <2>6. \A p \in Phones : phone'[p].token <= Len(issued')
    BY <1>0, <1>12, <2>1 DEF PlacesTyped, SameTokens
  <2>. QED
    BY <1>0, <1>12, <2>1, <2>2, <2>3, <2>4, <2>5, <2>6 DEF AdmitInv, PlacesTyped
<1>13. CASE RelayRestarts
  <2>1. NewRelay \in RelaySet /\ NewRelay.devices = Nobody
    BY NobodyTyped DEF NewRelay, RelaySet
  <2>. QED
    BY <1>12, <1>13, <2>1 DEF RelayRestarts
<1>14. CASE RelayNotices
  <2>1. relay' = [relay EXCEPT !.host = FALSE] /\ phone' = Hung
    BY <1>14 DEF RelayNotices
  <2>2. relay' \in RelaySet /\ relay'.devices = relay.devices
    BY <1>0, <2>1 DEF RelaySet
  <2>3. trunk' = FALSE
    BY <1>0, <1>14 DEF RelayNotices, PlacesTyped
  <2>. QED
    BY <1>12, <1>14, <2>1, <2>2, <2>3 DEF RelayNotices
<1>15. CASE DaemonRestarts
  <2>1. phone' = [p \in Phones |-> IF p \in Local \cap Phones
                                  THEN [phone[p] EXCEPT !.status = "idle"]
                                  ELSE phone[p]]
    BY <1>15 DEF DaemonRestarts, Reset
  <2>2. SameTokens /\ phone' \in PhoneSet
    BY <1>0, <2>1, StatusOnly
  <2>3. /\ UNCHANGED <<menu, relay, wire, old, issued, stale>> /\ trunk' = FALSE
        /\ disk' \in {disk, Nobody} /\ registry' \in {disk', Nobody}
        /\ dropped' = dropped \cup
             {x \in Devices : disk'[x] # disk[x] \/ registry'[x] # disk[x]}
    BY <1>15 DEF DaemonRestarts, Cut
  <2>4. disk' \in Registry /\ registry' \in Registry
    BY <1>0, <2>3, NobodyTyped
  <2>5. \A x \in Devices \ dropped' : disk'[x] = disk[x] /\ registry'[x] = disk[x]
    BY <2>3
  <2>6. Registered'
    BY <1>0, <2>3, <2>5 DEF Registered, Latest
  <2>7. TrunkInv'
    BY <1>0, <2>2, <2>3, TrunkKept
  <2>8. \A p \in Phones : phone'[p].token <= Len(issued')
    BY <1>0, <2>2, <2>3 DEF PlacesTyped, SameTokens
  <2>9. trunk' \in BOOLEAN
    BY <2>3
  <2>. QED
    BY <1>0, <2>2, <2>3, <2>4, <2>6, <2>7, <2>8, <2>9 DEF AdmitInv, PlacesTyped
<1>16. CASE RelayTakes
  <2>1. /\ UNCHANGED <<registry, disk, menu, trunk, old, issued, dropped>>
        /\ wire # <<>> /\ Takes(Head(wire))
    BY <1>16 DEF RelayTakes
  <2>2. DOMAIN issued \subseteq Nat
    BY LenProperties DEF IInv, CodeInv, Typed
  <2>3. TrunkInv' /\ wire' \in Seq(Frame)
    BY <1>0, <1>16, <2>2, TakesKept
  <2>4. Registered'
    BY <1>0, <2>1, RegistryKept
  <2>5. wire \in Seq(Frame) /\ Ordered(wire, issued)
    BY <1>0 DEF PlacesTyped, TrunkInv, AllOrdered
  <2>6. phone' \in PhoneSet /\ \A p \in Phones : phone'[p].token <= Len(issued)
    BY <1>0, <2>1, <2>5, TokensGiven
  <2>7. relay' \in RelaySet
    BY <1>0, <2>1, <2>5, TailFacts, TakenRelay
  <2>. QED
    BY <1>0, <2>1, <2>3, <2>4, <2>6, <2>7 DEF AdmitInv, PlacesTyped
<1>17. ASSUME NEW k \in DOMAIN old, OldTakes(k) PROVE AdmitInv'
  <2>. PICK s : s = old[k]
    OBVIOUS
  <2>1. /\ UNCHANGED <<registry, disk, menu, trunk, wire, issued, dropped>>
        /\ s # <<>> /\ Takes(Head(s))
    BY <1>17 DEF OldTakes
  <2>2. TrunkInv' /\ old' \in Seq(Seq(Frame))
    BY <1>0, <1>17, OldTakesKept
  <2>3. Registered'
    BY <1>0, <2>1, RegistryKept
  <2>4. s \in Seq(Frame) /\ Ordered(s, issued)
    BY <1>0 DEF PlacesTyped, TrunkInv, AllOrdered
  <2>5. phone' \in PhoneSet /\ \A p \in Phones : phone'[p].token <= Len(issued)
    BY <1>0, <2>1, <2>4, TokensGiven
  <2>6. relay' \in RelaySet
    BY <1>0, <2>1, <2>4, TailFacts, TakenRelay
  <2>. QED
    BY <1>0, <2>1, <2>2, <2>3, <2>5, <2>6 DEF AdmitInv, PlacesTyped
<1>18. ASSUME NEW claim \in claims, Register(claim) PROVE AdmitInv'
  BY <1>18, RegisterKept
<1>19. ASSUME NEW p \in Phones, PhoneConnects(p) PROVE AdmitInv'
  <2>1. SameTokens /\ phone' \in PhoneSet
    BY <1>0, <1>19, OneStatus DEF PhoneConnects
  <2>. QED
    BY <1>0, <1>1, <1>19, <2>1 DEF PhoneConnects
<1>20. ASSUME NEW p \in Phones, PhoneLeaves(p) PROVE AdmitInv'
  <2>1. phone' = [phone EXCEPT ![p].status = "idle"]
    BY <1>0, <1>20 DEF PhoneLeaves, Reset, PhoneSet
  <2>2. SameTokens /\ phone' \in PhoneSet
    BY <1>0, <2>1, OneStatus
  <2>. QED
    BY <1>0, <1>1, <1>20, <2>2 DEF PhoneLeaves
<1>21. ASSUME NEW p \in Phones, NEW c \in Codes, PhonePairs(p, c) PROVE AdmitInv'
  <2>1. SameTokens /\ phone' \in PhoneSet
    BY <1>0, <1>21, OneStatus DEF PhonePairs
  <2>. QED
    BY <1>0, <1>1, <1>21, <2>1 DEF PhonePairs
<1>22. ASSUME NEW p \in Phones, NEW c \in Codes, LocalPairs(p, c) PROVE AdmitInv'
  <2>1. phone' = phone \/ phone' = [phone EXCEPT ![p].status = "pairing"]
    BY <1>22 DEF LocalPairs
  <2>2. SameTokens /\ phone' \in PhoneSet
    BY <1>0, <2>1, OneStatus DEF SameTokens
  <2>. QED
    BY <1>0, <1>1, <1>22, <2>2 DEF LocalPairs
<1>. QED
  BY <1>3, <1>4, <1>5, <1>6, <1>7, <1>8, <1>9, <1>13, <1>14, <1>15, <1>16,
     <1>17, <1>18, <1>19, <1>20, <1>21, <1>22 DEF Next

(* PairedLetIn: a phone with the last token of its device is let in by the *)
(* daemon, and by the relay too unless a frame of an earlier trunk reached *)
(* it after the last of the current one that tells of the device, whatever *)
(* restarted, broke or got lost since it paired (connection.rs,            *)
(* PairRequest; lib.rs 456-516).                                           *)
THEOREM PairedLetIn == Spec => []PairedIsAdmitted
<1>1. IInv /\ AdmitInv => PairedIsAdmitted
  <2>. SUFFICES ASSUME IInv, AdmitInv, NEW p \in Phones,
                       Latest(DeviceOf[p], phone[p].token),
                       DeviceOf[p] \notin dropped
                PROVE  /\ Authorized(DeviceOf[p], phone[p].token)
                       /\ p \notin Local =>
                            \/ Admitted(DeviceOf[p], phone[p].token)
                            \/ DeviceOf[p] \in stale
    BY DEF PairedIsAdmitted
  <2>1. registry[DeviceOf[p]] = Good(phone[p].token)
    BY PairingAssumption DEF AdmitInv, Registered, Latest
  <2>2. Authorized(DeviceOf[p], phone[p].token)
    BY <2>1 DEF Authorized, Good
  <2>3. Good(phone[p].token) # NoEntry
    <3>1. phone[p].token # 0
      BY LenProperties DEF IInv, CodeInv, Typed, Latest
    <3>. QED
      BY <3>1 DEF Good, NoEntry
  <2>4. ASSUME p \notin Local
        PROVE  Admitted(DeviceOf[p], phone[p].token) \/ DeviceOf[p] \in stale
    <3>1. Near(phone[p].token)
      BY <2>4 DEF Near, Held
    <3>2. DeviceOf[p] \in Devices \ dropped /\ phone[p].token \in DOMAIN issued
      BY PairingAssumption DEF Latest
    <3>3. Known(DeviceOf[p], phone[p].token)
      BY <3>1, <3>2 DEF AdmitInv, TrunkInv, RelayKnows
    <3>4. Nobody[DeviceOf[p]] = NoEntry
      BY PairingAssumption DEF Nobody
    <3>5. CASE relay.devices = Nobody
      BY <3>4, <3>5 DEF Admitted
    <3>6. CASE relay.devices[DeviceOf[p]] = Good(phone[p].token)
      BY <2>3, <3>6 DEF Admitted, Good, NoEntry
    <3>. QED
      BY <3>3, <3>5, <3>6 DEF Known
  <2>. QED
    BY <2>2, <2>4
<1>. QED
  BY <1>1, Initially, Inductive, AdmitInitially, AdmitInductive, PTL DEF Spec

=============================================================================
