----------------------- MODULE TerminalInterface_proofs ------------------------
(***************************************************************************)
(* Theorems about the terminal interface, for every number of dialogs,     *)
(* events and messages: decisions are typed once for each way they take,   *)
(* a dialog is announced once and once more for each prompt over it, the   *)
(* list of the interface follows the queue of the core, and a dialog left  *)
(* on the screen can still be answered.                                    *)
(*                                                                         *)
(* The argument: a step of the interface that runs the core is a step of   *)
(* CoreTask, so the invariants of the core and what its messages lead to   *)
(* (Leads) are used as they are.  CoreTells says of each handler of the    *)
(* core what the interface needs: one decision at most among the messages, *)
(* the event last, and everything that changes an entry such that the sink *)
(* takes it.                                                               *)
(*                                                                         *)
(* Decisions and announcements are counted.  Of a decision, the copies     *)
(* left to type are at least the messages that are still to be handled; of *)
(* a dialog, the requests and reports are as many as the machine has been  *)
(* led into it, where a dialog the machine has yet to enter keeps one in   *)
(* reserve (Budget).                                                       *)
(*                                                                         *)
(* The view is that of some earlier queue, and the messages in the channel *)
(* lead from that queue to the present one.                                *)
(*                                                                         *)
(* A request in delivery is in hand: its decision waits in a channel, or   *)
(* what became of it among the letters to the core.  The last letter about *)
(* the screen, or the last event, tells the dialog the machine is in.      *)
(***************************************************************************)
EXTENDS TerminalInterface, CoreTask_proofs

-----------------------------------------------------------------------------
(* Counting places in a sequence.                                          *)
IsSeq(s) == \E S : s \in Seq(S)

(* Prolonged, Shortened, Joined: what a sequence has of something, after an*)
(* element more, without its head, and followed by another.                *)
LEMMA Prolonged ==
  ASSUME NEW n \in Nat, NEW P \in SUBSET (1..n), NEW R,
         R = P \/ R = P \cup {n + 1}
  PROVE  /\ Cardinality(P) \in Nat
         /\ R = P => Cardinality(R) = Cardinality(P)
         /\ R = P \cup {n + 1} => Cardinality(R) = Cardinality(P) + 1
<1>1. IsFiniteSet(1..n)
  BY FS_Interval
<1>2. IsFiniteSet(P) /\ n + 1 \notin P
  <2>1. n + 1 \notin P
    OBVIOUS
  <2>. QED
    BY <1>1, <2>1, FS_Subset
<1>3. Cardinality(P) \in Nat
  BY <1>2, FS_CardinalityType
<1>4. Cardinality(P \cup {n + 1}) = Cardinality(P) + 1
  BY <1>2, FS_AddElement
<1>. QED
  BY <1>3, <1>4

Shift(P, n) == {n + i : i \in P}

LEMMA Shifted ==
  ASSUME NEW n \in Nat, NEW k \in Nat, NEW P \in SUBSET (1..k),
         NEW R, R = Shift(P, n)
  PROVE  IsFiniteSet(P) /\ IsFiniteSet(R) /\ Cardinality(R) = Cardinality(P)
<1>. DEFINE f == [i \in P |-> n + i]
<1>1. IsFiniteSet(1..k)
  BY FS_Interval
<1>2. IsFiniteSet(P)
  BY <1>1, FS_Subset
<1>3. f \in Bijection(P, R)
  <2>1. \A i \in P : i \in Nat /\ f[i] = n + i /\ f[i] \in R
    BY DEF Shift
  <2>2. \A i, j \in P : f[i] = f[j] => i = j
    BY <2>1
  <2>3. \A y \in R : \E i \in P : f[i] = y
    BY <2>1 DEF Shift
  <2>4. f \in [P -> R]
    BY <2>1
  <2>. HIDE DEF f
  <2>. QED
    BY <2>2, <2>3, <2>4 DEF Bijection, Injection, Surjection, IsInjective
<1>. HIDE DEF f
<1>4. ExistsBijection(P, R)
  BY <1>3 DEF ExistsBijection
<1>. QED
  BY <1>2, <1>4, FS_Bijection

OneOn(P, Q, n) == \A i \in 1..n : i \in Q <=> i + 1 \in P

LEMMA Shortened ==
  ASSUME NEW n \in Nat, NEW P \in SUBSET (1..(n + 1)), NEW Q \in SUBSET (1..n),
         OneOn(P, Q, n)
  PROVE  /\ Cardinality(Q) \in Nat
         /\ Cardinality(P) = Cardinality(Q) + IF 1 \in P THEN 1 ELSE 0
<1>. PICK R : R = Shift(Q, 1)
  OBVIOUS
<1>1. IsFiniteSet(Q) /\ IsFiniteSet(R) /\ Cardinality(R) = Cardinality(Q)
  BY Shifted
<1>2. 1 \notin R /\ (1 \in P => P = R \cup {1}) /\ (1 \notin P => P = R)
  <2>1. \A i \in 1..(n + 1) : i = 1 \/ (i - 1 \in 1..n /\ 1 + (i - 1) = i)
    OBVIOUS
  <2>2. \A i \in 1..(n + 1) : i # 1 => (i \in P <=> i \in R)
    BY <2>1 DEF Shift, OneOn
  <2>3. R \subseteq 1..(n + 1) /\ 1 \notin R
    BY DEF Shift
  <2>4. 1 \in 1..(n + 1)
    OBVIOUS
  <2>5. \A i : i \in P => i \in 1..(n + 1)
    OBVIOUS
  <2>. QED
    BY <2>2, <2>3, <2>4, <2>5
<1>3. Cardinality(Q) \in Nat
  BY <1>1, FS_CardinalityType
<1>4. Cardinality(R \cup {1}) = Cardinality(R) + 1
  BY <1>1, <1>2, FS_AddElement
<1>5. CASE 1 \in P
  BY <1>1, <1>2, <1>3, <1>4, <1>5
<1>6. CASE 1 \notin P
  BY <1>1, <1>2, <1>3, <1>6
<1>. QED
  BY <1>5, <1>6

Upto(P, n) == P \in SUBSET (1..n)

LEMMA Joined ==
  ASSUME NEW n \in Nat, NEW k \in Nat, NEW P, NEW Q, Upto(P, n), Upto(Q, k)
  PROVE  /\ Cardinality(P) \in Nat /\ Cardinality(Q) \in Nat
         /\ Cardinality(P \cup Shift(Q, n))
              = Cardinality(P) + Cardinality(Q)
<1>0. P \in SUBSET (1..n) /\ Q \in SUBSET (1..k)
  BY DEF Upto
<1>. PICK R : R = Shift(Q, n)
  OBVIOUS
<1>1. IsFiniteSet(Q) /\ IsFiniteSet(R) /\ Cardinality(R) = Cardinality(Q)
  BY <1>0, Shifted
<1>2. IsFiniteSet(1..n)
  BY FS_Interval
<1>3. IsFiniteSet(P)
  BY <1>0, <1>2, FS_Subset
<1>4. P \cap R = {}
  BY <1>0 DEF Shift
<1>5. Cardinality(P \cup R) = Cardinality(P) + Cardinality(R)
  <2>1. Cardinality(P \cup R)
          = Cardinality(P) + Cardinality(R) - Cardinality(P \cap R)
    BY <1>1, <1>3, FS_Union
  <2>2. Cardinality(P \cap R) = 0
    BY <1>4, FS_EmptySet
  <2>3. Cardinality(P) \in Nat /\ Cardinality(R) \in Nat
    BY <1>1, <1>3, FS_CardinalityType
  <2>. QED
    BY <2>1, <2>2, <2>3
<1>. QED
  BY <1>1, <1>3, <1>5, FS_CardinalityType

(* Sequences of anything.                                                  *)
LEMMA SeqFacts ==
  ASSUME NEW s, IsSeq(s)
  PROVE  Len(s) \in Nat /\ DOMAIN s = 1..Len(s)
BY LenProperties DEF IsSeq

LEMMA SeqIs ==
  ASSUME NEW n \in Nat, NEW s, DOMAIN s = 1..n, s = [i \in DOMAIN s |-> s[i]]
  PROVE  IsSeq(s) /\ Len(s) = n
<1>. DEFINE S == {s[i] : i \in 1..n}
<1>1. s \in [1..n -> S]
  OBVIOUS
<1>. HIDE DEF S
<1>2. s \in Seq(S) /\ Len(s) = n
  BY <1>1, SeqOfFunction
<1>. QED
  BY <1>2 DEF IsSeq

LEMMA SeqAppend ==
  ASSUME NEW s, IsSeq(s), NEW e
  PROVE  /\ IsSeq(Append(s, e)) /\ Len(Append(s, e)) = Len(s) + 1
         /\ \A i \in 1..Len(s) : Append(s, e)[i] = s[i]
         /\ Append(s, e)[Len(s) + 1] = e
<1>1. PICK S : s \in Seq(S)
  BY DEF IsSeq
<1>. PICK U : U = S \cup {e}
  OBVIOUS
<1>2. s \in Seq(U) /\ e \in U
  BY <1>1, Widens
<1>. QED
  BY <1>2, AppendProperties DEF IsSeq

LEMMA SeqTail ==
  ASSUME NEW s, IsSeq(s), s # <<>>
  PROVE  /\ IsSeq(Tail(s)) /\ Len(Tail(s)) \in Nat
         /\ Len(s) = Len(Tail(s)) + 1 /\ Head(s) = s[1]
         /\ \A i \in 1..Len(Tail(s)) : Tail(s)[i] = s[i + 1]
<1>1. PICK S : s \in Seq(S)
  BY DEF IsSeq
<1>2. /\ Len(s) \in Nat /\ Len(s) > 0
  BY <1>1, LenProperties, EmptySeq
<1>3. /\ Tail(s) \in Seq(S) /\ Len(Tail(s)) = Len(s) - 1 /\ Head(s) = s[1]
      /\ \A i \in 1..Len(Tail(s)) : Tail(s)[i] = s[i + 1]
  BY <1>1, HeadTailProperties
<1>. QED
  BY <1>2, <1>3 DEF IsSeq

LEMMA SeqConcat ==
  ASSUME NEW s, NEW w, IsSeq(s), IsSeq(w)
  PROVE  /\ IsSeq(s \o w) /\ Len(s \o w) = Len(s) + Len(w)
         /\ \A i \in 1..Len(s) : (s \o w)[i] = s[i]
         /\ \A i \in 1..Len(w) : (s \o w)[Len(s) + i] = w[i]
<1>1. PICK S, T : s \in Seq(S) /\ w \in Seq(T)
  BY DEF IsSeq
<1>. PICK U : U = S \cup T
  OBVIOUS
<1>2. s \in Seq(U) /\ w \in Seq(U)
  BY <1>1, Widens
<1>. QED
  BY <1>2, ConcatProperties DEF IsSeq

(* Each element of a list satisfies what those of its parts do.            *)
LEMMA ConcatIndex ==
  ASSUME NEW n \in Nat, NEW k \in Nat, NEW i \in 1..(n + k)
  PROVE  i \in 1..n \/ (i - n \in 1..k /\ n + (i - n) = i)
OBVIOUS

LEMMA ElementsTail ==
  ASSUME NEW s, IsSeq(s), s # <<>>
  PROVE  /\ 1 \in DOMAIN s /\ Head(s) = s[1]
         /\ \A i \in DOMAIN Tail(s) : \E j \in DOMAIN s : Tail(s)[i] = s[j]
<1>. PICK t : t = Tail(s)
  OBVIOUS
<1>. PICK n \in Nat : n = Len(t)
  BY SeqTail
<1>1. /\ IsSeq(t) /\ Len(s) = n + 1 /\ Head(s) = s[1]
      /\ \A i \in 1..n : t[i] = s[i + 1]
  BY SeqTail
<1>2. DOMAIN t = 1..n /\ DOMAIN s = 1..(n + 1)
  BY <1>1, SeqFacts
<1>3. 1 \in 1..(n + 1) /\ \A i \in 1..n : i + 1 \in 1..(n + 1)
  OBVIOUS
<1>. QED
  BY <1>1, <1>2, <1>3

LEMMA ElementsConcat ==
  ASSUME NEW s, NEW w, IsSeq(s), IsSeq(w), NEW i \in DOMAIN (s \o w)
  PROVE  \/ \E j \in DOMAIN s : (s \o w)[i] = s[j]
         \/ \E j \in DOMAIN w : (s \o w)[i] = w[j]
<1>. PICK n \in Nat : n = Len(s) /\ DOMAIN s = 1..n
  BY SeqFacts
<1>. PICK k \in Nat : k = Len(w) /\ DOMAIN w = 1..k
  BY SeqFacts
<1>. PICK t : t = s \o w
  OBVIOUS
<1>1. /\ IsSeq(t) /\ Len(t) = n + k
      /\ \A j \in 1..n : t[j] = s[j]
      /\ \A j \in 1..k : t[n + j] = w[j]
  BY SeqConcat
<1>2. DOMAIN t = 1..(n + k)
  BY <1>1, SeqFacts
<1>3. i \in 1..(n + k)
  BY <1>2
<1>4. CASE i \in 1..n
  BY <1>1, <1>4
<1>5. CASE i - n \in 1..k /\ n + (i - n) = i
  BY <1>1, <1>5
<1>. QED
  BY <1>3, <1>4, <1>5, ConcatIndex

LEMMA ElementsAppend ==
  ASSUME NEW s, IsSeq(s), NEW e, NEW i \in DOMAIN Append(s, e)
  PROVE  Append(s, e)[i] = e \/ \E j \in DOMAIN s : Append(s, e)[i] = s[j]
<1>. PICK n \in Nat : n = Len(s) /\ DOMAIN s = 1..n
  BY SeqFacts
<1>. PICK t : t = Append(s, e)
  OBVIOUS
<1>1. /\ IsSeq(t) /\ Len(t) = n + 1 /\ t[n + 1] = e
      /\ \A j \in 1..n : t[j] = s[j]
  BY SeqAppend
<1>2. DOMAIN t = 1..(n + 1)
  BY <1>1, SeqFacts
<1>3. i = n + 1 \/ i \in 1..n
  BY <1>2
<1>. QED
  BY <1>1, <1>3

-----------------------------------------------------------------------------
(* Hits: where a sequence has elements of a set.                           *)
Hits(s, T) == {i \in DOMAIN s : s[i] \in T}

LEMMA HitsAppend ==
  ASSUME NEW s, IsSeq(s), NEW e, NEW T
  PROVE  /\ Cardinality(Hits(s, T)) \in Nat
         /\ e \in T => Cardinality(Hits(Append(s, e), T))
                         = Cardinality(Hits(s, T)) + 1
         /\ e \notin T => Cardinality(Hits(Append(s, e), T))
                            = Cardinality(Hits(s, T))
<1>. PICK n \in Nat : n = Len(s) /\ DOMAIN s = 1..n
  BY SeqFacts
<1>. PICK t : t = Append(s, e)
  OBVIOUS
<1>1. /\ IsSeq(t) /\ Len(t) = n + 1 /\ t[n + 1] = e
      /\ \A i \in 1..n : t[i] = s[i]
  BY SeqAppend
<1>2. DOMAIN t = 1..(n + 1)
  BY <1>1, SeqFacts
<1>. PICK P \in SUBSET (1..n) : P = Hits(s, T)
  BY DEF Hits
<1>. PICK R : R = Hits(t, T)
  OBVIOUS
<1>3. R = IF e \in T THEN P \cup {n + 1} ELSE P
  <2>1. \A i \in 1..(n + 1) : i \in 1..n \/ i = n + 1
    OBVIOUS
  <2>2. 1..n \subseteq 1..(n + 1) /\ n + 1 \in 1..(n + 1)
    OBVIOUS
  <2>. QED
    BY <1>1, <1>2, <2>1, <2>2 DEF Hits
<1>. QED
  BY <1>3, Prolonged

LEMMA HitsTail ==
  ASSUME NEW s, IsSeq(s), s # <<>>, NEW T
  PROVE  /\ Cardinality(Hits(Tail(s), T)) \in Nat
         /\ Head(s) \in T => Cardinality(Hits(s, T))
                               = Cardinality(Hits(Tail(s), T)) + 1
         /\ Head(s) \notin T => Cardinality(Hits(s, T))
                                  = Cardinality(Hits(Tail(s), T))
<1>. PICK t : t = Tail(s)
  OBVIOUS
<1>. PICK n \in Nat : n = Len(t)
  BY SeqTail
<1>1. /\ IsSeq(t) /\ Len(s) = n + 1 /\ Head(s) = s[1]
      /\ \A i \in 1..n : t[i] = s[i + 1]
  BY SeqTail
<1>2. DOMAIN t = 1..n /\ DOMAIN s = 1..(n + 1)
  BY <1>1, SeqFacts
<1>. PICK P \in SUBSET (1..(n + 1)), Q \in SUBSET (1..n) :
       P = Hits(s, T) /\ Q = Hits(t, T)
  BY <1>2 DEF Hits
<1>3. OneOn(P, Q, n)
  <2>. SUFFICES \A i \in 1..n : i \in Q <=> i + 1 \in P
    BY DEF OneOn
  <2>. TAKE i \in 1..n
  <2>1. i + 1 \in 1..(n + 1)
    OBVIOUS
  <2>. QED
    BY <1>1, <1>2, <2>1 DEF Hits
<1>4. 1 \in P <=> Head(s) \in T
  <2>1. 1 \in 1..(n + 1)
    OBVIOUS
  <2>. QED
    BY <1>1, <1>2, <2>1 DEF Hits
<1>5. /\ Cardinality(Q) \in Nat
      /\ Cardinality(P) = Cardinality(Q) + IF 1 \in P THEN 1 ELSE 0
  BY <1>3, Shortened
<1>. QED
  BY <1>4, <1>5

LEMMA HitsConcat ==
  ASSUME NEW s, IsSeq(s), NEW w, IsSeq(w), NEW T
  PROVE  /\ Cardinality(Hits(s, T)) \in Nat
         /\ Cardinality(Hits(w, T)) \in Nat
         /\ Cardinality(Hits(s \o w, T))
              = Cardinality(Hits(s, T)) + Cardinality(Hits(w, T))
<1>. PICK n \in Nat : n = Len(s) /\ DOMAIN s = 1..n
  BY SeqFacts
<1>. PICK k \in Nat : k = Len(w) /\ DOMAIN w = 1..k
  BY SeqFacts
<1>. PICK t : t = s \o w
  OBVIOUS
<1>1. /\ IsSeq(t) /\ Len(t) = n + k
      /\ \A i \in 1..n : t[i] = s[i]
      /\ \A i \in 1..k : t[n + i] = w[i]
  BY SeqConcat
<1>2. DOMAIN t = 1..(n + k)
  BY <1>1, SeqFacts
<1>. PICK P \in SUBSET (1..n), Q \in SUBSET (1..k) :
       P = Hits(s, T) /\ Q = Hits(w, T)
  BY DEF Hits
<1>3. Hits(t, T) = P \cup Shift(Q, n)
  <2>1. ASSUME NEW i \in Hits(t, T) PROVE i \in P \cup Shift(Q, n)
    <3>1. i \in 1..(n + k) /\ t[i] \in T
      BY <1>2 DEF Hits
    <3>2. CASE i \in 1..n
      BY <1>1, <3>1, <3>2 DEF Hits
    <3>3. CASE i - n \in 1..k /\ n + (i - n) = i
      <4>. PICK j \in 1..k : n + j = i
        BY <3>3
      <4>1. w[j] \in T
        BY <1>1, <3>1
      <4>2. j \in Q
        BY <4>1 DEF Hits
      <4>. QED
        BY <4>2 DEF Shift
    <3>. QED
      BY <3>1, <3>2, <3>3, ConcatIndex
  <2>2. ASSUME NEW i \in P PROVE i \in Hits(t, T)
    BY <1>1, <1>2 DEF Hits
  <2>3. ASSUME NEW i \in Shift(Q, n) PROVE i \in Hits(t, T)
    <3>. PICK j \in Q : i = n + j
      BY DEF Shift
    <3>1. j \in 1..k /\ n + j \in 1..(n + k) /\ w[j] \in T
      BY DEF Hits
    <3>. QED
      BY <1>1, <1>2, <3>1 DEF Hits
  <2>. QED
    BY <2>1, <2>2, <2>3
<1>4. /\ Cardinality(P) \in Nat /\ Cardinality(Q) \in Nat
      /\ Cardinality(P \cup Shift(Q, n)) = Cardinality(P) + Cardinality(Q)
  <2>1. Upto(P, n) /\ Upto(Q, k)
    BY DEF Upto
  <2>2. Cardinality(P) \in Nat
    BY <2>1, Joined
  <2>3. Cardinality(Q) \in Nat
    BY <2>1, Joined
  <2>4. Cardinality(P \cup Shift(Q, n)) = Cardinality(P) + Cardinality(Q)
    BY <2>1, Joined
  <2>. QED
    BY <2>2, <2>3, <2>4
<1>. QED
  BY <1>3, <1>4

(* HitsFew: a sequence with none, or with one at most.                     *)
LEMMA HitsFew ==
  ASSUME NEW w, IsSeq(w), NEW T
  PROVE  /\ (\A i \in DOMAIN w : w[i] \notin T)
              => Cardinality(Hits(w, T)) = 0
         /\ (\E j : \A i \in DOMAIN w : w[i] \in T => i = j)
              => Cardinality(Hits(w, T)) \in {0, 1}
<1>1. Cardinality({}) = 0
  BY FS_EmptySet
<1>2. ASSUME NEW j PROVE Cardinality({j}) = 1
  BY FS_Singleton
<1>3. ASSUME \A i \in DOMAIN w : w[i] \notin T PROVE Hits(w, T) = {}
  BY <1>3 DEF Hits
<1>4. ASSUME NEW j, \A i \in DOMAIN w : w[i] \in T => i = j
      PROVE  Hits(w, T) = {} \/ Hits(w, T) = {j}
  BY <1>4 DEF Hits
<1>. QED
  BY <1>1, <1>2, <1>3, <1>4

(* Has(s, T): an element of s is in T.                                     *)
Has(s, T) == \E i \in DOMAIN s : s[i] \in T

LEMMA HasConcat ==
  ASSUME NEW s, NEW w, IsSeq(s), IsSeq(w), NEW T
  PROVE  Has(s \o w, T) <=> Has(s, T) \/ Has(w, T)
<1>. PICK t : t = s \o w
  OBVIOUS
<1>. PICK m \in Nat, n \in Nat :
       /\ m = Len(s) /\ DOMAIN s = 1..m
       /\ n = Len(w) /\ DOMAIN w = 1..n
       /\ DOMAIN t = 1..(m + n)
  BY SeqFacts, SeqConcat
<1>1. \A i \in 1..m : t[i] = s[i]
  BY SeqConcat
<1>2. \A i \in 1..n : t[m + i] = w[i]
  BY SeqConcat
<1>3. \A i \in 1..(m + n) : i \in 1..m \/ \E j \in 1..n : i = m + j
  <2>. TAKE i \in 1..(m + n)
  <2>1. CASE i > m
    <3>1. i - m \in 1..n /\ i = m + (i - m)
      BY <2>1
    <3>. QED
      BY <3>1
  <2>. QED
    BY <2>1
<1>4. ASSUME Has(t, T) PROVE Has(s, T) \/ Has(w, T)
  <2>. PICK i \in 1..(m + n) : t[i] \in T
    BY <1>4 DEF Has
  <2>1. CASE i \in 1..m
    BY <1>1, <2>1 DEF Has
  <2>2. ASSUME NEW j \in 1..n, i = m + j PROVE Has(w, T)
    BY <1>2, <2>2 DEF Has
  <2>. QED
    BY <1>3, <2>1, <2>2
<1>5. ASSUME Has(s, T) PROVE Has(t, T)
  BY <1>1, <1>5 DEF Has
<1>6. ASSUME Has(w, T) PROVE Has(t, T)
  <2>. PICK i \in 1..n : w[i] \in T
    BY <1>6 DEF Has
  <2>1. m + i \in 1..(m + n)
    OBVIOUS
  <2>. QED
    BY <1>2, <2>1 DEF Has
<1>. QED
  BY <1>4, <1>5, <1>6

LEMMA HasOne ==
  ASSUME NEW e, NEW T
  PROVE  IsSeq(<<e>>) /\ (Has(<<e>>, T) <=> e \in T)
<1>. PICK w : w = <<e>>
  OBVIOUS
<1>1. w \in Seq({e}) /\ DOMAIN w = {1} /\ w[1] = e
  OBVIOUS
<1>. QED
  BY <1>1 DEF Has, IsSeq

LEMMA HasAppend ==
  ASSUME NEW s, IsSeq(s), NEW e, NEW T
  PROVE  Has(Append(s, e), T) <=> Has(s, T) \/ e \in T
<1>. PICK t : t = Append(s, e)
  OBVIOUS
<1>. PICK n \in Nat : n = Len(s) /\ DOMAIN s = 1..n
  BY SeqFacts
<1>1. /\ DOMAIN t = 1..(n + 1) /\ t[n + 1] = e
      /\ \A i \in 1..n : t[i] = s[i]
  BY SeqAppend
<1>2. \A i \in 1..(n + 1) : i \in 1..n \/ i = n + 1
  OBVIOUS
<1>3. n + 1 \in 1..(n + 1) /\ \A i \in 1..n : i \in 1..(n + 1)
  OBVIOUS
<1>. QED
  BY <1>1, <1>2, <1>3 DEF Has

LEMMA HasTail ==
  ASSUME NEW s, IsSeq(s), s # <<>>, NEW T
  PROVE  Has(s, T) <=> Head(s) \in T \/ Has(Tail(s), T)
<1>. PICK t : t = Tail(s)
  OBVIOUS
<1>. PICK n \in Nat : n = Len(s) /\ DOMAIN s = 1..n
  BY SeqFacts
<1>1. /\ n > 0 /\ s[1] = Head(s) /\ DOMAIN t = 1..(n - 1)
      /\ \A i \in 1..(n - 1) : t[i] = s[i + 1]
  BY SeqTail
<1>2. \A i \in 1..n : i = 1 \/ (i - 1 \in 1..(n - 1) /\ i = (i - 1) + 1)
  OBVIOUS
<1>3. \A i \in 1..(n - 1) : i + 1 \in 1..n
  OBVIOUS
<1>4. 1 \in 1..n
  BY <1>1
<1>5. ASSUME Has(s, T) PROVE Head(s) \in T \/ Has(t, T)
  <2>. PICK i \in 1..n : s[i] \in T
    BY <1>5 DEF Has
  <2>1. CASE i = 1
    BY <1>1, <2>1
  <2>2. CASE i - 1 \in 1..(n - 1) /\ i = (i - 1) + 1
    <3>1. t[i - 1] = s[i]
      BY <1>1, <2>2
    <3>. QED
      BY <1>1, <2>2, <3>1 DEF Has
  <2>. QED
    BY <1>2, <2>1, <2>2
<1>6. ASSUME Has(t, T) PROVE Has(s, T)
  BY <1>1, <1>3, <1>6 DEF Has
<1>7. ASSUME Head(s) \in T PROVE Has(s, T)
  BY <1>1, <1>4, <1>7 DEF Has
<1>. QED
  BY <1>5, <1>6, <1>7

-----------------------------------------------------------------------------
(* What the sink of the interface takes: SieveSteps(q, w, F) when F holds  *)
(* what it has taken after each of the messages of w.                      *)
SieveSteps(q, w, F) ==
  /\ DOMAIN F = 0..Len(w) /\ F[0] = q
  /\ \A i \in 1..Len(w) : F[i] = Kept(F[i - 1], w[i])

SieveUnrolls(q, w, n, f) ==
  f = [s \in SUBSET (1..n) |->
         IF s = {} THEN q ELSE Kept(f[s \ {Top(s)}], w[Top(s)])]

LEMMA SieveExists ==
  ASSUME NEW q, NEW w, NEW n \in Nat
  PROVE  \E f : SieveUnrolls(q, w, n, f)
<1>. DEFINE Rec(f, k) == SieveUnrolls(q, w, k, f)
            S == {k \in Nat : \E f : Rec(f, k)}
<1>1. 0 \in S
  <2>. DEFINE f == [s \in SUBSET (1..0) |-> q]
  <2>1. \A s \in SUBSET (1..0) : s = {}
    OBVIOUS
  <2>2. Rec(f, 0)
    BY <2>1 DEF SieveUnrolls
  <2>. QED
    BY <2>2
<1>2. ASSUME NEW k \in Nat, k \in S PROVE k + 1 \in S
  <2>1. PICK f : Rec(f, k)
    BY <1>2
  <2>. DEFINE g == [s \in SUBSET (1..(k + 1)) |->
                      IF s \in SUBSET (1..k) THEN f[s]
                      ELSE Kept(f[s \ {k + 1}], w[k + 1])]
  <2>2. ASSUME NEW s \in SUBSET (1..(k + 1))
        PROVE  g[s] = IF s = {} THEN q
                      ELSE Kept(g[s \ {Top(s)}], w[Top(s)])
    <3>1. CASE s \in SUBSET (1..k)
      <4>1. g[s] = f[s] /\ g[s \ {Top(s)}] = f[s \ {Top(s)}]
        BY <3>1
      <4>2. f[s] = IF s = {} THEN q
                   ELSE Kept(f[s \ {Top(s)}], w[Top(s)])
        BY <2>1, <3>1 DEF SieveUnrolls
      <4>. HIDE DEF g
      <4>. QED
        BY <4>1, <4>2
    <3>2. CASE s \notin SUBSET (1..k)
      <4>1. k + 1 \in s /\ \A y \in s : y \in 1..k \/ y = k + 1
        BY <3>2
      <4>2. Top(s) = k + 1
        <5>1. s \subseteq Int /\ \A y \in s : k + 1 >= y
          BY <4>1
        <5>. QED
          BY <4>1, <5>1, TopIs
      <4>3. s \ {k + 1} \in SUBSET (1..k)
        BY <4>1
      <4>4. g[s \ {k + 1}] = f[s \ {k + 1}]
            /\ g[s] = Kept(f[s \ {k + 1}], w[k + 1])
        BY <3>2, <4>3
      <4>. HIDE DEF g
      <4>. QED
        BY <4>1, <4>2, <4>4
    <3>. QED
      BY <3>1, <3>2
  <2>3. g = [s \in SUBSET (1..(k + 1)) |-> g[s]]
    OBVIOUS
  <2>. HIDE DEF g
  <2>4. Rec(g, k + 1)
    BY <2>2, <2>3 DEF SieveUnrolls
  <2>. QED
    BY <2>4
<1>. HIDE DEF Rec
<1>3. n \in S
  <2>. HIDE DEF S
  <2>. QED
    BY <1>1, <1>2, ByInduction
<1>. QED
  BY <1>3 DEF Rec

LEMMA EmittedSteps ==
  ASSUME NEW q, NEW w, NEW n \in Nat, Len(w) = n, DOMAIN w = 1..n
  PROVE  \E F : SieveSteps(q, w, F) /\ FoldLeft(Kept, q, w) = F[n]
<1>. DEFINE It == CHOOSE f : f = [s \in SUBSET (1..n) |->
                       IF s = {} THEN q
                       ELSE Kept(f[s \ {Top(s)}], w[Top(s)])]
<1>1. It = [s \in SUBSET (1..n) |->
                       IF s = {} THEN q
                       ELSE Kept(It[s \ {Top(s)}], w[Top(s)])]
  <2>. DEFINE P(f) == SieveUnrolls(q, w, n, f)
  <2>1. \E f : P(f)
    BY SieveExists
  <2>. HIDE DEF P
  <2>2. P(CHOOSE f : P(f))
    BY <2>1
  <2>. QED
    BY <2>2 DEF P, SieveUnrolls
<1>2. FoldLeft(Kept, q, w) = It[1..n]
  BY DEF FoldLeft, MapThenFoldSet, Max, Top
<1>. HIDE DEF It
<1>. DEFINE F == [i \in 0..n |-> It[1..i]]
<1>3. F[0] = q
  BY <1>1
<1>4. ASSUME NEW i \in 1..n PROVE F[i] = Kept(F[i - 1], w[i])
  <2>1. Top(1..i) = i
    BY DEF Top
  <2>2. (1..i) \ {i} = 1..(i - 1) /\ 1..i # {} /\ 1..i \in SUBSET (1..n)
    OBVIOUS
  <2>3. It[1..i] = Kept(It[(1..i) \ {Top(1..i)}], w[Top(1..i)])
    BY <1>1, <2>2
  <2>4. It[1..i] = Kept(It[1..(i - 1)], w[i])
    BY <2>1, <2>2, <2>3
  <2>. QED
    BY <2>4
<1>5. DOMAIN F = 0..n /\ F[n] = It[1..n]
  OBVIOUS
<1>. HIDE DEF F
<1>6. SieveSteps(q, w, F)
  BY <1>3, <1>4, <1>5 DEF SieveSteps
<1>. QED
  BY <1>2, <1>5, <1>6

LEMMA EmittedRun ==
  ASSUME NEW w, IsSeq(w)
  PROVE  \E G : SieveSteps(<<>>, w, G) /\ Emitted(w) = G[Len(w)]
<1>1. Len(w) \in Nat /\ DOMAIN w = 1..Len(w)
  BY SeqFacts
<1>. QED
  BY <1>1, EmittedSteps DEF Emitted

(* EmittedFew: what is taken is among what was sent, and once if sent once.*)
LEMMA EmittedFrom ==
  ASSUME NEW w, IsSeq(w)
  PROVE  /\ IsSeq(Emitted(w))
         /\ \A j \in DOMAIN Emitted(w) : \E i \in DOMAIN w :
              Emitted(w)[j] = w[i] /\ SinkTakes(w[i])
<1>. PICK n \in Nat : n = Len(w) /\ DOMAIN w = 1..n
  BY SeqFacts
<1>1. PICK G : SieveSteps(<<>>, w, G) /\ Emitted(w) = G[n]
  BY EmittedRun
<1>. DEFINE From(s) == /\ IsSeq(s)
                       /\ \A j \in DOMAIN s : \E i \in DOMAIN w :
                            s[j] = w[i] /\ SinkTakes(w[i])
            S == {k \in Nat : k <= n => From(G[k])}
<1>2. 0 \in S
  <2>1. G[0] = <<>>
    BY <1>1 DEF SieveSteps
  <2>2. IsSeq(<<>>) /\ DOMAIN <<>> = {}
    <3>1. <<>> \in Seq({})
      BY EmptySeq
    <3>. QED
      BY <3>1 DEF IsSeq
  <2>. QED
    BY <2>1, <2>2
<1>3. ASSUME NEW k \in Nat, k \in S PROVE k + 1 \in S
  <2>. SUFFICES ASSUME k + 1 <= n PROVE From(G[k + 1])
    OBVIOUS
  <2>. PICK s, e : s = G[k] /\ e = w[k + 1]
    OBVIOUS
  <2>1. From(s) /\ k + 1 \in DOMAIN w
    BY <1>3
  <2>2. G[k + 1] = Kept(s, e)
    <3>1. k + 1 \in 1..n /\ (k + 1) - 1 = k
      OBVIOUS
    <3>. QED
      BY <1>1, <3>1 DEF SieveSteps
  <2>3. CASE ~SinkTakes(e)
    BY <2>1, <2>2, <2>3 DEF Kept
  <2>4. CASE SinkTakes(e)
    <3>. PICK t : t = Append(s, e)
      OBVIOUS
    <3>1. G[k + 1] = t
      BY <2>2, <2>4 DEF Kept
    <3>2. IsSeq(t)
      BY <2>1, SeqAppend
    <3>3. \A j \in DOMAIN t : t[j] = e \/ \E x \in DOMAIN s : t[j] = s[x]
      BY <2>1, ElementsAppend
    <3>. QED
      BY <2>1, <2>4, <3>1, <3>2, <3>3
  <2>. QED
    BY <2>3, <2>4
<1>4. n \in S
  <2>. HIDE DEF S
  <2>. QED
    BY <1>2, <1>3, ByInduction
<1>. QED
  BY <1>1, <1>4

LEMMA EmittedFew ==
  ASSUME NEW w, IsSeq(w), NEW T, NEW j,
         \A i \in DOMAIN w : w[i] \in T /\ SinkTakes(w[i]) => i = j
  PROVE  Cardinality(Hits(Emitted(w), T)) \in {0, 1}
<1>. PICK n \in Nat : n = Len(w) /\ DOMAIN w = 1..n
  BY SeqFacts
<1>1. PICK G : SieveSteps(<<>>, w, G) /\ Emitted(w) = G[n]
  BY EmittedRun
<1>. DEFINE Few(k) == /\ IsSeq(G[k])
                      /\ Cardinality(Hits(G[k], T)) \in {0, 1}
                      /\ Cardinality(Hits(G[k], T)) = 1 => j \in 1..k
            S == {k \in Nat : k <= n => Few(k)}
<1>2. 0 \in S
  <2>1. G[0] = <<>>
    BY <1>1 DEF SieveSteps
  <2>2. IsSeq(<<>>) /\ Hits(<<>>, T) = {}
    <3>1. <<>> \in Seq({})
      BY EmptySeq
    <3>. QED
      BY <3>1 DEF IsSeq, Hits
  <2>3. Cardinality({}) = 0
    BY FS_EmptySet
  <2>4. IsSeq(G[0]) /\ Cardinality(Hits(G[0], T)) = 0
    BY <2>1, <2>2, <2>3
  <2>. QED
    BY <2>4
<1>3. ASSUME NEW k \in Nat, k \in S PROVE k + 1 \in S
  <2>. SUFFICES ASSUME k + 1 <= n PROVE Few(k + 1)
    OBVIOUS
  <2>. PICK s, e : s = G[k] /\ e = w[k + 1]
    OBVIOUS
  <2>1. /\ IsSeq(s) /\ Cardinality(Hits(s, T)) \in {0, 1}
        /\ Cardinality(Hits(s, T)) = 1 => j \in 1..k
        /\ k + 1 \in DOMAIN w
    BY <1>3
  <2>2. G[k + 1] = Kept(s, e)
    <3>1. k + 1 \in 1..n /\ (k + 1) - 1 = k
      OBVIOUS
    <3>. QED
      BY <1>1, <3>1 DEF SieveSteps
  <2>3. CASE ~SinkTakes(e)
    BY <2>1, <2>2, <2>3 DEF Kept
  <2>4. CASE SinkTakes(e)
    <3>1. G[k + 1] = Append(s, e)
      BY <2>2, <2>4 DEF Kept
    <3>2. IsSeq(Append(s, e))
      BY <2>1, SeqAppend
    <3>3. CASE e \in T
      <4>1. k + 1 = j
        BY <2>1, <2>4, <3>3
      <4>2. Cardinality(Hits(s, T)) = 0
        BY <2>1, <4>1
      <4>3. Cardinality(Hits(Append(s, e), T)) = Cardinality(Hits(s, T)) + 1
        BY <2>1, <3>3, HitsAppend
      <4>. QED
        BY <3>1, <3>2, <4>1, <4>2, <4>3
    <3>4. CASE e \notin T
      <4>1. Cardinality(Hits(Append(s, e), T)) = Cardinality(Hits(s, T))
        BY <2>1, <3>4, HitsAppend
      <4>. QED
        BY <2>1, <3>1, <3>2, <4>1
    <3>. QED
      BY <3>3, <3>4
  <2>. QED
    BY <2>3, <2>4
<1>4. n \in S
  <2>. HIDE DEF S
  <2>. QED
    BY <1>2, <1>3, ByInduction
<1>. QED
  BY <1>1, <1>4

-----------------------------------------------------------------------------
(* What the interface makes of the messages: Shows(v, w, u) when those of  *)
(* w, handled in order, make of the entries v the entries u.               *)
Pushed == {"event", "score_update", "state_update"}

Viewed(v, m) == IF m.type \in Pushed THEN Applied(v, m) ELSE v

ViewSteps(v, w, F) ==
  /\ DOMAIN F = 0..Len(w) /\ F[0] = v
  /\ \A i \in 1..Len(w) : F[i] = Viewed(F[i - 1], w[i])

Shows(v, w, u) == IsSeq(w) /\ \E F : ViewSteps(v, w, F) /\ F[Len(w)] = u

LEMMA ShowsNothing ==
  ASSUME NEW v
  PROVE  Shows(v, <<>>, v)
<1>. DEFINE F == [i \in 0..0 |-> v]
<1>1. <<>> \in Seq({}) /\ Len(<<>>) = 0
  OBVIOUS
<1>2. ViewSteps(v, <<>>, F) /\ F[0] = v
  BY <1>1 DEF ViewSteps
<1>. QED
  BY <1>1, <1>2 DEF Shows, IsSeq

LEMMA ShowsAppend ==
  ASSUME NEW v, NEW s, NEW u, Shows(v, s, u), NEW e
  PROVE  Shows(v, Append(s, e), Viewed(u, e))
<1>. PICK n \in Nat : n = Len(s) /\ DOMAIN s = 1..n
  BY SeqFacts DEF Shows
<1>1. PICK F : ViewSteps(v, s, F) /\ F[n] = u
  BY DEF Shows
<1>. PICK t : t = Append(s, e)
  OBVIOUS
<1>2. /\ IsSeq(t) /\ Len(t) = n + 1 /\ t[n + 1] = e
      /\ \A i \in 1..n : t[i] = s[i]
  BY SeqAppend DEF Shows
<1>. DEFINE G == [i \in 0..(n + 1) |-> IF i = n + 1 THEN Viewed(u, e) ELSE F[i]]
<1>3. G[0] = v /\ G[n + 1] = Viewed(u, e)
  BY <1>1 DEF ViewSteps
<1>4. ASSUME NEW i \in 1..(n + 1) PROVE G[i] = Viewed(G[i - 1], t[i])
  <2>1. CASE i = n + 1
    <3>1. i - 1 = n /\ n \in 0..(n + 1) /\ n # n + 1
      BY <2>1
    <3>2. G[i - 1] = u
      BY <1>1, <3>1
    <3>. QED
      BY <1>2, <1>3, <2>1, <3>2
  <2>2. CASE i \in 1..n
    <3>1. i - 1 \in 0..(n + 1) /\ i - 1 # n + 1 /\ i # n + 1
      BY <2>2
    <3>2. G[i] = F[i] /\ G[i - 1] = F[i - 1]
      BY <3>1
    <3>3. F[i] = Viewed(F[i - 1], s[i])
      BY <1>1, <2>2 DEF ViewSteps
    <3>. QED
      BY <1>2, <2>2, <3>2, <3>3
  <2>. QED
    BY <2>1, <2>2
<1>5. DOMAIN G = 0..(n + 1)
  OBVIOUS
<1>. HIDE DEF G
<1>6. ViewSteps(v, t, G) /\ G[Len(t)] = Viewed(u, e)
  BY <1>2, <1>3, <1>4, <1>5 DEF ViewSteps
<1>. QED
  BY <1>2, <1>6 DEF Shows

LEMMA ShowsTail ==
  ASSUME NEW v, NEW s, NEW u, Shows(v, s, u), s # <<>>
  PROVE  Shows(Viewed(v, Head(s)), Tail(s), u)
<1>. PICK t, h : t = Tail(s) /\ h = Head(s)
  OBVIOUS
<1>. PICK n \in Nat : n = Len(t)
  BY SeqTail DEF Shows
<1>1. /\ IsSeq(t) /\ Len(s) = n + 1 /\ h = s[1]
      /\ \A i \in 1..n : t[i] = s[i + 1]
  BY SeqTail DEF Shows
<1>2. PICK F : ViewSteps(v, s, F) /\ F[n + 1] = u
  BY <1>1 DEF Shows
<1>. DEFINE G == [i \in 0..n |-> F[i + 1]]
<1>3. G[0] = Viewed(v, h) /\ G[n] = u
  <2>1. 1 \in 1..(n + 1) /\ 0 \in 0..n /\ n \in 0..n /\ 1 - 1 = 0 /\ 0 + 1 = 1
    OBVIOUS
  <2>2. F[1] = Viewed(F[0], s[1])
    BY <1>1, <1>2, <2>1 DEF ViewSteps
  <2>3. F[0] = v
    BY <1>2 DEF ViewSteps
  <2>. QED
    BY <1>1, <1>2, <2>1, <2>2, <2>3
<1>4. ASSUME NEW i \in 1..n PROVE G[i] = Viewed(G[i - 1], t[i])
  <2>1. i + 1 \in 1..(n + 1) /\ (i + 1) - 1 = i /\ i \in 0..n
        /\ i - 1 \in 0..n /\ (i - 1) + 1 = i
    OBVIOUS
  <2>2. F[i + 1] = Viewed(F[i], s[i + 1])
    BY <1>1, <1>2, <2>1 DEF ViewSteps
  <2>3. G[i] = F[i + 1] /\ G[i - 1] = F[i]
    BY <2>1
  <2>. HIDE DEF G
  <2>. QED
    BY <1>1, <2>2, <2>3
<1>5. DOMAIN G = 0..n
  OBVIOUS
<1>. HIDE DEF G
<1>6. ViewSteps(Viewed(v, h), t, G) /\ G[Len(t)] = u
  BY <1>3, <1>4, <1>5 DEF ViewSteps
<1>. QED
  BY <1>1, <1>6 DEF Shows

LEMMA ShowsThen ==
  ASSUME NEW v, NEW s, NEW u, NEW w, NEW x, Shows(v, s, u), Shows(u, w, x)
  PROVE  Shows(v, s \o w, x)
<1>. PICK n \in Nat : n = Len(s) /\ DOMAIN s = 1..n
  BY SeqFacts DEF Shows
<1>. PICK k \in Nat : k = Len(w) /\ DOMAIN w = 1..k
  BY SeqFacts DEF Shows
<1>1. PICK F : ViewSteps(v, s, F) /\ F[n] = u
  BY DEF Shows
<1>2. PICK G : ViewSteps(u, w, G) /\ G[k] = x
  BY DEF Shows
<1>. PICK t : t = s \o w
  OBVIOUS
<1>3. /\ IsSeq(t) /\ Len(t) = n + k
      /\ \A i \in 1..n : t[i] = s[i]
      /\ \A i \in 1..k : t[n + i] = w[i]
  BY SeqConcat DEF Shows
<1>. DEFINE H == [i \in 0..(n + k) |-> IF i <= n THEN F[i] ELSE G[i - n]]
<1>4. H[0] = v /\ H[n + k] = x
  <2>1. 0 \in 0..(n + k) /\ n + k \in 0..(n + k) /\ 0 <= n /\ H[0] = F[0]
    OBVIOUS
  <2>2. F[0] = v /\ G[0] = u
    BY <1>1, <1>2 DEF ViewSteps
  <2>3. CASE k = 0
    BY <1>1, <1>2, <2>1, <2>2, <2>3
  <2>4. CASE k > 0
    <3>1. H[n + k] = G[k]
      BY <2>4
    <3>. QED
      BY <1>2, <2>1, <2>2, <3>1
  <2>. QED
    BY <2>3, <2>4
<1>5. ASSUME NEW i \in 1..(n + k) PROVE H[i] = Viewed(H[i - 1], t[i])
  <2>1. CASE i <= n
    <3>1. F[i] = Viewed(F[i - 1], s[i])
      BY <1>1, <2>1 DEF ViewSteps
    <3>2. H[i] = F[i] /\ H[i - 1] = F[i - 1] /\ t[i] = s[i]
      BY <1>3, <2>1
    <3>. HIDE DEF H
    <3>. QED
      BY <3>1, <3>2
  <2>2. CASE i > n
    <3>. PICK j \in 1..k : i = n + j
      BY <2>2
    <3>1. G[j] = Viewed(G[j - 1], w[j])
      BY <1>2 DEF ViewSteps
    <3>2. H[i] = G[j] /\ t[i] = w[j]
      BY <1>3
    <3>3. H[i - 1] = G[j - 1]
      BY <1>1, <1>2 DEF ViewSteps
    <3>. HIDE DEF H
    <3>. QED
      BY <3>1, <3>2, <3>3
  <2>. QED
    BY <2>1, <2>2
<1>6. DOMAIN H = 0..(n + k)
  OBVIOUS
<1>. HIDE DEF H
<1>7. ViewSteps(v, t, H) /\ H[Len(t)] = x
  BY <1>3, <1>4, <1>5, <1>6 DEF ViewSteps
<1>. QED
  BY <1>3, <1>7 DEF Shows

(* ShowsEmitted: what the sink leaves out says nothing of the entries.     *)
LEMMA ShowsEmitted ==
  ASSUME NEW v, NEW w, NEW u, Shows(v, w, u),
         \A i \in DOMAIN w : w[i].type \in Pushed => SinkTakes(w[i])
  PROVE  Shows(v, Emitted(w), u)
<1>0. IsSeq(w)
  BY DEF Shows
<1>. PICK n \in Nat : n = Len(w) /\ DOMAIN w = 1..n
  BY <1>0, SeqFacts
<1>1. PICK G : SieveSteps(<<>>, w, G) /\ Emitted(w) = G[n]
  BY <1>0, EmittedRun
<1>2. PICK F : ViewSteps(v, w, F) /\ F[n] = u
  BY DEF Shows
<1>. DEFINE S == {k \in Nat : k <= n => Shows(v, G[k], F[k])}
<1>3. 0 \in S
  <2>1. G[0] = <<>> /\ F[0] = v
    BY <1>1, <1>2 DEF SieveSteps, ViewSteps
  <2>. QED
    BY <2>1, ShowsNothing
<1>4. ASSUME NEW k \in Nat, k \in S PROVE k + 1 \in S
  <2>. SUFFICES ASSUME k + 1 <= n PROVE Shows(v, G[k + 1], F[k + 1])
    OBVIOUS
  <2>. PICK s, e : s = G[k] /\ e = w[k + 1]
    OBVIOUS
  <2>1. Shows(v, s, F[k])
    BY <1>4
  <2>2. /\ G[k + 1] = Kept(s, e) /\ F[k + 1] = Viewed(F[k], e)
        /\ k + 1 \in DOMAIN w
    <3>1. k + 1 \in 1..n /\ (k + 1) - 1 = k
      OBVIOUS
    <3>. QED
      BY <1>1, <1>2, <3>1 DEF SieveSteps, ViewSteps
  <2>3. CASE ~SinkTakes(e)
    <3>1. e.type \notin Pushed
      BY <2>2, <2>3
    <3>2. G[k + 1] = s /\ F[k + 1] = F[k]
      BY <2>2, <2>3, <3>1 DEF Kept, Viewed
    <3>. QED
      BY <2>1, <3>2
  <2>4. CASE SinkTakes(e)
    <3>1. G[k + 1] = Append(s, e)
      BY <2>2, <2>4 DEF Kept
    <3>2. Shows(v, Append(s, e), Viewed(F[k], e))
      BY <2>1, ShowsAppend
    <3>. QED
      BY <2>2, <3>1, <3>2
  <2>. QED
    BY <2>3, <2>4
<1>5. n \in S
  <2>. HIDE DEF S
  <2>. QED
    BY <1>3, <1>4, ByInduction
<1>. QED
  BY <1>1, <1>2, <1>5

-----------------------------------------------------------------------------
(* The interface and a mirror of the queue.  It keeps an entry superseded  *)
(* that was, and puts an event where its number says; so it follows the    *)
(* queue because supersession is never undone and numbers are positions.   *)
(* Grows: no entry goes away and none is current again.                    *)
Grows(q, r) ==
  /\ q \in Seq(QueueEntry) /\ r \in Seq(QueueEntry) /\ Len(q) <= Len(r)
  /\ \A id \in 1..Len(q) : q[id].superseded => r[id].superseded

Passes(m, q, r) ==
  /\ m.type \in Pushed => SinkTakes(m)
  /\ m.type = "state_update" => m.superseded = r[m.id].superseded
  /\ m.type = "event" => m.id = Len(q) + 1

(* Entryish: the shape of an entry. Between: the shape of each, and of     *)
(* each whether it is superseded as it was in q or as it is in r.          *)
Entryish(e) ==
  \E A : e \in [tier : A, score : A, state : A, resolution : A,
                superseded : A, escalation : A]

Between(p, q, r) ==
  /\ IsSeq(p) /\ Len(p) = Len(q)
  /\ \A id \in 1..Len(q) :
       /\ Entryish(p[id])
       /\ p[id].superseded \in {q[id].superseded, r[id].superseded}

LEMMA EntryishScore ==
  ASSUME NEW e, Entryish(e), NEW m, NEW f, f = ApplyScore(e, m)
  PROVE  Entryish(f) /\ f.superseded = e.superseded
<1>. PICK A : e \in [tier : A, score : A, state : A, resolution : A,
                     superseded : A, escalation : A]
  BY DEF Entryish
<1>. PICK B : B = A \cup {m.score, m.escalation}
  OBVIOUS
<1>1. f = [e EXCEPT !.score = m.score, !.escalation = m.escalation]
  BY DEF ApplyScore
<1>2. f \in [tier : B, score : B, state : B, resolution : B,
             superseded : B, escalation : B]
  BY <1>1
<1>3. f.superseded = e.superseded
  BY <1>1
<1>. QED
  BY <1>2, <1>3 DEF Entryish

Stated(e, m) == [e EXCEPT !.state = m.state, !.resolution = m.resolution,
                          !.superseded = m.superseded]

LEMMA EntryishState ==
  ASSUME NEW e, Entryish(e), NEW m, NEW f, f = Stated(e, m),
         m.superseded \in BOOLEAN, e.superseded \in BOOLEAN,
         e.superseded => m.superseded
  PROVE  Entryish(f) /\ f.superseded = m.superseded /\ f = ApplyState(e, m)
<1>. PICK A : e \in [tier : A, score : A, state : A, resolution : A,
                     superseded : A, escalation : A]
  BY DEF Entryish
<1>. PICK B : B = A \cup {m.state, m.resolution, m.superseded}
  OBVIOUS
<1>1. f = [e EXCEPT !.state = m.state, !.resolution = m.resolution,
                    !.superseded = m.superseded]
  BY DEF Stated
<1>2. f \in [tier : B, score : B, state : B, resolution : B,
             superseded : B, escalation : B]
  BY <1>1
<1>3. f.superseded = m.superseded
  BY <1>1
<1>4. f = ApplyState(e, m)
  <2>1. (e.superseded \/ m.superseded) = m.superseded
    OBVIOUS
  <2>2. ApplyState(e, m) = [e EXCEPT !.state = m.state,
                                     !.resolution = m.resolution,
                                     !.superseded = m.superseded]
    BY <2>1 DEF ApplyState
  <2>. QED
    BY <1>1, <2>2
<1>. QED
  BY <1>2, <1>3, <1>4 DEF Entryish

Replaced(p, id, f) == [x \in DOMAIN p |-> IF x = id THEN f ELSE p[x]]

LEMMA InPlace ==
  ASSUME NEW p, IsSeq(p), NEW id, NEW f, NEW t,
         t = Replaced(p, id, f)
  PROVE  /\ IsSeq(t) /\ Len(t) = Len(p)
         /\ \A x \in 1..Len(p) : t[x] = IF x = id THEN f ELSE p[x]
<1>. PICK n \in Nat : n = Len(p) /\ DOMAIN p = 1..n
  BY SeqFacts
<1>1. DOMAIN t = 1..n /\ t = [x \in DOMAIN t |-> t[x]]
  BY DEF Replaced
<1>2. IsSeq(t) /\ Len(t) = n
  BY <1>1, SeqIs
<1>. QED
  BY <1>2 DEF Replaced

LEMMA MessageViewed ==
  ASSUME NEW q, NEW r, Grows(q, r), NEW p, Between(p, q, r),
         NEW m, Passes(m, q, r)
  PROVE  /\ ApplyPush(p, m) = Viewed(p, m)
         /\ m.type # "event" => Between(ApplyPush(p, m), q, r)
<1>. PICK n \in Nat : n = Len(p) /\ DOMAIN p = 1..n /\ n = Len(q)
  BY SeqFacts DEF Between
<1>0. /\ q \in Seq(QueueEntry) /\ r \in Seq(QueueEntry) /\ n <= Len(r)
      /\ Len(r) \in Nat
  BY LenProperties DEF Grows
<1>1. ASSUME NEW id \in 1..n
      PROVE  /\ q[id].superseded \in BOOLEAN /\ r[id].superseded \in BOOLEAN
             /\ q[id].superseded => r[id].superseded
  <2>1. q[id] \in QueueEntry /\ r[id] \in QueueEntry
    BY <1>0, ElementOfSeq
  <2>. QED
    BY <2>1 DEF QueueEntry, Grows
<1>2. CASE m.type = "event"
  <2>. PICK t : t = Append(p, m.entry)
    OBVIOUS
  <2>1. /\ IsSeq(t) /\ Len(t) = n + 1 /\ t[n + 1] = m.entry
        /\ \A i \in 1..n : t[i] = p[i]
    BY SeqAppend DEF Between
  <2>. PICK u : u = [id \in DOMAIN p \cup {m.id} |->
                       IF id = m.id THEN m.entry ELSE p[id]]
    OBVIOUS
  <2>2. m.id = n + 1
    BY <1>2 DEF Passes
  <2>3. 1..n \cup {n + 1} = 1..(n + 1)
    OBVIOUS
  <2>4. DOMAIN u = 1..(n + 1) /\ u = [x \in DOMAIN u |-> u[x]]
    BY <2>2, <2>3
  <2>5. IsSeq(u) /\ Len(u) = n + 1
    BY <2>4, SeqIs
  <2>6. \A i \in 1..(n + 1) : u[i] = t[i]
    <3>. TAKE i \in 1..(n + 1)
    <3>1. CASE i = n + 1
      BY <2>1, <2>2, <3>1
    <3>2. CASE i \in 1..n
      BY <2>1, <2>2, <3>2
    <3>. QED
      BY <3>1, <3>2
  <2>7. u = t
    <3>1. PICK U, T : u \in Seq(U) /\ t \in Seq(T)
      BY <2>1, <2>5 DEF IsSeq
    <3>2. u \in Seq(U \cup T) /\ t \in Seq(U \cup T)
      BY <3>1, Widens
    <3>. QED
      BY <2>1, <2>5, <2>6, <3>2, SeqEqual
  <2>8. ApplyPush(p, m) = t
    BY <1>2 DEF ApplyPush
  <2>9. Viewed(p, m) = u
    BY <1>2 DEF Viewed, Applied, Pushed
  <2>. QED
    BY <1>2, <2>7, <2>8, <2>9
<1>3. CASE m.type = "score_update"
  <2>. PICK f : f = ApplyScore(p[m.id], m)
    OBVIOUS
  <2>. PICK t : t = Replaced(p, m.id, f)
    OBVIOUS
  <2>0. t = [x \in DOMAIN p |-> IF x = m.id THEN f ELSE p[x]]
    BY DEF Replaced
  <2>1. /\ IsSeq(t) /\ Len(t) = n
        /\ \A x \in 1..n : t[x] = IF x = m.id THEN f ELSE p[x]
    BY InPlace DEF Between
  <2>2. p = [x \in DOMAIN p |-> p[x]]
    BY DEF Between, IsSeq
  <2>3. ApplyPush(p, m) = t
    BY <1>3, <2>0, <2>2 DEF ApplyPush, ApplyScore
  <2>4. Viewed(p, m) = t
    <3>1. Viewed(p, m) = [id \in DOMAIN p |->
            CASE id # m.id -> p[id]
              [] id = m.id /\ m.type = "score_update" -> ApplyScore(p[id], m)
              [] id = m.id /\ m.type = "state_update" -> ApplyState(p[id], m)]
      BY <1>3 DEF Viewed, Pushed, Applied
    <3>2. \A id \in DOMAIN p :
           (CASE id # m.id -> p[id]
              [] id = m.id /\ m.type = "score_update" -> ApplyScore(p[id], m)
              [] id = m.id /\ m.type = "state_update" -> ApplyState(p[id], m))
             = IF id = m.id THEN f ELSE p[id]
      BY <1>3
    <3>. PICK u : u = Viewed(p, m)
      OBVIOUS
    <3>3. u = [id \in DOMAIN p |-> u[id]]
      BY <3>1
    <3>4. \A id \in DOMAIN p : u[id] = IF id = m.id THEN f ELSE p[id]
      BY <3>1, <3>2
    <3>5. t = [id \in DOMAIN p |-> u[id]]
      BY <2>0, <3>4
    <3>. QED
      BY <3>3, <3>5
  <2>5. \A x \in 1..n : Entryish(t[x]) /\ t[x].superseded = p[x].superseded
    <3>. TAKE x \in 1..n
    <3>1. CASE x = m.id
      BY <2>1, <3>1, EntryishScore DEF Between
    <3>2. CASE x # m.id
      BY <2>1, <3>2 DEF Between
    <3>. QED
      BY <3>1, <3>2
  <2>. QED
    BY <2>1, <2>3, <2>4, <2>5 DEF Between
<1>4. CASE m.type = "state_update"
  <2>. PICK f : f = Stated(p[m.id], m)
    OBVIOUS
  <2>. PICK t : t = Replaced(p, m.id, f)
    OBVIOUS
  <2>0. t = [x \in DOMAIN p |-> IF x = m.id THEN f ELSE p[x]]
    BY DEF Replaced
  <2>1. /\ IsSeq(t) /\ Len(t) = n
        /\ \A x \in 1..n : t[x] = IF x = m.id THEN f ELSE p[x]
    BY InPlace DEF Between
  <2>2. p = [x \in DOMAIN p |-> p[x]]
    BY DEF Between, IsSeq
  <2>3. ApplyPush(p, m) = t
    BY <1>4, <2>0, <2>2 DEF ApplyPush, Stated
  <2>4. m.superseded = r[m.id].superseded
    BY <1>4 DEF Passes
  <2>5. ASSUME m.id \in 1..n
        PROVE  /\ Entryish(f) /\ f.superseded = r[m.id].superseded
               /\ f = ApplyState(p[m.id], m)
    <3>. PICK e : e = p[m.id]
      OBVIOUS
    <3>1. /\ Entryish(e)
          /\ e.superseded \in {q[m.id].superseded, r[m.id].superseded}
      BY <2>5 DEF Between
    <3>2. /\ m.superseded \in BOOLEAN /\ e.superseded \in BOOLEAN
          /\ e.superseded => m.superseded
      BY <1>1, <2>4, <2>5, <3>1
    <3>3. Entryish(f) /\ f.superseded = m.superseded /\ f = ApplyState(e, m)
      BY <3>1, <3>2, EntryishState
    <3>. QED
      BY <2>4, <3>3
  <2>6. Viewed(p, m) = t
    <3>1. Viewed(p, m) = [id \in DOMAIN p |->
            CASE id # m.id -> p[id]
              [] id = m.id /\ m.type = "score_update" -> ApplyScore(p[id], m)
              [] id = m.id /\ m.type = "state_update" -> ApplyState(p[id], m)]
      BY <1>4 DEF Viewed, Pushed, Applied
    <3>2. \A id \in DOMAIN p :
           (CASE id # m.id -> p[id]
              [] id = m.id /\ m.type = "score_update" -> ApplyScore(p[id], m)
              [] id = m.id /\ m.type = "state_update" -> ApplyState(p[id], m))
             = IF id = m.id THEN f ELSE p[id]
      BY <1>4, <2>5
    <3>. PICK u : u = Viewed(p, m)
      OBVIOUS
    <3>3. u = [id \in DOMAIN p |-> u[id]]
      BY <3>1
    <3>4. \A id \in DOMAIN p : u[id] = IF id = m.id THEN f ELSE p[id]
      BY <3>1, <3>2
    <3>5. t = [id \in DOMAIN p |-> u[id]]
      BY <2>0, <3>4
    <3>. QED
      BY <3>3, <3>5
  <2>7. \A x \in 1..n :
          /\ Entryish(t[x])
          /\ t[x].superseded \in {q[x].superseded, r[x].superseded}
    <3>. TAKE x \in 1..n
    <3>1. CASE x = m.id
      BY <2>1, <2>5, <3>1
    <3>2. CASE x # m.id
      BY <2>1, <3>2 DEF Between
    <3>. QED
      BY <3>1, <3>2
  <2>. QED
    BY <2>1, <2>3, <2>6, <2>7 DEF Between
<1>5. CASE m.type \notin Pushed
  BY <1>5 DEF Pushed, Viewed, ApplyPush
<1>. QED
  BY <1>2, <1>3, <1>4, <1>5 DEF Pushed

(* LastOnly: an event is the last thing told.                              *)
LastOnly(w) == \A i \in DOMAIN w : w[i].type = "event" => i = Len(w)

LEMMA LeadsShows ==
  ASSUME NEW q, NEW r, Grows(q, r), NEW w, Leads(q, w, r), LastOnly(w),
         \A i \in DOMAIN w : Passes(w[i], q, r)
  PROVE  Shows(q, w, r)
<1>1. PICK M, F : w \in Seq(M) /\ Steps(q, w, F) /\ F[Len(w)] = r
  BY DEF Leads
<1>. PICK n \in Nat : n = Len(w) /\ DOMAIN w = 1..n
  BY <1>1, LenProperties
<1>. DEFINE S == {k \in Nat : k < n => Between(F[k], q, r)}
<1>2. 0 \in S
  <2>1. F[0] = q
    BY <1>1 DEF Steps
  <2>2. IsSeq(q) /\ \A id \in 1..Len(q) : q[id] \in QueueEntry
    BY ElementOfSeq DEF Grows, IsSeq
  <2>3. \A e \in QueueEntry : Entryish(e)
    <3>. TAKE e \in QueueEntry
    <3>. DEFINE A == (0..3) \cup (0..100) \cup EntryStates \cup Resolutions
                     \cup BOOLEAN \cup (0..MaxEscalationLevel)
    <3>1. e \in [tier : A, score : A, state : A, resolution : A,
                 superseded : A, escalation : A]
      BY DEF QueueEntry
    <3>. HIDE DEF A
    <3>. QED
      BY <3>1 DEF Entryish
  <2>. QED
    BY <2>1, <2>2, <2>3 DEF Between
<1>3. ASSUME NEW k \in Nat, k < n
      PROVE  k + 1 \in 1..n /\ F[k + 1] = ApplyPush(F[k], w[k + 1])
  <2>1. k + 1 \in 1..n /\ (k + 1) - 1 = k
    BY <1>3
  <2>. QED
    BY <1>1, <2>1 DEF Steps
<1>4. ASSUME NEW k \in Nat, k \in S PROVE k + 1 \in S
  <2>. SUFFICES ASSUME k + 1 < n PROVE Between(F[k + 1], q, r)
    OBVIOUS
  <2>1. k < n /\ k + 1 \in 1..n /\ k + 1 # n
    OBVIOUS
  <2>2. Between(F[k], q, r) /\ Passes(w[k + 1], q, r)
    BY <1>4, <2>1
  <2>3. w[k + 1].type # "event"
    BY <2>1 DEF LastOnly
  <2>. QED
    BY <1>3, <2>1, <2>2, <2>3, MessageViewed
<1>5. Nat \subseteq S
  <2>. HIDE DEF S
  <2>. QED
    BY <1>2, <1>4, ByInduction
<1>6. ASSUME NEW i \in 1..n PROVE F[i] = Viewed(F[i - 1], w[i])
  <2>. PICK k \in Nat : k = i - 1 /\ k < n /\ i = k + 1
    OBVIOUS
  <2>1. Between(F[k], q, r) /\ Passes(w[i], q, r)
    BY <1>5
  <2>2. ApplyPush(F[k], w[i]) = Viewed(F[k], w[i])
    BY <2>1, MessageViewed
  <2>. QED
    BY <1>3, <2>2
<1>7. ViewSteps(q, w, F)
  BY <1>1, <1>6 DEF ViewSteps, Steps
<1>. QED
  BY <1>1, <1>7 DEF Shows, IsSeq

-----------------------------------------------------------------------------
(* What the core tells.                                                    *)
DecisionTypes == {"respond", "respond_request"}

AnswersAt(w, F, j) ==
  \A i \in DOMAIN w : w[i].type \in DecisionTypes => i = j /\ w[i] \in F

Answering(w, F) == \E j : AnswersAt(w, F, j)

(* Content: the messages of a step that leads from q to r.  AnswersAt: F   *)
(* has the only decision among them, and it is at one place only.          *)
Content(w, q, r, F) ==
  /\ IsSeq(w) /\ Answering(w, F)
  /\ \A i \in DOMAIN w : Passes(w[i], q, r) /\ w[i].type # "event"

LEMMA ContentNone ==
  ASSUME NEW q, NEW r, NEW F
  PROVE  Content(<<>>, q, r, F)
<1>1. <<>> \in Seq({}) /\ DOMAIN <<>> = {}
  BY EmptySeq
<1>. QED
  BY <1>1 DEF Content, Answering, AnswersAt, IsSeq

LEMMA ContentOne ==
  ASSUME NEW q, NEW r, NEW F, NEW m, Passes(m, q, r), m.type # "event",
         m.type \in DecisionTypes => m \in F
  PROVE  Content(<<m>>, q, r, F)
<1>. PICK w : w = <<m>>
  OBVIOUS
<1>1. w \in Seq({m}) /\ DOMAIN w = {1} /\ w[1] = m
  OBVIOUS
<1>. QED
  BY <1>1 DEF Content, Answering, AnswersAt, IsSeq

LEMMA ContentThen ==
  ASSUME NEW q, NEW r, NEW F, NEW G, NEW v, NEW w,
         Content(v, q, r, F), Content(w, q, r, G), F = {} \/ G = {}
  PROVE  Content(v \o w, q, r, F \cup G)
<1>1. IsSeq(v) /\ IsSeq(w)
  BY DEF Content
<1>. PICK n \in Nat : n = Len(v) /\ DOMAIN v = 1..n
  BY <1>1, SeqFacts
<1>. PICK k \in Nat : k = Len(w) /\ DOMAIN w = 1..k
  BY <1>1, SeqFacts
<1>. PICK t : t = v \o w
  OBVIOUS
<1>2. /\ IsSeq(t) /\ Len(t) = n + k
      /\ \A i \in 1..n : t[i] = v[i]
      /\ \A i \in 1..k : t[n + i] = w[i]
  BY <1>1, SeqConcat
<1>3. DOMAIN t = 1..(n + k)
  BY <1>2, SeqFacts
<1>4. ASSUME NEW i \in 1..(n + k)
      PROVE  Passes(t[i], q, r) /\ t[i].type # "event"
  <2>1. CASE i \in 1..n
    BY <1>2, <2>1 DEF Content
  <2>2. CASE i - n \in 1..k /\ n + (i - n) = i
    <3>. PICK j \in 1..k : n + j = i
      BY <2>2
    <3>. QED
      BY <1>2 DEF Content
  <2>. QED
    BY <2>1, <2>2, ConcatIndex
<1>5. CASE F = {}
  <2>1. PICK j : AnswersAt(w, G, j)
    BY DEF Content, Answering
  <2>2. \A i \in 1..n : v[i].type \notin DecisionTypes
    BY <1>5 DEF Content, Answering, AnswersAt
  <2>3. ASSUME NEW i \in 1..(n + k), t[i].type \in DecisionTypes
        PROVE  i = n + j /\ t[i] \in G
    <3>1. i \notin 1..n
      BY <1>2, <2>2, <2>3
    <3>. PICK x \in 1..k : n + x = i
      BY <3>1
    <3>. QED
      BY <1>2, <2>1, <2>3 DEF AnswersAt
  <2>4. Answering(t, F \cup G)
    <3>1. AnswersAt(t, F \cup G, n + j)
      BY <1>3, <2>3 DEF AnswersAt
    <3>. QED
      BY <3>1 DEF Answering
  <2>. QED
    BY <1>2, <1>3, <1>4, <2>4 DEF Content
<1>6. CASE G = {}
  <2>1. PICK j : AnswersAt(v, F, j)
    BY DEF Content, Answering
  <2>2. \A i \in 1..k : w[i].type \notin DecisionTypes
    BY <1>6 DEF Content, Answering, AnswersAt
  <2>3. ASSUME NEW i \in 1..(n + k), t[i].type \in DecisionTypes
        PROVE  i = j /\ t[i] \in F
    <3>1. i \in 1..n
      <4>1. ASSUME NEW x \in 1..k, n + x = i PROVE FALSE
        BY <1>2, <2>2, <2>3, <4>1
      <4>2. i \notin 1..n => i - n \in 1..k /\ n + (i - n) = i
        OBVIOUS
      <4>. QED
        BY <4>1, <4>2
    <3>. QED
      BY <1>2, <2>1, <2>3, <3>1 DEF AnswersAt
  <2>4. Answering(t, F \cup G)
    <3>1. AnswersAt(t, F \cup G, j)
      BY <1>3, <2>3 DEF AnswersAt
    <3>. QED
      BY <3>1 DEF Answering
  <2>. QED
    BY <1>2, <1>3, <1>4, <2>4 DEF Content
<1>. QED
  BY <1>5, <1>6

LEMMA ContentNext ==
  ASSUME NEW q, NEW r, NEW F, NEW v, NEW w,
         Content(v, q, r, {}), Content(w, q, r, F)
  PROVE  Content(v \o w, q, r, F) /\ Content(w \o v, q, r, F)
<1>1. Content(v \o w, q, r, {} \cup F) /\ Content(w \o v, q, r, F \cup {})
  BY ContentThen
<1>2. {} \cup F = F /\ F \cup {} = F
  OBVIOUS
<1>. QED
  BY <1>1, <1>2

(* The messages of the core.                                               *)
LEMMA ScorePasses ==
  ASSUME NEW p, NEW id, NEW m, m = ScoreUpdate(p, id)
  PROVE  SinkTakes(m) /\ m.type = "score_update"
<1>1. /\ DOMAIN m = {"type", "id", "score", "escalation"}
      /\ m.type = "score_update"
  BY DEF ScoreUpdate
<1>. QED
  BY <1>1 DEF SinkTakes

LEMMA StatePasses ==
  ASSUME NEW p, NEW id, NEW m, m = StateUpdate(p, id)
  PROVE  /\ SinkTakes(m) /\ m.type = "state_update" /\ m.id = id
         /\ m.superseded = p[id].superseded
<1>1. /\ DOMAIN m = {"type", "id", "state", "resolution", "superseded"}
      /\ m.type = "state_update" /\ m.id = id
      /\ m.superseded = p[id].superseded
  BY DEF StateUpdate
<1>. QED
  BY <1>1 DEF SinkTakes

LEMMA EventPasses ==
  ASSUME NEW p, NEW es, NEW id, NEW m, m = EventPush(p, es, id)
  PROVE  SinkTakes(m) /\ m.type = "event" /\ m.id = id
<1>1. DOMAIN m = {"type", "id", "event", "entry"}
      /\ m.type = "event" /\ m.id = id
  BY DEF EventPush
<1>. QED
  BY <1>1 DEF SinkTakes

LEMMA ContentScores ==
  ASSUME NEW p, IsFiniteSet(Ids(p)), NEW s, NEW q, NEW r
  PROVE  Content(ScoreUpdates(p, s), q, r, {})
<1>. PICK C : C = {id \in Ids(p) : p[id].score # s[id].score}
  OBVIOUS
<1>1. IsFiniteSet(C)
  BY FS_Subset
<1>. PICK o : o = SetToSeq(C)
  OBVIOUS
<1>2. o \in Seq(C)
  BY <1>1, Listed
<1>. PICK n \in Nat : n = Len(o) /\ DOMAIN o = 1..n
  BY <1>2, LenProperties
<1>. PICK w : w = [i \in DOMAIN o |-> ScoreUpdate(s, o[i])]
  OBVIOUS
<1>3. ScoreUpdates(p, s) = w
  BY DEF ScoreUpdates
<1>4. DOMAIN w = 1..n /\ w = [i \in DOMAIN w |-> w[i]]
  OBVIOUS
<1>5. IsSeq(w)
  BY <1>4, SeqIs
<1>6. \A i \in 1..n : SinkTakes(w[i]) /\ w[i].type = "score_update"
  <2>. TAKE i \in 1..n
  <2>1. w[i] = ScoreUpdate(s, o[i])
    OBVIOUS
  <2>. QED
    BY <2>1, ScorePasses
<1>. QED
  BY <1>3, <1>4, <1>5, <1>6
     DEF Content, Answering, AnswersAt, Passes, Pushed, DecisionTypes

LEMMA ContentStates ==
  ASSUME NEW S, IsFiniteSet(S), NEW q, NEW r
  PROVE  Content(StateUpdates(r, S), q, r, {})
<1>. PICK o : o = SetToSeq(S)
  OBVIOUS
<1>2. o \in Seq(S)
  BY Listed
<1>. PICK n \in Nat : n = Len(o) /\ DOMAIN o = 1..n
  BY <1>2, LenProperties
<1>. PICK w : w = [i \in DOMAIN o |-> StateUpdate(r, o[i])]
  OBVIOUS
<1>3. StateUpdates(r, S) = w
  BY DEF StateUpdates
<1>4. DOMAIN w = 1..n /\ w = [i \in DOMAIN w |-> w[i]]
  OBVIOUS
<1>5. IsSeq(w)
  BY <1>4, SeqIs
<1>6. \A i \in 1..n : /\ SinkTakes(w[i]) /\ w[i].type = "state_update"
                      /\ w[i].superseded = r[w[i].id].superseded
  <2>. TAKE i \in 1..n
  <2>1. w[i] = StateUpdate(r, o[i])
    OBVIOUS
  <2>. QED
    BY <2>1, StatePasses
<1>. QED
  BY <1>3, <1>4, <1>5, <1>6
     DEF Content, Answering, AnswersAt, Passes, Pushed, DecisionTypes

LEMMA ContentState ==
  ASSUME NEW q, NEW r, NEW p, NEW id, p[id].superseded = r[id].superseded
  PROVE  Content(<<StateUpdate(p, id)>>, q, r, {})
<1>. PICK m : m = StateUpdate(p, id)
  OBVIOUS
<1>1. Passes(m, q, r) /\ m.type = "state_update"
  BY StatePasses DEF Passes, Pushed
<1>. QED
  BY <1>1, ContentOne DEF DecisionTypes

LEMMA ContentReply ==
  ASSUME NEW q, NEW r, NEW c, NEW x
  PROVE  /\ Content(<<CommandResult(c, x)>>, q, r, {})
         /\ Content(<<StartTask>>, q, r, {})
<1>1. /\ CommandResult(c, x).type = "command_result"
      /\ StartTask.type = "start_task"
  BY DEF CommandResult, StartTask
<1>2. Passes(CommandResult(c, x), q, r) /\ Passes(StartTask, q, r)
  BY <1>1 DEF Passes, Pushed
<1>. QED
  BY <1>1, <1>2, ContentOne DEF DecisionTypes

LEMMA ContentForward ==
  ASSUME NEW q, NEW r, NEW c, NEW id, NEW d
  PROVE  Content(<<Forward(c, id, d)>>, q, r, {Forward(c, id, d)})
<1>1. Forward(c, id, d).type = "respond_request"
  BY DEF Forward
<1>2. Passes(Forward(c, id, d), q, r)
  BY <1>1 DEF Passes, Pushed
<1>. QED
  BY <1>1, <1>2, ContentOne DEF DecisionTypes

(* CoreTells(F): the core keeps its invariants, what it sends shows what it*)
(* did, and forwards decisions of F only, one at most.                     *)
CoreTells(F) ==
  /\ IInv' /\ WorkingRated'
  /\ Shows(queue, out', queue') /\ Answering(out', F)
  /\ \A i \in DOMAIN out' :
       /\ out'[i].type \in Pushed => SinkTakes(out'[i])
       /\ out'[i].type = "event" => out'[i].id = Len(queue) + 1

LEMMA KeepsGrows ==
  ASSUME NEW q \in Seq(QueueEntry), NEW r, Keeps(q, r)
  PROVE  /\ Grows(q, r) /\ Ids(r) = Ids(q) /\ r \in Seq(QueueEntry)
         /\ \A id \in Ids(q) : r[id].superseded = q[id].superseded
BY LenProperties DEF Keeps, KeepsFrame, Grows, Ids

LEMMA Unchanging ==
  ASSUME IInv, IInv', WorkingRated', NEW F, Keeps(queue, queue'),
         Content(out', queue, queue', F), Leads(queue, out', queue')
  PROVE  CoreTells(F)
<1>1. queue \in Seq(QueueEntry)
  BY Store
<1>2. Grows(queue, queue')
  BY <1>1, KeepsGrows
<1>3. LastOnly(out') /\ \A i \in DOMAIN out' : Passes(out'[i], queue, queue')
  BY DEF LastOnly, Content
<1>4. Shows(queue, out', queue')
  BY <1>2, <1>3, LeadsShows
<1>. QED
  BY <1>3, <1>4 DEF CoreTells, Content, Passes

LEMMA IdleTells ==
  ASSUME IInv, WorkingRated, UNCHANGED <<now, events, queue, open>>,
         out' = <<>>
  PROVE  CoreTells({})
<1>1. queue \in Seq(QueueEntry) /\ now' \in Nat
  BY Store
<1>2. Keeps(queue, queue')
  BY <1>1, KeepsItself
<1>3. IInv'
  BY <1>1, <1>2, StillStep
<1>4. WorkingRated'
  BY DEF WorkingRated
<1>5. Content(out', queue, queue', {}) /\ Leads(queue, out', queue')
  BY ContentNone, ToldNothing
<1>. QED
  BY <1>2, <1>3, <1>4, <1>5, Unchanging

LEMMA StartTells ==
  ASSUME IInv, WorkingRated, NEW c, ClientStartTask(c)
  PROVE  CoreTells({})
<1>1. queue \in Seq(QueueEntry) /\ now' \in Nat
      /\ UNCHANGED <<now, events, queue, open>>
      /\ out' = <<StartTask, CommandResult(c, "ok")>>
  BY Store DEF ClientStartTask
<1>2. Keeps(queue, queue')
  BY <1>1, KeepsItself
<1>3. IInv'
  BY <1>1, <1>2, StillStep
<1>4. WorkingRated'
  BY <1>1 DEF WorkingRated
<1>5. Leads(queue, out', queue')
  <2>1. Leads(queue, <<StartTask>>, queue)
    BY ToldQuiet, QuietMessages DEF Quiet
  <2>2. Leads(queue, <<StartTask, CommandResult(c, "ok")>>, queue)
    BY <2>1, ToldAlong, QuietMessages
  <2>. QED
    BY <1>1, <2>2
<1>6. Content(out', queue, queue', {})
  <2>1. Content(<<StartTask>>, queue, queue', {})
        /\ Content(<<CommandResult(c, "ok")>>, queue, queue', {})
    BY ContentReply
  <2>2. Content(<<StartTask>> \o <<CommandResult(c, "ok")>>, queue, queue', {})
    BY <2>1, ContentNext
  <2>. QED
    BY <1>1, <2>2, Juxtaposed
<1>. QED
  BY <1>2, <1>3, <1>4, <1>5, <1>6, Unchanging

LEMMA FiniteIds ==
  ASSUME NEW q \in Seq(QueueEntry)
  PROVE  IsFiniteSet(Ids(q))
<1>1. Ids(q) = 1..Len(q) /\ Len(q) \in Nat
  BY LenProperties DEF Ids
<1>2. IsFiniteSet(1..Len(q))
  BY <1>1, FS_Interval
<1>. QED
  BY <1>1, <1>2

LEMMA DismissTells ==
  ASSUME IInv, WorkingRated, NEW c, NEW id, ClientDismiss(c, id)
  PROVE  CoreTells({}) /\ Keeps(queue, queue')
<1>1. queue \in Seq(QueueEntry)
  BY Store
<1>2. Keeps(queue, queue')
  BY <1>1, AttentionKeeps, KeepsItself DEF ClientDismiss, CanDismiss, Known
<1>3. IInv' /\ WorkingRated' /\ Leads(queue, out', queue')
  BY AttentionStep, AttentionRated, AttentionTold
<1>4. Content(out', queue, queue', {})
  <2>1. \A x : Content(<<CommandResult(c, x)>>, queue, queue', {})
    BY ContentReply
  <2>2. CASE ~Known(queue, id)
    BY <2>1, <2>2 DEF ClientDismiss
  <2>3. CASE Known(queue, id) /\ ~CanDismiss(queue, id)
    BY <2>1, <2>3 DEF ClientDismiss
  <2>4. CASE Known(queue, id) /\ CanDismiss(queue, id)
    <3>1. out' = <<StateUpdate(queue', id), CommandResult(c, "ok")>>
      BY <2>4 DEF ClientDismiss
    <3>2. Content(<<StateUpdate(queue', id)>>, queue, queue', {})
      BY ContentState
    <3>3. Content(<<StateUpdate(queue', id)>> \o <<CommandResult(c, "ok")>>,
                  queue, queue', {})
      BY <2>1, <3>2, ContentNext
    <3>. QED
      BY <3>1, <3>3, Juxtaposed
  <2>. QED
    BY <2>2, <2>3, <2>4
<1>. QED
  BY <1>2, <1>3, <1>4, Unchanging

LEMMA OutcomeTells ==
  ASSUME IInv, WorkingRated, NEW id,
         (\E decision \in Decisions : Delivered(id, decision))
           \/ DeliveryFailed(id)
  PROVE  CoreTells({}) /\ commands' = commands /\ Keeps(queue, queue')
<1>1. queue \in Seq(QueueEntry) /\ now \in Nat
  BY Store
<1>0. UNCHANGED <<now, events, open, commands>>
  BY DEF Delivered, DeliveryFailed
<1>2. CASE ~InDelivery(queue, id)
  <2>1. queue' = queue /\ out' = <<>>
    BY <1>2 DEF Delivered, DeliveryFailed
  <2>. QED
    BY <1>0, <1>1, <2>1, IdleTells, KeepsItself
<1>3. CASE InDelivery(queue, id)
  <2>1. id \in Ids(queue) /\ queue[id].resolution # "None"
    BY <1>3 DEF InDelivery, Known
  <2>2. AdapterOutcome
    BY <2>1 DEF AdapterOutcome
  <2>3. PICK r : /\ Keeps(queue, r)
                 /\ queue' = UpdateEntryScore(r, events, id, now)
                 /\ out' = ScoreUpdates(queue, queue')
                             \o <<StateUpdate(queue', id)>>
    <3>1. \A d \in Decisions : Keeps(queue, MarkDelivered(queue, id, d))
      BY <1>1, <2>1, ResolutionKeeps
    <3>2. Keeps(queue, MarkDeliveryFailed(queue, id))
      BY <1>1, <2>1, ResolutionKeeps
    <3>3. ASSUME NEW d \in Decisions, Delivered(id, d)
          PROVE  LET r == MarkDelivered(queue, id, d) IN
                 /\ queue' = UpdateEntryScore(r, events, id, now)
                 /\ out' = ScoreUpdates(queue, queue')
                             \o <<StateUpdate(queue', id)>>
      BY <1>3, <3>3 DEF Delivered
    <3>4. ASSUME DeliveryFailed(id)
          PROVE  LET r == MarkDeliveryFailed(queue, id) IN
                 /\ queue' = UpdateEntryScore(r, events, id, now)
                 /\ out' = ScoreUpdates(queue, queue')
                             \o <<StateUpdate(queue', id)>>
      BY <1>3, <3>4 DEF DeliveryFailed
    <3>. QED
      BY <3>1, <3>2, <3>3, <3>4
  <2>4. Keeps(queue, queue')
    BY <2>3, Rescoring
  <2>5. IInv' /\ WorkingRated' /\ Leads(queue, out', queue')
    BY <2>2, OutcomeStep, OutcomeRated, OutcomeTold
  <2>6. Content(out', queue, queue', {})
    <3>1. Content(ScoreUpdates(queue, queue'), queue, queue', {})
      BY <1>1, FiniteIds, ContentScores
    <3>2. Content(<<StateUpdate(queue', id)>>, queue, queue', {})
      BY ContentState
    <3>. QED
      BY <2>3, <3>1, <3>2, ContentNext
  <2>. QED
    BY <1>0, <2>4, <2>5, <2>6, Unchanging
<1>. QED
  BY <1>2, <1>3

LEMMA RespondTells ==
  ASSUME IInv, WorkingRated, NEW c, NEW id, NEW decision \in Decisions,
         ClientRespond(c, id, decision)
  PROVE  CoreTells({Forward(c, id, decision)}) /\ Keeps(queue, queue')
<1>1. queue \in Seq(QueueEntry) /\ now \in Nat /\ IsFiniteSet(Ids(queue))
  BY Store, FiniteIds
<1>2. HasResponder
  BY TerminalAssumption
<1>3. IInv' /\ WorkingRated' /\ Leads(queue, out', queue')
  BY RespondStep, RespondRated, RespondTold
<1>. PICK F : F = {Forward(c, id, decision)}
  OBVIOUS
<1>4. CASE RespondRefused(c, id)
  <2>1. queue' = queue
        /\ out' = <<CommandResult(c, RespondVerdict(queue, id))>>
    BY <1>4 DEF RespondRefused
  <2>2. Keeps(queue, queue')
    BY <1>1, <2>1, KeepsItself
  <2>3. Content(out', queue, queue', {})
    BY <2>1, ContentReply
  <2>4. Content(<<>>, queue, queue', F)
    BY ContentNone
  <2>5. Content(out', queue, queue', F)
    BY <2>3 DEF Content, Answering, AnswersAt
  <2>. QED
    BY <1>3, <2>2, <2>5, Unchanging
<1>5. ASSUME RespondVerdict(queue, id) = "ok"
      PROVE  \E pending :
               /\ pending = UpdateEntryScore(RespondRequest(queue, id),
                                             events, id, now)
               /\ Keeps(queue, pending) /\ pending \in Seq(QueueEntry)
               /\ id \in Ids(queue) /\ id \in Ids(pending)
               /\ pending[id].resolution # "None"
               /\ pending[id].superseded = queue[id].superseded
               /\ IsFiniteSet(Ids(pending))
  <2>. PICK pending : pending = UpdateEntryScore(RespondRequest(queue, id),
                                                 events, id, now)
    OBVIOUS
  <2>1. id \in Ids(queue) /\ queue[id].resolution # "None"
    BY <1>5, Answerable
  <2>2. Keeps(queue, RespondRequest(queue, id))
    BY <1>1, <2>1, ResolutionKeeps
  <2>3. Keeps(queue, pending)
    BY <2>2, Rescoring
  <2>4. pending \in Seq(QueueEntry) /\ Ids(pending) = Ids(queue)
        /\ pending[id].superseded = queue[id].superseded
    BY <1>1, <2>1, <2>3, KeepsGrows
  <2>5. pending[id].resolution # "None"
    BY <2>1, <2>3 DEF Keeps, KeepsFrame
  <2>. QED
    BY <2>1, <2>3, <2>4, <2>5, FiniteIds
<1>6. CASE RespondSent(c, id, decision)
  <2>1. RespondVerdict(queue, id) = "ok"
    BY <1>6 DEF RespondSent
  <2>2. PICK pending :
          /\ pending = UpdateEntryScore(RespondRequest(queue, id),
                                        events, id, now)
          /\ Keeps(queue, pending)
    BY <1>5, <2>1
  <2>3. /\ queue' = pending
        /\ out' = ScoreUpdates(queue, pending)
              \o <<StateUpdate(pending, id), Forward(c, id, decision),
                   CommandResult(c, "ok")>>
    BY <1>6, <2>2 DEF RespondSent
  <2>4. Content(ScoreUpdates(queue, pending), queue, pending, {})
    BY <1>1, ContentScores
  <2>5. Content(<<StateUpdate(pending, id)>>, queue, pending, {})
    BY ContentState
  <2>6. Content(<<Forward(c, id, decision)>>, queue, pending, F)
    BY ContentForward
  <2>7. Content(<<CommandResult(c, "ok")>>, queue, pending, {})
    BY ContentReply
  <2>8. Content(<<Forward(c, id, decision), CommandResult(c, "ok")>>,
                queue, pending, F)
    <3>1. Content(<<Forward(c, id, decision)>>
                  \o <<CommandResult(c, "ok")>>, queue, pending, F)
      BY <2>6, <2>7, ContentNext
    <3>. QED
      BY <3>1, Juxtaposed
  <2>9. Content(<<StateUpdate(pending, id), Forward(c, id, decision),
                  CommandResult(c, "ok")>>, queue, pending, F)
    <3>1. Content(<<StateUpdate(pending, id)>>
                  \o <<Forward(c, id, decision), CommandResult(c, "ok")>>,
                  queue, pending, F)
      BY <2>5, <2>8, ContentNext
    <3>. QED
      BY <3>1, Juxtaposed
  <2>10. Content(out', queue, queue', F)
    BY <2>3, <2>4, <2>9, ContentNext
  <2>. QED
    BY <1>3, <2>2, <2>3, <2>10, Unchanging
<1>7. CASE RespondOverflow(c, id, decision)
  <2>1. RespondVerdict(queue, id) = "ok"
    BY <1>7 DEF RespondOverflow
  <2>2. PICK pending :
          /\ pending = UpdateEntryScore(RespondRequest(queue, id),
                                        events, id, now)
          /\ Keeps(queue, pending) /\ pending \in Seq(QueueEntry)
          /\ id \in Ids(queue) /\ id \in Ids(pending)
          /\ pending[id].resolution # "None"
          /\ pending[id].superseded = queue[id].superseded
          /\ IsFiniteSet(Ids(pending))
    BY <1>5, <2>1
  <2>3. /\ queue' = UpdateEntryScore(MarkDeliveryFailed(pending, id),
                                     events, id, now)
        /\ out' = ScoreUpdates(queue, pending)
              \o <<StateUpdate(pending, id), Forward(c, id, decision)>>
              \o ScoreUpdates(pending, queue')
              \o <<StateUpdate(queue', id),
                   CommandResult(c, "delivery_failed")>>
    BY <1>7, <2>2 DEF RespondOverflow
  <2>4. Keeps(queue, queue')
    <3>1. Keeps(pending, MarkDeliveryFailed(pending, id))
      BY <2>2, ResolutionKeeps
    <3>2. Keeps(queue, MarkDeliveryFailed(pending, id))
      BY <1>1, <2>2, <3>1, KeepsTransitive
    <3>. QED
      BY <2>3, <3>2, Rescoring
  <2>5. pending[id].superseded = queue'[id].superseded
    BY <1>1, <2>2, <2>4, KeepsGrows
  <2>6. PICK r : r = queue'
    OBVIOUS
  <2>7. Content(ScoreUpdates(queue, pending), queue, r, {})
        /\ Content(ScoreUpdates(pending, r), queue, r, {})
    BY <1>1, <2>2, ContentScores
  <2>8. Content(<<StateUpdate(pending, id)>>, queue, r, {})
        /\ Content(<<StateUpdate(r, id)>>, queue, r, {})
    BY <2>5, <2>6, ContentState
  <2>9. Content(<<StateUpdate(pending, id), Forward(c, id, decision)>>,
                queue, r, F)
    <3>1. Content(<<Forward(c, id, decision)>>, queue, r, F)
      BY ContentForward
    <3>2. Content(<<StateUpdate(pending, id)>>
                  \o <<Forward(c, id, decision)>>, queue, r, F)
      BY <2>8, <3>1, ContentNext
    <3>. QED
      BY <3>2, Juxtaposed
  <2>10. Content(<<StateUpdate(r, id), CommandResult(c, "delivery_failed")>>,
                 queue, r, {})
    <3>1. Content(<<CommandResult(c, "delivery_failed")>>, queue, r, {})
      BY ContentReply
    <3>2. Content(<<StateUpdate(r, id)>>
                  \o <<CommandResult(c, "delivery_failed")>>, queue, r, {})
      BY <2>8, <3>1, ContentNext
    <3>. QED
      BY <3>2, Juxtaposed
  <2>11. PICK w1 : w1 = ScoreUpdates(queue, pending)
              \o <<StateUpdate(pending, id), Forward(c, id, decision)>>
    OBVIOUS
  <2>12. Content(w1, queue, r, F)
    BY <2>7, <2>9, <2>11, ContentNext
  <2>13. PICK w2 : w2 = w1 \o ScoreUpdates(pending, r)
    OBVIOUS
  <2>14. Content(w2, queue, r, F)
    BY <2>7, <2>12, <2>13, ContentNext
  <2>15. Content(out', queue, queue', F)
    BY <2>3, <2>6, <2>10, <2>11, <2>13, <2>14, ContentNext
  <2>. QED
    BY <1>3, <2>4, <2>15, Unchanging
<1>. QED
  BY <1>2, <1>4, <1>6, <1>7 DEF ClientRespond

(* ArrivalTells: an event, told after what it makes outdated.              *)
LEMMA ArrivalTells ==
  ASSUME IInv, WorkingRated, Arrival
  PROVE  CoreTells({}) /\ commands' = commands
<1>0. /\ queue \in Seq(QueueEntry) /\ Len(queue) = Len(events)
      /\ Len(queue) \in Nat /\ Ids(queue) = 1..Len(queue)
      /\ IsFiniteSet(Ids(queue))
  BY Store, FiniteIds
<1>1. IInv' /\ WorkingRated' /\ Leads(queue, out', queue')
  BY ArrivalStep, ArrivalTold
<1>. PICK n \in Nat : n = Len(queue)
  BY <1>0
<1>2. Grows(queue, queue')
  <2>1. PICK event \in Event, stale \in SUBSET Ids(queue) :
          /\ queue' \in Seq(QueueEntry) /\ Len(queue') = n + 1
          /\ \A x \in Ids(queue) :
               queue'[x].superseded <=> queue[x].superseded \/ x \in stale
    BY <1>0, ArrivalEffect
  <2>. QED
    BY <1>0, <2>1 DEF Grows
<1>. PICK kind \in Kinds, hasRequest \in BOOLEAN,
          task \in Tasks \cup {NoTask},
          operation \in Operations, agentSeq \in Nat :
            RawEvent(kind, hasRequest, task, operation, agentSeq)
  BY DEF Arrival
<1>. DEFINE event == Processed(kind, hasRequest, task, operation, agentSeq)
<1>. PICK stale :
       stale = {x \in Outdated(open, event) : CanSupersede(queue, x)}
  OBVIOUS
<1>. PICK r : r = queue'
  OBVIOUS
<1>. PICK es : es = events'
  OBVIOUS
<1>3. /\ out' = Append(StateUpdates(r, stale), EventPush(r, es, n + 1))
      /\ commands' = commands
  BY <1>0 DEF RawEvent
<1>4. IsFiniteSet(stale)
  <2>1. stale \subseteq Ids(queue)
    BY DEF CanSupersede, Known
  <2>. QED
    BY <1>0, <2>1, FS_Subset
<1>. PICK w : w = StateUpdates(r, stale)
  OBVIOUS
<1>5. Content(w, queue, r, {})
  BY <1>4, ContentStates
<1>. PICK m : m = EventPush(r, es, n + 1)
  OBVIOUS
<1>6. SinkTakes(m) /\ m.type = "event" /\ m.id = n + 1
  BY EventPasses
<1>7. Passes(m, queue, r)
  BY <1>6 DEF Passes
<1>. PICK t : t = out'
  OBVIOUS
<1>8. t = Append(w, m)
  BY <1>3
<1>. PICK k \in Nat : k = Len(w) /\ DOMAIN w = 1..k
  BY <1>5, SeqFacts DEF Content
<1>9. /\ IsSeq(t) /\ Len(t) = k + 1 /\ t[k + 1] = m
      /\ \A i \in 1..k : t[i] = w[i]
  BY <1>5, <1>8, SeqAppend DEF Content
<1>10. DOMAIN t = 1..(k + 1)
  BY <1>9, SeqFacts
<1>11. \A i \in DOMAIN t : i = k + 1 \/ i \in 1..k
  BY <1>10
<1>12. \A i \in 1..k : /\ Passes(w[i], queue, r) /\ w[i].type # "event"
                       /\ w[i].type \notin DecisionTypes
  BY <1>5 DEF Content, Answering, AnswersAt
<1>13. \A i \in DOMAIN t : Passes(t[i], queue, r)
  BY <1>7, <1>9, <1>11, <1>12
<1>14. LastOnly(t)
  BY <1>9, <1>11, <1>12 DEF LastOnly
<1>15. Answering(t, {})
  BY <1>6, <1>9, <1>11, <1>12 DEF Answering, AnswersAt, DecisionTypes
<1>16. Shows(queue, t, r)
  BY <1>1, <1>2, <1>13, <1>14, LeadsShows
<1>. QED
  BY <1>1, <1>3, <1>13, <1>15, <1>16 DEF CoreTells, Passes

-----------------------------------------------------------------------------
(* Screens and the state machine.                                          *)
ShownKinds == {"initializing", "prompted", "idle", "working", "completed",
               "dialog"}

(* What a screen can show, and what the state machine has of it.           *)
ScreenStates ==
  {s \in [kind : ShownKinds, dialog : 0..MaxDialogs, moved : BOOLEAN] :
     s.dialog > 0 <=> s.kind = "dialog"}

Agents ==
  {a \in [state : ScreenStates, task : BOOLEAN, worked : BOOLEAN,
          dialogs : 0..MaxDialogs] :
     /\ a.state.kind \in {"idle", "working", "dialog"}
     /\ a.state.dialog \in {0, a.dialogs}}

ToldKinds == {"progress", "idle", "task_completed", "command_confirmation"}

(* Telling: only a menu of commands tells of a dialog.                     *)
Telling == {r \in [kind : ToldKinds, dialog : 0..MaxDialogs] :
              r.dialog > 0 => r.kind = "command_confirmation"}

Reports == {NoReport} \cup Telling

Machines == [current : ScreenStates, prompt : BOOLEAN, recent : BOOLEAN,
             report : Reports]

LEMMA ShownStates ==
  /\ \A kind \in ShownKinds \ {"dialog"} :
       /\ Shown(kind) \in ScreenStates /\ Shown(kind).kind = kind
       /\ Shown(kind).dialog = 0
  /\ \A k \in 1..MaxDialogs :
       /\ Dialog(k) \in ScreenStates /\ Dialog(k).kind = "dialog"
       /\ Dialog(k).dialog = k
<1>. MaxDialogs \in Nat
  BY TerminalAssumption
<1>1. ASSUME NEW kind \in ShownKinds \ {"dialog"}
      PROVE  /\ Shown(kind) \in ScreenStates /\ Shown(kind).kind = kind
             /\ Shown(kind).dialog = 0
  BY DEF Shown, ScreenStates
<1>2. ASSUME NEW k \in 1..MaxDialogs
      PROVE  /\ Dialog(k) \in ScreenStates /\ Dialog(k).kind = "dialog"
             /\ Dialog(k).dialog = k
  <2>1. Shown("dialog") \in [kind : {"dialog"}, dialog : 0..MaxDialogs,
                              moved : BOOLEAN]
    BY DEF Shown
  <2>. PICK s \in [kind : {"dialog"}, dialog : 0..MaxDialogs,
                   moved : BOOLEAN] : s = Shown("dialog")
    BY <2>1
  <2>3. Dialog(k) = [s EXCEPT !.dialog = k]
    BY DEF Dialog
  <2>. QED
    BY <2>3 DEF ScreenStates, ShownKinds
<1>. QED
  BY <1>1, <1>2

LEMMA Reported ==
  ASSUME NEW s \in ScreenStates, s.kind # "initializing"
  PROVE  Report(s) \in Reports /\ Report(s).dialog = s.dialog
<1>. MaxDialogs \in Nat
  BY TerminalAssumption
<1>1. CASE s.kind \in {"working", "prompted"}
  BY <1>1 DEF Report, Reports, Telling, ScreenStates, ToldKinds
<1>2. CASE s.kind = "idle"
  BY <1>2 DEF Report, Reports, Telling, ScreenStates, ToldKinds
<1>3. CASE s.kind = "completed"
  BY <1>3 DEF Report, Reports, Telling, ScreenStates, ToldKinds
<1>4. CASE s.kind = "dialog"
  BY <1>4 DEF Report, Reports, Telling, ScreenStates, ToldKinds
<1>. QED
  BY <1>1, <1>2, <1>3, <1>4 DEF ScreenStates, ShownKinds

(* Entered: what a machine is told on entering a state.                    *)
LEMMA Entered ==
  ASSUME NEW m \in Machines, NEW s \in ScreenStates, s.kind # "initializing"
  PROVE  /\ Enters(m, s) \in Machines /\ Enters(m, s).current = s
         /\ Enters(m, s).report.dialog = s.dialog
<1>. PICK r \in Reports : r = Report(s) /\ r.dialog = s.dialog
  BY Reported
<1>1. Enters(m, s) = [m EXCEPT !.current = s, !.report = r]
  BY DEF Enters
<1>. QED
  BY <1>1 DEF Machines

LEMMA UpdateCases ==
  ASSUME NEW m \in Machines, NEW a \in Agents
  PROVE  LET u == Update(m, a) IN
         /\ u \in Machines
         /\ \/ u.current.dialog = m.current.dialog /\ u.report.dialog = 0
            \/ /\ u.current.dialog = a.state.dialog
               /\ u.report.dialog = a.state.dialog
               /\ a.state.dialog = 0 \/ m.current.dialog # a.state.dialog
         /\ \/ u.current.dialog = m.current.dialog /\ u.report = NoReport
            \/ u.report.dialog = u.current.dialog
<1>. PICK u : u = Update(m, a)
  OBVIOUS
<1>. PICK b : b = [m EXCEPT !.prompt = @ \/ a.task, !.report = NoReport]
  OBVIOUS
<1>. PICK rest : rest = [b EXCEPT !.prompt = FALSE, !.recent = FALSE]
  OBVIOUS
<1>. DEFINE busy == b.prompt
                      \/ m.current.kind \in {"working", "prompted", "dialog"}
<1>0. /\ a.state \in ScreenStates /\ a.task \in BOOLEAN
      /\ m.current \in ScreenStates
      /\ a.state.kind \in {"idle", "working", "dialog"}
  BY DEF Agents, Machines
<1>1. /\ b \in Machines /\ rest \in Machines /\ b.current = m.current
      /\ b.report.dialog = 0 /\ b.report = NoReport
  <2>1. NoReport \in Reports /\ NoReport.dialog = 0
    BY DEF Reports, NoReport
  <2>. QED
    BY <1>0, <2>1 DEF Machines
<1>2. u = CASE a.state = m.current -> b
            [] a.state # m.current /\ SameRequest(m.current, a.state) ->
                 [b EXCEPT !.current = a.state]
            [] a.state # m.current /\ ~SameRequest(m.current, a.state) ->
                 IF a.state.kind # "idle" \/ ~busy THEN Enters(b, a.state)
                 ELSE IF a.worked THEN Enters(rest, Shown("completed"))
                 ELSE IF b.recent /\ b.prompt THEN b
                 ELSE Enters(rest, a.state)
  BY DEF Update
<1>3. CASE a.state = m.current
  BY <1>1, <1>2, <1>3
<1>4. CASE a.state # m.current /\ SameRequest(m.current, a.state)
  <2>1. u = [b EXCEPT !.current = a.state]
    BY <1>2, <1>4
  <2>2. u \in Machines /\ u.current = a.state /\ u.report = b.report
    BY <1>0, <1>1, <2>1 DEF Machines
  <2>3. a.state.dialog = m.current.dialog
    BY <1>4 DEF SameRequest
  <2>. QED
    BY <1>1, <2>2, <2>3
<1>5. CASE a.state # m.current /\ ~SameRequest(m.current, a.state)
  <2>1. u = IF a.state.kind # "idle" \/ ~busy THEN Enters(b, a.state)
            ELSE IF a.worked THEN Enters(rest, Shown("completed"))
            ELSE IF b.recent /\ b.prompt THEN b
            ELSE Enters(rest, a.state)
    BY <1>2, <1>5
  <2>2. a.state.dialog = 0 \/ m.current.dialog # a.state.dialog
    BY <1>0, <1>5 DEF SameRequest, ScreenStates
  <2>3. CASE u = Enters(b, a.state) \/ u = Enters(rest, a.state)
    BY <1>0, <1>1, <2>2, <2>3, Entered
  <2>4. CASE u = Enters(rest, Shown("completed")) /\ a.state.kind = "idle"
    <3>1. /\ Shown("completed") \in ScreenStates
          /\ Shown("completed").kind = "completed"
          /\ Shown("completed").dialog = 0
      BY ShownStates DEF ShownKinds
    <3>2. a.state.dialog = 0
      BY <1>0, <2>4 DEF ScreenStates
    <3>. QED
      BY <1>1, <2>2, <2>4, <3>1, <3>2, Entered
  <2>5. CASE u = b
    BY <1>1, <2>5
  <2>. HIDE DEF busy
  <2>. QED
    BY <2>1, <2>3, <2>4, <2>5
<1>. QED
  BY <1>3, <1>4, <1>5

-----------------------------------------------------------------------------
(* AnnouncedOnce.  What is on its way to the core, and what each dialog may*)
(* still cost.                                                             *)
(* Letter: what a letter to the core is. Raws(k): those that announce k.   *)
(* Outcomes(id): those that say what became of a decision on request id.   *)
RawLetters ==
  {e \in [do : {"raw"}, kind : ToldKinds, dialog : 0..MaxDialogs] :
     e.dialog > 0 => e.kind = "command_confirmation"}

Outcomes(id) ==
  [do : {"outcome"}, ok : BOOLEAN, id : {id}, decision : Decisions]

Letter(m) ==
  /\ m.do = "raw" => m \in RawLetters
  /\ m.do = "outcome" => m \in Outcomes(m.id)
  /\ m.do = "respond" => m.decision \in Decisions

Letters(s) == IsSeq(s) /\ \A i \in DOMAIN s : Letter(s[i])

Plain(s) == Letters(s) /\ \A i \in DOMAIN s : s[i].do # "raw"

Raws(k) == [do : {"raw"}, kind : ToldKinds, dialog : {k}]

(* Announced(k): how often dialog k was announced or will be.              *)
Announced(k) ==
  Cardinality(Hits(asked, {k})) + Cardinality(Hits(inbox, Raws(k)))

(* Budget: what AnnouncedOnce allows.  A dialog that the agent has not     *)
(* shown yet cost nothing, and one that it shows and the machine has not   *)
(* entered has an announcement left, so that entering it does no harm.     *)
Budget(k, count, spare, a, m) ==
  /\ count <= 1 + spare
  /\ k > a.dialogs => count = 0
  /\ k = a.state.dialog /\ m.current.dialog # k => count <= spare

(* Seen: the machine is in no dialog that was not shown yet, and while it  *)
(* is in the one the agent shows, the screen that was read shows one too.  *)
Seen(a, s, m) ==
  /\ m.current.dialog <= a.dialogs
  /\ m.current.dialog > 0 /\ m.current.dialog = a.state.dialog
       => s.state.kind = "dialog"

ShellTyped ==
  /\ agent \in Agents /\ screen \in Agents /\ machine \in Machines
  /\ prompted \in [1..MaxDialogs -> Nat]

(* Tells(s, k): the last report among the letters s announces dialog k.    *)
(* LastTold: it does, or there is none and the last event of a announced k.*)
Silent(s) == \A i \in DOMAIN s : s[i].do # "raw"

Tells(s, k) ==
  \E i \in DOMAIN s :
    s[i] \in Raws(k) /\ \A j \in DOMAIN s : j > i => s[j].do # "raw"

LastTold(s, a, k) ==
  Tells(s, k) \/ (Silent(s) /\ a # <<>> /\ a[Len(a)] = k)

AInv ==
  /\ ShellTyped /\ Letters(inbox) /\ IsSeq(asked)
  /\ Seen(agent, screen, machine)
  /\ \A k \in 1..MaxDialogs :
       Budget(k, Announced(k), prompted[k], agent, machine)
  /\ machine.current.dialog > 0
       => LastTold(inbox, asked, machine.current.dialog)

(* Letters one after the other, and without the first.                     *)
LEMMA LettersConcat ==
  ASSUME NEW s, NEW w, Letters(s), Letters(w)
  PROVE  Letters(s \o w)
<1>1. IsSeq(s \o w)
  BY SeqConcat DEF Letters
<1>. QED
  BY <1>1, ElementsConcat DEF Letters

LEMMA LettersTail ==
  ASSUME NEW s, Letters(s), s # <<>>
  PROVE  Letter(Head(s)) /\ Letters(Tail(s))
<1>1. IsSeq(Tail(s))
  BY SeqTail DEF Letters
<1>. QED
  BY <1>1, ElementsTail DEF Letters

LEMMA PlainOne ==
  ASSUME NEW m, Letter(m), m.do # "raw"
  PROVE  Plain(<<m>>)
<1>. PICK w : w = <<m>>
  OBVIOUS
<1>1. w \in Seq({m}) /\ DOMAIN w = {1} /\ w[1] = m
  OBVIOUS
<1>. QED
  BY <1>1 DEF Plain, Letters, IsSeq

LEMMA PlainNone == Plain(<<>>)
<1>1. <<>> \in Seq({}) /\ DOMAIN <<>> = {}
  BY EmptySeq
<1>. QED
  BY <1>1 DEF Plain, Letters, IsSeq

(* PlainAnnounces: letters that announce nothing leave the count alone.    *)
LEMMA PlainAnnounces ==
  ASSUME NEW w, Plain(w), NEW k
  PROVE  Cardinality(Hits(w, Raws(k))) = 0
<1>1. \A i \in DOMAIN w : w[i] \notin Raws(k)
  BY DEF Plain, Raws
<1>. QED
  BY <1>1, HitsFew DEF Plain, Letters

(* RawAnnounces: what a report of the machine costs.                       *)
LEMMA RawAnnounces ==
  ASSUME NEW m \in Machines, NEW k \in Nat \ {0}
  PROVE  /\ Letters(Raw(m))
         /\ Cardinality(Hits(Raw(m), Raws(k)))
              = IF m.report.dialog = k THEN 1 ELSE 0
<1>. MaxDialogs \in Nat
  BY TerminalAssumption
<1>1. CASE m.report = NoReport
  <2>1. Raw(m) = <<>> /\ m.report.dialog # k
    BY <1>1 DEF Raw, NoReport
  <2>. QED
    BY <2>1, PlainNone, PlainAnnounces DEF Plain
<1>2. CASE m.report # NoReport
  <2>. PICK e : e = [do |-> "raw", kind |-> m.report.kind,
                     dialog |-> m.report.dialog]
    OBVIOUS
  <2>. PICK w : w = Raw(m)
    OBVIOUS
  <2>1. w = <<e>>
    BY <1>2 DEF Raw
  <2>2. m.report \in Telling
    BY <1>2 DEF Machines, Reports
  <2>3. e \in RawLetters /\ e.do = "raw" /\ e.dialog = m.report.dialog
        /\ e.kind \in ToldKinds
    BY <2>2 DEF RawLetters, Telling
  <2>4. e \in Raws(k) <=> m.report.dialog = k
    BY <2>3 DEF Raws, RawLetters
  <2>5. w \in Seq({e}) /\ DOMAIN w = {1} /\ w[1] = e
    BY <2>1
  <2>6. Letters(w)
    BY <2>3, <2>5 DEF Letters, IsSeq, Letter
  <2>7. Hits(w, Raws(k)) = IF m.report.dialog = k THEN {1} ELSE {}
    BY <2>4, <2>5 DEF Hits
  <2>8. Cardinality({1}) = 1 /\ Cardinality({}) = 0
    BY FS_Singleton, FS_EmptySet
  <2>. QED
    BY <2>6, <2>7, <2>8
<1>. QED
  BY <1>1, <1>2

LEMMA TellsAfter ==
  ASSUME NEW s, NEW w, IsSeq(s), IsSeq(w), NEW k, Tells(w, k)
  PROVE  Tells(s \o w, k)
<1>. PICK t : t = s \o w
  OBVIOUS
<1>. PICK m \in Nat : m = Len(s) /\ DOMAIN s = 1..m
  BY SeqFacts
<1>. PICK n \in Nat : n = Len(w) /\ DOMAIN w = 1..n
  BY SeqFacts
<1>1. /\ IsSeq(t) /\ Len(t) = m + n
      /\ \A i \in 1..n : t[m + i] = w[i]
  BY SeqConcat
<1>2. DOMAIN t = 1..(m + n)
  BY <1>1, SeqFacts
<1>. PICK i \in 1..n :
       w[i] \in Raws(k) /\ \A j \in 1..n : j > i => w[j].do # "raw"
  BY DEF Tells
<1>3. m + i \in 1..(m + n) /\ t[m + i] \in Raws(k)
  BY <1>1
<1>4. ASSUME NEW j \in 1..(m + n), j > m + i PROVE t[j].do # "raw"
  <2>. PICK x \in 1..n : j = m + x /\ x > i
    <3>1. j - m \in 1..n /\ j = m + (j - m) /\ j - m > i
      BY <1>4
    <3>. QED
      BY <3>1
  <2>. QED
    BY <1>1
<1>. QED
  BY <1>2, <1>3, <1>4 DEF Tells

(* LastKept, LastTaken: letters that report nothing leave the last report  *)
(* as it was, and so does the core, which turns it into an event.          *)
LEMMA LastKept ==
  ASSUME NEW s, NEW w, IsSeq(s), IsSeq(w), Silent(w), NEW a, NEW k,
         LastTold(s, a, k)
  PROVE  LastTold(s \o w, a, k)
<1>. PICK t : t = s \o w
  OBVIOUS
<1>. PICK m \in Nat : m = Len(s) /\ DOMAIN s = 1..m
  BY SeqFacts
<1>. PICK n \in Nat : n = Len(w) /\ DOMAIN w = 1..n
  BY SeqFacts
<1>1. /\ IsSeq(t) /\ Len(t) = m + n
      /\ \A i \in 1..m : t[i] = s[i]
      /\ \A i \in 1..n : t[m + i] = w[i]
  BY SeqConcat
<1>2. DOMAIN t = 1..(m + n)
  BY <1>1, SeqFacts
<1>3. ASSUME NEW j \in 1..(m + n), j \notin 1..m PROVE t[j].do # "raw"
  <2>. PICK i \in 1..n : m + i = j
    <3>1. j - m \in 1..n /\ m + (j - m) = j
      BY <1>3
    <3>. QED
      BY <3>1
  <2>1. t[m + i] = w[i]
    BY <1>1
  <2>2. w[i].do # "raw"
    BY DEF Silent
  <2>. QED
    BY <2>1, <2>2
<1>4. CASE Tells(s, k)
  <2>. PICK i \in 1..m :
         s[i] \in Raws(k) /\ \A j \in 1..m : j > i => s[j].do # "raw"
    BY <1>4 DEF Tells
  <2>1. i \in 1..(m + n) /\ t[i] \in Raws(k)
    BY <1>1
  <2>2. ASSUME NEW j \in 1..(m + n), j > i PROVE t[j].do # "raw"
    <3>1. CASE j \in 1..m
      BY <1>1, <2>2, <3>1
    <3>2. CASE j \notin 1..m
      BY <1>3, <3>2
    <3>. QED
      BY <3>1, <3>2
  <2>. QED
    BY <1>2, <2>1, <2>2 DEF LastTold, Tells
<1>5. CASE Silent(s) /\ a # <<>> /\ a[Len(a)] = k
  <2>1. \A j \in 1..(m + n) : t[j].do # "raw"
    BY <1>1, <1>3, <1>5 DEF Silent
  <2>. QED
    BY <1>2, <1>5, <2>1 DEF LastTold, Silent
<1>. QED
  BY <1>4, <1>5 DEF LastTold

LEMMA LastTaken ==
  ASSUME NEW s, IsSeq(s), s # <<>>, NEW a, IsSeq(a), NEW k, LastTold(s, a, k),
         NEW b, b = IF Head(s).do = "raw" THEN Append(a, Head(s).dialog) ELSE a
  PROVE  LastTold(Tail(s), b, k)
<1>. PICK t, h : t = Tail(s) /\ h = Head(s)
  OBVIOUS
<1>. PICK n \in Nat : n = Len(t)
  BY SeqTail
<1>1. /\ IsSeq(t) /\ Len(s) = n + 1 /\ h = s[1]
      /\ \A i \in 1..n : t[i] = s[i + 1]
  BY SeqTail
<1>2. DOMAIN t = 1..n /\ DOMAIN s = 1..(n + 1)
  BY <1>1, SeqFacts
<1>3. 1 \in 1..(n + 1) /\ \A j \in 1..n : j + 1 \in 1..(n + 1) /\ j + 1 > 1
  OBVIOUS
<1>4. CASE Silent(s) /\ a # <<>> /\ a[Len(a)] = k
  <2>1. h.do # "raw" /\ Silent(t)
    BY <1>1, <1>2, <1>3, <1>4 DEF Silent
  <2>. QED
    BY <1>4, <2>1 DEF LastTold
<1>5. CASE Tells(s, k)
  <2>. PICK i \in 1..(n + 1) :
         s[i] \in Raws(k) /\ \A j \in 1..(n + 1) : j > i => s[j].do # "raw"
    BY <1>2, <1>5 DEF Tells
  <2>1. CASE i = 1
    <3>1. h.do = "raw" /\ h.dialog = k
      BY <1>1, <2>1 DEF Raws
    <3>2. Silent(t)
      BY <1>1, <1>2, <1>3, <2>1 DEF Silent
    <3>. PICK c : c = Append(a, k)
      OBVIOUS
    <3>3. /\ IsSeq(c) /\ Len(c) = Len(a) + 1 /\ c[Len(a) + 1] = k
          /\ Len(a) \in Nat
      BY SeqAppend, SeqFacts
    <3>4. c # <<>>
      <4>1. Len(<<>>) = 0
        OBVIOUS
      <4>. QED
        BY <3>3, <4>1
    <3>5. b = c
      BY <3>1
    <3>. QED
      BY <3>2, <3>3, <3>4, <3>5 DEF LastTold
  <2>2. CASE i # 1
    <3>. PICK x \in 1..n : i = x + 1
      <4>1. i - 1 \in 1..n /\ i = (i - 1) + 1
        BY <2>2
      <4>. QED
        BY <4>1
    <3>1. t[x] \in Raws(k)
      BY <1>1
    <3>2. ASSUME NEW j \in 1..n, j > x PROVE t[j].do # "raw"
      <4>1. j + 1 \in 1..(n + 1) /\ j + 1 > i
        BY <3>2
      <4>. QED
        BY <1>1, <4>1
    <3>. QED
      BY <1>2, <3>1, <3>2 DEF LastTold, Tells
  <2>. QED
    BY <2>1, <2>2
<1>. QED
  BY <1>4, <1>5 DEF LastTold

(* LastSeen: what the machine makes of a screen it reports, unless it stays*)
(* in the dialog it had.                                                   *)
LEMMA LastSeen ==
  ASSUME NEW m \in Machines, NEW seen \in Agents, NEW s, IsSeq(s),
         NEW w, Plain(w), NEW a,
         m.current.dialog > 0 => LastTold(s, a, m.current.dialog),
         NEW u, u = Update(m, seen), u.current.dialog > 0
  PROVE  LastTold(s \o (w \o Raw(u)), a, u.current.dialog)
<1>. MaxDialogs \in Nat
  BY TerminalAssumption
<1>. PICK k : k = u.current.dialog
  OBVIOUS
<1>. PICK r : r = Raw(u)
  OBVIOUS
<1>1. /\ u \in Machines
      /\ \/ k = m.current.dialog /\ u.report = NoReport
         \/ u.report.dialog = k
  BY UpdateCases
<1>2. k \in Nat /\ k # 0
  BY <1>1 DEF Machines, ScreenStates
<1>3. IsSeq(w) /\ Silent(w)
  BY DEF Plain, Letters, Silent
<1>4. IsSeq(r)
  BY <1>1, <1>2, RawAnnounces DEF Letters
<1>5. CASE k = m.current.dialog /\ u.report = NoReport
  <2>1. r = <<>>
    BY <1>5 DEF Raw
  <2>2. w \o r = w
    BY <1>3, <2>1, ConcatEmptySeq DEF IsSeq
  <2>3. LastTold(s \o w, a, k)
    BY <1>2, <1>3, <1>5, LastKept
  <2>. QED
    BY <2>2, <2>3
<1>6. CASE u.report.dialog = k
  <2>1. u.report # NoReport
    BY <1>2, <1>6 DEF NoReport
  <2>2. u.report \in Telling
    BY <1>1, <2>1 DEF Machines, Reports
  <2>. PICK e : e = [do |-> "raw", kind |-> u.report.kind, dialog |-> k]
    OBVIOUS
  <2>3. e \in Raws(k)
    BY <2>2 DEF Telling, Raws
  <2>4. r = <<e>>
    BY <1>6, <2>1 DEF Raw
  <2>5. DOMAIN r = {1} /\ r[1] = e
    BY <2>4
  <2>6. Tells(r, k)
    BY <2>3, <2>5 DEF Tells
  <2>7. Tells(w \o r, k) /\ IsSeq(w \o r)
    BY <1>3, <1>4, <2>6, TellsAfter, SeqConcat
  <2>8. Tells(s \o (w \o r), k)
    BY <2>7, TellsAfter
  <2>. QED
    BY <2>8 DEF LastTold
<1>. QED
  BY <1>1, <1>5, <1>6

(* Counts: the count of each dialog is a number.                           *)
LEMMA Counts ==
  ASSUME AInv, NEW k
  PROVE  /\ Cardinality(Hits(asked, {k})) \in Nat
         /\ Cardinality(Hits(inbox, Raws(k))) \in Nat
         /\ Announced(k) \in Nat
<1>1. Cardinality(Hits(asked, {k})) \in Nat
  BY HitsConcat DEF AInv
<1>2. Cardinality(Hits(inbox, Raws(k))) \in Nat
  BY HitsConcat DEF AInv, Letters
<1>. QED
  BY <1>1, <1>2 DEF Announced

(* PostsAnnounce: a step of the interface that reports nothing.            *)
LEMMA PostsAnnounce ==
  ASSUME AInv, NEW w, Plain(w), inbox' = inbox \o w,
         UNCHANGED <<agent, screen, machine, asked, prompted>>
  PROVE  AInv'
<1>1. Letters(inbox')
  BY LettersConcat DEF AInv, Plain
<1>2. ASSUME NEW k \in 1..MaxDialogs PROVE Announced(k)' = Announced(k)
  <2>1. /\ Cardinality(Hits(inbox, Raws(k))) \in Nat
        /\ Cardinality(Hits(inbox \o w, Raws(k)))
             = Cardinality(Hits(inbox, Raws(k))) + Cardinality(Hits(w, Raws(k)))
    BY HitsConcat DEF AInv, Plain, Letters
  <2>2. Cardinality(Hits(w, Raws(k))) = 0
    BY PlainAnnounces
  <2>3. Cardinality(Hits(inbox', Raws(k))) = Cardinality(Hits(inbox, Raws(k)))
    BY <2>1, <2>2
  <2>. QED
    BY <2>3 DEF Announced
<1>3. machine.current.dialog > 0
        => LastTold(inbox', asked, machine.current.dialog)
  BY LastKept DEF AInv, Plain, Letters, Silent
<1>. QED
  BY <1>1, <1>2, <1>3 DEF AInv, ShellTyped

(* StaysAnnounced: nor does one that leaves letters and shell alone.       *)
LEMMA StaysAnnounced ==
  ASSUME AInv, UNCHANGED <<agent, screen, machine, asked, prompted, inbox>>
  PROVE  AInv'
BY DEF AInv, ShellTyped, Announced

(* TakesAnnounced: the core turns a report into an event.                  *)
LEMMA TakesAnnounced ==
  ASSUME AInv, inbox # <<>>, inbox' = Tail(inbox),
         asked' = IF Head(inbox).do = "raw"
                  THEN Append(asked, Head(inbox).dialog) ELSE asked,
         UNCHANGED <<agent, screen, machine, prompted>>
  PROVE  AInv'
<1>. PICK h : h = Head(inbox)
  OBVIOUS
<1>1. Letters(inbox') /\ Letter(h)
  BY LettersTail DEF AInv
<1>2. IsSeq(asked')
  BY SeqAppend DEF AInv
<1>3. ASSUME NEW k \in 1..MaxDialogs PROVE Announced(k)' = Announced(k)
  <2>. PICK t : t = Tail(inbox)
    OBVIOUS
  <2>1. /\ Cardinality(Hits(t, Raws(k))) \in Nat
        /\ h \in Raws(k) => Cardinality(Hits(inbox, Raws(k)))
                              = Cardinality(Hits(t, Raws(k))) + 1
        /\ h \notin Raws(k) => Cardinality(Hits(inbox, Raws(k)))
                                 = Cardinality(Hits(t, Raws(k)))
    BY HitsTail DEF AInv, Letters
  <2>2. /\ Cardinality(Hits(asked, {k})) \in Nat
        /\ h.dialog \in {k} => Cardinality(Hits(Append(asked, h.dialog), {k}))
                                 = Cardinality(Hits(asked, {k})) + 1
        /\ h.dialog \notin {k}
             => Cardinality(Hits(Append(asked, h.dialog), {k}))
                  = Cardinality(Hits(asked, {k}))
    <3>1. IsSeq(asked)
      BY DEF AInv
    <3>. QED
      BY <3>1, HitsAppend
  <2>3. inbox' = t
    OBVIOUS
  <2>4. CASE h.do # "raw"
    <3>1. h \notin Raws(k) /\ asked' = asked
      BY <2>4 DEF Raws
    <3>. QED
      BY <2>1, <2>3, <3>1 DEF Announced
  <2>5. CASE h.do = "raw"
    <3>1. h \in Raws(k) <=> h.dialog = k
      BY <1>1, <2>5 DEF Letter, RawLetters, Raws
    <3>2. asked' = Append(asked, h.dialog)
      BY <2>5
    <3>. QED
      BY <2>1, <2>2, <2>3, <3>1, <3>2 DEF Announced
  <2>. QED
    BY <2>4, <2>5
<1>4. machine.current.dialog > 0
        => LastTold(inbox', asked', machine.current.dialog)
  BY LastTaken DEF AInv, Letters
<1>. QED
  BY <1>1, <1>2, <1>3, <1>4 DEF AInv, ShellTyped

(* InspectAnnounces: reading the screen announces a dialog the machine does*)
(* not have, and only one that the agent shows.                            *)
LEMMA InspectAnnounces ==
  ASSUME AInv, NEW seen, seen = agent \/ (seen = screen
                                            /\ screen.state.kind # "dialog"),
         NEW w, Plain(w), inbox' = inbox \o (w \o Raw(Update(machine, seen))),
         Inspect(seen), UNCHANGED <<agent, asked, prompted>>
  PROVE  AInv'
<1>. PICK u : u = Update(machine, seen)
  OBVIOUS
<1>. PICK m : m = [u EXCEPT !.report = NoReport]
  OBVIOUS
<1>. MaxDialogs \in Nat
  BY TerminalAssumption
<1>0. machine \in Machines /\ agent \in Agents /\ screen \in Agents
      /\ seen \in Agents /\ prompted \in [1..MaxDialogs -> Nat]
  BY DEF AInv, ShellTyped
<1>1. /\ u \in Machines
      /\ \/ u.current.dialog = machine.current.dialog /\ u.report.dialog = 0
         \/ /\ u.current.dialog = seen.state.dialog
            /\ u.report.dialog = seen.state.dialog
            /\ seen.state.dialog = 0
                 \/ machine.current.dialog # seen.state.dialog
  BY <1>0, UpdateCases
<1>2. m \in Machines /\ m.current = u.current
  BY <1>1 DEF Machines, Reports
<1>3. machine' = m /\ screen' = seen
  BY DEF Inspect
<1>4. /\ seen.state.dialog \in {0, agent.state.dialog}
      /\ seen.state.dialog > 0 => seen.state.kind = "dialog"
      /\ agent.state.dialog \in {0, agent.dialogs} /\ agent.dialogs \in Nat
      /\ machine.current.dialog \in Nat
      /\ seen.state.dialog > 0 => seen = agent
  BY <1>0 DEF Agents, ScreenStates, Machines
<1>5. Seen(agent, screen, machine)
  BY DEF AInv
<1>6. Seen(agent, seen, m)
  <2>1. CASE m.current.dialog = machine.current.dialog
    <3>1. CASE seen = agent
      BY <1>0, <1>4, <1>5, <2>1, <3>1 DEF Seen, Agents, ScreenStates
    <3>2. CASE seen = screen /\ screen.state.kind # "dialog"
      BY <1>4, <1>5, <2>1, <3>2 DEF Seen
    <3>. QED
      BY <3>1, <3>2
  <2>2. CASE m.current.dialog = seen.state.dialog
    BY <1>4, <2>2 DEF Seen
  <2>. QED
    BY <1>1, <1>2, <2>1, <2>2
<1>7. Letters(inbox')
  <2>1. Letters(Raw(u))
    <3>1. 1 \in Nat \ {0}
      OBVIOUS
    <3>. QED
      BY <1>1, <3>1, RawAnnounces
  <2>. QED
    BY <2>1, LettersConcat DEF AInv, Plain
<1>8. ASSUME NEW k \in 1..MaxDialogs
      PROVE  Budget(k, Announced(k)', prompted[k], agent, m)
  <2>. PICK r : r = Raw(u)
    OBVIOUS
  <2>1. Letters(r) /\ Cardinality(Hits(r, Raws(k)))
                        = IF u.report.dialog = k THEN 1 ELSE 0
    BY <1>1, RawAnnounces
  <2>2. Cardinality(Hits(w, Raws(k))) = 0
    BY PlainAnnounces
  <2>3. /\ IsSeq(w) /\ IsSeq(r) /\ IsSeq(w \o r) /\ IsSeq(inbox)
    BY <2>1, SeqConcat DEF Plain, Letters, AInv
  <2>4. Cardinality(Hits(w \o r, Raws(k)))
          = Cardinality(Hits(w, Raws(k))) + Cardinality(Hits(r, Raws(k)))
    BY <2>3, HitsConcat
  <2>5. Cardinality(Hits(inbox', Raws(k)))
          = Cardinality(Hits(inbox, Raws(k)))
              + Cardinality(Hits(w \o r, Raws(k)))
    BY <2>3, HitsConcat
  <2>. PICK c \in Nat : c = Announced(k)
    BY Counts
  <2>6. Announced(k)' = c + IF u.report.dialog = k THEN 1 ELSE 0
    BY <2>1, <2>2, <2>4, <2>5, Counts DEF Announced
  <2>. PICK p \in Nat : p = prompted[k]
    BY <1>0
  <2>7. Budget(k, c, p, agent, machine)
    BY DEF AInv
  <2>. PICK x : x = Announced(k)'
    OBVIOUS
  <2>8. CASE u.current.dialog = machine.current.dialog /\ u.report.dialog = 0
    <3>1. x = c
      BY <2>6, <2>8
    <3>. QED
      BY <1>2, <2>7, <2>8, <3>1 DEF Budget
  <2>9. CASE /\ u.current.dialog = seen.state.dialog
             /\ u.report.dialog = seen.state.dialog
             /\ seen.state.dialog = 0
                  \/ machine.current.dialog # seen.state.dialog
    <3>1. CASE seen.state.dialog = k
      <4>1. /\ k = agent.state.dialog /\ machine.current.dialog # k
            /\ m.current.dialog = k /\ k = agent.dialogs /\ x = c + 1
        BY <1>2, <1>4, <2>6, <2>9, <3>1
      <4>. QED
        BY <2>7, <4>1 DEF Budget
    <3>2. CASE seen.state.dialog # k
      <4>1. x = c
        BY <2>6, <2>9, <3>2
      <4>2. k = agent.state.dialog => machine.current.dialog # k
        BY <1>4, <1>5, <2>9, <3>2 DEF Seen
      <4>. QED
        BY <2>7, <4>1, <4>2 DEF Budget
    <3>. QED
      BY <3>1, <3>2
  <2>. QED
    BY <1>1, <2>8, <2>9
<1>9. ShellTyped'
  BY <1>0, <1>2, <1>3 DEF ShellTyped
<1>10. m.current.dialog > 0 => LastTold(inbox', asked, m.current.dialog)
  BY <1>0, <1>2, LastSeen DEF AInv, Letters
<1>. QED
  BY <1>2, <1>3, <1>6, <1>7, <1>8, <1>9, <1>10 DEF AInv

(* PromptAnnounces: a prompt lets the dialog it was started over be        *)
(* announced again, and gives it one announcement more.                    *)
LEMMA PromptAnnounces ==
  ASSUME AInv, StartsPrompt, UNCHANGED asked
  PROVE  AInv'
<1>. MaxDialogs \in Nat
  BY TerminalAssumption
<1>0. machine \in Machines /\ agent \in Agents /\ screen \in Agents
      /\ prompted \in [1..MaxDialogs -> Nat] /\ Letters(inbox)
  BY DEF AInv, ShellTyped
<1>. PICK s \in ScreenStates :
       s = Shown("prompted") /\ s.kind = "prompted" /\ s.dialog = 0
  BY ShownStates DEF ShownKinds
<1>. PICK u : u = StartPrompt(machine)
  OBVIOUS
<1>. PICK m : m = [u EXCEPT !.report = NoReport]
  OBVIOUS
<1>1. u \in Machines /\ u.current = s /\ u.report.dialog = 0
  <2>. PICK r \in Reports : r = Report(s) /\ r.dialog = 0
    BY Reported
  <2>1. u = [machine EXCEPT !.prompt = TRUE, !.recent = TRUE, !.current = s,
                            !.report = r]
    BY DEF StartPrompt
  <2>. QED
    BY <1>0, <2>1 DEF Machines
<1>2. m \in Machines /\ m.current = s
  BY <1>1 DEF Machines, Reports
<1>3. machine' = m /\ screen' = agent /\ inbox' = inbox \o Raw(u)
      /\ agent' = agent
  BY DEF StartsPrompt, Sends
<1>4. /\ prompted' \in [1..MaxDialogs -> Nat]
      /\ \A k \in 1..MaxDialogs :
           prompted'[k] = prompted[k] + IF machine.current.dialog = k
                                        THEN 1 ELSE 0
  BY <1>0 DEF StartsPrompt
<1>5. Letters(inbox')
  <2>1. 1 \in Nat \ {0}
    OBVIOUS
  <2>2. Letters(Raw(u))
    BY <1>1, <2>1, RawAnnounces
  <2>. QED
    BY <1>0, <1>3, <2>2, LettersConcat
<1>6. ASSUME NEW k \in 1..MaxDialogs
      PROVE  Budget(k, Announced(k)', prompted'[k], agent, m)
  <2>. PICK r : r = Raw(u)
    OBVIOUS
  <2>1. Letters(r) /\ Cardinality(Hits(r, Raws(k))) = 0
    BY <1>1, RawAnnounces
  <2>2. Cardinality(Hits(inbox', Raws(k)))
          = Cardinality(Hits(inbox, Raws(k))) + Cardinality(Hits(r, Raws(k)))
    BY <1>0, <1>3, <2>1, HitsConcat DEF Letters
  <2>. PICK c \in Nat : c = Announced(k)
    BY Counts
  <2>3. Announced(k)' = c
    BY <2>1, <2>2, Counts DEF Announced
  <2>. PICK p \in Nat : p = prompted[k]
    BY <1>0
  <2>4. Budget(k, c, p, agent, machine)
    BY DEF AInv
  <2>5. k = agent.state.dialog => c <= prompted'[k]
    <3>1. CASE machine.current.dialog = k
      BY <1>4, <2>4, <3>1 DEF Budget
    <3>2. CASE machine.current.dialog # k
      BY <1>4, <2>4, <3>2 DEF Budget
    <3>. QED
      BY <3>1, <3>2
  <2>6. c <= 1 + prompted'[k] /\ (k > agent.dialogs => c = 0)
    BY <1>4, <2>4 DEF Budget
  <2>. QED
    BY <2>3, <2>5, <2>6 DEF Budget
<1>7. Seen(agent, agent, m)
  BY <1>0, <1>2 DEF Seen, Agents
<1>8. ShellTyped'
  BY <1>0, <1>2, <1>3, <1>4 DEF ShellTyped
<1>9. IsSeq(asked')
  BY DEF AInv
<1>10. machine'.current.dialog > 0
         => LastTold(inbox', asked', machine'.current.dialog)
  BY <1>2, <1>3
<1>. QED
  BY <1>3, <1>5, <1>6, <1>7, <1>8, <1>9, <1>10 DEF AInv

(* ReadAnnounces: bringing the screen up to date alone.                    *)
LEMMA ReadAnnounces ==
  ASSUME AInv, screen' = agent,
         UNCHANGED <<agent, machine, asked, prompted, inbox>>
  PROVE  AInv'
<1>1. agent \in Agents /\ agent.state.dialog = agent.state.dialog
      /\ Seen(agent, screen, machine)
  BY DEF AInv, ShellTyped
<1>2. Seen(agent, agent, machine)
  <2>1. agent.state.dialog > 0 => agent.state.kind = "dialog"
    BY <1>1 DEF Agents, ScreenStates
  <2>. QED
    BY <1>1, <2>1 DEF Seen
<1>3. ShellTyped'
  BY <1>1 DEF ShellTyped, AInv
<1>. QED
  BY <1>2, <1>3 DEF AInv, Announced

(* GraceAnnounces: the grace of a prompt ends.                             *)
LEMMA GraceAnnounces ==
  ASSUME AInv, machine' = [machine EXCEPT !.recent = FALSE],
         UNCHANGED <<agent, screen, asked, prompted, inbox>>
  PROVE  AInv'
<1>. PICK m : m = [machine EXCEPT !.recent = FALSE]
  OBVIOUS
<1>1. machine \in Machines
  BY DEF AInv, ShellTyped
<1>2. m \in Machines /\ m.current = machine.current
  BY <1>1 DEF Machines
<1>3. machine' = m
  OBVIOUS
<1>4. Seen(agent, screen, m)
  BY <1>2 DEF Seen, AInv
<1>5. \A k \in 1..MaxDialogs :
        Budget(k, Announced(k)', prompted[k], agent, m)
  BY <1>2 DEF Budget, AInv, Announced
<1>6. ShellTyped'
  BY <1>2, <1>3 DEF ShellTyped, AInv
<1>. QED
  BY <1>2, <1>3, <1>4, <1>5, <1>6 DEF AInv

(* AgentAnnounces: what the agent shows next is the dialog it shows, none, *)
(* or a dialog nobody has heard of.                                        *)
LEMMA AgentAnnounces ==
  ASSUME AInv, agent' \in Agents,
         \/ /\ agent'.dialogs = agent.dialogs
            /\ agent'.state.dialog \in {0, agent.state.dialog}
         \/ /\ agent'.dialogs = agent.dialogs + 1
            /\ agent'.state.dialog = agent'.dialogs,
         UNCHANGED <<screen, machine, asked, prompted, inbox>>
  PROVE  AInv'
<1>. PICK a : a = agent'
  OBVIOUS
<1>. MaxDialogs \in Nat
  BY TerminalAssumption
<1>0. agent \in Agents /\ machine \in Machines
      /\ prompted \in [1..MaxDialogs -> Nat]
  BY DEF AInv, ShellTyped
<1>1. /\ a.dialogs \in Nat /\ agent.dialogs \in Nat
      /\ machine.current.dialog \in Nat /\ agent.state.dialog \in Nat
  BY <1>0 DEF Agents, Machines, ScreenStates
<1>2. Seen(agent, screen, machine)
  BY DEF AInv
<1>3. Seen(a, screen, machine)
  BY <1>1, <1>2 DEF Seen
<1>4. ASSUME NEW k \in 1..MaxDialogs
      PROVE  Budget(k, Announced(k)', prompted[k], a, machine)
  <2>. PICK c \in Nat : c = Announced(k)
    BY Counts
  <2>1. Announced(k)' = c
    BY DEF Announced
  <2>. PICK p \in Nat : p = prompted[k]
    BY <1>0
  <2>2. Budget(k, c, p, agent, machine)
    BY DEF AInv
  <2>3. Budget(k, c, p, a, machine)
    BY <1>1, <2>2 DEF Budget
  <2>. QED
    BY <2>1, <2>3
<1>5. ShellTyped'
  BY DEF ShellTyped, AInv
<1>. QED
  BY <1>3, <1>4, <1>5 DEF AInv

LEMMA AgentMoves ==
  ASSUME AInv, AgentReads \/ AgentShows
  PROVE  AInv'
<1>. MaxDialogs \in Nat
  BY TerminalAssumption
<1>0. agent \in Agents
  BY DEF AInv, ShellTyped
<1>1. UNCHANGED <<screen, machine, asked, prompted, inbox>>
  BY DEF AgentReads, AgentShows, past
<1>. PICK rest \in ScreenStates, work \in ScreenStates :
       /\ rest = Shown("idle") /\ rest.kind = "idle" /\ rest.dialog = 0
       /\ work = Shown("working") /\ work.kind = "working" /\ work.dialog = 0
  BY ShownStates DEF ShownKinds
<1>2. CASE AgentReads
  <2>. PICK key : key = Head(keys)
    OBVIOUS
  <2>1. agent' = Reads(key)
    BY <1>2 DEF AgentReads
  <2>2. CASE agent.state.kind = "dialog" /\ key.what = "move"
    <3>. PICK s \in ScreenStates : s = agent.state /\ s.kind = "dialog"
      BY <1>0, <2>2 DEF Agents
    <3>. PICK t : t = [s EXCEPT !.moved = ~@]
      OBVIOUS
    <3>1. t \in ScreenStates /\ t.kind = "dialog" /\ t.dialog = s.dialog
      BY DEF ScreenStates
    <3>2. agent' = [agent EXCEPT !.state.moved = ~@]
      BY <2>1, <2>2 DEF Reads
    <3>3. agent' = [agent EXCEPT !.state = t]
      BY <1>0, <3>2 DEF Agents, ScreenStates
    <3>4. agent' \in Agents /\ agent'.dialogs = agent.dialogs
          /\ agent'.state = t
      BY <1>0, <3>1, <3>3 DEF Agents
    <3>. QED
      BY <1>1, <3>1, <3>4, AgentAnnounces
  <2>3. CASE agent.state.kind = "dialog" /\ key.what # "move"
    <3>1. agent' = [agent EXCEPT !.state = work, !.worked = TRUE]
      BY <2>1, <2>3 DEF Reads
    <3>2. agent' \in Agents /\ agent'.dialogs = agent.dialogs
          /\ agent'.state = work
      BY <1>0, <3>1 DEF Agents
    <3>. QED
      BY <1>1, <3>2, AgentAnnounces
  <2>4. CASE agent.state.kind = "idle" /\ key.what = "prompt"
    <3>1. agent' = [agent EXCEPT !.state = work, !.task = TRUE,
                                 !.worked = FALSE]
      BY <2>1, <2>4 DEF Reads
    <3>2. agent' \in Agents /\ agent'.dialogs = agent.dialogs
          /\ agent'.state = work
      BY <1>0, <3>1 DEF Agents
    <3>. QED
      BY <1>1, <3>2, AgentAnnounces
  <2>5. CASE /\ agent.state.kind # "dialog"
             /\ ~(agent.state.kind = "idle" /\ key.what = "prompt")
    <3>1. agent' = agent
      BY <2>1, <2>5 DEF Reads
    <3>. QED
      BY <1>0, <1>1, <3>1, AgentAnnounces
  <2>. QED
    BY <2>2, <2>3, <2>4, <2>5
<1>3. CASE AgentShows
  <2>1. CASE agent' = [agent EXCEPT !.state = rest, !.worked = TRUE]
    <3>1. agent' \in Agents /\ agent'.dialogs = agent.dialogs
          /\ agent'.state = rest
      BY <1>0, <2>1 DEF Agents
    <3>. QED
      BY <1>1, <3>1, AgentAnnounces
  <2>2. CASE /\ agent.dialogs < MaxDialogs
             /\ agent' = [agent EXCEPT !.state = Dialog(agent.dialogs + 1),
                                       !.dialogs = @ + 1]
    <3>. PICK k \in 1..MaxDialogs : k = agent.dialogs + 1
      BY <1>0, <2>2 DEF Agents
    <3>. PICK s \in ScreenStates :
           s = Dialog(k) /\ s.kind = "dialog" /\ s.dialog = k
      BY ShownStates
    <3>1. agent' = [agent EXCEPT !.state = s, !.dialogs = k]
      BY <2>2
    <3>. PICK a, b : a = agent' /\ b = agent
      OBVIOUS
    <3>2. /\ k \in 0..MaxDialogs
          /\ b \in [state : ScreenStates, task : BOOLEAN, worked : BOOLEAN,
                     dialogs : 0..MaxDialogs]
      BY <1>0 DEF Agents
    <3>3. /\ a \in [state : ScreenStates, task : BOOLEAN, worked : BOOLEAN,
                     dialogs : 0..MaxDialogs]
          /\ a.dialogs = k /\ a.state = s
      <4>1. a = [b EXCEPT !.state = s, !.dialogs = k]
        BY <3>1
      <4>. QED
        BY <3>2, <4>1
    <3>4. a \in Agents
      BY <3>3 DEF Agents
    <3>. QED
      BY <1>1, <3>3, <3>4, AgentAnnounces
  <2>. QED
    BY <1>3, <2>1, <2>2 DEF AgentShows
<1>. QED
  BY <1>2, <1>3

(* What the users and the main loop do of this.                            *)
LEMMA LocalAnnounces ==
  ASSUME AInv,
         \/ AdapterLoop \/ PhoneDecides \/ PhonePrompts
         \/ LocalPrompt \/ Launches \/ Pump \/ WindowEnds
         \/ AgentReads \/ AgentShows
  PROVE  AInv'
<1>1. CASE AdapterLoop
  BY <1>1, StaysAnnounced DEF AdapterLoop, shell, past
<1>2. CASE PhoneDecides
  BY <1>2, StaysAnnounced DEF PhoneDecides, shell
<1>3. CASE PhonePrompts
  BY <1>3, StaysAnnounced DEF PhonePrompts, shell
<1>4. CASE LocalPrompt
  BY <1>4, StaysAnnounced, PromptAnnounces DEF LocalPrompt, Prompt, shell
<1>5. CASE Launches \/ Pump
  BY <1>5, ReadAnnounces DEF Launches, Pump, past
<1>6. CASE WindowEnds
  BY <1>6, StaysAnnounced, GraceAnnounces DEF WindowEnds, past
<1>. QED
  BY <1>1, <1>2, <1>3, <1>4, <1>5, <1>6, AgentMoves

LEMMA ScreenAnnounces ==
  ASSUME AInv, Inspect(agent), Sends(Raw(Update(machine, agent))),
         UNCHANGED <<agent, asked, prompted>>
  PROVE  AInv'
<1>1. machine \in Machines /\ agent \in Agents
  BY DEF AInv, ShellTyped
<1>. PICK r : r = Raw(Update(machine, agent))
  OBVIOUS
<1>2. IsSeq(r)
  <2>1. Update(machine, agent) \in Machines /\ 1 \in Nat \ {0}
    BY <1>1, UpdateCases
  <2>. QED
    BY <2>1, RawAnnounces DEF Letters
<1>3. <<>> \o r = r
  BY <1>2, ConcatEmptySeq DEF IsSeq
<1>4. inbox' = inbox \o (<<>> \o r)
  BY <1>3 DEF Sends
<1>. QED
  BY <1>4, PlainNone, InspectAnnounces

(* What the users answer and take off the list.                            *)
LEMMA AnswersAnnounce ==
  ASSUME AInv, OwnAnswers \/ OverlayApproves
  PROVE  AInv'
<1>0. ASSUME NEW id, NEW decision \in Decisions
      PROVE  Plain(<<RespondTo(id, decision)>>)
  BY PlainOne DEF RespondTo, Letter
<1>1. PICK w : Plain(w) /\ inbox' = inbox \o w
  <2>1. Answered \subseteq Decisions /\ "Approved" \in Decisions
    BY TerminalAssumption DEF Decisions
  <2>2. CASE OwnAnswers
    <3>. PICK id \in Requests, decision \in Answered :
           inbox' = inbox \o <<RespondTo(id, decision)>>
      BY <2>2 DEF OwnAnswers, Sends
    <3>. QED
      BY <1>0, <2>1
  <2>3. CASE OverlayApproves
    <3>. PICK id \in Requests :
           inbox' = inbox \o <<RespondTo(id, "Approved")>>
      BY <2>3 DEF OverlayApproves, Sends
    <3>. QED
      BY <1>0, <2>1
  <2>. QED
    BY <2>2, <2>3
<1>3. UNCHANGED <<agent, screen, machine, asked, prompted>>
  BY DEF OwnAnswers, OverlayApproves, shell
<1>. QED
  BY <1>1, <1>3, PostsAnnounce

LEMMA DismissalsAnnounce ==
  ASSUME AInv, OverlayDismisses, IsFiniteSet(DOMAIN view)
  PROVE  AInv'
<1>. PICK o : o = SetToSeq(Requests)
  OBVIOUS
<1>1. IsFiniteSet(Requests)
  <2>1. Requests \subseteq DOMAIN view
    BY DEF Requests
  <2>. QED
    BY <2>1, FS_Subset
<1>2. o \in Seq(Requests)
  BY <1>1, Listed
<1>. PICK n \in Nat : n = Len(o) /\ DOMAIN o = 1..n
  BY <1>2, LenProperties
<1>. PICK w : w = [i \in DOMAIN o |-> DismissIt(o[i])]
  OBVIOUS
<1>3. DOMAIN w = 1..n /\ w = [i \in DOMAIN w |-> w[i]]
  OBVIOUS
<1>4. IsSeq(w)
  BY <1>3, SeqIs
<1>5. Plain(w)
  BY <1>3, <1>4 DEF Plain, Letters, Letter, DismissIt
<1>6. inbox' = inbox \o w
  BY DEF OverlayDismisses, Sends
<1>7. UNCHANGED <<agent, screen, machine, asked, prompted>>
  BY DEF OverlayDismisses, shell
<1>. QED
  BY <1>5, <1>6, <1>7, PostsAnnounce

LEMMA HandlingAnnounces ==
  ASSUME AInv, TuiHandles,
         Head(channel).type \in DecisionTypes
           => Head(channel).decision \in Decisions
  PROVE  AInv'
<1>. PICK m : m = Head(channel)
  OBVIOUS
<1>0. Handles(m) /\ asked' = asked
  BY DEF TuiHandles
<1>1. CASE m.type \in Pushed
  BY <1>0, <1>1, StaysAnnounced DEF Handles, Pushed, shell
<1>2. CASE m.type = "start_task"
  BY <1>0, <1>2, StaysAnnounced, PromptAnnounces
     DEF Handles, Pushed, shell, Prompt
<1>3. CASE m.type \in DecisionTypes
  <2>1. Answers(m) /\ UNCHANGED prompted
    BY <1>0, <1>3 DEF Handles, DecisionTypes
  <2>. PICK live \in BOOLEAN : live = (screen.state.kind = "dialog")
    OBVIOUS
  <2>. PICK seen : seen = IF live THEN agent ELSE screen
    OBVIOUS
  <2>. PICK e : e = Outcome(live, m.id, m.decision)
    OBVIOUS
  <2>2. Letter(e) /\ e.do # "raw"
    BY <1>3 DEF Outcome, Outcomes, Letter
  <2>3. Plain(<<e>>)
    BY <2>2, PlainOne
  <2>4. /\ Inspect(seen) /\ UNCHANGED agent
        /\ inbox' = inbox \o (<<e>> \o Raw(Update(machine, seen)))
    BY <2>1 DEF Answers, Sends
  <2>5. seen = agent \/ (seen = screen /\ screen.state.kind # "dialog")
    OBVIOUS
  <2>. QED
    BY <1>0, <2>1, <2>3, <2>4, <2>5, InspectAnnounces
<1>. QED
  BY <1>0, <1>1, <1>2, <1>3 DEF Handles, Pushed, DecisionTypes

LEMMA CoreAnnounces ==
  ASSUME AInv, CoreTakes
  PROVE  AInv'
<1>1. /\ inbox # <<>> /\ inbox' = Tail(inbox)
      /\ UNCHANGED <<agent, screen, machine, prompted>>
  BY DEF CoreTakes, shell
<1>2. asked' = IF Head(inbox).do = "raw"
               THEN Append(asked, Head(inbox).dialog) ELSE asked
  BY DEF CoreTakes, CoreHandles
<1>. QED
  BY <1>1, <1>2, TakesAnnounced

LEMMA AnnouncedStep ==
  ASSUME AInv, TuiNext, IsFiniteSet(DOMAIN view),
         channel # <<>> /\ Head(channel).type \in DecisionTypes
           => Head(channel).decision \in Decisions
  PROVE  AInv'
<1>1. CASE KeyPress("enter") \/ KeyPress("move") \/ TuiTick
  <2>1. /\ Inspect(agent) /\ Sends(Raw(Update(machine, agent)))
        /\ UNCHANGED <<agent, asked, prompted>>
    BY <1>1 DEF KeyPress, TuiTick, past
  <2>. QED
    BY <2>1, ScreenAnnounces
<1>2. CASE TuiHandles
  BY <1>2, HandlingAnnounces DEF TuiHandles
<1>3. CASE OverlayDismisses
  BY <1>3, DismissalsAnnounce
<1>4. CASE OwnAnswers \/ OverlayApproves
  BY <1>4, AnswersAnnounce
<1>5. CASE CoreTakes
  BY <1>5, CoreAnnounces
<1>. QED
  BY <1>1, <1>2, <1>3, <1>4, <1>5, LocalAnnounces DEF TuiNext

LEMMA AnnouncedInit == TuiInit => AInv
<1>. SUFFICES ASSUME TuiInit PROVE AInv
  OBVIOUS
<1>. MaxDialogs \in Nat
  BY TerminalAssumption
<1>1. /\ inbox = <<>> /\ asked = <<>> /\ agent = NewAgent /\ screen = NewAgent
      /\ machine = NewMachine /\ prompted = [k \in 1..MaxDialogs |-> 0]
  BY DEF TuiInit
<1>. PICK idle \in ScreenStates, new \in ScreenStates :
       /\ idle = Shown("idle") /\ idle.kind = "idle" /\ idle.dialog = 0
       /\ new = Shown("initializing") /\ new.dialog = 0
  BY ShownStates DEF ShownKinds
<1>2. NewAgent \in Agents /\ NewAgent.dialogs = 0
      /\ NewAgent.state.dialog = 0
  BY DEF NewAgent, Agents
<1>3. NewMachine \in Machines /\ NewMachine.current.dialog = 0
  BY DEF NewMachine, Machines, Reports
<1>4. Letters(inbox) /\ IsSeq(asked)
  BY <1>1, PlainNone DEF Plain, Letters
<1>5. ASSUME NEW k \in 1..MaxDialogs
      PROVE  Budget(k, Announced(k), prompted[k], agent, machine)
  <2>1. Cardinality(Hits(inbox, Raws(k))) = 0
    BY <1>1, PlainNone, PlainAnnounces
  <2>2. Hits(asked, {k}) = {}
    <3>1. DOMAIN asked = {}
      BY <1>1, EmptySeq
    <3>. QED
      BY <3>1 DEF Hits
  <2>3. Cardinality(Hits(asked, {k})) = 0
    BY <2>2, FS_EmptySet
  <2>4. Announced(k) = 0 /\ prompted[k] = 0
    BY <1>1, <2>1, <2>3 DEF Announced
  <2>. QED
    BY <2>4 DEF Budget
<1>6. Seen(agent, screen, machine)
  BY <1>1, <1>2, <1>3 DEF Seen
<1>7. ShellTyped
  BY <1>1, <1>2, <1>3 DEF ShellTyped
<1>. QED
  BY <1>1, <1>3, <1>4, <1>5, <1>6, <1>7 DEF AInv

-----------------------------------------------------------------------------
(* Mail.                                                                   *)
(* Deciding: the two forms in which a decision reaches the session.        *)
Deciding ==
  [type : {"respond"}, id : Nat, task : Tasks \cup {NoTask}, seq : Nat,
   decision : Decisions]
  \cup [type : {"respond_request"}, from : Clients, id : Nat,
        decision : Decisions]

MailTyped(s) ==
  /\ IsSeq(s)
  /\ \A i \in DOMAIN s : s[i].type \in DecisionTypes => s[i] \in Deciding

Quietly(s) == \A i \in DOMAIN s : s[i].type \notin Pushed

LEMMA MailTail ==
  ASSUME NEW s, MailTyped(s), s # <<>>
  PROVE  /\ MailTyped(Tail(s))
         /\ Head(s).type \in DecisionTypes => Head(s) \in Deciding
         /\ Quietly(s) => Quietly(Tail(s)) /\ Head(s).type \notin Pushed
<1>1. IsSeq(Tail(s))
  BY SeqTail DEF MailTyped
<1>. QED
  BY <1>1, ElementsTail DEF MailTyped, Quietly

LEMMA MailConcat ==
  ASSUME NEW s, NEW w, MailTyped(s), MailTyped(w)
  PROVE  MailTyped(s \o w)
<1>1. IsSeq(s \o w)
  BY SeqConcat DEF MailTyped
<1>. QED
  BY <1>1, ElementsConcat DEF MailTyped

LEMMA MailAppend ==
  ASSUME NEW s, MailTyped(s), NEW e, e.type \in DecisionTypes => e \in Deciding
  PROVE  /\ MailTyped(Append(s, e))
         /\ Quietly(s) /\ e.type \notin Pushed => Quietly(Append(s, e))
<1>. PICK t : t = Append(s, e)
  OBVIOUS
<1>1. IsSeq(t)
  BY SeqAppend DEF MailTyped
<1>2. \A i \in DOMAIN t : t[i] = e \/ \E j \in DOMAIN s : t[i] = s[j]
  BY ElementsAppend DEF MailTyped
<1>. QED
  BY <1>1, <1>2 DEF MailTyped, Quietly

LEMMA MailNone == MailTyped(<<>>) /\ Quietly(<<>>)
<1>1. <<>> \in Seq({}) /\ DOMAIN <<>> = {}
  BY EmptySeq
<1>. QED
  BY <1>1 DEF MailTyped, Quietly, IsSeq

LEMMA MailEmitted ==
  ASSUME NEW w, IsSeq(w), NEW F, Answering(w, F), F \subseteq Deciding
  PROVE  MailTyped(Emitted(w))
<1>1. \A i \in DOMAIN w : w[i].type \in DecisionTypes => w[i] \in Deciding
  BY DEF Answering, AnswersAt
<1>. QED
  BY <1>1, EmittedFrom DEF MailTyped

(* EmittedDecides: the sink hands on one decision at most, and none of the *)
(* interface's own.                                                        *)
LEMMA EmittedDecides ==
  ASSUME NEW w, IsSeq(w), NEW F, Answering(w, F),
         NEW T \in SUBSET Deciding
  PROVE  /\ Cardinality(Hits(Emitted(w), T)) \in {0, 1}
         /\ (\A f \in F : f \in T => ~SinkTakes(f))
              => Cardinality(Hits(Emitted(w), T)) = 0
<1>1. PICK j : AnswersAt(w, F, j)
  BY DEF Answering
<1>2. \A m \in T : m.type \in DecisionTypes
  BY DEF Deciding, DecisionTypes
<1>3. \A i \in DOMAIN w : w[i] \in T => i = j /\ w[i] \in F
  BY <1>1, <1>2 DEF AnswersAt
<1>4. Cardinality(Hits(Emitted(w), T)) \in {0, 1}
  BY <1>3, EmittedFew
<1>5. ASSUME \A f \in F : f \in T => ~SinkTakes(f)
      PROVE  Cardinality(Hits(Emitted(w), T)) = 0
  <2>1. IsSeq(Emitted(w)) /\ \A i \in DOMAIN Emitted(w) : Emitted(w)[i] \notin T
    BY <1>3, <1>5, EmittedFrom
  <2>. QED
    BY <2>1, HitsFew
<1>. QED
  BY <1>4, <1>5

-----------------------------------------------------------------------------
(* The interface and the core together.                                    *)
(* BInv: the invariants of the core, what the mail is, and AInv.           *)
BInv ==
  /\ IInv /\ WorkingRated
  /\ MailTyped(channel) /\ MailTyped(commands) /\ Quietly(commands)
  /\ AInv /\ IsFiniteSet(DOMAIN view)

(* A turn of the core in which nothing is decided, and one in which client *)
(* c decides request id.                                                   *)
Undecided ==
  /\ CoreTells({})
  /\ commands' = commands \/ commands' = Append(commands, StartTask)
  /\ copies' = copies

Decided(c, id, decision) ==
  /\ id \in Ids(queue) /\ CoreTells({Forward(c, id, decision)})
  /\ Forward(c, id, decision) \in Deciding
  /\ \/ commands' = commands
     \/ /\ commands' = Append(commands, RespondCommand(id, decision))
        /\ RespondCommand(id, decision) \in Deciding
  /\ copies' = [copies EXCEPT ![id] = @ + (IF c = Tui THEN 1 ELSE 2)]

(* Turn: the core takes a letter, or handles what a phone sent.            *)
Turn ==
  \/ Undecided
  \/ \E c \in {Tui, Phone}, id \in Nat, decision \in Decisions :
       Decided(c, id, decision)

LEMMA RespondTurn ==
  ASSUME IInv, WorkingRated, NEW c \in {Tui, Phone}, NEW id,
         NEW decision \in Decisions,
         ClientRespond(c, id, decision), Accepts(c, id)
  PROVE  Turn
<1>1. CoreTells({Forward(c, id, decision)})
  BY RespondTells
<1>2. HasResponder /\ Clients = {Tui, Phone}
  BY TerminalAssumption
<1>3. CASE RespondVerdict(queue, id) # "ok"
  <2>1. RespondRefused(c, id)
    BY <1>2, <1>3
       DEF ClientRespond, RespondRefused, RespondSent, RespondOverflow
  <2>2. out' = <<CommandResult(c, RespondVerdict(queue, id))>>
        /\ commands' = commands
    BY <2>1 DEF RespondRefused
  <2>3. Content(out', queue, queue', {})
    BY <2>2, ContentReply
  <2>4. CoreTells({})
    BY <1>1, <2>3 DEF CoreTells, Content
  <2>5. copies' = copies
    BY <1>3 DEF Accepts
  <2>. QED
    BY <2>2, <2>4, <2>5 DEF Turn, Undecided
<1>4. CASE RespondVerdict(queue, id) = "ok"
  <2>1. id \in Ids(queue) /\ Ids(queue) = 1..Len(queue) /\ Len(queue) \in Nat
        /\ events \in Seq(Event) /\ Len(events) = Len(queue)
    BY <1>4, Answerable, Store
  <2>2. id \in Nat /\ events[id] \in Event
    BY <2>1, ElementOfSeq
  <2>3. Forward(c, id, decision) \in Deciding
    BY <1>2, <2>2 DEF Forward, Deciding
  <2>4. RespondCommand(id, decision) \in Deciding
    BY <2>2 DEF RespondCommand, Deciding, Event
  <2>5. \/ commands' = commands
        \/ commands' = Append(commands, RespondCommand(id, decision))
    BY <1>2, <1>4 DEF ClientRespond, RespondRefused, RespondSent,
                      RespondOverflow
  <2>6. copies' = [copies EXCEPT ![id] = @ + (IF c = Tui THEN 1 ELSE 2)]
    BY <1>4 DEF Accepts
  <2>7. Decided(c, id, decision)
    BY <1>1, <2>1, <2>3, <2>4, <2>5, <2>6 DEF Decided
  <2>. QED
    BY <2>2, <2>7 DEF Turn
<1>. QED
  BY <1>3, <1>4

LEMMA RawKnown == ToldKinds \subseteq Kinds /\ "Other" \in Operations
                  /\ Session \in Tasks
<1>1. Session \in Tasks
  BY TerminalAssumption DEF Session
<1>2. /\ "progress" \in KindsOf("Working", "Routine")
      /\ "idle" \in KindsOf("Working", "Routine")
      /\ "task_completed" \in KindsOf("Completed", "Important")
      /\ "command_confirmation" \in KindsOf("Request", "Critical")
  BY DEF KindsOf
<1>3. /\ "Working" \in Categories /\ "Completed" \in Categories
      /\ "Request" \in Categories /\ "Routine" \in Severities
      /\ "Important" \in Severities /\ "Critical" \in Severities
  BY DEF Categories, Severities
<1>4. ToldKinds \subseteq Kinds
  <2>1. \A c \in Categories, s \in Severities : KindsOf(c, s) \subseteq Kinds
    BY DEF Kinds
  <2>. QED
    BY <1>2, <1>3, <2>1 DEF ToldKinds
<1>. QED
  BY <1>1, <1>4 DEF Operations

LEMMA CoreTurns ==
  ASSUME BInv, CoreTakes \/ PhoneDecides \/ PhonePrompts
  PROVE  Turn /\ channel' = channel \o Emitted(out')
<1>0. IInv /\ WorkingRated
  BY DEF BInv
<1>1. CASE CoreTakes
  <2>. PICK m : m = Head(inbox)
    OBVIOUS
  <2>1. CoreHandles(m) /\ channel' = channel \o Emitted(out')
    BY <1>1 DEF CoreTakes
  <2>2. Letter(m)
    BY <1>1, LettersTail DEF BInv, AInv, CoreTakes
  <2>3. CASE /\ m.do = "raw"
             /\ RawEvent(m.kind, m.dialog > 0, Session, "Other", 1)
             /\ UNCHANGED copies
    <3>1. m \in RawLetters
      BY <2>2, <2>3 DEF Letter
    <3>. PICK kind \in Kinds : kind = m.kind
      BY <3>1, RawKnown DEF RawLetters
    <3>. PICK asks \in BOOLEAN : asks = (m.dialog > 0)
      <4>1. m.dialog \in Nat
        BY <3>1, TerminalAssumption DEF RawLetters
      <4>2. (m.dialog > 0) \in BOOLEAN
        BY <4>1
      <4>. QED
        BY <4>2
    <3>. PICK task \in Tasks \cup {NoTask}, operation \in Operations :
           task = Session /\ operation = "Other"
      BY RawKnown
    <3>2. RawEvent(kind, asks, task, operation, 1)
      BY <2>3
    <3>3. Arrival
      BY <3>2, 1 \in Nat DEF Arrival
    <3>4. CoreTells({}) /\ commands' = commands
      BY <1>0, <3>3, ArrivalTells
    <3>. QED
      BY <2>1, <2>3, <3>4 DEF Turn, Undecided
  <2>4. CASE /\ m.do = "outcome"
             /\ IF m.ok THEN Delivered(m.id, m.decision)
                ELSE DeliveryFailed(m.id)
             /\ UNCHANGED copies
    <3>1. m.decision \in Decisions
      BY <2>2, <2>4 DEF Letter, Outcomes
    <3>. PICK id : id = m.id
      OBVIOUS
    <3>2. \/ \E decision \in Decisions : Delivered(id, decision)
          \/ DeliveryFailed(id)
      BY <2>4, <3>1
    <3>3. CoreTells({}) /\ commands' = commands
      BY <1>0, <3>2, OutcomeTells
    <3>. QED
      BY <2>1, <2>4, <3>3 DEF Turn, Undecided
  <2>5. CASE /\ m.do = "respond" /\ ClientRespond(Tui, m.id, m.decision)
             /\ Accepts(Tui, m.id)
    <3>1. m.decision \in Decisions
      BY <2>2, <2>5 DEF Letter
    <3>. QED
      BY <1>0, <2>1, <2>5, <3>1, RespondTurn
  <2>6. CASE /\ m.do = "dismiss" /\ ClientDismiss(Tui, m.id)
             /\ UNCHANGED copies
    <3>1. CoreTells({}) /\ commands' = commands
      BY <1>0, <2>6, DismissTells DEF ClientDismiss
    <3>. QED
      BY <2>1, <2>6, <3>1 DEF Turn, Undecided
  <2>. QED
    BY <2>1, <2>3, <2>4, <2>5, <2>6 DEF CoreHandles
<1>2. CASE PhoneDecides
  <2>. PICK id \in Ids(queue), decision \in Answered :
         ClientRespond(Phone, id, decision) /\ Accepts(Phone, id)
    BY <1>2 DEF PhoneDecides
  <2>1. decision \in Decisions
    BY TerminalAssumption
  <2>2. Turn
    BY <1>0, <2>1, RespondTurn
  <2>. QED
    BY <1>2, <2>2 DEF PhoneDecides
<1>3. CASE PhonePrompts
  <2>1. ClientStartTask(Phone) /\ UNCHANGED copies
        /\ channel' = channel \o Emitted(out')
    BY <1>3 DEF PhonePrompts
  <2>2. CoreTells({})
    BY <1>0, <2>1, StartTells
  <2>3. commands' = commands \/ commands' = Append(commands, StartTask)
    BY <2>1 DEF ClientStartTask
  <2>. QED
    BY <2>1, <2>2, <2>3 DEF Turn, Undecided
<1>. QED
  BY <1>1, <1>2, <1>3

(* Calm: a step in which the core does nothing.                            *)
Calm ==
  /\ CoreIdle /\ channel' = channel /\ copies' = copies
  /\ \/ view' = view /\ removed' = removed
     \/ \E ids \in SUBSET DOMAIN view : Take(ids)

LEMMA StepKinds ==
  ASSUME TuiNext
  PROVE  \/ CoreTakes \/ PhoneDecides \/ PhonePrompts
         \/ AdapterLoop \/ TuiHandles \/ Calm
<1>1. CASE OwnAnswers \/ LocalPrompt \/ Launches \/ KeyPress("enter")
           \/ KeyPress("move") \/ TuiTick \/ Pump \/ WindowEnds
           \/ AgentReads \/ AgentShows
  <2>1. /\ CoreIdle /\ channel' = channel /\ copies' = copies
        /\ view' = view /\ removed' = removed
    BY <1>1 DEF OwnAnswers, LocalPrompt, Launches, KeyPress, TuiTick, Pump,
                WindowEnds, AgentReads, AgentShows, past
  <2>. QED
    BY <2>1 DEF Calm
<1>2. CASE OverlayApproves
  <2>1. CoreIdle /\ channel' = channel /\ copies' = copies
    BY <1>2 DEF OverlayApproves
  <2>. PICK id \in Requests : Take({id})
    BY <1>2 DEF OverlayApproves
  <2>. PICK ids \in SUBSET DOMAIN view : ids = {id}
    BY DEF Requests
  <2>2. Take(ids)
    OBVIOUS
  <2>. QED
    BY <2>1, <2>2 DEF Calm
<1>3. CASE OverlayDismisses
  <2>1. CoreIdle /\ channel' = channel /\ copies' = copies /\ Take(Requests)
    BY <1>3 DEF OverlayDismisses
  <2>2. Requests \in SUBSET DOMAIN view
    BY DEF Requests
  <2>. QED
    BY <2>1, <2>2 DEF Calm
<1>. QED
  BY <1>1, <1>2, <1>3 DEF TuiNext

(* TurnMail: what a turn of the core puts on its way.                      *)
LEMMA TurnMail ==
  ASSUME BInv, Turn, channel' = channel \o Emitted(out')
  PROVE  /\ IInv' /\ WorkingRated'
         /\ MailTyped(channel') /\ MailTyped(commands') /\ Quietly(commands')
<1>0. MailTyped(channel) /\ MailTyped(commands) /\ Quietly(commands)
  BY DEF BInv
<1>1. CASE Undecided
  <2>1. CoreTells({})
    BY <1>1 DEF Undecided
  <2>2. MailTyped(Emitted(out'))
    BY <2>1, MailEmitted DEF CoreTells, Shows
  <2>3. MailTyped(channel')
    BY <1>0, <2>2, MailConcat
  <2>4. StartTask.type = "start_task"
    BY DEF StartTask
  <2>5. MailTyped(commands') /\ Quietly(commands')
    <3>1. CASE commands' = commands
      BY <1>0, <3>1
    <3>2. CASE commands' = Append(commands, StartTask)
      BY <1>0, <2>4, <3>2, MailAppend DEF DecisionTypes, Pushed
    <3>. QED
      BY <1>1, <3>1, <3>2 DEF Undecided
  <2>. QED
    BY <2>1, <2>3, <2>5 DEF CoreTells
<1>2. ASSUME NEW c, NEW id, NEW decision, Decided(c, id, decision)
      PROVE  /\ IInv' /\ WorkingRated'
             /\ MailTyped(channel')
             /\ MailTyped(commands') /\ Quietly(commands')
  <2>. PICK F : F = {Forward(c, id, decision)}
    OBVIOUS
  <2>1. CoreTells(F) /\ F \subseteq Deciding
    BY <1>2 DEF Decided
  <2>2. MailTyped(Emitted(out'))
    BY <2>1, MailEmitted DEF CoreTells, Shows
  <2>3. MailTyped(channel')
    BY <1>0, <2>2, MailConcat
  <2>4. RespondCommand(id, decision).type = "respond"
    BY DEF RespondCommand
  <2>5. MailTyped(commands') /\ Quietly(commands')
    <3>1. CASE commands' = commands
      BY <1>0, <3>1
    <3>2. CASE /\ commands' = Append(commands, RespondCommand(id, decision))
               /\ RespondCommand(id, decision) \in Deciding
      BY <1>0, <2>4, <3>2, MailAppend DEF DecisionTypes, Pushed
    <3>. QED
      BY <1>2, <3>1, <3>2 DEF Decided
  <2>. QED
    BY <2>1, <2>3, <2>5 DEF CoreTells
<1>. QED
  BY <1>1, <1>2 DEF Turn

LEMMA ViewFinite ==
  ASSUME IsFiniteSet(DOMAIN view), TuiNext
  PROVE  IsFiniteSet(DOMAIN view')
<1>1. CASE TuiHandles
  <2>. PICK m : m = Head(channel)
    OBVIOUS
  <2>1. view' = view \/ view' = Applied(view, m)
    BY <1>1 DEF TuiHandles, Handles
  <2>2. DOMAIN view' = DOMAIN view \/ DOMAIN view' = DOMAIN view \cup {m.id}
    BY <2>1 DEF Applied
  <2>. QED
    BY <2>2, FS_AddElement
<1>2. CASE CoreTakes \/ PhoneDecides \/ PhonePrompts \/ AdapterLoop
  BY <1>2 DEF CoreTakes, PhoneDecides, PhonePrompts, AdapterLoop
<1>3. CASE Calm
  <2>1. DOMAIN view' \subseteq DOMAIN view
    BY <1>3 DEF Calm, Take
  <2>. QED
    BY <2>1, FS_Subset
<1>. QED
  BY <1>1, <1>2, <1>3, StepKinds

LEMMA BaseStep ==
  ASSUME BInv, TuiNext
  PROVE  BInv'
<1>0. /\ IInv /\ WorkingRated /\ AInv /\ IsFiniteSet(DOMAIN view)
      /\ MailTyped(channel) /\ MailTyped(commands) /\ Quietly(commands)
  BY DEF BInv
<1>1. IsFiniteSet(DOMAIN view')
  BY <1>0, ViewFinite
<1>2. AInv'
  <2>1. channel # <<>> /\ Head(channel).type \in DecisionTypes
          => Head(channel).decision \in Decisions
    BY <1>0, MailTail DEF Deciding
  <2>. QED
    BY <1>0, <2>1, AnnouncedStep
<1>3. CASE CoreTakes \/ PhoneDecides \/ PhonePrompts
  BY <1>1, <1>2, <1>3, CoreTurns, TurnMail DEF BInv
<1>4. CASE AdapterLoop
  <2>1. /\ commands # <<>> /\ commands' = Tail(commands) /\ out' = <<>>
        /\ UNCHANGED <<now, events, queue, open>>
        /\ channel' = Append(channel, Head(commands))
    BY <1>4 DEF AdapterLoop, TakeCommand
  <2>2. CoreTells({})
    BY <1>0, <2>1, IdleTells
  <2>3. MailTyped(channel')
    BY <1>0, <2>1, MailTail, MailAppend
  <2>4. MailTyped(commands') /\ Quietly(commands')
    BY <1>0, <2>1, MailTail
  <2>. QED
    BY <1>1, <1>2, <2>2, <2>3, <2>4 DEF BInv, CoreTells
<1>5. CASE TuiHandles \/ Calm
  <2>1. /\ commands' = commands /\ out' = <<>>
        /\ UNCHANGED <<now, events, queue, open>>
    BY <1>5 DEF TuiHandles, Calm, CoreIdle
  <2>2. CoreTells({})
    BY <1>0, <2>1, IdleTells
  <2>3. MailTyped(channel')
    BY <1>0, <1>5, MailTail DEF TuiHandles, Calm
  <2>. QED
    BY <1>0, <1>1, <1>2, <2>1, <2>2, <2>3 DEF BInv, CoreTells
<1>. QED
  BY <1>3, <1>4, <1>5, StepKinds

LEMMA BaseInit == TuiInit => BInv
<1>. SUFFICES ASSUME TuiInit PROVE BInv
  OBVIOUS
<1>1. Init
  BY DEF TuiInit, Init
<1>2. IInv /\ WorkingRated
  <2>1. Ids(queue) = {}
    BY <1>1 DEF Init, Ids
  <2>. QED
    BY <1>1, <2>1, InitIInv DEF WorkingRated, Rated
<1>3. MailTyped(channel) /\ MailTyped(commands) /\ Quietly(commands)
  BY MailNone DEF TuiInit
<1>4. IsFiniteSet(DOMAIN view)
  <2>1. DOMAIN view = {}
    BY DEF TuiInit
  <2>. QED
    BY <2>1, FS_EmptySet
<1>. QED
  BY <1>2, <1>3, <1>4, AnnouncedInit DEF BInv

LEMMA BaseStutter ==
  ASSUME BInv, UNCHANGED tui
  PROVE  BInv'
<1>1. UNCHANGED <<now, events, queue, open, commands, channel, view,
                  agent, screen, machine, asked, prompted, inbox>>
  BY DEF tui, core, shell, past
<1>2. AInv'
  BY <1>1, StaysAnnounced DEF BInv
<1>3. IInv' /\ WorkingRated'
  BY <1>1 DEF BInv, IInv, WorkingRated, TypeOK, TrackerConsistent,
              WorkingShownWhileOpen, RequestsResolvable, EscalationCarried,
              TaskOf, IsRequest, Tracked
<1>. QED
  BY <1>1, <1>2, <1>3 DEF BInv

LEMMA BaseInvariance == TuiSpec => []BInv
BY BaseInit, BaseStep, BaseStutter, PTL DEF TuiSpec

-----------------------------------------------------------------------------
(* AnnouncedOncePerPrompt: however often the interface reads the screen,   *)
(* whatever keys of the user, the core and the phones move the cursor of a *)
(* dialog or answer it, and however late the core takes what the state     *)
(* machine reports, a dialog becomes one request, and one more for each    *)
(* prompt started over it (`update` of state_machine.rs reports a screen   *)
(* only on entering a state, and a prompt resets the machine).             *)
THEOREM AnnouncedOncePerPrompt == TuiSpec => []AnnouncedOnce
<1>1. BInv => AnnouncedOnce
  <2>. SUFFICES ASSUME BInv, NEW k \in 1..MaxDialogs
                PROVE  Cardinality(Announcing(k))
                         + Cardinality({i \in DOMAIN inbox :
                             inbox[i].do = "raw" /\ inbox[i].dialog = k})
                         <= 1 + prompted[k]
    BY DEF AnnouncedOnce
  <2>1. AInv /\ Letters(inbox)
    BY DEF BInv, AInv
  <2>2. Announcing(k) = Hits(asked, {k})
    BY DEF Announcing, Hits
  <2>3. {i \in DOMAIN inbox : inbox[i].do = "raw" /\ inbox[i].dialog = k}
          = Hits(inbox, Raws(k))
    <3>1. \A i \in DOMAIN inbox :
            inbox[i].do = "raw" => inbox[i] \in RawLetters
      BY <2>1 DEF Letters, Letter
    <3>2. \A e \in RawLetters : e.dialog = k => e \in Raws(k)
      BY DEF RawLetters, Raws
    <3>3. \A e \in Raws(k) : e.do = "raw" /\ e.dialog = k
      BY DEF Raws
    <3>. QED
      BY <3>1, <3>2, <3>3 DEF Hits
  <2>4. Announced(k) <= 1 + prompted[k]
    BY <2>1 DEF AInv, Budget
  <2>. QED
    BY <2>2, <2>3, <2>4 DEF Announced
<1>. QED
  BY <1>1, BaseInvariance, PTL

-----------------------------------------------------------------------------
(* OwnDecisionOnce.  About(id): the messages that decide request id.       *)
(* Waiting(id): those that have still to be handled by the interface or by *)
(* the adapter loop; OInv has a copy left for each of them.                *)
About(id) == {m \in Deciding : m.id = id}

Waiting(id) ==
  Cardinality(Hits(channel, About(id))) + Cardinality(Hits(commands, About(id)))

OInv ==
  /\ copies \in [EventIds -> Int]
  /\ \A id \in EventIds : copies[id] >= Waiting(id)

LEMMA WaitingCounts ==
  ASSUME BInv, NEW id
  PROVE  /\ Cardinality(Hits(channel, About(id))) \in Nat
         /\ Cardinality(Hits(commands, About(id))) \in Nat
         /\ Waiting(id) \in Nat
<1>1. Cardinality(Hits(channel, About(id))) \in Nat
      /\ Cardinality(Hits(commands, About(id))) \in Nat
  BY HitsConcat DEF BInv, MailTyped
<1>. QED
  BY <1>1 DEF Waiting

LEMMA UndecidedCopies ==
  ASSUME BInv, OInv, Undecided, channel' = channel \o Emitted(out')
  PROVE  OInv'
<1>1. CoreTells({}) /\ copies' = copies
  BY DEF Undecided
<1>2. ASSUME NEW id \in EventIds PROVE Waiting(id)' = Waiting(id)
  <2>. PICK T \in SUBSET Deciding : T = About(id)
    BY DEF About
  <2>. PICK w : w = Emitted(out')
    OBVIOUS
  <2>1. Cardinality(Hits(w, T)) = 0 /\ IsSeq(w)
    BY <1>1, EmittedDecides, EmittedFrom DEF CoreTells, Shows
  <2>2. IsSeq(channel) /\ IsSeq(commands)
    BY DEF BInv, MailTyped
  <2>3. Cardinality(Hits(channel', T)) = Cardinality(Hits(channel, T))
    <3>1. /\ Cardinality(Hits(channel, T)) \in Nat
          /\ Cardinality(Hits(channel \o w, T))
               = Cardinality(Hits(channel, T)) + Cardinality(Hits(w, T))
      BY <2>1, <2>2, HitsConcat
    <3>. QED
      BY <2>1, <3>1
  <2>4. Cardinality(Hits(commands', T)) = Cardinality(Hits(commands, T))
    <3>1. StartTask \notin T
      BY DEF StartTask, Deciding
    <3>2. Cardinality(Hits(Append(commands, StartTask), T))
            = Cardinality(Hits(commands, T))
      BY <2>2, <3>1, HitsAppend
    <3>. QED
      BY <3>2 DEF Undecided
  <2>. QED
    BY <2>3, <2>4 DEF Waiting
<1>. QED
  BY <1>1, <1>2 DEF OInv

LEMMA TwoCopies ==
  ASSUME NEW y \in Int, NEW a \in Nat, NEW b \in Nat, y >= a + b,
         NEW h \in Int, h <= 1, NEW d \in Int, d <= b + 1
  PROVE  y + 2 >= a + h + d /\ y + 2 \in Int
OBVIOUS

LEMMA DecidedCopies ==
  ASSUME BInv, OInv, NEW c \in {Tui, Phone}, NEW id \in Nat,
         NEW decision \in Decisions, Decided(c, id, decision),
         channel' = channel \o Emitted(out')
  PROVE  OInv'
<1>. PICK f \in Deciding : f = Forward(c, id, decision)
  BY DEF Decided
<1>0. f.id = id /\ f.type = "respond_request" /\ f.from = c
  BY DEF Forward
<1>1. CoreTells({f})
      /\ copies' = [copies EXCEPT ![id] = @ + (IF c = Tui THEN 1 ELSE 2)]
  BY DEF Decided
<1>2. c = Tui => ~SinkTakes(f)
  BY <1>0 DEF SinkTakes
<1>3. IsSeq(channel) /\ IsSeq(commands)
  BY DEF BInv, MailTyped
<1>4. ASSUME NEW x \in EventIds
      PROVE  copies'[x] \in Int /\ copies'[x] >= Waiting(x)'
  <2>. PICK T \in SUBSET Deciding : T = About(x)
    BY DEF About
  <2>. PICK w : w = Emitted(out')
    OBVIOUS
  <2>1. IsSeq(w) /\ IsSeq(out') /\ Answering(out', {f})
    BY <1>1, EmittedFrom DEF CoreTells, Shows
  <2>2. f \in T <=> x = id
    BY <1>0 DEF About
  <2>. PICK h : h = Cardinality(Hits(w, T))
    OBVIOUS
  <2>3. h \in {0, 1} /\ (x # id \/ c = Tui => h = 0)
    <3>1. h \in {0, 1}
      BY <2>1, EmittedDecides
    <3>2. ASSUME x # id \/ c = Tui PROVE h = 0
      <4>1. \A g \in {f} : g \in T => ~SinkTakes(g)
        BY <1>2, <2>2, <3>2
      <4>. QED
        BY <2>1, <4>1, EmittedDecides
    <3>. QED
      BY <3>1, <3>2
  <2>. PICK a \in Nat : a = Cardinality(Hits(channel, T))
    BY WaitingCounts
  <2>. PICK b \in Nat : b = Cardinality(Hits(commands, T))
    BY WaitingCounts
  <2>4. Cardinality(Hits(channel', T)) = a + h
    BY <1>3, <2>1, HitsConcat
  <2>. PICK d : d = Cardinality(Hits(commands', T))
    OBVIOUS
  <2>5. d \in {b, b + 1} /\ (x # id => d = b)
    <3>1. CASE commands' = commands
      BY <3>1
    <3>2. CASE commands' = Append(commands, RespondCommand(id, decision))
      <4>1. RespondCommand(id, decision).id = id
        BY DEF RespondCommand
      <4>. PICK r : r = RespondCommand(id, decision)
        OBVIOUS
      <4>2. x # id => r \notin T
        BY <4>1 DEF About
      <4>3. /\ r \in T => Cardinality(Hits(Append(commands, r), T)) = b + 1
            /\ r \notin T => Cardinality(Hits(Append(commands, r), T)) = b
        BY <1>3, HitsAppend
      <4>. QED
        BY <3>2, <4>2, <4>3
    <3>. QED
      BY <3>1, <3>2 DEF Decided
  <2>. PICK y \in Int : y = copies[x] /\ y >= a + b
    BY DEF OInv, Waiting
  <2>6. copies'[x] = IF x = id THEN y + (IF c = Tui THEN 1 ELSE 2) ELSE y
    BY <1>1 DEF OInv
  <2>7. Waiting(x)' = a + h + d
    BY <2>4 DEF Waiting
  <2>8. CASE x # id
    BY <2>3, <2>5, <2>6, <2>7, <2>8
  <2>9. CASE x = id /\ c = Tui
    <3>1. copies'[x] = y + 1 /\ h = 0
      BY <2>3, <2>6, <2>9
    <3>2. d <= b + 1 /\ d \in Nat
      BY <2>5
    <3>3. y + 1 \in Int /\ y + 1 >= a + 0 + d
      BY <3>2
    <3>. QED
      BY <2>7, <3>1, <3>3
  <2>10. CASE x = id /\ c # Tui
    <3>1. copies'[x] = y + 2
      BY <2>6, <2>10
    <3>2. h \in Int /\ h <= 1 /\ d \in Int /\ d <= b + 1
      BY <2>3, <2>5
    <3>3. y + 2 >= a + h + d /\ y + 2 \in Int
      BY <3>2, TwoCopies
    <3>. QED
      BY <2>7, <3>1, <3>3
  <2>. QED
    BY <2>8, <2>9, <2>10
<1>5. DOMAIN copies' = EventIds /\ copies' = [x \in EventIds |-> copies'[x]]
  BY <1>1 DEF OInv
<1>6. copies' \in [EventIds -> Int]
  BY <1>4, <1>5
<1>. QED
  BY <1>4, <1>6 DEF OInv

LEMMA LoopCopies ==
  ASSUME BInv, OInv, AdapterLoop
  PROVE  OInv'
<1>1. /\ commands # <<>> /\ commands' = Tail(commands)
      /\ channel' = Append(channel, Head(commands)) /\ copies' = copies
  BY DEF AdapterLoop, TakeCommand, past
<1>2. IsSeq(channel) /\ IsSeq(commands)
  BY DEF BInv, MailTyped
<1>3. ASSUME NEW id PROVE Waiting(id)' = Waiting(id)
  <2>. PICK T : T = About(id)
    OBVIOUS
  <2>. PICK h, t : h = Head(commands) /\ t = Tail(commands)
    OBVIOUS
  <2>. PICK a \in Nat : a = Cardinality(Hits(channel, T))
    BY WaitingCounts
  <2>. PICK b \in Nat : b = Cardinality(Hits(t, T))
    BY <1>1, <1>2, HitsTail
  <2>1. /\ h \in T => Cardinality(Hits(commands, T)) = b + 1
        /\ h \notin T => Cardinality(Hits(commands, T)) = b
    BY <1>1, <1>2, HitsTail
  <2>2. /\ h \in T => Cardinality(Hits(Append(channel, h), T)) = a + 1
        /\ h \notin T => Cardinality(Hits(Append(channel, h), T)) = a
    BY <1>2, HitsAppend
  <2>3. Waiting(id) = a + Cardinality(Hits(commands, T))
    BY DEF Waiting
  <2>4. Waiting(id)' = Cardinality(Hits(Append(channel, h), T)) + b
    BY <1>1 DEF Waiting
  <2>. QED
    BY <2>1, <2>2, <2>3, <2>4
<1>. QED
  BY <1>1, <1>3 DEF OInv

LEMMA HandledCopies ==
  ASSUME BInv, OInv, TuiHandles
  PROVE  OInv'
<1>. PICK m : m = Head(channel)
  OBVIOUS
<1>1. /\ channel # <<>> /\ channel' = Tail(channel) /\ commands' = commands
      /\ Handles(m)
  BY DEF TuiHandles, CoreIdle
<1>2. IsSeq(channel)
  BY DEF BInv, MailTyped
<1>3. m.type \in DecisionTypes => m \in Deciding
  BY <1>1, MailTail DEF BInv
<1>4. ASSUME NEW x \in EventIds
      PROVE  /\ m \in About(x) => Waiting(x) = Waiting(x)' + 1
             /\ m \notin About(x) => Waiting(x) = Waiting(x)'
             /\ Waiting(x)' \in Nat
  <2>. PICK T : T = About(x)
    OBVIOUS
  <2>. PICK t : t = Tail(channel)
    OBVIOUS
  <2>. PICK a \in Nat : a = Cardinality(Hits(t, T))
    BY <1>1, <1>2, HitsTail
  <2>. PICK b \in Nat : b = Cardinality(Hits(commands, T))
    BY WaitingCounts
  <2>1. /\ m \in T => Cardinality(Hits(channel, T)) = a + 1
        /\ m \notin T => Cardinality(Hits(channel, T)) = a
    BY <1>1, <1>2, HitsTail
  <2>2. Waiting(x)' = a + b /\ Waiting(x) = Cardinality(Hits(channel, T)) + b
    BY <1>1 DEF Waiting
  <2>. QED
    BY <2>1, <2>2
<1>5. CASE m.type \in DecisionTypes
  <2>1. copies' = [copies EXCEPT ![m.id] = @ - 1]
    BY <1>1, <1>5 DEF Handles, Answers, DecisionTypes
  <2>2. \A x \in EventIds : m \in About(x) <=> x = m.id
    BY <1>3, <1>5 DEF About
  <2>3. ASSUME NEW x \in EventIds
        PROVE  copies'[x] \in Int /\ copies'[x] >= Waiting(x)'
    <3>. PICK y \in Int : y = copies[x] /\ y >= Waiting(x)
      BY DEF OInv
    <3>. PICK n \in Nat : n = Waiting(x)'
      BY <1>4
    <3>1. copies'[x] = IF x = m.id THEN y - 1 ELSE y
      BY <2>1 DEF OInv
    <3>2. CASE x = m.id
      BY <1>4, <2>2, <3>1, <3>2
    <3>3. CASE x # m.id
      BY <1>4, <2>2, <3>1, <3>3
    <3>. QED
      BY <3>2, <3>3
  <2>4. copies' = [x \in EventIds |-> copies'[x]]
    BY <2>1 DEF OInv
  <2>5. copies' \in [EventIds -> Int]
    BY <2>3, <2>4
  <2>. QED
    BY <2>3, <2>5 DEF OInv
<1>6. CASE m.type \notin DecisionTypes
  <2>1. copies' = copies
    BY <1>1, <1>6 DEF Handles, DecisionTypes
  <2>2. \A x \in EventIds : m \notin About(x)
    BY <1>6 DEF About, Deciding, DecisionTypes
  <2>. QED
    BY <1>4, <2>1, <2>2 DEF OInv
<1>. QED
  BY <1>5, <1>6

(* OwnDecisionsOnce: for any number of dialogs, keys and messages on their *)
(* way, a decision of the owner at the interface is typed once at most and *)
(* one of a phone twice: the sink of client.rs passes it on to the screen  *)
(* and the adapter loop of mod.rs handles it again, and neither does so    *)
(* for a decision that the core has not accepted.                          *)
THEOREM OwnDecisionsOnce == TuiSpec => []OwnDecisionOnce
<1>1. TuiInit => OInv
  <2>. SUFFICES ASSUME TuiInit PROVE OInv
    OBVIOUS
  <2>1. /\ copies = [id \in EventIds |-> 0]
        /\ channel = <<>> /\ commands = <<>>
    BY DEF TuiInit
  <2>2. ASSUME NEW id PROVE Waiting(id) = 0
    <3>1. Hits(<<>>, About(id)) = {}
      BY DEF Hits
    <3>2. Cardinality(Hits(<<>>, About(id))) = 0
      BY <3>1, FS_EmptySet
    <3>. QED
      BY <2>1, <3>2 DEF Waiting
  <2>. QED
    BY <2>1, <2>2 DEF OInv
<1>2. BInv /\ OInv /\ [TuiNext]_tui => OInv'
  <2>. SUFFICES ASSUME BInv, OInv, [TuiNext]_tui PROVE OInv'
    OBVIOUS
  <2>1. CASE UNCHANGED tui
    BY <2>1 DEF tui, core, past, OInv, Waiting
  <2>2. CASE CoreTakes \/ PhoneDecides \/ PhonePrompts
    BY <2>2, CoreTurns, UndecidedCopies, DecidedCopies DEF Turn
  <2>3. CASE AdapterLoop
    BY <2>3, LoopCopies
  <2>4. CASE TuiHandles
    BY <2>4, HandledCopies
  <2>5. CASE Calm
    BY <2>5 DEF Calm, CoreIdle, OInv, Waiting
  <2>. QED
    BY <2>1, <2>2, <2>3, <2>4, <2>5, StepKinds
<1>3. BInv /\ OInv => OwnDecisionOnce
  <2>. SUFFICES ASSUME BInv, OInv, NEW id \in EventIds PROVE copies[id] >= 0
    BY DEF OwnDecisionOnce
  <2>1. Waiting(id) \in Nat /\ copies[id] \in Int /\ copies[id] >= Waiting(id)
    BY WaitingCounts DEF OInv
  <2>. QED
    BY <2>1
<1>. QED
  BY <1>1, <1>2, <1>3, BaseInvariance, PTL DEF TuiSpec

-----------------------------------------------------------------------------
(* ViewFollowsQueue: with what is on its way the interface will show what  *)
(* the queue holds.                                                        *)
(* Shadows(q): the view is q but for what the user took off, and what is   *)
(* in the channel leads a mirror of q to the queue.                        *)
AsShown(v, gone, q) ==
  DOMAIN v \cup gone = DOMAIN q /\ \A id \in DOMAIN v : v[id] = q[id]

Shadows(q) == Shows(q, channel, queue) /\ AsShown(view, removed, q)

VInv == \E q : Shadows(q)

LEMMA ShowsSettled ==
  ASSUME NEW q, NEW r, Shows(q, <<>>, r)
  PROVE  q = r
<1>1. Len(<<>>) = 0
  OBVIOUS
<1>. QED
  BY <1>1 DEF Shows, ViewSteps

LEMMA TellsViewed ==
  ASSUME VInv, NEW F, CoreTells(F), channel' = channel \o Emitted(out'),
         UNCHANGED <<view, removed>>
  PROVE  VInv'
<1>. PICK q : Shadows(q)
  BY DEF VInv
<1>1. Shows(q, channel, queue)
  BY DEF Shadows
<1>2. Shows(queue, out', queue')
      /\ \A i \in DOMAIN out' : out'[i].type \in Pushed => SinkTakes(out'[i])
  BY DEF CoreTells
<1>. PICK w : w = out'
  OBVIOUS
<1>. PICK r : r = queue'
  OBVIOUS
<1>3. Shows(queue, Emitted(w), r)
  BY <1>2, ShowsEmitted
<1>4. Shows(q, channel', queue')
  BY <1>1, <1>3, ShowsThen
<1>5. Shadows(q)'
  BY <1>4 DEF Shadows
<1>. QED
  BY <1>5 DEF VInv

LEMMA LoopViewed ==
  ASSUME VInv, BInv, AdapterLoop
  PROVE  VInv'
<1>. PICK q : Shadows(q)
  BY DEF VInv
<1>. PICK m : m = Head(commands)
  OBVIOUS
<1>1. /\ commands # <<>> /\ channel' = Append(channel, m) /\ queue' = queue
      /\ UNCHANGED <<view, removed>>
  BY DEF AdapterLoop, TakeCommand, past
<1>2. m.type \notin Pushed
  BY <1>1, MailTail DEF BInv
<1>3. Shows(q, channel', queue)
  <2>1. Shows(q, Append(channel, m), Viewed(queue, m))
    BY ShowsAppend DEF Shadows
  <2>2. Viewed(queue, m) = queue
    BY <1>2 DEF Viewed
  <2>. QED
    BY <1>1, <2>1, <2>2
<1>4. Shadows(q)'
  BY <1>1, <1>3 DEF Shadows
<1>. QED
  BY <1>4 DEF VInv

(* AppliedAlike: a message makes the same of an entry wherever it is held. *)
LEMMA AppliedAlike ==
  ASSUME NEW v, NEW q, NEW gone, NEW m, m.type \in Pushed,
         AsShown(v, gone, q),
         NEW u, u = Applied(v, m), NEW r, r = Applied(q, m)
  PROVE  AsShown(u, gone, r)
<1>1. CASE m.type = "event"
  <2>1. /\ u = [id \in DOMAIN v \cup {m.id} |->
                  IF id = m.id THEN m.entry ELSE v[id]]
        /\ r = [id \in DOMAIN q \cup {m.id} |->
                  IF id = m.id THEN m.entry ELSE q[id]]
    BY <1>1 DEF Applied
  <2>. QED
    BY <2>1 DEF AsShown
<1>2. CASE m.type \in {"score_update", "state_update"}
  <2>. DEFINE New(x, id) ==
         CASE id # m.id -> x[id]
           [] id = m.id /\ m.type = "score_update" -> ApplyScore(x[id], m)
           [] id = m.id /\ m.type = "state_update" -> ApplyState(x[id], m)
  <2>1. /\ u = [id \in DOMAIN v |-> New(v, id)]
        /\ r = [id \in DOMAIN q |-> New(q, id)]
    BY <1>2 DEF Applied
  <2>2. \A id \in DOMAIN v : New(v, id) = New(q, id)
    BY <1>2 DEF AsShown
  <2>. HIDE DEF New
  <2>. QED
    BY <2>1, <2>2 DEF AsShown
<1>. QED
  BY <1>1, <1>2 DEF Pushed

LEMMA HandledViewed ==
  ASSUME VInv, TuiHandles
  PROVE  VInv'
<1>. PICK q : Shadows(q)
  BY DEF VInv
<1>. PICK m : m = Head(channel)
  OBVIOUS
<1>1. /\ channel # <<>> /\ channel' = Tail(channel) /\ queue' = queue
      /\ removed' = removed /\ Handles(m)
  BY DEF TuiHandles, CoreIdle
<1>. PICK r : r = Viewed(q, m)
  OBVIOUS
<1>2. Shows(r, channel', queue')
  BY <1>1, ShowsTail DEF Shadows
<1>3. AsShown(view', removed, r)
  <2>1. CASE m.type \in Pushed
    <3>. PICK v, u : v = view /\ u = view'
      OBVIOUS
    <3>1. r = Applied(q, m) /\ u = Applied(v, m)
      BY <1>1, <2>1 DEF Handles, Viewed, Pushed
    <3>2. AsShown(v, removed, q)
      BY DEF Shadows
    <3>3. AsShown(u, removed, r)
      BY <2>1, <3>1, <3>2, AppliedAlike
    <3>. QED
      BY <3>3
  <2>2. CASE m.type \notin Pushed
    <3>1. r = q /\ view' = view
      BY <1>1, <2>2 DEF Handles, Viewed, Pushed
    <3>. QED
      BY <3>1 DEF Shadows
  <2>. QED
    BY <2>1, <2>2
<1>4. Shadows(r)'
  BY <1>1, <1>2, <1>3 DEF Shadows
<1>. QED
  BY <1>4 DEF VInv

LEMMA TakenViewed ==
  ASSUME VInv, NEW ids, Take(ids), UNCHANGED <<channel, queue>>,
         ids \subseteq DOMAIN view
  PROVE  VInv'
<1>. PICK q : Shadows(q)
  BY DEF VInv
<1>1. /\ view' = [id \in DOMAIN view \ ids |-> view[id]]
      /\ removed' = removed \cup ids
  BY DEF Take
<1>2. DOMAIN view' = DOMAIN view \ ids
      /\ \A id \in DOMAIN view' : view'[id] = view[id]
  BY <1>1
<1>3. Shadows(q)'
  BY <1>1, <1>2 DEF Shadows, AsShown
<1>. QED
  BY <1>3 DEF VInv

(* ViewFollows: once nothing is on its way, the list of the interface is   *)
(* the queue of the core but for what the owner took off the list: the     *)
(* sink of client.rs leaves out nothing that changes an entry, the handler *)
(* of app.rs applies what comes in the order it was told, and that an entry*)
(* once superseded stays so there, whatever comes, agrees with the core.   *)
THEOREM ViewFollows == TuiSpec => []ViewFollowsQueue
<1>1. TuiInit => VInv
  <2>. SUFFICES ASSUME TuiInit PROVE VInv
    OBVIOUS
  <2>1. /\ queue = <<>> /\ channel = <<>> /\ removed = {}
        /\ DOMAIN view = {} /\ DOMAIN <<>> = {}
    BY DEF TuiInit
  <2>2. Shadows(queue)
    BY <2>1, ShowsNothing DEF Shadows, AsShown
  <2>. QED
    BY <2>2 DEF VInv
<1>2. BInv /\ VInv /\ [TuiNext]_tui => VInv'
  <2>. SUFFICES ASSUME BInv, VInv, [TuiNext]_tui PROVE VInv'
    OBVIOUS
  <2>1. CASE UNCHANGED tui
    BY <2>1 DEF tui, core, past, VInv, Shadows
  <2>2. CASE CoreTakes \/ PhoneDecides \/ PhonePrompts
    <3>1. UNCHANGED <<view, removed>>
      BY <2>2 DEF CoreTakes, PhoneDecides, PhonePrompts
    <3>2. channel' = channel \o Emitted(out') /\ \E F : CoreTells(F)
      BY <2>2, CoreTurns DEF Turn, Undecided, Decided
    <3>. QED
      BY <3>1, <3>2, TellsViewed
  <2>3. CASE AdapterLoop
    BY <2>3, LoopViewed
  <2>4. CASE TuiHandles
    BY <2>4, HandledViewed
  <2>5. CASE Calm
    <3>1. channel' = channel /\ queue' = queue
      BY <2>5 DEF Calm, CoreIdle
    <3>2. CASE view' = view /\ removed' = removed
      BY <3>1, <3>2 DEF VInv, Shadows
    <3>3. ASSUME NEW ids, Take(ids), ids \subseteq DOMAIN view PROVE VInv'
      BY <3>1, <3>3, TakenViewed
    <3>. QED
      BY <2>5, <3>2, <3>3 DEF Calm
  <2>. QED
    BY <2>1, <2>2, <2>3, <2>4, <2>5, StepKinds
<1>3. BInv /\ VInv => ViewFollowsQueue
  <2>. SUFFICES ASSUME BInv, VInv, Settled
                PROVE  /\ DOMAIN view \cup removed = Ids(queue)
                       /\ \A id \in DOMAIN view : view[id] = queue[id]
    BY DEF ViewFollowsQueue
  <2>. PICK q : Shadows(q)
    BY DEF VInv
  <2>1. q = queue
    BY ShowsSettled DEF Shadows, Settled
  <2>2. DOMAIN queue = Ids(queue)
    BY LenProperties DEF BInv, IInv, TypeOK, Ids
  <2>. QED
    BY <2>1, <2>2 DEF Shadows, AsShown
<1>. QED
  BY <1>1, <1>2, <1>3, BaseInvariance, PTL DEF TuiSpec

-----------------------------------------------------------------------------
(* DialogStaysAsked.  Successes(id): what reports a decision on request id *)
(* typed.  Closing: the keys that close a dialog.  InHand(id): a decision  *)
(* on the request, or what became of it, is on its way.                    *)
Successes(id) == {m \in Outcomes(id) : m.ok}

Closing == [what : {"enter", "prompt"}, id : Nat]

InHand(id) ==
  \/ Has(channel, About(id)) \/ Has(commands, About(id))
  \/ Has(inbox, Outcomes(id))

Settling(id) ==
  queue[id].resolution \in Decisions \/ Has(inbox, Successes(id))

(* AllInHand: what is in hand is of a request, and every request whose     *)
(* decision waits for its delivery is in hand.  ClosingTyped: where a      *)
(* decision on the dialog on the screen was typed, the key that closes it  *)
(* is still to be read.  Current: the last event, if it announced a dialog,*)
(* is a request that nothing superseded.                                   *)
AllInHand ==
  /\ \A id : InHand(id) => id \in Ids(queue)
  /\ \A id \in Ids(queue) :
       queue[id].resolution = "PendingDelivery" => InHand(id)

ClosingTyped ==
  \A id \in Ids(queue) :
    asked[id] = agent.state.dialog /\ agent.state.dialog > 0 /\ Settling(id)
      => Has(keys, Closing)

Current(a, q) ==
  Len(a) > 0 /\ a[Len(a)] > 0
    => q[Len(a)].resolution # "None" /\ ~q[Len(a)].superseded

DInv ==
  /\ Len(asked) = Len(queue) /\ IsSeq(keys)
  /\ AllInHand /\ ClosingTyped /\ Current(asked, queue)

(* What a turn of the core makes of the requests.  Moves(m, id): of request*)
(* id, on letter m.  Joins(d): an event joins them that announces dialog d.*)
Moves(m, id) ==
  /\ queue'[id].resolution = "PendingDelivery"
       => \/ Has(commands', About(id))
          \/ queue[id].resolution = "PendingDelivery" /\ m \notin Outcomes(id)
  /\ queue'[id].resolution \in Decisions
       => queue[id].resolution \in Decisions \/ m \in Successes(id)

Joins(d) ==
  LET n == Len(queue) + 1 IN
  /\ asked' = Append(asked, d) /\ Len(queue') = n
  /\ queue'[n].resolution \in {"None", "Unresolved"}
  /\ d > 0 => queue'[n].resolution # "None"
  /\ ~queue'[n].superseded

Course(m) ==
  /\ \A id \in Ids(queue) : Moves(m, id)
  /\ \/ asked' = asked /\ Keeps(queue, queue')
     \/ \E d : Joins(d)

Nobody == DismissIt(0)

Received(m) ==
  \/ inbox' = inbox /\ m = Nobody
  \/ inbox # <<>> /\ inbox' = Tail(inbox) /\ m = Head(inbox)

(* StillMoves: a step that changes no resolution, nor learns of one.       *)
LEMMA StillMoves ==
  ASSUME NEW m, m.do # "outcome",
         \A id \in Ids(queue) : queue'[id].resolution = queue[id].resolution
  PROVE  \A id \in Ids(queue) : Moves(m, id)
<1>1. \A id : m \notin Outcomes(id)
  BY DEF Outcomes
<1>. QED
  BY <1>1 DEF Moves

LEMMA StatusesSame ==
  ASSUME NEW q \in Seq(QueueEntry), NEW r \in Seq(QueueEntry),
         Statuses(r) = Statuses(q)
  PROVE  \A id \in Ids(q) : r[id].resolution = q[id].resolution
BY StatusesTyped

OneSet(q, r, id, x) == Statuses(r) = [Statuses(q) EXCEPT ![id] = x]

LEMMA StatusesOne ==
  ASSUME NEW q \in Seq(QueueEntry), NEW r \in Seq(QueueEntry),
         NEW id \in Ids(q), NEW x, OneSet(q, r, id, x)
  PROVE  \A y \in Ids(q) :
           r[y].resolution = IF y = id THEN x ELSE q[y].resolution
<1>. PICK f : f = Statuses(q)
  OBVIOUS
<1>1. DOMAIN f = Ids(q) /\ \A y \in Ids(q) : f[y] = q[y].resolution
  BY StatusesTyped
<1>. PICK g : g = Statuses(r)
  OBVIOUS
<1>2. DOMAIN g = Ids(r) /\ \A y \in Ids(r) : g[y] = r[y].resolution
  BY StatusesTyped
<1>3. DOMAIN g = DOMAIN f
      /\ \A y \in DOMAIN f : g[y] = IF y = id THEN x ELSE f[y]
  BY DEF OneSet
<1>. QED
  BY <1>1, <1>2, <1>3

(* RespondMoves: a decision taken is in delivery, and carried.             *)
LEMMA RespondMoves ==
  ASSUME IInv, MailTyped(commands), NEW c, NEW id, NEW decision \in Decisions,
         ClientRespond(c, id, decision), NEW m, m.do # "outcome",
         queue' \in Seq(QueueEntry)
  PROVE  \A x \in Ids(queue) : Moves(m, x)
<1>0. queue \in Seq(QueueEntry)
  BY Store
<1>1. \A x : m \notin Outcomes(x)
  BY DEF Outcomes
<1>. DEFINE sent    == RespondRequest(queue, id)
            pending == UpdateEntryScore(sent, events, id, now)
<1>2. CASE RespondRefused(c, id)
  BY <1>2, StillMoves DEF RespondRefused
<1>3. ASSUME RespondVerdict(queue, id) = "ok"
      PROVE  /\ id \in Ids(queue) /\ queue[id].resolution = "Unresolved"
             /\ pending \in Seq(QueueEntry) /\ Len(pending) = Len(queue)
             /\ Ids(pending) = Ids(queue)
             /\ Statuses(pending)
                  = [Statuses(queue) EXCEPT ![id] = "PendingDelivery"]
  <2>1. id \in Ids(queue) /\ queue[id].resolution = "Unresolved"
    BY <1>3, Store DEF RespondVerdict, Known, QueueEntry, Resolutions
  <2>2. /\ sent \in Seq(QueueEntry) /\ Len(sent) = Len(queue)
        /\ Statuses(sent) = [Statuses(queue) EXCEPT ![id] = "PendingDelivery"]
    BY <2>1, Store, RespondedStatuses
  <2>. HIDE DEF sent
  <2>3. /\ pending \in Seq(QueueEntry) /\ Len(pending) = Len(queue)
        /\ Statuses(pending) = Statuses(sent)
    BY <2>2, ThenRescored
  <2>. HIDE DEF pending
  <2>4. Ids(pending) = Ids(queue)
    BY <2>3, Store, LenProperties DEF Ids
  <2>. QED
    BY <2>1, <2>2, <2>3, <2>4
<1>. HIDE DEF sent
<1>4. CASE RespondSent(c, id, decision)
  <2>1. /\ RespondVerdict(queue, id) = "ok" /\ queue' = pending
        /\ commands' = Append(commands, RespondCommand(id, decision))
    BY <1>4 DEF RespondSent, sent
  <2>. HIDE DEF pending
  <2>2. /\ id \in Ids(queue)
        /\ \A y \in Ids(queue) :
             queue'[y].resolution
               = IF y = id THEN "PendingDelivery" ELSE queue[y].resolution
    <3>1. id \in Ids(queue)
      BY <1>3, <2>1
    <3>. PICK r \in Seq(QueueEntry) : r = queue'
      OBVIOUS
    <3>. PICK q \in Seq(QueueEntry) : q = queue
      BY <1>0
    <3>2. OneSet(q, r, id, "PendingDelivery")
      BY <1>3, <2>1 DEF OneSet
    <3>3. \A y \in Ids(q) :
            r[y].resolution
              = IF y = id THEN "PendingDelivery" ELSE q[y].resolution
      BY <3>1, <3>2, StatusesOne
    <3>. QED
      BY <3>1, <3>3
  <2>3. RespondCommand(id, decision) \in About(id)
    <3>1. Ids(queue) = 1..Len(queue) /\ Len(queue) \in Nat
          /\ events \in Seq(Event) /\ Len(events) = Len(queue)
      BY Store
    <3>2. id \in Nat /\ events[id] \in Event
      BY <2>2, <3>1, ElementOfSeq
    <3>. QED
      BY <3>2 DEF RespondCommand, About, Deciding, Event
  <2>4. Has(commands', About(id))
    BY <2>1, <2>3, HasAppend DEF MailTyped
  <2>5. "PendingDelivery" \notin Decisions
    BY DEF Decisions
  <2>. QED
    BY <1>1, <2>2, <2>4, <2>5 DEF Moves
<1>5. CASE RespondOverflow(c, id, decision)
  <2>. DEFINE undone == MarkDeliveryFailed(pending, id)
  <2>1. RespondVerdict(queue, id) = "ok"
        /\ queue' = UpdateEntryScore(undone, events, id, now)
    BY <1>5 DEF RespondOverflow, sent
  <2>2. /\ id \in Ids(queue) /\ queue[id].resolution = "Unresolved"
        /\ pending \in Seq(QueueEntry) /\ Len(pending) = Len(queue)
        /\ id \in Ids(pending)
        /\ Statuses(pending)
             = [Statuses(queue) EXCEPT ![id] = "PendingDelivery"]
    BY <1>3, <2>1
  <2>. HIDE DEF pending
  <2>3. /\ undone \in Seq(QueueEntry) /\ Len(undone) = Len(queue)
        /\ Statuses(undone) = [Statuses(pending) EXCEPT ![id] = "Unresolved"]
    BY <2>2, FailedStatuses
  <2>. HIDE DEF undone
  <2>4. /\ Statuses(queue) \in [Ids(queue) -> Resolutions]
        /\ Statuses(queue)[id] = "Unresolved"
    BY <1>0, <2>2, StatusesTyped
  <2>5. Statuses(undone) = Statuses(queue)
    BY <2>2, <2>3, <2>4, Overwritten
  <2>6. Statuses(UpdateEntryScore(undone, events, id, now)) = Statuses(queue)
    BY <2>3, <2>5, ThenRescored
  <2>. QED
    BY <1>0, <2>1, <2>6, StatusesSame, StillMoves
<1>. QED
  BY <1>2, <1>4, <1>5, TerminalAssumption DEF ClientRespond

(* OutcomeMoves: what became of a decision ends its delivery.              *)
LEMMA OutcomeMoves ==
  ASSUME IInv, NEW m, m \in Outcomes(m.id), queue' \in Seq(QueueEntry),
         IF m.ok THEN Delivered(m.id, m.decision) ELSE DeliveryFailed(m.id)
  PROVE  \A x \in Ids(queue) : Moves(m, x)
<1>. PICK id : id = m.id
  OBVIOUS
<1>0. queue \in Seq(QueueEntry)
  BY Store
<1>1. /\ m.decision \in Decisions /\ m.ok \in BOOLEAN
      /\ \A x : x # id => m \notin Outcomes(x)
      /\ m.ok => m \in Successes(id)
  BY DEF Outcomes, Successes
<1>2. CASE ~InDelivery(queue, id)
  <2>1. queue' = queue
    BY <1>2 DEF Delivered, DeliveryFailed
  <2>2. id \in Ids(queue) => queue[id].resolution # "PendingDelivery"
    BY <1>2 DEF InDelivery, Known
  <2>. QED
    BY <1>1, <2>1, <2>2 DEF Moves
<1>3. CASE InDelivery(queue, id)
  <2>. PICK x : x = IF m.ok THEN m.decision ELSE "Unresolved"
    OBVIOUS
  <2>1. id \in Ids(queue)
    BY <1>3 DEF InDelivery, Known
  <2>2. PICK r \in Seq(QueueEntry) :
          /\ Len(r) = Len(queue)
          /\ Statuses(r) = [Statuses(queue) EXCEPT ![id] = x]
          /\ queue' = UpdateEntryScore(r, events, id, now)
    <3>1. CASE m.ok
      <4>1. queue' = UpdateEntryScore(MarkDelivered(queue, id, x),
                                      events, id, now)
        BY <1>3, <3>1 DEF Delivered
      <4>2. x \in Decisions
        BY <1>1, <3>1
      <4>. QED
        BY <1>0, <2>1, <4>1, <4>2, DeliveredStatuses
    <3>2. CASE ~m.ok
      <4>1. queue' = UpdateEntryScore(MarkDeliveryFailed(queue, id),
                                      events, id, now)
            /\ x = "Unresolved"
        BY <1>3, <3>2 DEF DeliveryFailed
      <4>. QED
        BY <1>0, <2>1, <4>1, FailedStatuses
    <3>. QED
      BY <3>1, <3>2
  <2>3. Statuses(queue') = [Statuses(queue) EXCEPT ![id] = x]
    BY <2>2, ThenRescored
  <2>4. \A y \in Ids(queue) :
          queue'[y].resolution = IF y = id THEN x ELSE queue[y].resolution
    <3>. PICK s \in Seq(QueueEntry) : s = queue'
      OBVIOUS
    <3>. PICK q \in Seq(QueueEntry) : q = queue
      BY <1>0
    <3>1. OneSet(q, s, id, x) /\ id \in Ids(q)
      BY <2>1, <2>3 DEF OneSet
    <3>2. \A y \in Ids(q) :
            s[y].resolution = IF y = id THEN x ELSE q[y].resolution
      BY <3>1, StatusesOne
    <3>. QED
      BY <3>2
  <2>5. x # "PendingDelivery" /\ (x \in Decisions => m \in Successes(id))
    BY <1>1 DEF Decisions
  <2>. QED
    BY <1>1, <2>4, <2>5 DEF Moves
<1>. QED
  BY <1>2, <1>3

(* DialogIsRequest: what announces a dialog is classified as a request.    *)
LEMMA DialogIsRequest == Verdict("command_confirmation", TRUE)[1] = "Request"
<1>. PICK kind : kind = "command_confirmation"
  OBVIOUS
<1>1. kind \in KindsOf("Request", "Critical")
  BY DEF KindsOf
<1>2. \A s \in Severities : kind \notin KindsOf("Completed", s)
  BY DEF KindsOf, Severities
<1>3. "Request" \in Categories /\ "Critical" \in Severities
  BY DEF Categories, Severities
<1>4. kind \in Kinds \ UnknownKinds
  BY <1>1, <1>3 DEF Kinds, UnknownKinds
<1>5. Tabled[kind] \in Categories \X Severities
      /\ kind \in KindsOf(Tabled[kind][1], Tabled[kind][2])
  <2>1. <<"Request", "Critical">> \in Categories \X Severities
        /\ kind \in KindsOf(<<"Request", "Critical">>[1],
                            <<"Request", "Critical">>[2])
    BY <1>1, <1>3
  <2>2. Tabled[kind] = CHOOSE v \in Categories \X Severities :
                         kind \in KindsOf(v[1], v[2])
    BY <1>4 DEF Tabled
  <2>. QED
    BY <2>1, <2>2
<1>6. Tabled[kind][1] # "Completed"
  BY <1>2, <1>5
<1>7. Classify(kind) = Tabled[kind]
  BY DEF Classify
<1>8. CASE Tabled[kind][1] = "Request"
  BY <1>7, <1>8 DEF Verdict
<1>9. CASE Tabled[kind][1] # "Request"
  BY <1>6, <1>7, <1>9 DEF Verdict
<1>. QED
  BY <1>8, <1>9

(* ArrivalJoins: an event of the terminal joins the requests it finds.     *)
LEMMA ArrivalJoins ==
  ASSUME IInv, NEW m, m \in RawLetters,
         RawEvent(m.kind, m.dialog > 0, Session, "Other", 1),
         asked' = Append(asked, m.dialog)
  PROVE  Joins(m.dialog) /\ \A id \in Ids(queue) : Moves(m, id)
<1>. PICK d \in Nat : d = m.dialog
  BY TerminalAssumption DEF RawLetters
<1>. PICK kind \in Kinds : kind = m.kind
  BY RawKnown DEF RawLetters
<1>. PICK asks \in BOOLEAN : asks = (d > 0)
  <2>1. (d > 0) \in BOOLEAN
    OBVIOUS
  <2>. QED
    BY <2>1
<1>. PICK task \in Tasks \cup {NoTask}, operation \in Operations :
       task = Session /\ operation = "Other"
  BY RawKnown
<1>1. RawEvent(kind, asks, task, operation, 1)
  OBVIOUS
<1>2. Arrival
  BY <1>1, 1 \in Nat DEF Arrival
<1>3. Len(queue) = Len(events) /\ Len(events) \in Nat /\ events \in Seq(Event)
  BY Store
<1>. PICK n \in Nat : n = Len(queue) + 1
  BY <1>3
<1>4. PICK event \in Event :
        /\ events' = Append(events, event)
        /\ Len(queue') = n
        /\ \A x \in Ids(queue) : queue'[x].resolution = queue[x].resolution
        /\ ~queue'[n].superseded
        /\ queue'[n].resolution = "None" <=> event.category # "Request"
        /\ queue'[n].resolution \in {"None", "Unresolved"}
  BY <1>2, <1>3, ArrivalEffect
<1>5. event = Processed(kind, asks, task, operation, 1)
  <2>. PICK e : e = Processed(kind, asks, task, operation, 1)
    OBVIOUS
  <2>1. events' = Append(events, e)
    BY <1>1 DEF RawEvent
  <2>2. IsSeq(events)
    BY <1>3 DEF IsSeq
  <2>3. \A x : Append(events, x)[Len(events) + 1] = x
    BY <2>2, SeqAppend
  <2>4. Append(events, e) = Append(events, event)
    BY <1>4, <2>1
  <2>5. e = event
    BY <2>3, <2>4
  <2>. QED
    BY <2>5
<1>6. d > 0 => event.category = "Request"
  <2>. SUFFICES ASSUME d > 0 PROVE event.category = "Request"
    OBVIOUS
  <2>1. kind = "command_confirmation" /\ asks = TRUE
    BY DEF RawLetters
  <2>2. event.category = Verdict(kind, asks)[1]
    BY <1>5 DEF Processed
  <2>. QED
    BY <2>1, <2>2, DialogIsRequest
<1>7. Joins(d)
  BY <1>4, <1>6 DEF Joins
<1>8. \A id \in Ids(queue) : Moves(m, id)
  <2>1. m.do # "outcome"
    BY DEF RawLetters
  <2>. QED
    BY <1>4, <2>1, StillMoves
<1>. QED
  BY <1>7, <1>8

(* CoreCourse: whatever the core handles takes this course.                *)
LEMMA CoreCourse ==
  ASSUME BInv, CoreTakes \/ PhoneDecides \/ PhonePrompts
  PROVE  \E m : Received(m) /\ Course(m)
<1>0. IInv /\ WorkingRated /\ MailTyped(commands) /\ queue \in Seq(QueueEntry)
  BY Store DEF BInv
<1>1. Nobody.do # "outcome"
  BY DEF Nobody, DismissIt
<1>2. Keeps(queue, queue') => queue' \in Seq(QueueEntry)
  BY DEF Keeps, KeepsFrame
<1>3. CASE CoreTakes
  <2>. PICK m : m = Head(inbox)
    OBVIOUS
  <2>1. Received(m) /\ CoreHandles(m)
    BY <1>3 DEF CoreTakes, Received
  <2>2. Letter(m)
    BY <1>3, LettersTail DEF BInv, AInv, CoreTakes
  <2>3. CASE /\ m.do = "raw"
             /\ RawEvent(m.kind, m.dialog > 0, Session, "Other", 1)
             /\ asked' = Append(asked, m.dialog)
    <3>1. m \in RawLetters
      BY <2>2, <2>3 DEF Letter
    <3>2. Joins(m.dialog) /\ \A id \in Ids(queue) : Moves(m, id)
      BY <1>0, <2>3, <3>1, ArrivalJoins
    <3>. QED
      BY <2>1, <3>2 DEF Course
  <2>4. CASE /\ m.do = "outcome"
             /\ IF m.ok THEN Delivered(m.id, m.decision)
                ELSE DeliveryFailed(m.id)
             /\ asked' = asked
    <3>1. m \in Outcomes(m.id) /\ m.decision \in Decisions
      BY <2>2, <2>4 DEF Letter, Outcomes
    <3>. PICK id : id = m.id
      OBVIOUS
    <3>2. \/ \E decision \in Decisions : Delivered(id, decision)
          \/ DeliveryFailed(id)
      BY <2>4, <3>1
    <3>3. Keeps(queue, queue')
      BY <1>0, <3>2, OutcomeTells
    <3>4. \A x \in Ids(queue) : Moves(m, x)
      BY <1>0, <1>2, <2>4, <3>1, <3>3, OutcomeMoves
    <3>. QED
      BY <2>1, <2>4, <3>3, <3>4 DEF Course
  <2>5. CASE /\ m.do = "respond" /\ ClientRespond(Tui, m.id, m.decision)
             /\ asked' = asked
    <3>0. m.decision \in Decisions
      BY <2>2, <2>5 DEF Letter
    <3>. PICK decision \in Decisions : decision = m.decision
      BY <3>0
    <3>. PICK id : id = m.id
      OBVIOUS
    <3>1. ClientRespond(Tui, id, decision)
      BY <2>5
    <3>2. Keeps(queue, queue')
      BY <1>0, <3>1, RespondTells
    <3>3. \A x \in Ids(queue) : Moves(m, x)
      BY <1>0, <1>2, <2>5, <3>1, <3>2, RespondMoves
    <3>. QED
      BY <2>1, <2>5, <3>2, <3>3 DEF Course
  <2>6. CASE m.do = "dismiss" /\ ClientDismiss(Tui, m.id) /\ asked' = asked
    <3>1. Keeps(queue, queue')
      BY <1>0, <2>6, DismissTells
    <3>2. Still
      BY <1>0, <2>6, AttentionChanges
    <3>. PICK r \in Seq(QueueEntry) : r = queue'
      BY <1>2, <3>1
    <3>3. \A id \in Ids(queue) : r[id].resolution = queue[id].resolution
      BY <1>0, <3>2, StatusesSame DEF Still
    <3>4. \A id \in Ids(queue) : Moves(m, id)
      BY <2>6, <3>3, StillMoves
    <3>. QED
      BY <2>1, <2>6, <3>1, <3>4 DEF Course
  <2>. QED
    BY <2>1, <2>3, <2>4, <2>5, <2>6 DEF CoreHandles
<1>4. CASE PhoneDecides
  <2>. PICK id \in Ids(queue), decision \in Answered :
         ClientRespond(Phone, id, decision)
    BY <1>4 DEF PhoneDecides
  <2>1. decision \in Decisions
    BY TerminalAssumption
  <2>2. Keeps(queue, queue')
    BY <1>0, <2>1, RespondTells
  <2>3. \A x \in Ids(queue) : Moves(Nobody, x)
    BY <1>0, <1>1, <1>2, <2>1, <2>2, RespondMoves
  <2>4. asked' = asked /\ inbox' = inbox
    BY <1>4 DEF PhoneDecides
  <2>. QED
    BY <2>2, <2>3, <2>4 DEF Course, Received
<1>5. CASE PhonePrompts
  <2>1. queue' = queue /\ asked' = asked /\ inbox' = inbox
    BY <1>5 DEF PhonePrompts, ClientStartTask
  <2>2. Keeps(queue, queue')
    BY <1>0, <2>1, KeepsItself
  <2>3. \A x \in Ids(queue) : Moves(Nobody, x)
    BY <1>1, <2>1, StillMoves
  <2>. QED
    BY <2>1, <2>2, <2>3 DEF Course, Received
<1>. QED
  BY <1>3, <1>4, <1>5

(* ReceivedHas: what the core receives leaves the letters of the interface.*)
LEMMA ReceivedHas ==
  ASSUME NEW m, Received(m), IsSeq(inbox), NEW T
  PROVE  /\ Has(inbox', T) => Has(inbox, T)
         /\ Has(inbox, T) /\ m \notin T => Has(inbox', T)
         /\ m \in T /\ m # Nobody => Has(inbox, T)
<1>1. CASE inbox' = inbox /\ m = Nobody
  BY <1>1
<1>2. CASE inbox # <<>> /\ inbox' = Tail(inbox) /\ m = Head(inbox)
  BY <1>2, HasTail
<1>. QED
  BY <1>1, <1>2 DEF Received

(* CourseIds: which requests there are after a turn of the core.           *)
LEMMA CourseIds ==
  ASSUME IInv, IInv', IsSeq(asked), Len(asked) = Len(queue), NEW m, Course(m)
  PROVE  /\ IsSeq(asked') /\ Len(asked') = Len(queue')
         /\ \A id \in Ids(queue) : id \in Ids(queue') /\ asked'[id] = asked[id]
         /\ \A id \in Ids(queue') :
              id \notin Ids(queue)
                => queue'[id].resolution \in {"None", "Unresolved"}
<1>. PICK n \in Nat : n = Len(queue) /\ Ids(queue) = 1..n
  BY Store
<1>. PICK r \in Seq(QueueEntry) : r = queue'
  BY DEF IInv, TypeOK
<1>1. Ids(r) = 1..Len(r)
  BY LenProperties DEF Ids
<1>2. CASE asked' = asked /\ Keeps(queue, queue')
  <2>1. Len(r) = n
    BY <1>2 DEF Keeps, KeepsFrame
  <2>. QED
    BY <1>1, <1>2, <2>1
<1>3. ASSUME NEW d, Joins(d)
      PROVE  /\ IsSeq(asked') /\ Len(asked') = Len(queue')
             /\ \A id \in Ids(queue) :
                  id \in Ids(queue') /\ asked'[id] = asked[id]
             /\ \A id \in Ids(queue') :
                  id \notin Ids(queue)
                    => queue'[id].resolution \in {"None", "Unresolved"}
  <2>1. /\ asked' = Append(asked, d) /\ Len(r) = n + 1
        /\ r[n + 1].resolution \in {"None", "Unresolved"}
    BY <1>3 DEF Joins
  <2>. PICK a : a = asked'
    OBVIOUS
  <2>2. /\ IsSeq(a) /\ Len(a) = n + 1
        /\ \A i \in 1..n : a[i] = asked[i]
    BY <2>1, SeqAppend
  <2>3. \A id \in 1..(n + 1) : id \notin 1..n => id = n + 1
    OBVIOUS
  <2>4. \A id \in 1..n : id \in 1..(n + 1)
    OBVIOUS
  <2>. QED
    BY <1>1, <2>1, <2>2, <2>3, <2>4
<1>. QED
  BY <1>2, <1>3 DEF Course

(* CourseCurrent: a turn leaves the last announcement a request.           *)
LEMMA CourseCurrent ==
  ASSUME IInv, IInv', IsSeq(asked), Len(asked) = Len(queue), NEW m, Course(m),
         Current(asked, queue)
  PROVE  Current(asked', queue')
<1>. PICK n \in Nat : n = Len(queue) /\ Ids(queue) = 1..n
  BY Store
<1>. PICK r : r = queue'
  OBVIOUS
<1>. PICK a : a = asked'
  OBVIOUS
<1>1. CASE a = asked /\ Keeps(queue, r)
  <2>. SUFFICES ASSUME n > 0, asked[n] > 0
                PROVE  r[n].resolution # "None" /\ ~r[n].superseded
    BY <1>1 DEF Current
  <2>1. n \in Ids(queue)
    OBVIOUS
  <2>2. queue[n].resolution # "None" /\ ~queue[n].superseded
    BY DEF Current
  <2>. QED
    BY <1>1, <2>1, <2>2 DEF Keeps, KeepsFrame
<1>2. ASSUME NEW d, Joins(d)
      PROVE  Current(a, r)
  <2>1. /\ a = Append(asked, d)
        /\ d > 0 => r[n + 1].resolution # "None"
        /\ ~r[n + 1].superseded
    BY <1>2 DEF Joins
  <2>2. Len(a) = n + 1 /\ a[n + 1] = d
    BY <2>1, SeqAppend
  <2>. QED
    BY <2>1, <2>2 DEF Current
<1>. QED
  BY <1>1, <1>2 DEF Course

(* TurnHands: a turn puts in hand what it decides, and drops nothing.      *)
LEMMA TurnHands ==
  ASSUME BInv, Turn, channel' = channel \o Emitted(out'), NEW id
  PROVE  /\ Has(channel, About(id)) => Has(channel', About(id))
         /\ Has(commands, About(id)) => Has(commands', About(id))
         /\ Has(channel', About(id)) \/ Has(commands', About(id))
              => \/ Has(channel, About(id)) \/ Has(commands, About(id))
                 \/ id \in Ids(queue)
<1>. PICK T : T = About(id)
  OBVIOUS
<1>0. IsSeq(channel) /\ IsSeq(commands)
  BY DEF BInv, MailTyped
<1>1. \A e \in T : e.type \in DecisionTypes /\ e.id = id
  BY DEF About, Deciding, DecisionTypes
<1>2. StartTask \notin T
  BY <1>1 DEF StartTask, DecisionTypes
<1>3. ASSUME NEW F, CoreTells(F)
      PROVE  /\ Has(channel', T) <=> Has(channel, T) \/ Has(Emitted(out'), T)
             /\ Has(Emitted(out'), T) => \E f \in F : f \in T
  <2>1. IsSeq(out')
    BY <1>3 DEF CoreTells, Shows
  <2>. PICK w : w = out'
    OBVIOUS
  <2>2. /\ IsSeq(Emitted(w))
        /\ \A j \in DOMAIN Emitted(w) : \E i \in DOMAIN w : Emitted(w)[j] = w[i]
    BY <2>1, EmittedFrom
  <2>3. Has(channel \o Emitted(w), T) <=> Has(channel, T) \/ Has(Emitted(w), T)
    BY <1>0, <2>2, HasConcat
  <2>4. \A i \in DOMAIN w : w[i].type \in DecisionTypes => w[i] \in F
    BY <1>3 DEF CoreTells, Answering, AnswersAt
  <2>5. Has(Emitted(w), T) => \E f \in F : f \in T
    BY <1>1, <2>2, <2>4 DEF Has
  <2>. QED
    BY <2>3, <2>5
<1>4. CASE Undecided
  <2>1. Has(channel', T) <=> Has(channel, T)
    <3>1. CoreTells({})
      BY <1>4 DEF Undecided
    <3>2. /\ Has(channel', T) <=> Has(channel, T) \/ Has(Emitted(out'), T)
          /\ ~Has(Emitted(out'), T)
      BY <1>3, <3>1
    <3>. QED
      BY <3>2
  <2>2. Has(commands', T) <=> Has(commands, T)
    <3>1. commands' = commands \/ commands' = Append(commands, StartTask)
      BY <1>4 DEF Undecided
    <3>. PICK e : e = StartTask /\ e \notin T
      BY <1>2
    <3>2. Has(Append(commands, e), T) <=> Has(commands, T)
      BY <1>0, HasAppend
    <3>. QED
      BY <3>1, <3>2
  <2>. QED
    BY <2>1, <2>2
<1>5. ASSUME NEW c \in {Tui, Phone}, NEW x \in Nat, NEW decision \in Decisions,
             Decided(c, x, decision)
      PROVE  /\ Has(channel, T) => Has(channel', T)
             /\ Has(commands, T) => Has(commands', T)
             /\ Has(channel', T) \/ Has(commands', T)
                  => \/ Has(channel, T) \/ Has(commands, T)
                     \/ id \in Ids(queue)
  <2>0. x \in Ids(queue)
    BY <1>5 DEF Decided
  <2>1. /\ Has(channel', T) <=> Has(channel, T) \/ Has(Emitted(out'), T)
        /\ Has(Emitted(out'), T)
             => \E f \in {Forward(c, x, decision)} : f \in T
    BY <1>3, <1>5 DEF Decided
  <2>2. Forward(c, x, decision) \in T => x = id
    BY <1>1 DEF Forward
  <2>3. /\ Has(commands, T) => Has(commands', T)
        /\ Has(commands', T)
             => Has(commands, T) \/ RespondCommand(x, decision) \in T
    <3>. PICK e : e = RespondCommand(x, decision)
      OBVIOUS
    <3>1. commands' = commands \/ commands' = Append(commands, e)
      BY <1>5 DEF Decided
    <3>2. Has(Append(commands, e), T) <=> Has(commands, T) \/ e \in T
      BY <1>0, HasAppend
    <3>. QED
      BY <3>1, <3>2
  <2>4. RespondCommand(x, decision) \in T => x = id
    BY <1>1 DEF RespondCommand
  <2>. QED
    BY <2>0, <2>1, <2>2, <2>3, <2>4
<1>. QED
  BY <1>4, <1>5 DEF Turn

(* CoreCarries: a turn of the core keeps every request asked for.          *)
LEMMA CoreCarries ==
  ASSUME BInv, BInv', DInv, Turn, channel' = channel \o Emitted(out'),
         NEW m, Received(m), Course(m), UNCHANGED <<agent, keys>>
  PROVE  DInv'
<1>0. IInv /\ IInv' /\ IsSeq(asked) /\ IsSeq(inbox) /\ Len(asked) = Len(queue)
  BY DEF BInv, AInv, DInv, Letters
<1>1. /\ IsSeq(asked') /\ Len(asked') = Len(queue')
      /\ \A id \in Ids(queue) : id \in Ids(queue') /\ asked'[id] = asked[id]
      /\ \A id \in Ids(queue') :
           id \notin Ids(queue)
             => queue'[id].resolution \in {"None", "Unresolved"}
  BY <1>0, CourseIds
<1>2. Current(asked', queue')
  BY <1>0, CourseCurrent DEF DInv
<1>3. \A T : /\ Has(inbox', T) => Has(inbox, T)
             /\ Has(inbox, T) /\ m \notin T => Has(inbox', T)
             /\ m \in T /\ m # Nobody => Has(inbox, T)
  BY <1>0, ReceivedHas
<1>4. \A id : /\ Has(channel, About(id)) => Has(channel', About(id))
              /\ Has(commands, About(id)) => Has(commands', About(id))
              /\ Has(channel', About(id)) \/ Has(commands', About(id))
                   => \/ Has(channel, About(id)) \/ Has(commands, About(id))
                      \/ id \in Ids(queue)
  BY TurnHands
<1>5. ASSUME NEW id, InHand(id)' PROVE id \in Ids(queue)
  BY <1>3, <1>4, <1>5 DEF InHand, DInv, AllInHand
<1>6. ASSUME NEW id \in Ids(queue), Moves(m, id),
             queue'[id].resolution = "PendingDelivery"
      PROVE  InHand(id)'
  <2>1. CASE Has(commands', About(id))
    BY <2>1 DEF InHand
  <2>2. CASE queue[id].resolution = "PendingDelivery" /\ m \notin Outcomes(id)
    <3>1. InHand(id)
      BY <2>2 DEF DInv, AllInHand
    <3>. QED
      BY <1>3, <1>4, <2>2, <3>1 DEF InHand
  <2>. QED
    BY <1>6, <2>1, <2>2 DEF Moves
<1>7. \A id \in Ids(queue) : Moves(m, id)
  BY DEF Course
<1>8. "PendingDelivery" \notin {"None", "Unresolved"}
  OBVIOUS
<1>9. AllInHand'
  BY <1>1, <1>5, <1>6, <1>7, <1>8 DEF AllInHand
<1>10. ASSUME NEW id, Has(inbox', Successes(id))
       PROVE  Has(inbox, Successes(id)) /\ id \in Ids(queue)
  <2>1. Has(inbox, Successes(id))
    BY <1>3, <1>10
  <2>2. Has(inbox, Outcomes(id))
    BY <2>1 DEF Has, Successes
  <2>. QED
    BY <2>1, <2>2 DEF InHand, DInv, AllInHand
<1>11. ASSUME NEW id \in Ids(queue'), asked'[id] = agent.state.dialog,
              agent.state.dialog > 0, Settling(id)'
       PROVE  Has(keys, Closing)
  <2>1. CASE id \in Ids(queue)
    <3>1. asked[id] = agent.state.dialog
      BY <1>1, <1>11, <2>1
    <3>2. Settling(id)
      <4>1. CASE Has(inbox', Successes(id))
        BY <1>10, <4>1 DEF Settling
      <4>2. CASE queue'[id].resolution \in Decisions
        <5>1. queue[id].resolution \in Decisions \/ m \in Successes(id)
          BY <1>7, <2>1, <4>2 DEF Moves
        <5>2. Nobody \notin Successes(id)
          BY DEF Nobody, DismissIt, Successes, Outcomes
        <5>. QED
          BY <1>3, <5>1, <5>2 DEF Settling
      <4>. QED
        BY <1>11, <4>1, <4>2 DEF Settling
    <3>. QED
      BY <1>11, <2>1, <3>1, <3>2 DEF DInv, ClosingTyped
  <2>2. CASE id \notin Ids(queue)
    <3>1. queue'[id].resolution \notin Decisions
      BY <1>1, <2>2 DEF Decisions
    <3>2. Has(inbox', Successes(id))
      BY <1>11, <3>1 DEF Settling
    <3>. QED
      BY <1>10, <2>2, <3>2
  <2>. QED
    BY <2>1, <2>2
<1>12. ClosingTyped'
  BY <1>11 DEF ClosingTyped
<1>. QED
  BY <1>1, <1>2, <1>9, <1>12 DEF DInv

(* LoopCarries: the adapter loop moves a decision from hand to hand.       *)
LEMMA LoopCarries ==
  ASSUME BInv, DInv, AdapterLoop
  PROVE  DInv'
<1>1. /\ UNCHANGED <<agent, keys, asked, inbox, queue>> /\ commands # <<>>
      /\ commands' = Tail(commands)
      /\ channel' = Append(channel, Head(commands))
  BY DEF AdapterLoop, TakeCommand, shell, past
<1>2. IsSeq(commands) /\ IsSeq(channel)
  BY DEF BInv, MailTyped
<1>3. \A id : /\ Has(commands, About(id))
                   <=> Head(commands) \in About(id)
                         \/ Has(commands', About(id))
              /\ Has(channel', About(id))
                   <=> Has(channel, About(id)) \/ Head(commands) \in About(id)
  BY <1>1, <1>2, HasTail, HasAppend
<1>4. \A id : InHand(id)' <=> InHand(id)
  BY <1>1, <1>3 DEF InHand
<1>5. AllInHand'
  BY <1>1, <1>4 DEF DInv, AllInHand
<1>6. \A id : Settling(id)' <=> Settling(id)
  BY <1>1 DEF Settling
<1>7. ClosingTyped'
  BY <1>1, <1>6 DEF DInv, ClosingTyped
<1>. QED
  BY <1>1, <1>5, <1>7 DEF DInv

(* Mute: letters that say nothing of a decision.  Utters: the interface    *)
(* sends such letters.  Watches: the agent goes on showing what it shows,  *)
(* and a key that closes it is still to be read, or shows nothing that was *)
(* announced.                                                              *)
Mute(w) == IsSeq(w) /\ \A i \in DOMAIN w : w[i].do # "outcome"

Utters == inbox' = inbox \/ \E w : Mute(w) /\ inbox' = inbox \o w

Watches ==
  agent'.state.dialog > 0
    => \/ /\ agent'.state.dialog = agent.state.dialog
          /\ Has(keys, Closing) => Has(keys', Closing)
       \/ \A id \in Ids(queue) : asked[id] # agent'.state.dialog

LEMMA MuteOne ==
  ASSUME NEW e, e.do # "outcome"
  PROVE  Mute(<<e>>)
<1>. PICK w : w = <<e>>
  OBVIOUS
<1>1. w \in Seq({e}) /\ DOMAIN w = {1} /\ w[1] = e
  OBVIOUS
<1>. QED
  BY <1>1 DEF Mute, IsSeq

LEMMA MuteRaw == ASSUME NEW m PROVE Mute(Raw(m))
<1>1. CASE m.report = NoReport
  <2>1. Mute(<<>>)
    BY PlainNone DEF Mute, Plain, Letters
  <2>. QED
    BY <1>1, <2>1 DEF Raw
<1>2. CASE m.report # NoReport
  <2>. PICK e : e = [do |-> "raw", kind |-> m.report.kind,
                     dialog |-> m.report.dialog]
    OBVIOUS
  <2>1. e.do # "outcome" /\ Raw(m) = <<e>>
    BY <1>2 DEF Raw
  <2>. QED
    BY <2>1, MuteOne
<1>. QED
  BY <1>1, <1>2

LEMMA MuteHas ==
  ASSUME NEW w, Mute(w), NEW s, IsSeq(s), NEW id
  PROVE  /\ Has(s \o w, Outcomes(id)) <=> Has(s, Outcomes(id))
         /\ Has(s \o w, Successes(id)) <=> Has(s, Successes(id))
<1>1. ~Has(w, Outcomes(id)) /\ ~Has(w, Successes(id))
  BY DEF Mute, Has, Outcomes, Successes
<1>2. IsSeq(w)
  BY DEF Mute
<1>. QED
  BY <1>1, <1>2, HasConcat

(* HandsKept: a step that keeps what is in hand, and types the key that    *)
(* closes the dialog where it settles a request.                           *)
LEMMA HandsKept ==
  ASSUME DInv, UNCHANGED <<queue, asked>>, IsSeq(keys'),
         \A id : InHand(id)' <=> InHand(id),
         \A id : Settling(id)' => Settling(id) \/ Has(keys', Closing),
         Watches
  PROVE  DInv'
<1>1. AllInHand'
  BY DEF DInv, AllInHand
<1>2. ClosingTyped'
  <2>. SUFFICES ASSUME NEW id \in Ids(queue),
                       asked[id] = agent'.state.dialog,
                       agent'.state.dialog > 0, Settling(id)'
                PROVE  Has(keys', Closing)
    BY DEF ClosingTyped
  <2>1. /\ agent'.state.dialog = agent.state.dialog
        /\ Has(keys, Closing) => Has(keys', Closing)
    BY DEF Watches
  <2>2. Settling(id) => Has(keys, Closing)
    BY <2>1 DEF DInv, ClosingTyped
  <2>. QED
    BY <2>1, <2>2
<1>. QED
  BY <1>1, <1>2 DEF DInv

(* UtterCarries: a step that says nothing of a decision.                   *)
LEMMA UtterCarries ==
  ASSUME BInv, DInv, UNCHANGED <<queue, asked, commands, channel>>, Utters,
         IsSeq(keys'), Watches
  PROVE  DInv'
<1>1. IsSeq(inbox)
  BY DEF BInv, AInv, Letters
<1>2. \A id : /\ Has(inbox', Outcomes(id)) <=> Has(inbox, Outcomes(id))
              /\ Has(inbox', Successes(id)) <=> Has(inbox, Successes(id))
  <2>1. CASE inbox' = inbox
    BY <2>1
  <2>2. ASSUME NEW w, Mute(w), inbox' = inbox \o w
        PROVE  \A id : /\ Has(inbox', Outcomes(id)) <=> Has(inbox, Outcomes(id))
                       /\ Has(inbox', Successes(id))
                            <=> Has(inbox, Successes(id))
    <3>. TAKE id
    <3>1. /\ Has(inbox \o w, Outcomes(id)) <=> Has(inbox, Outcomes(id))
          /\ Has(inbox \o w, Successes(id)) <=> Has(inbox, Successes(id))
      BY <1>1, <2>2, MuteHas
    <3>. QED
      BY <2>2, <3>1
  <2>. QED
    BY <2>1, <2>2 DEF Utters
<1>3. \A id : InHand(id)' <=> InHand(id)
  BY <1>2 DEF InHand
<1>4. \A id : Settling(id)' <=> Settling(id)
  BY <1>2 DEF Settling
<1>. QED
  BY <1>3, <1>4, HandsKept

(* KeyKept: a key typed is read after those before it.                     *)
LEMMA KeyKept ==
  ASSUME DInv, NEW key, UNCHANGED agent,
         keys' = keys \/ keys' = Append(keys, key)
  PROVE  IsSeq(keys') /\ Watches
<1>1. IsSeq(keys)
  BY DEF DInv
<1>2. IsSeq(Append(keys, key))
  BY <1>1, SeqAppend
<1>3. Has(keys, Closing) => Has(Append(keys, key), Closing)
  BY <1>1, HasAppend
<1>. QED
  BY <1>1, <1>2, <1>3 DEF Watches

(* UserCarries: what the users, the main loop and the screen do.           *)
LEMMA UserCarries ==
  ASSUME BInv, DInv,
         \/ OwnAnswers \/ OverlayApproves \/ LocalPrompt \/ Launches
         \/ KeyPress("enter") \/ KeyPress("move") \/ TuiTick \/ Pump
         \/ WindowEnds
  PROVE  DInv'
<1>1. UNCHANGED <<queue, asked, commands, channel, agent>>
  BY DEF OwnAnswers, OverlayApproves, LocalPrompt, Prompt, StartsPrompt,
         Launches, KeyPress, TuiTick, Pump, WindowEnds, CoreIdle, shell, past
<1>2. Utters
  <2>1. CASE OwnAnswers \/ OverlayApproves
    <3>1. PICK id, decision : inbox' = inbox \o <<RespondTo(id, decision)>>
      BY <2>1 DEF OwnAnswers, OverlayApproves, Sends
    <3>2. Mute(<<RespondTo(id, decision)>>)
      BY MuteOne DEF RespondTo
    <3>. QED
      BY <3>1, <3>2 DEF Utters
  <2>2. CASE LocalPrompt
    <3>1. inbox' = inbox \/ inbox' = inbox \o Raw(StartPrompt(machine))
      BY <2>2 DEF LocalPrompt, Prompt, StartsPrompt, Sends
    <3>. QED
      BY <3>1, MuteRaw DEF Utters
  <2>3. CASE KeyPress("enter") \/ KeyPress("move") \/ TuiTick
    <3>1. inbox' = inbox \o Raw(Update(machine, agent))
      BY <2>3 DEF KeyPress, TuiTick, Sends
    <3>. QED
      BY <3>1, MuteRaw DEF Utters
  <2>4. CASE Launches \/ Pump \/ WindowEnds
    BY <2>4 DEF Launches, Pump, WindowEnds, Utters
  <2>. QED
    BY <2>1, <2>2, <2>3, <2>4
<1>3. \E key : keys' = keys \/ keys' = Append(keys, key)
  <2>1. CASE OwnAnswers \/ OverlayApproves \/ TuiTick \/ Pump \/ WindowEnds
    BY <2>1 DEF OwnAnswers, OverlayApproves, TuiTick, Pump, WindowEnds, shell
  <2>2. CASE LocalPrompt
    BY <2>2 DEF LocalPrompt, Prompt, StartsPrompt, shell
  <2>3. CASE Launches \/ KeyPress("enter") \/ KeyPress("move")
    BY <2>3 DEF Launches, KeyPress
  <2>. QED
    BY <2>1, <2>2, <2>3
<1>. QED
  BY <1>1, <1>2, <1>3, KeyKept, UtterCarries

(* DismissCarries: nor do the letters of a cleared overlay.                *)
LEMMA DismissCarries ==
  ASSUME BInv, DInv, OverlayDismisses
  PROVE  DInv'
<1>. PICK o : o = SetToSeq(Requests)
  OBVIOUS
<1>1. IsFiniteSet(Requests)
  <2>1. Requests \subseteq DOMAIN view /\ IsFiniteSet(DOMAIN view)
    BY DEF Requests, BInv
  <2>. QED
    BY <2>1, FS_Subset
<1>2. o \in Seq(Requests)
  BY <1>1, Listed
<1>. PICK n \in Nat : n = Len(o) /\ DOMAIN o = 1..n
  BY <1>2, LenProperties
<1>. PICK w : w = [i \in DOMAIN o |-> DismissIt(o[i])]
  OBVIOUS
<1>3. DOMAIN w = 1..n /\ w = [i \in DOMAIN w |-> w[i]]
  OBVIOUS
<1>4. IsSeq(w)
  BY <1>3, SeqIs
<1>5. Mute(w)
  BY <1>3, <1>4 DEF Mute, DismissIt
<1>6. Utters
  BY <1>5 DEF OverlayDismisses, Sends, Utters
<1>7. UNCHANGED <<queue, asked, commands, channel, agent, keys>>
  BY DEF OverlayDismisses, CoreIdle, shell
<1>. QED
  BY <1>6, <1>7, KeyKept, UtterCarries

(* HandledCarries: a decision typed is reported, and the key is on its way *)
(* where it is reported typed.                                             *)
LEMMA HandledCarries ==
  ASSUME BInv, DInv, TuiHandles
  PROVE  DInv'
<1>. PICK m : m = Head(channel)
  OBVIOUS
<1>1. /\ Handles(m) /\ channel # <<>> /\ channel' = Tail(channel)
      /\ UNCHANGED <<asked, queue, commands>>
  BY DEF TuiHandles, CoreIdle
<1>2. /\ IsSeq(channel) /\ IsSeq(inbox)
      /\ m.type \in DecisionTypes => m \in Deciding
  BY <1>1, MailTail DEF BInv, AInv, Letters, MailTyped
<1>3. \A id : Has(channel, About(id))
                <=> m \in About(id) \/ Has(channel', About(id))
  BY <1>1, <1>2, HasTail
<1>4. CASE m.type \notin DecisionTypes
  <2>1. \A id : m \notin About(id)
    BY <1>4 DEF About, Deciding, DecisionTypes
  <2>2. /\ UNCHANGED agent
        /\ inbox' = inbox \/ inbox' = inbox \o Raw(StartPrompt(machine))
        /\ \E key : keys' = keys \/ keys' = Append(keys, key)
    <3>1. CASE m.type \in Pushed
      BY <1>1, <1>4, <3>1 DEF Handles, Pushed, DecisionTypes, shell
    <3>2. CASE m.type = "start_task"
      BY <1>1, <3>2 DEF Handles, Pushed, shell, Prompt, StartsPrompt, Sends
    <3>. QED
      BY <1>1, <1>4, <3>1, <3>2 DEF Handles, Pushed, DecisionTypes
  <2>. PICK w : w = Raw(StartPrompt(machine)) /\ Mute(w)
    BY MuteRaw
  <2>3. \A id : /\ Has(inbox \o w, Outcomes(id)) <=> Has(inbox, Outcomes(id))
                /\ Has(inbox \o w, Successes(id)) <=> Has(inbox, Successes(id))
    BY <1>2, MuteHas
  <2>4. \A id : /\ Has(inbox', Outcomes(id)) <=> Has(inbox, Outcomes(id))
                /\ Has(inbox', Successes(id)) <=> Has(inbox, Successes(id))
    BY <2>2, <2>3
  <2>5. \A id : InHand(id)' <=> InHand(id)
    BY <1>1, <1>3, <2>1, <2>4 DEF InHand
  <2>6. \A id : Settling(id)' => Settling(id)
    BY <1>1, <2>4 DEF Settling
  <2>. QED
    BY <1>1, <2>2, <2>5, <2>6, KeyKept, HandsKept
<1>5. CASE m.type \in DecisionTypes
  <2>0. Answers(m)
    BY <1>1, <1>5 DEF Handles, DecisionTypes, Pushed
  <2>. PICK live \in BOOLEAN : live = (screen.state.kind = "dialog")
    OBVIOUS
  <2>. PICK e : e = Outcome(live, m.id, m.decision)
    OBVIOUS
  <2>. PICK w : Mute(w) /\ inbox' = inbox \o (<<e>> \o w)
    <3>1. \E seen : inbox' = inbox \o (<<e>> \o Raw(Update(machine, seen)))
      BY <2>0 DEF Answers, Sends
    <3>. QED
      BY <3>1, MuteRaw
  <2>1. /\ UNCHANGED agent
        /\ keys' = IF live THEN Append(keys, Key("enter", m.id)) ELSE keys
    BY <2>0 DEF Answers
  <2>2. /\ m.id \in Nat /\ m.decision \in Decisions
        /\ \A id : m \in About(id) <=> id = m.id
    BY <1>2, <1>5 DEF Deciding, About
  <2>3. \A id : /\ e \in Outcomes(id) <=> id = m.id
                /\ e \in Successes(id) <=> id = m.id /\ live
    BY <2>2 DEF Outcome, Outcomes, Successes
  <2>4. \A id : /\ Has(inbox', Outcomes(id))
                     <=> Has(inbox, Outcomes(id)) \/ id = m.id
                /\ Has(inbox', Successes(id))
                     <=> Has(inbox, Successes(id)) \/ (id = m.id /\ live)
    <3>. TAKE id
    <3>1. /\ IsSeq(<<e>>) /\ IsSeq(w) /\ IsSeq(<<e>> \o w)
      BY HasOne, SeqConcat DEF Mute
    <3>2. ASSUME NEW T
          PROVE  /\ Has(inbox \o (<<e>> \o w), T)
                      <=> Has(inbox, T) \/ Has(<<e>> \o w, T)
                 /\ Has(<<e>>, T) <=> e \in T
      BY <1>2, <3>1, HasConcat, HasOne
    <3>3. /\ Has(<<e>> \o w, Outcomes(id)) <=> Has(<<e>>, Outcomes(id))
          /\ Has(<<e>> \o w, Successes(id)) <=> Has(<<e>>, Successes(id))
      BY <3>1, MuteHas
    <3>. QED
      BY <2>3, <3>2, <3>3
  <2>5. \A id : InHand(id)' <=> InHand(id)
    BY <1>1, <1>3, <2>2, <2>4 DEF InHand
  <2>6. live => Has(keys', Closing)
    <3>. SUFFICES ASSUME live PROVE Has(keys', Closing)
      OBVIOUS
    <3>1. Key("enter", m.id) \in Closing /\ IsSeq(keys)
      BY <2>2 DEF Key, Closing, DInv
    <3>2. Has(Append(keys, Key("enter", m.id)), Closing)
      BY <3>1, HasAppend
    <3>. QED
      BY <2>1, <3>2
  <2>7. \A id : Settling(id)' => Settling(id) \/ Has(keys', Closing)
    BY <1>1, <2>4, <2>6 DEF Settling
  <2>8. IsSeq(keys') /\ Watches
    BY <2>1, KeyKept
  <2>. QED
    BY <1>1, <2>5, <2>7, <2>8, HandsKept
<1>. QED
  BY <1>4, <1>5

(* AgentCarries: the agent reads a key, or shows something new.            *)
LEMMA AgentCarries ==
  ASSUME BInv, DInv, AgentReads \/ AgentShows
  PROVE  DInv'
<1>. MaxDialogs \in Nat
  BY TerminalAssumption
<1>0. agent \in Agents /\ IsSeq(keys)
  BY DEF BInv, AInv, ShellTyped, DInv
<1>1. UNCHANGED <<queue, asked, commands, channel, inbox>>
  BY DEF AgentReads, AgentShows, CoreIdle, past
<1>2. Utters
  BY <1>1 DEF Utters
<1>3. IsSeq(keys') /\ Watches
  <2>1. CASE AgentReads
    <3>. PICK key : key = Head(keys)
      OBVIOUS
    <3>1. keys # <<>> /\ keys' = Tail(keys) /\ agent' = Reads(key)
      BY <2>1 DEF AgentReads
    <3>2. IsSeq(keys')
      BY <1>0, <3>1, SeqTail
    <3>3. Has(keys, Closing) <=> key \in Closing \/ Has(keys', Closing)
      BY <1>0, <3>1, HasTail
    <3>4. agent.state \in ScreenStates
      BY <1>0 DEF Agents
    <3>5. CASE agent.state.kind = "dialog" /\ key.what # "move"
      <4>1. agent' = [agent EXCEPT !.state = Shown("working"), !.worked = TRUE]
        BY <3>1, <3>5 DEF Reads
      <4>2. agent'.state.dialog = 0
        BY <1>0, <4>1 DEF Agents, Shown
      <4>. QED
        BY <3>2, <4>2 DEF Watches
    <3>6. CASE agent.state.kind = "dialog" /\ key.what = "move"
      <4>1. agent' = [agent EXCEPT !.state.moved = ~@]
        BY <3>1, <3>6 DEF Reads
      <4>2. agent'.state.dialog = agent.state.dialog
        BY <1>0, <3>4, <4>1 DEF Agents, ScreenStates
      <4>3. key \notin Closing
        BY <3>6 DEF Closing
      <4>. QED
        BY <3>2, <3>3, <4>2, <4>3 DEF Watches
    <3>7. CASE agent.state.kind # "dialog"
      <4>1. agent.state.dialog = 0
        BY <3>4, <3>7 DEF ScreenStates
      <4>2. agent'.state.dialog = 0
        <5>1. \/ agent' = agent
              \/ agent' = [agent EXCEPT !.state = Shown("working"),
                                        !.task = TRUE, !.worked = FALSE]
          BY <3>1, <3>7 DEF Reads
        <5>2. CASE agent' = agent
          BY <4>1, <5>2
        <5>3. CASE agent' = [agent EXCEPT !.state = Shown("working"),
                                          !.task = TRUE, !.worked = FALSE]
          <6>1. agent'.state = Shown("working")
            BY <1>0, <5>3 DEF Agents
          <6>. QED
            BY <6>1, ShownStates DEF ShownKinds
        <5>. QED
          BY <5>1, <5>2, <5>3
      <4>. QED
        BY <3>2, <4>2 DEF Watches
    <3>. QED
      BY <3>5, <3>6, <3>7
  <2>2. CASE AgentShows
    <3>1. keys' = keys
      BY <2>2 DEF AgentShows
    <3>2. CASE agent' = [agent EXCEPT !.state = Shown("idle"), !.worked = TRUE]
      <4>1. agent'.state.dialog = 0
        BY <1>0, <3>2 DEF Agents, Shown
      <4>. QED
        BY <1>0, <3>1, <4>1 DEF Watches
    <3>3. CASE /\ agent.dialogs < MaxDialogs
               /\ agent' = [agent EXCEPT !.state = Dialog(agent.dialogs + 1),
                                         !.dialogs = @ + 1]
      <4>. PICK k \in 1..MaxDialogs : k = agent.dialogs + 1
        BY <1>0, <3>3 DEF Agents
      <4>1. agent'.state.dialog = k
        <5>1. agent'.state = Dialog(k)
          BY <1>0, <3>3 DEF Agents
        <5>. QED
          BY <5>1, ShownStates
      <4>2. Announced(k) = 0
        <5>1. k > agent.dialogs
          BY <1>0 DEF Agents
        <5>. QED
          BY <5>1 DEF BInv, AInv, Budget
      <4>3. Cardinality(Hits(asked, {k})) = 0
        <5>1. /\ Cardinality(Hits(asked, {k})) \in Nat
              /\ Cardinality(Hits(inbox, Raws(k))) \in Nat
          BY Counts DEF BInv
        <5>. QED
          BY <4>2, <5>1 DEF Announced
      <4>4. Hits(asked, {k}) = {}
        <5>1. IsSeq(asked)
          BY DEF BInv, AInv
        <5>2. DOMAIN asked = 1..Len(asked) /\ Len(asked) \in Nat
          BY <5>1, SeqFacts
        <5>3. Hits(asked, {k}) \subseteq 1..Len(asked)
          BY <5>2 DEF Hits
        <5>. PICK n \in Nat : n = Len(asked)
          BY <5>2
        <5>. PICK P : P = Hits(asked, {k})
          OBVIOUS
        <5>4. IsFiniteSet(P)
          <6>1. IsFiniteSet(1..n)
            BY FS_Interval
          <6>. QED
            BY <5>3, <6>1, FS_Subset
        <5>. QED
          BY <4>3, <5>4, FS_EmptySet
      <4>5. \A id \in Ids(queue) : asked[id] # k
        <5>1. Ids(queue) = 1..Len(queue) /\ Len(asked) = Len(queue)
          BY Store DEF BInv, DInv
        <5>2. IsSeq(asked)
          BY DEF BInv, AInv
        <5>3. DOMAIN asked = Ids(queue)
          BY <5>1, <5>2, SeqFacts
        <5>. QED
          BY <4>4, <5>3 DEF Hits
      <4>. QED
        BY <1>0, <3>1, <4>1, <4>5 DEF Watches
    <3>. QED
      BY <2>2, <3>2, <3>3 DEF AgentShows
  <2>. QED
    BY <2>1, <2>2
<1>. QED
  BY <1>1, <1>2, <1>3, UtterCarries

LEMMA CarriedInit ==
  ASSUME TuiInit
  PROVE  DInv
<1>1. /\ asked = <<>> /\ queue = <<>> /\ keys = <<>> /\ inbox = <<>>
      /\ channel = <<>> /\ commands = <<>>
  BY DEF TuiInit
<1>2. \A T : ~Has(<<>>, T)
  BY DEF Has
<1>3. Ids(queue) = {}
  BY <1>1 DEF Ids
<1>4. \A id : ~InHand(id)
  BY <1>1, <1>2 DEF InHand
<1>5. Len(asked) = Len(queue) /\ IsSeq(keys)
  BY <1>1, PlainNone DEF Plain, Letters
<1>6. Current(asked, queue)
  BY <1>1 DEF Current
<1>. QED
  BY <1>3, <1>4, <1>5, <1>6 DEF DInv, AllInHand, ClosingTyped

LEMMA CarriedStep ==
  ASSUME BInv, BInv', DInv, TuiNext
  PROVE  DInv'
<1>1. CASE CoreTakes \/ PhoneDecides \/ PhonePrompts
  <2>1. Turn /\ channel' = channel \o Emitted(out')
    BY <1>1, CoreTurns
  <2>2. UNCHANGED <<agent, keys>>
    BY <1>1 DEF CoreTakes, PhoneDecides, PhonePrompts, shell
  <2>. PICK m : Received(m) /\ Course(m)
    BY <1>1, CoreCourse
  <2>. QED
    BY <2>1, <2>2, CoreCarries
<1>2. CASE AdapterLoop
  BY <1>2, LoopCarries
<1>3. CASE TuiHandles
  BY <1>3, HandledCarries
<1>4. CASE OverlayDismisses
  BY <1>4, DismissCarries
<1>5. CASE \/ OwnAnswers \/ OverlayApproves \/ LocalPrompt \/ Launches
           \/ KeyPress("enter") \/ KeyPress("move") \/ TuiTick \/ Pump
           \/ WindowEnds
  BY <1>5, UserCarries
<1>6. CASE AgentReads \/ AgentShows
  BY <1>6, AgentCarries
<1>. QED
  BY <1>1, <1>2, <1>3, <1>4, <1>5, <1>6 DEF TuiNext

LEMMA CarriedStutter ==
  ASSUME DInv, UNCHANGED tui
  PROVE  DInv'
<1>1. UNCHANGED <<queue, commands, channel, agent, keys, asked, inbox>>
  BY DEF tui, core, shell, past
<1>2. (\A id : InHand(id)' <=> InHand(id))
      /\ (\A id : Settling(id)' <=> Settling(id))
  BY <1>1 DEF InHand, Settling
<1>. QED
  BY <1>1, <1>2 DEF DInv, AllInHand, ClosingTyped, Current

(* ShownStaysAsked: whoever decides, types, prompts or moves a cursor, and *)
(* however late the core, the adapter loop and the agent take what is on   *)
(* its way to them, a dialog that stays on the screen once all of it has   *)
(* arrived is still a request that can be answered, or was dismissed: a    *)
(* decision that was not typed reopens its request (app.rs reports it      *)
(* failed, and mark_delivery_failed undoes it), and one that was typed     *)
(* closes the dialog.                                                      *)
THEOREM ShownStaysAsked == TuiSpec => []DialogStaysAsked
<1>1. ASSUME BInv, DInv PROVE DialogStaysAsked
  <2>. PICK k : k = agent.state.dialog
    OBVIOUS
  <2>. SUFFICES ASSUME Settled, keys = <<>>, k > 0, machine.current.dialog = k
                PROVE  /\ Announcing(k) # {}
                       /\ LET entry == queue[CHOOSE id \in Announcing(k) :
                                         \A x \in Announcing(k) : x <= id]
                          IN  entry.state = "Dismissed" \/ IsActionable(entry)
    BY DEF DialogStaysAsked
  <2>1. inbox = <<>> /\ channel = <<>> /\ commands = <<>>
    BY DEF Settled
  <2>2. IsSeq(asked) /\ Len(asked) = Len(queue) /\ IInv
    BY <1>1 DEF BInv, AInv, DInv
  <2>. PICK n \in Nat : n = Len(queue) /\ Ids(queue) = 1..n
    BY <2>2, Store
  <2>3. DOMAIN asked = 1..n
    BY <2>2, SeqFacts
  <2>4. asked # <<>> /\ asked[n] = k
    <3>1. LastTold(inbox, asked, k)
      BY <1>1 DEF BInv, AInv
    <3>2. ~Tells(<<>>, k)
      BY DEF Tells
    <3>. QED
      BY <2>1, <2>2, <3>1, <3>2 DEF LastTold
  <2>5. n \in 1..n
    <3>1. n # 0
      <4>1. \E S : asked \in Seq(S)
        BY <2>2 DEF IsSeq
      <4>. QED
        BY <2>2, <2>4, <4>1, EmptySeq
    <3>. QED
      BY <3>1
  <2>6. n \in Announcing(k) /\ \A x \in Announcing(k) : x \in Int /\ x <= n
    BY <2>3, <2>4, <2>5 DEF Announcing
  <2>7. (CHOOSE id \in Announcing(k) : \A x \in Announcing(k) : x <= id) = n
    <3>. PICK S : S = Announcing(k)
      OBVIOUS
    <3>. PICK j : j = CHOOSE id \in S : \A x \in S : x <= id
      OBVIOUS
    <3>1. n \in S /\ \A x \in S : x \in Int /\ x <= n
      BY <2>6
    <3>2. j \in S /\ \A x \in S : x <= j
      BY <3>1
    <3>3. j = n
      BY <3>1, <3>2
    <3>. QED
      BY <3>3
  <2>. PICK entry : entry = queue[n]
    OBVIOUS
  <2>8. entry \in QueueEntry /\ n \in Ids(queue)
    BY <2>2, <2>5, Store
  <2>9. entry.resolution # "None" /\ ~entry.superseded
    BY <1>1, <2>2, <2>4, <2>5 DEF DInv, Current
  <2>10. \A T : ~Has(<<>>, T)
    BY DEF Has
  <2>11. entry.resolution # "PendingDelivery"
    BY <1>1, <2>1, <2>8, <2>10 DEF DInv, AllInHand, InHand
  <2>12. entry.resolution \notin Decisions
    <3>1. ~Settling(n)
      BY <1>1, <2>4, <2>8, <2>10 DEF DInv, ClosingTyped
    <3>. QED
      BY <3>1 DEF Settling
  <2>13. entry.resolution = "Unresolved"
    BY <2>8, <2>9, <2>11, <2>12 DEF QueueEntry, Resolutions
  <2>14. entry.tier = 0
    <3>1. events[n].category = "Request"
      BY <2>2, <2>8, <2>9 DEF IInv, RequestsResolvable, IsRequest
    <3>2. entry.tier = Tier(events[n].category)
      BY <2>2, <2>8 DEF IInv, TypeOK
    <3>. QED
      BY <3>1, <3>2 DEF Tier
  <2>15. entry.state = "Dismissed" \/ IsActionable(entry)
    BY <2>9, <2>13, <2>14 DEF IsActionable, IsLive
  <2>. QED
    BY <2>6, <2>7, <2>15
<1>2. TuiInit => DInv
  BY CarriedInit
<1>3. BInv /\ BInv' /\ DInv /\ [TuiNext]_tui => DInv'
  BY CarriedStep, CarriedStutter
<1>4. BInv /\ DInv => DialogStaysAsked
  BY <1>1
<1>. QED
  BY <1>2, <1>3, <1>4, BaseInvariance, PTL DEF TuiSpec

=============================================================================
