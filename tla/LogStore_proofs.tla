-------------------------- MODULE LogStore_proofs --------------------------
(***************************************************************************)
(* Theorems about LogStore and LogViewer, for any agents, sizes and bounds:*)
(* the ring of an agent holds the most recent of its lines, pinned windows *)
(* only grow, every page is what was asked for, and the phone's screen     *)
(* shows one piece of a log however pages and lines interleave.            *)
(*                                                                         *)
(* A ring and a window are both spans: lines numbered without a gap from   *)
(* where the span starts.  The inductive invariant says so; the three      *)
(* ranges a page may lie in are then arithmetic.  The screen rests on one  *)
(* more fact: the end of a log never moves back, so what was asked for     *)
(* before it ended still ends where the screen begins.                     *)
(***************************************************************************)
EXTENDS LogViewer, TLAPS, SequenceTheorems

LogLine == [offset : Nat, text : {"output", "prompt", "decision"}]

Ring == [next : Nat, lines : Seq(LogLine)]

(* One ring: RingConsistent says it of all.                                *)
Consistent(r) ==
  /\ Len(r.lines) = Least(r.next, Capacity)
  /\ \A i \in DOMAIN r.lines :
       r.lines[i].offset = r.next - Len(r.lines) + i - 1

Span == [start : Nat, lines : Seq(LogLine)]

(* The lines of a span are numbered from its start.                        *)
Numbered(s) ==
  \A i \in 1..Len(s.lines) : s.lines[i].offset = s.start + i - 1

IInv ==
  /\ ring \in [Agents -> Ring]
  /\ \A a \in Agents : Consistent(ring[a])
  /\ owner \in Seq(Agents)
  /\ windows \in [DOMAIN windows -> Span]
  /\ DOMAIN windows \subseteq EventIds
  /\ \A e \in DOMAIN windows : Numbered(windows[e])

-----------------------------------------------------------------------------
(* Lemmas about lines and rings.                                           *)

LEMMA LastOfProperties ==
  ASSUME NEW S, NEW s \in Seq(S), NEW n \in Nat
  PROVE  /\ LastOf(s, n) \in Seq(S)
         /\ Len(LastOf(s, n)) = Least(Len(s), n)
         /\ \A i \in 1..Len(LastOf(s, n)) :
              LastOf(s, n)[i] = s[i + Len(s) - Len(LastOf(s, n))]
<1>1. CASE Len(s) <= n
  BY <1>1 DEF LastOf, Least
<1>2. CASE ~(Len(s) <= n)
  <2>. DEFINE m == Len(s) - n + 1
  <2>1. /\ m \in 1..Len(s) + 1 /\ Len(s) \in Nat
        /\ LastOf(s, n) = SubSeq(s, m, Len(s))
    BY <1>2 DEF LastOf
  <2>2. /\ SubSeq(s, m, Len(s)) \in Seq(S)
        /\ Len(SubSeq(s, m, Len(s))) = n
        /\ \A i \in 1..n : SubSeq(s, m, Len(s))[i] = s[m + i - 1]
    BY <1>2, <2>1, SubSeqProperties
  <2>. QED
    BY <1>2, <2>1, <2>2 DEF Least
<1>. QED
  BY <1>1, <1>2

(* Lines written to a ring leave it with the most recent ones.             *)
LEMMA AppendedConsistent ==
  ASSUME NEW r \in Ring, Consistent(r), NEW n \in Nat,
         NEW text \in {"output", "prompt"}
  PROVE  AppendLines(r, n, text) \in Ring /\ Consistent(AppendLines(r, n, text))
<1>. DEFINE new == Written(r.next, n, text)
            all == r.lines \o new
            kept == LastOf(all, Capacity)
<1>1. /\ new \in Seq(LogLine) /\ Len(new) = n
      /\ \A i \in 1..n : new[i].offset = r.next + i - 1
  BY DEF Written, Line, LogLine, Ring
<1>2. /\ all \in Seq(LogLine) /\ Len(all) = Len(r.lines) + n
      /\ \A i \in 1..Len(all) : all[i].offset = r.next + n - Len(all) + i - 1
  <2>1. r.lines \in Seq(LogLine) /\ r.next \in Nat /\ Len(r.lines) \in Nat
    BY DEF Ring
  <2>2. \A i \in 1..Len(r.lines) :
          r.lines[i].offset = r.next - Len(r.lines) + i - 1
    BY <2>1 DEF Consistent
  <2>. HIDE DEF new
  <2>3. /\ all \in Seq(LogLine) /\ Len(all) = Len(r.lines) + n
        /\ \A i \in 1..Len(r.lines) + n :
             all[i] = IF i <= Len(r.lines) THEN r.lines[i]
                      ELSE new[i - Len(r.lines)]
    BY <1>1, <2>1, ConcatProperties
  <2>. HIDE DEF all
  <2>4. ASSUME NEW i \in 1..Len(all)
        PROVE  all[i].offset = r.next + n - Len(all) + i - 1
    <3>1. CASE i <= Len(r.lines)
      <4>1. i \in 1..Len(r.lines) /\ all[i] = r.lines[i]
        BY <2>1, <2>3, <3>1
      <4>2. all[i].offset = r.next - Len(r.lines) + i - 1
        BY <2>2, <4>1
      <4>. QED
        BY <2>1, <2>3, <4>1, <4>2
    <3>2. CASE ~(i <= Len(r.lines))
      <4>. DEFINE j == i - Len(r.lines)
      <4>1. j \in 1..n /\ all[i] = new[j]
        BY <2>1, <2>3, <3>2
      <4>2. new[j].offset = r.next + j - 1
        BY <1>1, <4>1
      <4>. QED
        BY <2>1, <2>3, <4>1, <4>2
    <3>. QED
      BY <3>1, <3>2
  <2>. QED
    BY <2>3, <2>4
<1>. HIDE DEF new, all
<1>3. Capacity \in Nat \ {0} /\ r.next \in Nat /\ Len(r.lines) \in Nat
  BY LogStoreAssumption DEF Ring
<1>4. /\ kept \in Seq(LogLine) /\ Len(kept) = Least(Len(all), Capacity)
      /\ \A i \in 1..Len(kept) : kept[i] = all[i + Len(all) - Len(kept)]
  BY <1>2, <1>3, LastOfProperties
<1>. HIDE DEF kept
<1>5. Len(kept) = Least(r.next + n, Capacity)
  BY <1>2, <1>3, <1>4 DEF Consistent, Least
<1>6. ASSUME NEW i \in 1..Len(kept)
      PROVE  kept[i].offset = r.next + n - Len(kept) + i - 1
  <2>. DEFINE j == i + Len(all) - Len(kept)
  <2>1. Len(kept) \in Nat /\ Len(all) \in Nat /\ Len(kept) <= Len(all)
    BY <1>2, <1>3, <1>4 DEF Least
  <2>2. j \in 1..Len(all) /\ kept[i] = all[j]
    BY <1>4, <2>1
  <2>3. all[j].offset = r.next + n - Len(all) + j - 1
    BY <1>2, <2>2
  <2>. QED
    BY <1>3, <2>1, <2>2, <2>3
<1>7. AppendLines(r, n, text) = [next |-> r.next + n, lines |-> kept]
  BY DEF AppendLines, kept, all, new
<1>. QED
  BY <1>3, <1>4, <1>5, <1>6, <1>7 DEF Ring, Consistent

(* A consistent ring is a span that ends where the next line goes.         *)
LEMMA RingIsSpan ==
  ASSUME NEW r \in Ring, Consistent(r)
  PROVE  /\ OldestOffset(r) = r.next - Len(r.lines)
         /\ RingSpan(r) \in Span /\ Numbered(RingSpan(r))
<1>1. /\ Capacity \in Nat \ {0} /\ r.next \in Nat
      /\ r.lines \in Seq(LogLine) /\ Len(r.lines) \in Nat
      /\ Len(r.lines) <= r.next
  BY LogStoreAssumption DEF Ring, Consistent, Least
<1>2. OldestOffset(r) = r.next - Len(r.lines)
  <2>1. CASE r.lines = <<>>
    BY <1>1, <2>1 DEF OldestOffset
  <2>2. CASE r.lines # <<>>
    BY <1>1, <2>2 DEF OldestOffset, Consistent
  <2>. QED
    BY <2>1, <2>2
<1>. QED
  BY <1>1, <1>2 DEF RingSpan, Span, Numbered, Consistent

(* Lines numbered from first to last.                                      *)
IsCut(cut, first, last) ==
  /\ cut \in Seq(LogLine)
  /\ \A i \in 1..Len(cut) : cut[i].offset = first + i - 1
  /\ {cut[i].offset : i \in DOMAIN cut} = first..last

(* Some lines of a span, in a row, are numbered like the span.             *)
LEMMA Cut ==
  ASSUME NEW s \in Span, Numbered(s),
         NEW from \in Nat \ {0}, NEW to \in Nat, to <= Len(s.lines)
  PROVE  IsCut(SubSeq(s.lines, from, to), s.start + from - 1, s.start + to - 1)
<1>. DEFINE cut == SubSeq(s.lines, from, to)
            first == s.start + from - 1
<1>1. s.start \in Nat /\ s.lines \in Seq(LogLine) /\ Len(s.lines) \in Nat
  BY DEF Span
<1>2. /\ cut \in Seq(LogLine)
      /\ Len(cut) = IF from <= to THEN to - from + 1 ELSE 0
      /\ \A i \in 1..Len(cut) : cut[i] = s.lines[from + i - 1]
  <2>1. CASE from <= to
    BY <1>1, <2>1, SubSeqProperties
  <2>2. CASE ~(from <= to)
    BY <1>1, <2>2, SubSeqProperties
  <2>. QED
    BY <2>1, <2>2
<1>. HIDE DEF cut
<1>3. ASSUME NEW i \in 1..Len(cut)
      PROVE  /\ cut[i].offset = first + i - 1
             /\ cut[i].offset \in first..(s.start + to - 1)
  <2>. DEFINE j == from + i - 1
  <2>1. j \in 1..Len(s.lines) /\ cut[i] = s.lines[j] /\ j <= to
    BY <1>1, <1>2
  <2>2. cut[i].offset = s.start + j - 1
    BY <2>1 DEF Numbered
  <2>3. i >= 1 /\ i \in Int /\ from + i - 1 <= to
    BY <1>2, <2>1
  <2>4. cut[i].offset = first + i - 1
    BY <1>1, <2>2, <2>3
  <2>. QED
    BY <1>1, <2>3, <2>4
<1>4. DOMAIN cut = 1..Len(cut)
  BY <1>2
<1>5. ASSUME NEW x \in first..(s.start + to - 1)
      PROVE  x \in {cut[i].offset : i \in DOMAIN cut}
  <2>1. x - first + 1 \in 1..Len(cut)
    BY <1>1, <1>2, <1>5
  <2>2. cut[x - first + 1].offset = x
    BY <1>1, <1>3, <2>1
  <2>. QED
    BY <1>4, <2>1, <2>2
<1>. QED
  BY <1>2, <1>3, <1>4, <1>5 DEF cut, IsCut

-----------------------------------------------------------------------------
(* Pages.                                                                  *)

(* A page of a span: PagesHonest says this of every event.                 *)
Honest(s, page, offset, limit) ==
  /\ page.lines \in Seq(LogLine)
  /\ {page.lines[i].offset : i \in DOMAIN page.lines}
       = (offset..(offset + limit - 1)) \cap (s.start..(SpanEnd(s) - 1))
  /\ Joined(page.lines)
  /\ page.lines # <<>> => page.offset = page.lines[1].offset
  /\ page.evicted <=> offset < s.start

LEMMA ReplyFields ==
  ASSUME NEW s, NEW offset, NEW evicted \in BOOLEAN, NEW lines
  PROVE  LET reply == Reply(s, offset, evicted, lines)
         IN  /\ reply.offset = offset /\ reply.lines = lines
             /\ reply.evicted = evicted
BY DEF Reply

(* A page without lines is honest if nothing that was asked for is left.   *)
LEMMA EmptyPage ==
  ASSUME NEW s \in Span, NEW offset \in Nat, NEW limit \in Nat \ {0},
         offset + limit <= s.start \/ SpanEnd(s) <= offset,
         NEW o, NEW evicted \in BOOLEAN, evicted <=> offset < s.start
  PROVE  Honest(s, Reply(s, o, evicted, <<>>), offset, limit)
<1>. DEFINE page == Reply(s, o, evicted, <<>>)
<1>1. page.lines = <<>> /\ page.evicted = evicted
  BY ReplyFields
<1>. HIDE DEF page
<1>2. s.start \in Nat /\ SpanEnd(s) \in Nat
  BY DEF Span, SpanEnd
<1>3. (offset..(offset + limit - 1)) \cap (s.start..(SpanEnd(s) - 1)) = {}
  BY <1>2
<1>4. /\ {page.lines[i].offset : i \in DOMAIN page.lines} = {}
      /\ Joined(page.lines) /\ page.lines \in Seq(LogLine)
  BY <1>1 DEF Joined
<1>. QED
  BY <1>1, <1>3, <1>4, Zenon DEF Honest, page

(* A page of the lines of a span from one place to another.                *)
LEMMA CutPage ==
  ASSUME NEW s \in Span, Numbered(s),
         NEW offset \in Nat, NEW limit \in Nat \ {0},
         NEW from \in Nat \ {0}, NEW to \in Nat, to <= Len(s.lines),
         NEW o, o = s.start + from - 1,
         (offset..(offset + limit - 1)) \cap (s.start..(SpanEnd(s) - 1))
           = o..(s.start + to - 1),
         NEW evicted \in BOOLEAN, evicted <=> offset < s.start
  PROVE  Honest(s, Reply(s, o, evicted, SubSeq(s.lines, from, to)), offset,
                limit)
<1>. DEFINE cut == SubSeq(s.lines, from, to)
            page == Reply(s, o, evicted, cut)
<1>1. IsCut(cut, o, s.start + to - 1)
  <2>1. IsCut(cut, s.start + from - 1, s.start + to - 1)
    BY Cut, Zenon
  <2>. QED
    BY <2>1
<1>. HIDE DEF cut
<1>2. page.lines = cut /\ page.offset = o /\ page.evicted = evicted
  <2>1. page.lines = cut /\ page.offset = o
    BY DEF Reply
  <2>2. page.evicted = evicted
    BY Zenon DEF Reply
  <2>. QED
    BY <2>1, <2>2
<1>. HIDE DEF page
<1>3. DOMAIN cut = 1..Len(cut) /\ Len(cut) \in Nat /\ o \in Nat
  BY <1>1 DEF IsCut, Span
<1>4. \A i \in 1..Len(cut) : cut[i].offset = o + i - 1
  BY <1>1 DEF IsCut
<1>5. cut # <<>> => cut[1].offset = o
  BY <1>1, <1>3, <1>4
<1>6. Joined(cut)
  <2>. SUFFICES ASSUME NEW i \in DOMAIN cut
                PROVE  cut[i].offset = cut[1].offset + i - 1
    BY DEF Joined
  <2>1. cut # <<>>
    BY <1>3
  <2>. QED
    BY <1>3, <1>4, <1>5, <2>1
<1>7. Honest(s, page, offset, limit)
  BY <1>1, <1>2, <1>5, <1>6, Zenon DEF Honest, IsCut
<1>. QED
  BY <1>7 DEF page, cut

(* Every page of a span is honest.                                         *)
LEMMA PageOfHonest ==
  ASSUME NEW s \in Span, Numbered(s),
         NEW offset \in Nat, NEW limit \in Nat \ {0}
  PROVE  Honest(s, PageOf(s, offset, limit), offset, limit)
<1>. DEFINE n == Len(s.lines)
<1>1. /\ s.start \in Nat /\ n \in Nat /\ SpanEnd(s) = s.start + n
      /\ limit > 0 /\ limit # 0
  BY DEF Span, SpanEnd
<1>. HIDE DEF n
<1>2. CASE offset < s.start /\ offset + limit <= s.start
  <2>1. /\ ~(offset + limit > s.start) /\ ~(offset >= SpanEnd(s))
        /\ ~(offset >= s.start)
    BY <1>1, <1>2
  <2>2. PageOf(s, offset, limit) = Reply(s, offset, TRUE, <<>>)
    BY <1>1, <1>2, <2>1 DEF PageOf
  <2>. QED
    BY <1>2, <2>2, EmptyPage
<1>3. CASE offset < s.start /\ offset + limit > s.start
  <2>. DEFINE from == 1
              to == Least(offset + limit - s.start, n)
  <2>1. /\ ~(offset + limit <= s.start) /\ ~(offset >= SpanEnd(s))
        /\ ~(offset >= s.start)
    BY <1>1, <1>3
  <2>2. PageOf(s, offset, limit) = Reply(s, s.start, TRUE, SubSeq(s.lines, from, to))
    BY <1>1, <1>3, <2>1 DEF PageOf, n
  <2>3. /\ from \in Nat \ {0} /\ to \in Nat /\ to <= n
        /\ s.start = s.start + from - 1
        /\ (offset..(offset + limit - 1)) \cap (s.start..(SpanEnd(s) - 1))
             = s.start..(s.start + to - 1)
    BY <1>1, <1>3 DEF Least
  <2>. HIDE DEF from, to
  <2>. QED
    BY <1>1, <1>3, <2>2, <2>3, CutPage DEF n
<1>4. CASE offset >= SpanEnd(s)
  <2>1. ~(offset < s.start) /\ ~(offset < SpanEnd(s))
    BY <1>1, <1>4
  <2>2. PageOf(s, offset, limit) = Reply(s, SpanEnd(s), FALSE, <<>>)
    BY <1>1, <1>4, <2>1 DEF PageOf
  <2>. QED
    BY <1>1, <1>4, <2>1, <2>2, EmptyPage
<1>5. CASE offset >= s.start /\ offset < SpanEnd(s)
  <2>. DEFINE from == offset - s.start + 1
              to == Least(offset - s.start + limit, n)
  <2>1. ~(offset < s.start) /\ ~(offset >= SpanEnd(s))
    BY <1>1, <1>5
  <2>2. PageOf(s, offset, limit)
          = Reply(s, offset, FALSE, SubSeq(s.lines, from, to))
    BY <1>1, <1>5, <2>1 DEF PageOf, n
  <2>3. /\ from \in Nat \ {0} /\ to \in Nat /\ to <= n
        /\ offset = s.start + from - 1
    BY <1>1, <1>5 DEF Least
  <2>4. (offset..(offset + limit - 1)) \cap (s.start..(SpanEnd(s) - 1))
          = offset..(s.start + to - 1)
    <3>1. s.start + to = Least(offset + limit, SpanEnd(s))
      BY <1>1, <1>5 DEF Least
    <3>. HIDE DEF to
    <3>. QED
      BY <1>1, <1>5, <2>3, <3>1 DEF Least
  <2>. HIDE DEF from, to
  <2>. QED
    BY <1>1, <2>1, <2>2, <2>3, <2>4, CutPage DEF n
<1>. QED
  BY <1>1, <1>2, <1>3, <1>4, <1>5

(* Of an event, its window or the ring of its agent is asked.              *)
SpanOf(e) ==
  IF e \in DOMAIN windows THEN windows[e] ELSE RingSpan(ring[owner[e]])

LEMMA EventPage ==
  ASSUME IInv, NEW e \in EventIds, NEW offset \in Nat, NEW limit \in Nat \ {0}
  PROVE  Honest(SpanOf(e), GetEventLogs(e, offset, limit), offset,
                Least(limit, PageCap))
<1>. DEFINE capped == Least(limit, PageCap)
<1>1. /\ capped \in Nat \ {0} /\ offset \in Nat
      /\ Most(offset, 0) = offset /\ offset # Tail_
  BY LogStoreAssumption DEF Least, Most, Tail_
<1>. HIDE DEF capped, SpanOf
<1>2. CASE e \in DOMAIN windows
  <2>1. windows[e] \in Span /\ Numbered(windows[e])
    BY <1>2 DEF IInv
  <2>2. GetEventLogs(e, offset, limit) = PageOf(windows[e], offset, capped)
    BY <1>1, <1>2 DEF GetEventLogs, capped
  <2>. QED
    BY <1>1, <1>2, <2>1, <2>2, PageOfHonest DEF capped, SpanOf
<1>3. CASE e \notin DOMAIN windows
  <2>. DEFINE r == ring[owner[e]]
  <2>1. owner[e] \in Agents
    BY DEF IInv, EventIds
  <2>2. r \in Ring /\ Consistent(r)
    BY <2>1 DEF IInv
  <2>3. GetEventLogs(e, offset, limit) = AgentPage(owner[e], offset, capped)
    BY <1>3 DEF GetEventLogs, capped
  <2>4. RingSpan(r) \in Span /\ Numbered(RingSpan(r))
        /\ OldestOffset(r) = r.next - Len(r.lines)
    BY <2>2, RingIsSpan
  <2>5. CASE r.next = 0
    <3>1. Len(r.lines) = 0
      BY <2>2, <2>5, LogStoreAssumption DEF Consistent, Least
    <3>2. RingSpan(r).start = 0 /\ SpanEnd(RingSpan(r)) = 0
      BY <2>4, <2>5, <3>1 DEF RingSpan, SpanEnd
    <3>3. /\ ~(ring[owner[e]].next > 0) /\ ring[owner[e]].next = 0
          /\ ~(offset < RingSpan(r).start)
      BY <1>1, <2>5, <3>2
    <3>4. AgentPage(owner[e], offset, capped) = Reply(RingSpan(r), 0, FALSE, <<>>)
      BY <3>3 DEF AgentPage
    <3>5. SpanEnd(RingSpan(r)) <= offset
          /\ (FALSE <=> offset < RingSpan(r).start)
      BY <1>1, <3>2, <3>3
    <3>6. Honest(RingSpan(r), Reply(RingSpan(r), 0, FALSE, <<>>), offset, capped)
      BY <1>1, <2>4, <3>5, EmptyPage, Zenon
    <3>. QED
      BY <1>3, <2>3, <3>4, <3>6 DEF capped, SpanOf
  <2>6. CASE r.next # 0
    <3>1. ring[owner[e]].next > 0 /\ ring[owner[e]].next # 0 /\ capped # 0
      BY <1>1, <2>2, <2>6 DEF Ring
    <3>2. AgentPage(owner[e], offset, capped) = RingPage(r, offset, capped)
      BY <1>1, <3>1 DEF AgentPage
    <3>3. RingPage(r, offset, capped) = PageOf(RingSpan(r), offset, capped)
      BY <3>1 DEF RingPage
    <3>. QED
      BY <1>1, <1>3, <2>3, <2>4, <3>2, <3>3, PageOfHonest DEF capped, SpanOf
  <2>. QED
    BY <2>5, <2>6
<1>. QED
  BY <1>2, <1>3

LEMMA InvariantPages == IInv => PagesHonest
<1>. SUFFICES ASSUME IInv, NEW e \in EventIds, NEW limit \in 1..PageCap + 1,
                     NEW offset \in 0..MaxLines
              PROVE  Honest(SpanOf(e), GetEventLogs(e, offset, limit), offset,
                            Least(limit, PageCap))
  BY DEF PagesHonest, Honest, SpanOf
<1>. QED
  BY EventPage, LogStoreAssumption

-----------------------------------------------------------------------------
(* Windows.                                                                *)

(* What is pinned is a piece of the ring.                                  *)
LEMMA PinnedIsSpan ==
  ASSUME NEW r \in Ring, Consistent(r), NEW range \in [start : Nat, end : Nat]
  PROVE  Pinned(r, range) \in Span /\ Numbered(Pinned(r, range))
<1>. DEFINE oldest == OldestOffset(r)
            start == Most(Most(range.start - PinBefore, 0), oldest)
            end == Least(range.end + PinAfter, r.next)
            from == start - oldest + 1
            to == end - oldest
            cut == SubSeq(r.lines, from, to)
<1>1. /\ oldest = r.next - Len(r.lines) /\ oldest \in Nat
      /\ r.next \in Nat /\ Len(r.lines) \in Nat
      /\ RingSpan(r) \in Span /\ Numbered(RingSpan(r))
      /\ RingSpan(r).start = oldest /\ RingSpan(r).lines = r.lines
  BY RingIsSpan DEF Ring, RingSpan, Span
<1>2. /\ range.start \in Nat /\ range.end \in Nat
      /\ PinBefore \in Nat /\ PinAfter \in Nat
  BY LogStoreAssumption
<1>. HIDE DEF oldest
<1>3. start \in Nat /\ start >= oldest /\ end \in Int /\ end <= r.next
  BY <1>1, <1>2 DEF Most, Least
<1>4. Pinned(r, range) = [start |-> start,
                          lines |-> IF start >= end THEN <<>> ELSE cut]
  BY Zenon DEF Pinned, SliceRange, oldest
<1>. HIDE DEF start, end
<1>5. CASE start >= end
  <2>1. Pinned(r, range) = [start |-> start, lines |-> <<>>]
    BY <1>4, <1>5
  <2>. QED
    BY <1>3, <2>1 DEF Span, Numbered
<1>6. CASE ~(start >= end)
  <2>. DEFINE size == Len(r.lines)
  <2>0. oldest = r.next - size /\ oldest \in Nat /\ size \in Nat /\ r.next \in Nat
    BY <1>1
  <2>. HIDE DEF size
  <2>1. /\ from \in Nat \ {0} /\ to \in Nat /\ to <= size
        /\ oldest + from - 1 = start
    BY <2>0, <1>3, <1>6
  <2>. HIDE DEF from, to
  <2>2. IsCut(cut, oldest + from - 1, oldest + to - 1)
    <3>. DEFINE span == RingSpan(r)
    <3>1. span \in Span /\ Numbered(span) /\ to <= Len(span.lines)
      BY <1>1, <2>0, <2>1 DEF size
    <3>2. IsCut(SubSeq(span.lines, from, to), span.start + from - 1,
                span.start + to - 1)
      BY <2>1, <3>1, Cut
    <3>. QED
      BY <1>1, <3>2
  <2>. HIDE DEF cut
  <2>3. Pinned(r, range) = [start |-> start, lines |-> cut]
    BY <1>4, <1>6
  <2>. QED
    BY <1>3, <2>1, <2>2, <2>3 DEF Span, Numbered, IsCut
<1>. QED
  BY <1>5, <1>6

(* A decision added to a window takes the next number.                     *)
LEMMA AppendedWindow ==
  ASSUME NEW w \in Span, Numbered(w)
  PROVE  LET v == AppendToPinned(w)
         IN  /\ v \in Span /\ Numbered(v)
             /\ v.start = w.start /\ Len(v.lines) = Len(w.lines) + 1
             /\ \A i \in 1..Len(w.lines) : v.lines[i] = w.lines[i]
<1>. DEFINE line == Line(SpanEnd(w), "decision")
            v == AppendToPinned(w)
<1>1. w.start \in Nat /\ w.lines \in Seq(LogLine) /\ Len(w.lines) \in Nat
  BY DEF Span
<1>2. line \in LogLine /\ line.offset = w.start + Len(w.lines)
  BY <1>1 DEF Line, LogLine, SpanEnd
<1>. HIDE DEF line
<1>3. v = [start |-> w.start, lines |-> Append(w.lines, line)]
  BY DEF AppendToPinned, Span, line
<1>4. /\ Append(w.lines, line) \in Seq(LogLine)
      /\ Len(Append(w.lines, line)) = Len(w.lines) + 1
      /\ \A i \in 1..Len(w.lines) : Append(w.lines, line)[i] = w.lines[i]
      /\ Append(w.lines, line)[Len(w.lines) + 1] = line
  BY <1>1, <1>2, AppendProperties
<1>. HIDE DEF v
<1>5. Numbered(v)
  <2>. SUFFICES ASSUME NEW i \in 1..Len(w.lines) + 1
                PROVE  v.lines[i].offset = v.start + i - 1
    BY <1>3, <1>4 DEF Numbered
  <2>1. CASE i = Len(w.lines) + 1
    BY <1>1, <1>2, <1>3, <1>4, <2>1
  <2>2. CASE i # Len(w.lines) + 1
    BY <1>1, <1>3, <1>4, <2>2 DEF Numbered
  <2>. QED
    BY <2>1, <2>2
<1>. QED
  BY <1>1, <1>3, <1>4, <1>5 DEF Span, v

-----------------------------------------------------------------------------
(* The invariant.                                                          *)

LEMMA Initially == Init => IInv
<1>. SUFFICES ASSUME Init PROVE IInv
  OBVIOUS
<1>1. EmptyRing \in Ring /\ Consistent(EmptyRing)
  BY LogStoreAssumption DEF EmptyRing, Ring, Consistent, Least
<1>2. DOMAIN windows = {} /\ windows = [e \in {} |-> EmptyRing]
  BY DEF Init
<1>3. windows \in [DOMAIN windows -> Span]
  BY <1>2
<1>. QED
  BY <1>1, <1>2, <1>3 DEF Init, IInv

(* Whatever is written to a ring, the rest stays as it is.                 *)
LEMMA WrittenStep ==
  ASSUME IInv, NEW a \in Agents, NEW n \in Nat,
         NEW text \in {"output", "prompt"},
         ring' = [ring EXCEPT ![a] = AppendLines(ring[a], n, text)]
  PROVE  /\ ring' \in [Agents -> Ring] /\ \A b \in Agents : Consistent(ring'[b])
         /\ \A b \in Agents : ring'[b].next >= ring[b].next
<1>1. ring \in [Agents -> Ring] /\ \A b \in Agents : Consistent(ring[b])
  BY DEF IInv
<1>2. AppendLines(ring[a], n, text) \in Ring
      /\ Consistent(AppendLines(ring[a], n, text))
  BY <1>1, AppendedConsistent
<1>3. AppendLines(ring[a], n, text).next = ring[a].next + n
  BY DEF AppendLines
<1>4. \A b \in Agents : ring[b].next \in Nat
  BY <1>1 DEF Ring
<1>. QED
  BY <1>1, <1>2, <1>3, <1>4

LEMMA PinStep ==
  ASSUME IInv, NEW a \in Agents, NEW n \in Bursts, NEW attention \in BOOLEAN,
         ProcessEvent(a, n, attention)
  PROVE  IInv' /\ \A e \in DOMAIN windows :
                    e \in DOMAIN windows' /\ windows'[e] = windows[e]
<1>. DEFINE r == AppendLines(ring[a], n, "output")
            range == [start |-> ring[a].next, end |-> r.next]
            k == Len(owner) + 1
            pin == Pinned(r, range)
<1>1. n \in Nat /\ ring[a] \in Ring /\ Consistent(ring[a])
  BY LogStoreAssumption DEF IInv
<1>2. r \in Ring /\ Consistent(r)
  BY <1>1, AppendedConsistent
<1>3. ring' \in [Agents -> Ring] /\ \A b \in Agents : Consistent(ring'[b])
  BY <1>1, WrittenStep DEF ProcessEvent
<1>4. /\ owner' \in Seq(Agents)
      /\ EventIds' = EventIds \cup {k} /\ k \notin EventIds
  <2>1. owner \in Seq(Agents) /\ owner' = Append(owner, a) /\ Len(owner) \in Nat
    BY DEF ProcessEvent, IInv
  <2>2. /\ owner' \in Seq(Agents) /\ DOMAIN owner' = 1..Len(owner) + 1
        /\ DOMAIN owner = 1..Len(owner)
    BY <2>1, AppendProperties
  <2>. QED
    BY <2>1, <2>2 DEF EventIds
<1>5. range \in [start : Nat, end : Nat]
  BY <1>1, <1>2 DEF Ring
<1>. HIDE DEF r
<1>6. pin \in Span /\ Numbered(pin)
  BY <1>2, <1>5, PinnedIsSpan
<1>7. windows' = IF attention
                 THEN [x \in DOMAIN windows \cup {k} |->
                         IF x = k THEN pin ELSE windows[x]]
                 ELSE windows
  BY DEF ProcessEvent, r
<1>. HIDE DEF pin, k, range
<1>8. CASE ~attention
  <2>1. windows' = windows
    BY <1>7, <1>8
  <2>. QED
    BY <1>3, <1>4, <2>1 DEF IInv
<1>9. CASE attention
  <2>1. windows' = [x \in DOMAIN windows \cup {k} |->
                      IF x = k THEN pin ELSE windows[x]]
    BY <1>7, <1>9
  <2>2. /\ DOMAIN windows' = DOMAIN windows \cup {k}
        /\ k \notin DOMAIN windows /\ windows'[k] = pin
        /\ \A e \in DOMAIN windows : windows'[e] = windows[e]
    BY <1>4, <2>1 DEF IInv
  <2>3. \A e \in DOMAIN windows' : windows'[e] \in Span /\ Numbered(windows'[e])
    BY <1>6, <2>2 DEF IInv
  <2>4. windows' \in [DOMAIN windows' -> Span]
    BY <2>1, <2>3
  <2>. QED
    BY <1>3, <1>4, <2>2, <2>3, <2>4 DEF IInv
<1>. QED
  BY <1>8, <1>9

(* A decision changes one window, which grows by a line.                   *)
LEMMA DecisionStep ==
  ASSUME IInv, NEW k, RecordDecision(k)
  PROVE  /\ IInv'
         /\ DOMAIN windows' = DOMAIN windows
         /\ \A e \in DOMAIN windows :
              windows'[e] = IF e = k THEN AppendToPinned(windows[e])
                            ELSE windows[e]
<1>1. /\ k \in DOMAIN windows
      /\ windows \in [DOMAIN windows -> Span]
      /\ \A e \in DOMAIN windows : Numbered(windows[e])
      /\ windows' = [windows EXCEPT ![k] = AppendToPinned(windows[k])]
  BY DEF IInv, RecordDecision
<1>2. AppendToPinned(windows[k]) \in Span /\ Numbered(AppendToPinned(windows[k]))
  BY <1>1, AppendedWindow
<1>3. /\ DOMAIN windows' = DOMAIN windows
      /\ windows' \in [DOMAIN windows -> Span]
      /\ \A e \in DOMAIN windows :
           windows'[e] = IF e = k THEN AppendToPinned(windows[e])
                         ELSE windows[e]
  BY <1>1, <1>2
<1>. QED
  BY <1>1, <1>2, <1>3 DEF IInv, EventIds, RecordDecision

LEMMA LineStep ==
  ASSUME IInv, NEW a \in Agents,
         ProcessLine(a) \/ \E n \in Bursts : StartTaskLogged(a, n)
  PROVE  IInv' /\ windows' = windows
<1>1. PICK n \in Nat, text \in {"output", "prompt"} :
        /\ ring' = [ring EXCEPT ![a] = AppendLines(ring[a], n, text)]
        /\ UNCHANGED <<owner, ranges, windows>>
  <2>1. CASE ProcessLine(a)
    BY <2>1 DEF ProcessLine
  <2>2. ASSUME NEW n \in Bursts, StartTaskLogged(a, n)
        PROVE  /\ ring' = [ring EXCEPT ![a] = AppendLines(ring[a], 1 + n, "prompt")]
               /\ UNCHANGED <<owner, ranges, windows>>
               /\ 1 + n \in Nat
    BY <2>2, LogStoreAssumption DEF StartTaskLogged
  <2>. QED
    BY <2>1, <2>2
<1>. QED
  BY <1>1, WrittenStep DEF IInv, EventIds

LEMMA Inductive == IInv /\ [LogNext]_logVars => IInv'
<1>. SUFFICES ASSUME IInv, [LogNext]_logVars PROVE IInv'
  OBVIOUS
<1>1. CASE UNCHANGED logVars
  BY <1>1 DEF IInv, EventIds, logVars
<1>2. ASSUME NEW a \in Agents, ProcessLine(a) PROVE IInv'
  BY <1>2, LineStep
<1>3. ASSUME NEW a \in Agents, NEW n \in Bursts, StartTaskLogged(a, n)
      PROVE  IInv'
  BY <1>3, LineStep
<1>4. ASSUME NEW a \in Agents, NEW n \in Bursts, NEW attention \in BOOLEAN,
             ProcessEvent(a, n, attention)
      PROVE  IInv'
  BY <1>4, PinStep
<1>5. ASSUME NEW e \in EventIds, RecordDecision(e) PROVE IInv'
  BY <1>5, DecisionStep
<1>. QED
  BY <1>1, <1>2, <1>3, <1>4, <1>5 DEF LogNext

LEMMA Invariance == LogSpec => []IInv
<1>. QED
  BY Initially, Inductive, PTL DEF LogSpec

-----------------------------------------------------------------------------
(* Theorems.                                                               *)

(* RingsRecent: whatever is logged in whatever bursts, the ring of an agent*)
(* holds the most recent lines, as many as fit, and no others (append).    *)
THEOREM RingsRecent == LogSpec => []RingConsistent
<1>1. IInv => RingConsistent
  BY DEF IInv, Consistent, RingConsistent
<1>. QED
  BY <1>1, Invariance, PTL

(* PagesAlwaysHonest: of every event, for every offset and limit, a page is*)
(* what was asked for, and says so if its start is gone (get_event_logs).  *)
THEOREM PagesAlwaysHonest == LogSpec => []PagesHonest
<1>. QED
  BY InvariantPages, Invariance, PTL

(* WindowsKept: pinned lines outlive the ring and never change (pin,       *)
(* append_to_pinned).                                                      *)
THEOREM WindowsKept == LogSpec => WindowsOnlyGrow
<1>. DEFINE Grows == \A e \in DOMAIN windows :
               /\ e \in DOMAIN windows'
               /\ windows'[e].start = windows[e].start
               /\ Len(windows'[e].lines) >= Len(windows[e].lines)
               /\ \A i \in DOMAIN windows[e].lines :
                    windows'[e].lines[i] = windows[e].lines[i]
<1>1. IInv => \A e \in DOMAIN windows :
                /\ windows[e] \in Span /\ Numbered(windows[e])
                /\ Len(windows[e].lines) \in Nat
                /\ DOMAIN windows[e].lines = 1..Len(windows[e].lines)
  BY DEF IInv, Span
<1>2. IInv /\ LogNext => Grows
  <2>. SUFFICES ASSUME IInv, LogNext PROVE Grows
    OBVIOUS
  <2>1. ASSUME \A e \in DOMAIN windows :
                 e \in DOMAIN windows' /\ windows'[e] = windows[e]
        PROVE  Grows
    BY <1>1, <2>1
  <2>2. ASSUME NEW a \in Agents,
               ProcessLine(a) \/ \E n \in Bursts : StartTaskLogged(a, n)
        PROVE  Grows
    <3>1. windows' = windows
      BY <2>2, LineStep
    <3>. QED
      BY <2>1, <3>1
  <2>3. ASSUME NEW a \in Agents, NEW n \in Bursts, NEW attention \in BOOLEAN,
               ProcessEvent(a, n, attention)
        PROVE  Grows
    BY <2>1, <2>3, PinStep
  <2>4. ASSUME NEW k \in EventIds, RecordDecision(k)
        PROVE  Grows
    <3>. SUFFICES ASSUME NEW e \in DOMAIN windows
                  PROVE  /\ e \in DOMAIN windows'
                         /\ windows'[e].start = windows[e].start
                         /\ Len(windows'[e].lines) >= Len(windows[e].lines)
                         /\ \A i \in DOMAIN windows[e].lines :
                              windows'[e].lines[i] = windows[e].lines[i]
      OBVIOUS
    <3>1. /\ e \in DOMAIN windows'
          /\ windows'[e] = IF e = k THEN AppendToPinned(windows[e])
                           ELSE windows[e]
      BY <2>4, DecisionStep
    <3>2. CASE e # k
      BY <1>1, <3>1, <3>2
    <3>3. CASE e = k
      BY <1>1, <3>1, <3>3, AppendedWindow
    <3>. QED
      BY <3>2, <3>3
  <2>. QED
    BY <2>2, <2>3, <2>4 DEF LogNext
<1>3. IInv /\ [LogNext]_logVars => [Grows]_logVars
  BY <1>2
<1>. QED
  BY <1>3, Invariance, PTL DEF LogSpec, WindowsOnlyGrow

-----------------------------------------------------------------------------
(***************************************************************************)
(* The phone's log screen.  What it shows ends where its first page ended, *)
(* and a request for earlier lines ends right before what it shows; since  *)
(* a log only grows at its end, a page that is not evicted has all of the  *)
(* lines asked for, and one that is has the last of them.                  *)
(***************************************************************************)
Ends(lines, last) == lines # <<>> => lines[Len(lines)].offset = last

(* A page that has arrived fits what was asked for.                        *)
Fits(page) ==
  /\ page.lines \in Seq(LogLine) /\ Joined(page.lines)
  /\ ~page.evicted => page.offset \in Nat
  /\ page.lines # <<>> => page.offset = page.lines[1].offset
  /\ asked.kind = "earlier" =>
       /\ Ends(page.lines, shown.first - 1)
       /\ ~page.evicted => page.lines # <<>> /\ page.offset < shown.first

(* Nothing shown or on its way starts behind the end of the log.           *)
StartsBy(end) ==
  /\ ~shown.evicted => shown.first <= end
  /\ answer.arrived /\ ~answer.page.evicted => answer.page.offset <= end

ScreenTyped ==
  /\ viewed \in EventIds \cup {0}
  /\ shown.lines \in Seq(LogLine)
  /\ ~shown.evicted => shown.first \in Int
  /\ asked.kind \in {"none", "tail", "earlier"}

ScreenInv ==
  /\ ScreenJoined
  /\ viewed = 0 => shown = EmptyScreen
  /\ asked.kind # "none" => viewed # 0
  /\ asked.kind = "tail" => asked.offset = Tail_ /\ asked.limit = PageSize
  /\ asked.kind = "earlier" =>
       /\ ~shown.evicted
       /\ asked.offset \in Nat /\ asked.limit \in 1..PageSize
       /\ asked.offset + asked.limit = shown.first
  /\ answer.arrived => asked.kind # "none" /\ Fits(answer.page)

ViewerInv ==
  /\ ScreenTyped
  /\ ScreenInv
  /\ viewed # 0 => StartsBy(SpanEnd(SpanOf(viewed)))

-----------------------------------------------------------------------------
(* Logs grow at their end.                                                 *)

LEMMA EventSpan ==
  ASSUME IInv, NEW e \in EventIds
  PROVE  /\ SpanOf(e) \in Span /\ Numbered(SpanOf(e)) /\ SpanEnd(SpanOf(e)) \in Nat
         /\ e \notin DOMAIN windows =>
              owner[e] \in Agents /\ SpanEnd(SpanOf(e)) = ring[owner[e]].next
<1>1. CASE e \in DOMAIN windows
  BY <1>1 DEF IInv, SpanOf, SpanEnd, Span
<1>2. CASE e \notin DOMAIN windows
  <2>. DEFINE r == ring[owner[e]]
  <2>1. owner[e] \in Agents /\ r \in Ring /\ Consistent(r)
    BY DEF IInv, EventIds
  <2>. HIDE DEF r
  <2>2. /\ OldestOffset(r) = r.next - Len(r.lines)
        /\ RingSpan(r) \in Span /\ Numbered(RingSpan(r))
    BY <2>1, RingIsSpan
  <2>3. SpanEnd(RingSpan(r)) = r.next /\ r.next \in Nat
    BY <2>1, <2>2 DEF SpanEnd, RingSpan, Ring
  <2>. QED
    BY <1>2, <2>1, <2>2, <2>3 DEF SpanOf, r
<1>. QED
  BY <1>1, <1>2

LEMMA RingEnd ==
  ASSUME NEW r \in Ring, Consistent(r)
  PROVE  SpanEnd(RingSpan(r)) = r.next /\ r.next \in Nat
<1>1. OldestOffset(r) = r.next - Len(r.lines)
  BY RingIsSpan
<1>. QED
  BY <1>1 DEF SpanEnd, RingSpan, Ring

LEMMA EndGrows ==
  ASSUME IInv, [LogNext]_logVars, NEW e \in EventIds
  PROVE  /\ e \in EventIds' /\ SpanEnd(SpanOf(e))' \in Nat
         /\ SpanEnd(SpanOf(e))' >= SpanEnd(SpanOf(e))
<1>. DEFINE Grown == /\ e \in EventIds' /\ SpanEnd(SpanOf(e))' \in Nat
                     /\ SpanEnd(SpanOf(e))' >= SpanEnd(SpanOf(e))
<1>0. IInv' /\ SpanEnd(SpanOf(e)) \in Nat
  BY Inductive, EventSpan
<1>1. ASSUME e \in EventIds', e \in DOMAIN windows,
             e \in DOMAIN windows', windows'[e].start = windows[e].start,
             Len(windows'[e].lines) >= Len(windows[e].lines)
      PROVE  Grown
  <2>1. windows[e] \in Span /\ windows'[e] \in Span
    BY <1>0, <1>1 DEF IInv
  <2>2. /\ SpanEnd(SpanOf(e)) = windows[e].start + Len(windows[e].lines)
        /\ SpanEnd(SpanOf(e))' = windows'[e].start + Len(windows'[e].lines)
    BY <1>1 DEF SpanOf, SpanEnd
  <2>. QED
    BY <1>1, <2>1, <2>2 DEF Span
<1>2. ASSUME e \in EventIds', e \notin DOMAIN windows, e \notin DOMAIN windows',
             owner'[e] = owner[e], \A b \in Agents : ring'[b].next >= ring[b].next
      PROVE  Grown
  <2>1. SpanEnd(SpanOf(e)) = ring[owner[e]].next /\ owner[e] \in Agents
    BY <1>2, EventSpan
  <2>2. SpanEnd(SpanOf(e))' = SpanEnd(RingSpan(ring'[owner[e]]))
    BY <1>2 DEF SpanOf, SpanEnd, RingSpan, OldestOffset
  <2>3. ring'[owner[e]] \in Ring /\ Consistent(ring'[owner[e]])
    BY <1>0, <2>1 DEF IInv, Consistent
  <2>. QED
    BY <1>2, <2>1, <2>2, <2>3, RingEnd
<1>3. e # Len(owner) + 1 /\ DOMAIN owner = 1..Len(owner) /\ Len(owner) \in Nat
      /\ owner \in Seq(Agents)
  BY DEF EventIds, IInv
<1>4. \A b \in Agents : ring[b].next \in Nat
  BY DEF IInv, Ring
<1>5. \A x \in DOMAIN windows : windows[x] \in Span
  BY DEF IInv
<1>6. CASE UNCHANGED logVars
  BY <1>1, <1>2, <1>4, <1>5, <1>6 DEF logVars, EventIds, Span
<1>7. ASSUME NEW a \in Agents,
             ProcessLine(a) \/ \E n \in Bursts : StartTaskLogged(a, n)
      PROVE  Grown
  <2>1. UNCHANGED <<owner, windows>>
    BY <1>7 DEF ProcessLine, StartTaskLogged
  <2>2. \A b \in Agents : ring'[b].next >= ring[b].next
    <3>1. CASE ProcessLine(a)
      BY <3>1, WrittenStep DEF ProcessLine
    <3>2. ASSUME NEW n \in Bursts, StartTaskLogged(a, n)
          PROVE  \A b \in Agents : ring'[b].next >= ring[b].next
      <4>1. 1 + n \in Nat
            /\ ring' = [ring EXCEPT ![a] = AppendLines(ring[a], 1 + n, "prompt")]
        BY <3>2, LogStoreAssumption DEF StartTaskLogged
      <4>. QED
        BY <4>1, WrittenStep
    <3>. QED
      BY <1>7, <3>1, <3>2
  <2>. QED
    BY <1>1, <1>2, <1>5, <2>1, <2>2 DEF EventIds, Span
<1>8. ASSUME NEW a \in Agents, NEW n \in Bursts, NEW attention \in BOOLEAN,
             ProcessEvent(a, n, attention)
      PROVE  Grown
  <2>1. e \in EventIds' /\ owner'[e] = owner[e]
    BY <1>3, <1>8, AppendProperties DEF ProcessEvent, EventIds
  <2>2. \A b \in Agents : ring'[b].next >= ring[b].next
    BY <1>8, WrittenStep, LogStoreAssumption DEF ProcessEvent
  <2>3. /\ e \notin DOMAIN windows => e \notin DOMAIN windows'
        /\ e \in DOMAIN windows => e \in DOMAIN windows' /\ windows'[e] = windows[e]
    <3>1. CASE e \in DOMAIN windows
      BY <1>8, <3>1, PinStep
    <3>2. CASE e \notin DOMAIN windows
      BY <1>3, <1>8, <3>2 DEF ProcessEvent
    <3>. QED
      BY <3>1, <3>2
  <2>. QED
    BY <1>1, <1>2, <1>5, <2>1, <2>2, <2>3 DEF Span
<1>9. ASSUME NEW k \in EventIds, RecordDecision(k)
      PROVE  Grown
  <2>1. UNCHANGED <<ring, owner>> /\ DOMAIN windows' = DOMAIN windows
    BY <1>9, DecisionStep DEF RecordDecision
  <2>2. CASE e \in DOMAIN windows
    <3>1. windows'[e] = IF e = k THEN AppendToPinned(windows[e]) ELSE windows[e]
      BY <1>9, <2>2, DecisionStep
    <3>2. windows[e] \in Span /\ Numbered(windows[e])
      BY <2>2 DEF IInv
    <3>3. windows'[e].start = windows[e].start
          /\ Len(windows'[e].lines) >= Len(windows[e].lines)
      BY <3>1, <3>2, AppendedWindow DEF Span
    <3>. QED
      BY <1>1, <2>1, <2>2, <3>3 DEF EventIds
  <2>3. CASE e \notin DOMAIN windows
    BY <1>2, <1>4, <2>1, <2>3 DEF EventIds
  <2>. QED
    BY <2>2, <2>3
<1>. QED
  BY <1>6, <1>7, <1>8, <1>9 DEF LogNext
-----------------------------------------------------------------------------
(* Pages the phone asks for.                                               *)

(* A page that ends no later than the log has its last lines, and all of   *)
(* them unless it says that the first are gone.                            *)
LEMMA EarlierPage ==
  ASSUME IInv, NEW e \in EventIds, NEW offset \in Nat, NEW limit \in 1..PageCap,
         offset + limit <= SpanEnd(SpanOf(e))
  PROVE  LET page == GetEventLogs(e, offset, limit)
         IN  /\ page.lines \in Seq(LogLine) /\ Joined(page.lines)
             /\ page.lines # <<>> => page.offset = page.lines[1].offset
             /\ Ends(page.lines, offset + limit - 1)
             /\ ~page.evicted => page.lines # <<>> /\ page.offset = offset
<1>. DEFINE page == GetEventLogs(e, offset, limit)
            s == SpanOf(e)
            n == Len(page.lines)
            asks == offset..(offset + limit - 1)
            offsets == {page.lines[i].offset : i \in DOMAIN page.lines}
<1>1. limit \in Nat \ {0} /\ Least(limit, PageCap) = limit
  BY LogStoreAssumption DEF Least
<1>2. Honest(s, page, offset, limit)
  BY <1>1, EventPage
<1>3. s \in Span /\ SpanEnd(s) \in Nat /\ s.start \in Nat
  BY EventSpan DEF Span
<1>. HIDE DEF page, s
<1>4. /\ page.lines \in Seq(LogLine) /\ n \in Nat /\ DOMAIN page.lines = 1..n
      /\ Joined(page.lines) /\ (page.lines # <<>> => n > 0)
      /\ offsets = asks \cap (s.start..(SpanEnd(s) - 1))
      /\ page.lines # <<>> => page.offset = page.lines[1].offset
      /\ page.evicted <=> offset < s.start
  BY <1>2 DEF Honest
<1>5. \A i \in 1..n : /\ page.lines[i].offset = page.lines[1].offset + i - 1
                      /\ page.lines[i].offset \in asks
                      /\ page.lines[i].offset >= s.start
                      /\ page.lines[i].offset \in Nat
  <2>1. \A i \in 1..n : page.lines[i].offset \in offsets
    BY <1>4
  <2>2. \A i \in 1..n : page.lines[i].offset = page.lines[1].offset + i - 1
    BY <1>4 DEF Joined
  <2>3. asks \subseteq Nat
    BY <1>1
  <2>. HIDE DEF asks, offsets
  <2>4. \A x \in offsets : x \in asks /\ x >= s.start
    BY <1>4
  <2>. QED
    BY <2>1, <2>2, <2>3, <2>4
<1>6. \A x \in asks : s.start <= x /\ x < SpanEnd(s) =>
        \E i \in 1..n : page.lines[i].offset = x
  <2>. SUFFICES ASSUME NEW x \in asks, s.start <= x, x < SpanEnd(s)
                PROVE  x \in offsets
    BY <1>4
  <2>. QED
    BY <1>1, <1>3, <1>4
<1>. HIDE DEF n
<1>7. Ends(page.lines, offset + limit - 1)
  <2>. SUFFICES ASSUME page.lines # <<>>
                PROVE  page.lines[n].offset = offset + limit - 1
    BY DEF Ends, n
  <2>1. 1 \in 1..n /\ n \in 1..n
    BY <1>4
  <2>2. /\ offset + limit - 1 \in asks /\ offset + limit - 1 < SpanEnd(s)
        /\ s.start <= offset + limit - 1
    <3>1. offset + limit <= SpanEnd(s)
      BY DEF s
    <3>2. PICK x \in asks : x = page.lines[1].offset /\ x >= s.start
      BY <1>5, <2>1
    <3>. QED
      BY <1>1, <1>3, <3>1, <3>2
  <2>3. PICK i \in 1..n : page.lines[i].offset = offset + limit - 1
    BY <1>6, <2>2
  <2>4. page.lines[n].offset = page.lines[1].offset + n - 1
        /\ page.lines[n].offset \in asks
    BY <1>5, <2>1
  <2>5. page.lines[i].offset = page.lines[1].offset + i - 1
        /\ page.lines[1].offset \in Nat
    BY <1>5, <2>1
  <2>6. page.lines[n].offset <= offset + limit - 1
    BY <1>1, <2>4
  <2>. PICK first, last : /\ first = page.lines[1].offset
                          /\ last = page.lines[n].offset
    OBVIOUS
  <2>7. /\ first \in Nat /\ last = first + n - 1
        /\ last <= offset + limit - 1 /\ offset + limit - 1 = first + i - 1
    BY <2>3, <2>4, <2>5, <2>6
  <2>8. n \in Nat /\ i \in 1..n
    BY <1>4
  <2>9. last = offset + limit - 1
    BY <2>7, <2>8
  <2>. QED
    BY <2>9
<1>8. ASSUME ~page.evicted PROVE page.lines # <<>> /\ page.offset = offset
  <2>1. /\ offset \in asks /\ s.start <= offset /\ offset < SpanEnd(s)
    BY <1>1, <1>3, <1>4, <1>8 DEF s
  <2>2. PICK i \in 1..n : page.lines[i].offset = offset
    BY <1>6, <2>1
  <2>3. page.lines # <<>> /\ 1 \in 1..n
    BY <1>4, <2>2
  <2>4. /\ page.lines[i].offset = page.lines[1].offset + i - 1
        /\ page.lines[1].offset \in asks /\ page.lines[1].offset \in Nat
    BY <1>5, <2>2, <2>3
  <2>. QED
    BY <1>1, <1>4, <2>2, <2>3, <2>4
<1>. QED
  BY <1>4, <1>7, <1>8 DEF page

LEMMA TailPage ==
  ASSUME IInv, NEW e \in EventIds
  PROVE  LET page == GetEventLogs(e, Tail_, PageSize)
         IN  /\ page.lines \in Seq(LogLine) /\ Joined(page.lines)
             /\ page.lines # <<>> => page.offset = page.lines[1].offset
             /\ page.offset \in Nat /\ page.offset <= SpanEnd(SpanOf(e))
<1>. DEFINE Good(page, s) ==
              /\ page.lines \in Seq(LogLine) /\ Joined(page.lines)
              /\ page.lines # <<>> => page.offset = page.lines[1].offset
              /\ page.offset \in Nat /\ page.offset <= SpanEnd(s)
<1>1. PageSize \in Nat \ {0} /\ Least(PageSize, PageCap) = PageSize
  BY LogStoreAssumption, LogViewerAssumption DEF Least
<1>2. ASSUME NEW s \in Span, Numbered(s) PROVE Good(TailOf(s, PageSize), s)
  <2>. DEFINE k == Len(s.lines)
              n == Least(PageSize, k)
              cut == SubSeq(s.lines, k - n + 1, k)
  <2>1. /\ s.start \in Nat /\ k \in Nat /\ n \in Nat /\ n <= k
        /\ SpanEnd(s) = s.start + k
    BY <1>1 DEF Span, SpanEnd, Least
  <2>2. TailOf(s, PageSize) = Reply(s, SpanEnd(s) - n, FALSE, cut)
    BY DEF TailOf
  <2>. HIDE DEF n
  <2>3. k - n + 1 \in Nat \ {0} /\ k <= Len(s.lines)
        /\ s.start + (k - n + 1) - 1 = SpanEnd(s) - n
    BY <2>1
  <2>4. IsCut(cut, s.start + (k - n + 1) - 1, s.start + k - 1)
    <3>. PICK from \in Nat \ {0} : from = k - n + 1
      BY <2>3
    <3>1. IsCut(SubSeq(s.lines, from, k), s.start + from - 1, s.start + k - 1)
      BY <1>2, <2>1, <2>3, Cut
    <3>. QED
      BY <3>1
  <2>. HIDE DEF cut
  <2>5. /\ cut \in Seq(LogLine) /\ Len(cut) \in Nat /\ DOMAIN cut = 1..Len(cut)
        /\ \A i \in 1..Len(cut) : cut[i].offset = SpanEnd(s) - n + i - 1
    BY <2>3, <2>4 DEF IsCut
  <2>6. cut # <<>> => cut[1].offset = SpanEnd(s) - n
    BY <2>1, <2>5
  <2>7. Joined(cut)
    <3>. SUFFICES ASSUME NEW i \in 1..Len(cut)
                  PROVE  cut[i].offset = cut[1].offset + i - 1
      BY <2>5 DEF Joined
    <3>1. cut[1].offset = SpanEnd(s) - n
      BY <2>5, <2>6
    <3>. QED
      BY <2>5, <3>1
  <2>8. TailOf(s, PageSize).lines = cut /\ TailOf(s, PageSize).offset = SpanEnd(s) - n
    BY <2>2 DEF Reply
  <2>. HIDE DEF k
  <2>9. SpanEnd(s) - n \in Nat /\ SpanEnd(s) - n <= SpanEnd(s)
    BY <2>1
  <2>. QED
    BY <2>5, <2>6, <2>7, <2>8, <2>9
<1>3. CASE e \in DOMAIN windows
  <2>1. GetEventLogs(e, Tail_, PageSize) = TailOf(SpanOf(e), PageSize)
    BY <1>1, <1>3 DEF GetEventLogs, SpanOf
  <2>. QED
    BY <1>2, <2>1, EventSpan
<1>4. CASE e \notin DOMAIN windows
  <2>. DEFINE r == ring[owner[e]]
  <2>1. /\ SpanOf(e) = RingSpan(r) /\ owner[e] \in Agents /\ r.next \in Nat
        /\ GetEventLogs(e, Tail_, PageSize) = AgentPage(owner[e], Tail_, PageSize)
    BY <1>1, <1>4, EventSpan DEF GetEventLogs, SpanOf
  <2>2. CASE r.next = 0
    <3>1. AgentPage(owner[e], Tail_, PageSize) = Reply(RingSpan(r), 0, FALSE, <<>>)
      <4>1. ~(r.next > 0) /\ r.next = 0
        BY <2>2
      <4>. QED
        BY <4>1 DEF AgentPage
    <3>2. SpanEnd(SpanOf(e)) \in Nat
      BY EventSpan
    <3>. QED
      BY <2>1, <3>1, <3>2 DEF Reply, Joined
  <2>3. CASE r.next # 0
    <3>1. r.next > 0 /\ r.next # 0
      BY <2>1, <2>3
    <3>2. AgentPage(owner[e], Tail_, PageSize) = TailOf(RingSpan(r), PageSize)
      BY <3>1 DEF AgentPage
    <3>. QED
      BY <1>2, <2>1, <3>2, EventSpan
  <2>. QED
    BY <2>2, <2>3
<1>. QED
  BY <1>3, <1>4

-----------------------------------------------------------------------------
(* The screen.                                                             *)

LEMMA ViewerInitially == ViewerInit => ViewerInv
BY LogStoreAssumption
   DEF ViewerInit, ViewerInv, ScreenTyped, ScreenInv, ScreenJoined, Joined,
       EmptyScreen, NoneAsked, NoAnswer

(* Whatever the log does, what the screen shows and awaits stays in order. *)
LEMMA ViewerKept ==
  ASSUME IInv, ViewerInv, [LogNext]_logVars, UNCHANGED viewerVars
  PROVE  ViewerInv'
<1>1. ScreenInv'
  BY DEF ViewerInv, ScreenInv, ScreenJoined, Fits, viewerVars
<1>2. CASE viewed = 0
  BY <1>1, <1>2 DEF ViewerInv, ScreenTyped, viewerVars
<1>3. CASE viewed # 0
  <2>1. viewed \in EventIds
    BY <1>3 DEF ViewerInv, ScreenTyped
  <2>2. PICK e \in EventIds : e = viewed
    BY <2>1
  <2>3. PICK now \in Nat : now = SpanEnd(SpanOf(e))
    BY EventSpan
  <2>4. /\ e \in EventIds' /\ SpanEnd(SpanOf(e))' \in Nat
        /\ SpanEnd(SpanOf(e))' >= now
    BY <2>3, EndGrows
  <2>5. viewed' = e /\ SpanEnd(SpanOf(viewed))' = SpanEnd(SpanOf(e))'
    BY <2>2 DEF viewerVars, SpanOf
  <2>7. StartsBy(SpanEnd(SpanOf(e)))
    BY <1>3, <2>2 DEF ViewerInv
  <2>8. StartsBy(SpanEnd(SpanOf(viewed)))'
    <3>1. PICK end \in Nat : end = SpanEnd(SpanOf(viewed))' /\ end >= now
      <4>1. PICK end \in Nat : end = SpanEnd(SpanOf(e))' /\ end >= now
        BY <2>4
      <4>. QED
        BY <2>5, <4>1
    <3>2. /\ ~shown.evicted => shown.first \in Int /\ shown.first <= now
          /\ answer.arrived /\ ~answer.page.evicted
               => answer.page.offset \in Nat /\ answer.page.offset <= now
      BY <2>3, <2>7 DEF StartsBy, ViewerInv, ScreenTyped, ScreenInv, Fits
    <3>3. shown' = shown /\ answer' = answer
      BY DEF viewerVars
    <3>4. ~shown'.evicted => shown'.first <= end
      BY <2>3, <3>1, <3>2, <3>3
    <3>5. answer'.arrived /\ ~answer'.page.evicted => answer'.page.offset <= end
      BY <2>3, <3>1, <3>2, <3>3
    <3>. QED
      BY <3>1, <3>4, <3>5 DEF StartsBy
  <2>. QED
    BY <1>1, <2>4, <2>5, <2>8 DEF ViewerInv, ScreenTyped, viewerVars
<1>. QED
  BY <1>2, <1>3

LEMMA AskKept ==
  ASSUME IInv, ViewerInv,
         Refresh \/ LoadEarlier \/ \E e \in EventIds : Open(e)
  PROVE  ViewerInv'
<1>. USE LogStoreAssumption, LogViewerAssumption
<1>1. UNCHANGED logVars /\ answer' = answer /\ ~answer.arrived /\ shown' = shown
  BY DEF Refresh, LoadEarlier, Open, Ask, IsLoading, ViewerInv, ScreenInv, logVars
<1>2. SpanOf(viewed)' = SpanOf(viewed') /\ EventIds' = EventIds
  BY <1>1 DEF SpanOf, logVars, EventIds, RingSpan, OldestOffset
<1>3. CASE Refresh
  BY <1>1, <1>2, <1>3
     DEF Refresh, Ask, IsLoading, ViewerInv, ScreenTyped, ScreenInv,
         ScreenJoined, StartsBy, SpanEnd
<1>4. CASE LoadEarlier
  <2>1. shown.first \in Int /\ shown.first > 0 /\ ~shown.evicted
    BY <1>4 DEF LoadEarlier, ViewerInv, ScreenTyped
  <2>2. PICK target \in Nat :
          /\ shown.first - target \in 1..PageSize
          /\ Ask("earlier", target, shown.first - target)
    <3>1. PICK target : target = Most(0, shown.first - PageSize)
      OBVIOUS
    <3>. QED
      BY <1>4, <2>1, <3>1 DEF LoadEarlier, Most
  <2>3. /\ asked'.kind = "earlier" /\ asked'.offset = target
        /\ asked'.limit = shown.first - target /\ viewed' = viewed /\ viewed # 0
    BY <1>4, <2>2 DEF LoadEarlier, Ask
  <2>4. target + (shown.first - target) = shown.first
    BY <2>1
  <2>. QED
    BY <1>1, <1>2, <2>1, <2>2, <2>3, <2>4
       DEF ViewerInv, ScreenTyped, ScreenInv, ScreenJoined, StartsBy, SpanEnd
<1>5. ASSUME NEW e \in EventIds, Open(e) PROVE ViewerInv'
  <2>1. shown = EmptyScreen /\ viewed' = e /\ e # 0
    BY <1>5 DEF Open, ViewerInv, ScreenInv, EventIds, IInv
  <2>2. SpanEnd(SpanOf(e)) \in Nat
    BY EventSpan
  <2>. QED
    BY <1>1, <1>2, <1>5, <2>1, <2>2
       DEF Open, Ask, ViewerInv, ScreenTyped, ScreenInv, ScreenJoined, StartsBy,
           SpanEnd, EmptyScreen
<1>. QED
  BY <1>3, <1>4, <1>5

LEMMA AnswerKept ==
  ASSUME IInv, ViewerInv, Answer
  PROVE  ViewerInv'
<1>. DEFINE page == GetEventLogs(viewed, asked.offset, asked.limit)
<1>1. /\ UNCHANGED <<ring, owner, ranges, windows, viewed, shown, asked, loads>>
      /\ asked.kind # "none" /\ answer' = [arrived |-> TRUE, page |-> page]
  BY DEF Answer, IsLoading
<1>2. viewed # 0 /\ viewed \in EventIds
  BY <1>1 DEF ViewerInv, ScreenTyped, ScreenInv
<1>3. PICK end \in Nat : end = SpanEnd(SpanOf(viewed))
  BY <1>2, EventSpan
<1>4. Fits(page) /\ (~page.evicted => page.offset <= end)
  <2>1. CASE asked.kind = "tail"
    BY <1>2, <1>3, <2>1, TailPage DEF Fits, ViewerInv, ScreenInv
  <2>2. CASE asked.kind = "earlier"
    <3>1. /\ asked.offset \in Nat /\ asked.limit \in 1..PageSize
          /\ asked.limit \in 1..PageCap /\ ~shown.evicted /\ shown.first \in Int
          /\ asked.offset + asked.limit = shown.first /\ shown.first <= end
      BY <1>2, <1>3, <2>2, LogStoreAssumption, LogViewerAssumption
         DEF ViewerInv, ScreenInv, ScreenTyped, StartsBy
    <3>2. /\ page.lines \in Seq(LogLine) /\ Joined(page.lines)
          /\ page.lines # <<>> => page.offset = page.lines[1].offset
          /\ Ends(page.lines, asked.offset + asked.limit - 1)
          /\ ~page.evicted => page.lines # <<>> /\ page.offset = asked.offset
      BY <1>2, <1>3, <3>1, EarlierPage
    <3>. HIDE DEF page
    <3>. QED
      BY <3>1, <3>2, <2>2, LogViewerAssumption, LogStoreAssumption DEF Fits
  <2>. QED
    BY <1>1, <2>1, <2>2 DEF ViewerInv, ScreenTyped
<1>. HIDE DEF page
<1>5. SpanOf(viewed)' = SpanOf(viewed) /\ EventIds' = EventIds
  BY <1>1 DEF SpanOf, EventIds, RingSpan, OldestOffset
<1>. QED
  BY <1>1, <1>2, <1>3, <1>4, <1>5
     DEF ViewerInv, ScreenTyped, ScreenInv, ScreenJoined, StartsBy, Fits, SpanEnd

(* Two pieces of a log, the second starting right behind the first.        *)
LEMMA JoinedConcat ==
  ASSUME NEW a \in Seq(LogLine), NEW b \in Seq(LogLine), Joined(a), Joined(b),
         a # <<>>, b # <<>>, a[Len(a)].offset = b[1].offset - 1
  PROVE  Joined(a \o b) /\ (a \o b)[1] = a[1] /\ a \o b \in Seq(LogLine)
<1>1. PICK m \in Nat : m = Len(a) /\ m > 0 /\ DOMAIN a = 1..m
  OBVIOUS
<1>2. PICK n \in Nat : n = Len(b) /\ n > 0 /\ DOMAIN b = 1..n
  OBVIOUS
<1>3. PICK x \in Nat : x = a[1].offset
  <2>1. a[1] \in LogLine
    BY <1>1
  <2>. QED
    BY <2>1 DEF LogLine
<1>4. PICK y \in Nat : y = b[1].offset
  <2>1. b[1] \in LogLine
    BY <1>2
  <2>. QED
    BY <2>1 DEF LogLine
<1>0. PICK c \in Seq(LogLine) : c = a \o b
  BY ConcatProperties
<1>5. c = a \o b /\ Len(c) = m + n /\ DOMAIN c = 1..(m + n)
  <2>1. Len(c) = m + n
    BY <1>0, <1>1, <1>2, ConcatProperties
  <2>. QED
    BY <1>0, <2>1
<1>6. \A i \in 1..m : c[i] = a[i] /\ a[i].offset = x + i - 1
  BY <1>1, <1>2, <1>3, <1>5, ConcatProperties DEF Joined
<1>7. \A i \in (m+1)..(m+n) : c[i] = b[i - m] /\ b[i - m].offset = y + (i - m) - 1
  <2>. TAKE i \in (m+1)..(m+n)
  <2>1. i - m \in 1..n
    BY <1>1, <1>2
  <2>2. b[i - m].offset = y + (i - m) - 1
    BY <1>2, <1>4, <2>1 DEF Joined
  <2>3. c[i] = b[i - m]
    BY <1>1, <1>2, <1>5, ConcatProperties
  <2>. QED
    BY <2>2, <2>3
<1>8. x + m - 1 = y - 1
  BY <1>1, <1>3, <1>4, <1>6
<1>9. \A i \in 1..(m+n) : c[i].offset = x + i - 1
  <2>. TAKE i \in 1..(m+n)
  <2>1. CASE i <= m
    BY <1>6, <2>1
  <2>2. CASE i > m
    <3>1. PICK j \in 1..n : j = i - m
      BY <2>2
    <3>2. c[i] = b[j] /\ b[j].offset = y + j - 1
      <4>1. i \in (m+1)..(m+n)
        BY <2>2
      <4>. QED
        BY <1>7, <3>1, <4>1
    <3>. QED
      BY <1>8, <3>1, <3>2
  <2>. QED
    BY <2>1, <2>2
<1>10. c[1] = a[1]
  BY <1>1, <1>6
<1>. QED
  BY <1>3, <1>5, <1>9, <1>10 DEF Joined

LEMMA ShowKept ==
  ASSUME IInv, ViewerInv, ShowPage
  PROVE  ViewerInv'
<1>. DEFINE page == answer.page
            old == shown.lines
<1>1. /\ Fits(page) /\ ScreenTyped /\ ScreenJoined /\ answer.arrived
      /\ asked.kind \in {"tail", "earlier"}
      /\ asked.kind = "earlier" => ~shown.evicted
      /\ viewed # 0 /\ StartsBy(SpanEnd(SpanOf(viewed)))
  BY DEF ShowPage, ViewerInv, ScreenInv, ScreenTyped
<1>2. /\ UNCHANGED <<ring, owner, ranges, windows, viewed, loads>>
      /\ shown'.first = page.offset /\ shown'.evicted = page.evicted
      /\ shown'.lines = IF asked.kind = "tail" THEN page.lines ELSE page.lines \o old
      /\ asked' = NoneAsked /\ answer' = NoAnswer
  BY DEF ShowPage
<1>3. SpanOf(viewed)' = SpanOf(viewed) /\ EventIds' = EventIds
  BY <1>2 DEF SpanOf, EventIds, RingSpan, OldestOffset
<1>4. /\ shown'.lines \in Seq(LogLine) /\ Joined(shown'.lines)
      /\ (shown'.lines # <<>> /\ ~page.evicted) => page.offset = shown'.lines[1].offset
  <2>1. CASE asked.kind = "tail"
    BY <1>1, <1>2, <2>1 DEF Fits
  <2>2. CASE asked.kind = "earlier"
    <3>1. shown'.lines = page.lines \o old /\ page.lines \in Seq(LogLine)
          /\ old \in Seq(LogLine) /\ Joined(old) /\ Joined(page.lines)
      BY <1>1, <1>2, <2>2 DEF ScreenTyped, ScreenJoined, Fits
    <3>2. CASE page.lines = <<>>
      <4>1. shown'.lines = old /\ page.evicted
        BY <1>1, <2>2, <3>1, <3>2, ConcatEmptySeq DEF Fits
      <4>. QED
        BY <3>1, <4>1
    <3>3. CASE old = <<>>
      <4>1. shown'.lines = page.lines
        BY <3>1, <3>3, ConcatEmptySeq
      <4>. QED
        BY <1>1, <3>1, <4>1 DEF Fits
    <3>4. CASE page.lines # <<>> /\ old # <<>>
      <4>1. page.lines[Len(page.lines)].offset = old[1].offset - 1
        BY <1>1, <2>2, <3>4 DEF Fits, Ends, ScreenJoined
      <4>. HIDE DEF page, old
      <4>2. /\ Joined(page.lines \o old) /\ page.lines \o old \in Seq(LogLine)
            /\ (page.lines \o old)[1] = page.lines[1]
        BY <3>1, <3>4, <4>1, JoinedConcat
      <4>. QED
        BY <1>1, <3>1, <3>4, <4>2 DEF Fits
    <3>. QED
      BY <3>2, <3>3, <3>4
  <2>. QED
    BY <1>1, <2>1, <2>2
<1>5. StartsBy(SpanEnd(SpanOf(viewed)))'
  BY <1>1, <1>2, <1>3 DEF StartsBy, SpanEnd, NoAnswer
<1>6. ScreenInv'
  <2>1. shown'.evicted = page.evicted /\ shown'.first = page.offset
    BY <1>2
  <2>2. ScreenJoined'
    BY <1>4, <2>1 DEF ScreenJoined
  <2>. QED
    BY <1>1, <1>2, <2>2 DEF ScreenInv, NoneAsked, NoAnswer
<1>7. ScreenTyped'
  BY <1>1, <1>2, <1>3, <1>4 DEF ScreenTyped, Fits, NoneAsked
<1>. QED
  BY <1>5, <1>6, <1>7 DEF ViewerInv

LEMMA StoreStep == [ViewerNext]_allVars => [LogNext]_logVars
BY DEF ViewerNext, allVars, logVars, Open, Refresh, LoadEarlier, Ask, Answer,
       ShowPage, LoadFails, Close

LEMMA ViewerInductive ==
  IInv /\ ViewerInv /\ [ViewerNext]_allVars => IInv' /\ ViewerInv'
<1>. SUFFICES ASSUME IInv, ViewerInv, [ViewerNext]_allVars
              PROVE  IInv' /\ ViewerInv'
  OBVIOUS
<1>1. [LogNext]_logVars
  BY StoreStep
<1>2. IInv'
  BY <1>1, Inductive
<1>3. ViewerInv'
  <2>1. CASE UNCHANGED viewerVars
    BY <1>1, <2>1, ViewerKept
  <2>2. CASE Refresh \/ LoadEarlier \/ \E e \in EventIds : Open(e)
    BY <2>2, AskKept
  <2>3. CASE Answer
    BY <2>3, AnswerKept
  <2>4. CASE ShowPage
    BY <2>4, ShowKept
  <2>5. CASE LoadFails \/ Close
    <3>1. UNCHANGED logVars /\ asked' = NoneAsked /\ answer' = NoAnswer
      BY <2>5 DEF LoadFails, Close, logVars
    <3>2. \/ UNCHANGED <<viewed, shown>>
          \/ viewed' = 0 /\ shown' = EmptyScreen
      BY <2>5 DEF LoadFails, Close
    <3>3. SpanOf(viewed)' = SpanOf(viewed') /\ EventIds' = EventIds
      BY <3>1 DEF SpanOf, logVars, EventIds, RingSpan, OldestOffset
    <3>4. ScreenTyped' /\ ScreenInv'
      <4>1. CASE UNCHANGED <<viewed, shown>>
        BY <3>1, <3>3, <4>1
           DEF ViewerInv, ScreenTyped, ScreenInv, ScreenJoined, NoneAsked, NoAnswer
      <4>2. CASE viewed' = 0 /\ shown' = EmptyScreen
        BY <3>1, <3>3, <4>2
           DEF ViewerInv, ScreenTyped, ScreenInv, ScreenJoined, Joined,
               NoneAsked, NoAnswer, EmptyScreen
      <4>. QED
        BY <3>2, <4>1, <4>2
    <3>5. viewed' # 0 => StartsBy(SpanEnd(SpanOf(viewed)))'
      <4>. SUFFICES ASSUME viewed' # 0
                    PROVE  StartsBy(SpanEnd(SpanOf(viewed)))'
        OBVIOUS
      <4>1. viewed' = viewed /\ shown' = shown /\ StartsBy(SpanEnd(SpanOf(viewed)))
        BY <3>2 DEF ViewerInv
      <4>2. SpanEnd(SpanOf(viewed))' = SpanEnd(SpanOf(viewed))
        BY <3>3, <4>1 DEF SpanEnd
      <4>. QED
        BY <3>1, <4>1, <4>2 DEF StartsBy, NoAnswer
    <3>. QED
      BY <3>4, <3>5 DEF ViewerInv
  <2>. QED
    BY <2>1, <2>2, <2>3, <2>4, <2>5 DEF ViewerNext, allVars, viewerVars
<1>. QED
  BY <1>2, <1>3

LEMMA ViewerInvariance == ViewerSpec => [](IInv /\ ViewerInv)
<1>1. ViewerInit => IInv /\ ViewerInv
  BY Initially, ViewerInitially DEF ViewerInit
<1>. QED
  BY <1>1, ViewerInductive, PTL DEF ViewerSpec

(* The phone only reads: with a screen in front of it the store still does *)
(* what the store alone does, so what holds of the store holds here too.   *)
THEOREM ViewerOnlyReads == ViewerSpec => LogSpec
BY StoreStep, PTL DEF ViewerSpec, ViewerInit, LogSpec

(* However pages and the agent's lines interleave, the screen shows one    *)
(* piece of the log, without a gap and without a line twice.               *)
THEOREM ScreenAlwaysJoined == ViewerSpec => []ScreenJoined
<1>1. ViewerInv => ScreenJoined
  BY DEF ViewerInv, ScreenInv
<1>. QED
  BY <1>1, ViewerInvariance, PTL

(* Every earlier page that arrives brings the reader closer to one of the  *)
(* two ends: the beginning of the log, or the oldest line that is kept.    *)
THEOREM EarlierAlwaysGetsOn == ViewerSpec => EarlierGetsOn
<1>. DEFINE GetsOn == (answer.arrived /\ asked.kind = "earlier" /\ shown' # shown
                         /\ viewed' = viewed)
                        => shown'.first < shown.first \/ shown'.evicted
<1>1. ViewerInv /\ [ViewerNext]_allVars => GetsOn
  <2>. SUFFICES ASSUME ViewerInv, [ViewerNext]_allVars,
                       answer.arrived, asked.kind = "earlier", shown' # shown,
                       viewed' = viewed
                PROVE  shown'.first < shown.first \/ shown'.evicted
    OBVIOUS
  <2>1. ShowPage
    BY DEF ViewerNext, allVars, viewerVars, Open, Refresh, LoadEarlier, Answer,
           LoadFails, Close
  <2>. QED
    BY <2>1 DEF ShowPage, ViewerInv, ScreenInv, Fits
<1>2. ViewerInv /\ [ViewerNext]_allVars => [GetsOn]_allVars
  BY <1>1
<1>. QED
  BY <1>2, ViewerInvariance, PTL DEF ViewerSpec, EarlierGetsOn

=============================================================================
