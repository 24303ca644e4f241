------------------------------ MODULE LogStore ------------------------------
(***************************************************************************)
(* The log lines behind the events: a ring of the last lines of each agent,*)
(* numbered without end, and for an event that asks for attention a window *)
(* of lines copied out of the ring, which outlives them.  Pages of either  *)
(* are asked for by offset.  The core task owns the store and handles one  *)
(* command at a time, so each operation below is one step.                 *)
(***************************************************************************)
EXTENDS Integers, Sequences, FiniteSets

CONSTANTS
  Agents,       \* agents that write lines
  Capacity,     \* lines a ring keeps
  PinBefore,    \* lines a window keeps before the range of its event
  PinAfter,     \* and behind it
  PageCap,      \* most lines of a page
  Bursts,       \* numbers of lines that come with an event in this model
  MaxEvents,    \* bound: events
  MaxLines,     \* bound: lines an agent writes
  MaxDecisions  \* bound: decisions recorded in one window

ASSUME LogStoreAssumption ==
  /\ Capacity \in Nat \ {0}
  /\ PinBefore \in Nat /\ PinAfter \in Nat
  /\ PageCap \in Nat \ {0}
  /\ Bursts \subseteq Nat
  /\ MaxEvents \in Nat /\ MaxLines \in Nat /\ MaxDecisions \in Nat

VARIABLES
  ring,      \* of each agent: the number of its next line, and what is kept
  owner,     \* the agent of each event
  ranges,    \* the lines that came with each event
  windows    \* the pinned windows, by event

logVars == <<ring, owner, ranges, windows>>

Tail_ == -1      \* the offset that asks for the last lines

Least(a, b) == IF a < b THEN a ELSE b
Most(a, b) == IF a < b THEN b ELSE a

-----------------------------------------------------------------------------
(* Lines and rings.                                                        *)

Line(offset, text) == [offset |-> offset, text |-> text]

Written(from, n, text) == [i \in 1..n |-> Line(from + i - 1, text)]

LastOf(lines, n) ==
  IF Len(lines) <= n THEN lines
  ELSE SubSeq(lines, Len(lines) - n + 1, Len(lines))

EmptyRing == [next |-> 0, lines |-> <<>>]

(* One line after the other, the oldest giving way once the ring is full.  *)
AppendLines(r, n, text) ==
  [next |-> r.next + n,
   lines |-> LastOf(r.lines \o Written(r.next, n, text), Capacity)]

OldestOffset(r) == IF r.lines = <<>> THEN r.next ELSE r.lines[1].offset

-----------------------------------------------------------------------------
(* Pages.  A span is a ring or a window: where it starts and its lines.    *)

RingSpan(r) == [start |-> OldestOffset(r), lines |-> r.lines]

SpanEnd(s) == s.start + Len(s.lines)

Reply(s, offset, evicted, lines) ==
  [offset |-> offset, total |-> Len(s.lines), evicted |-> evicted,
   lines |-> lines]

PageOf_WholeLimit(s, offset, limit) ==   \* variant: evicted lines not deducted
  CASE limit = 0 -> Reply(s, offset, FALSE, <<>>)
    [] limit > 0 /\ offset < s.start /\ offset + limit <= s.start ->
         Reply(s, offset, TRUE, <<>>)
    [] limit > 0 /\ offset < s.start /\ offset + limit > s.start ->
         Reply(s, s.start, TRUE, SubSeq(s.lines, 1, Least(limit, Len(s.lines))))
    [] limit > 0 /\ offset >= SpanEnd(s) -> Reply(s, SpanEnd(s), FALSE, <<>>)
    [] limit > 0 /\ offset >= s.start /\ offset < SpanEnd(s) ->
         LET i == offset - s.start
         IN  Reply(s, offset, FALSE,
                   SubSeq(s.lines, i + 1, Least(i + limit, Len(s.lines))))

PageOf_Clamped(s, offset, limit) ==    \* variant: an evicted offset is moved up
  LET from == Most(offset, s.start)
      i    == from - s.start
  IN  IF limit = 0 THEN Reply(s, offset, FALSE, <<>>)
      ELSE Reply(s, from, FALSE,
                 SubSeq(s.lines, i + 1, Least(i + limit, Len(s.lines))))

(* Lines from an offset on.  Of a request that starts before the span only *)
(* what is left of it is answered, and marked as evicted.                  *)
PageOf(s, offset, limit) ==
  CASE limit = 0 -> Reply(s, offset, FALSE, <<>>)
    [] limit > 0 /\ offset < s.start /\ offset + limit <= s.start ->
         Reply(s, offset, TRUE, <<>>)
    [] limit > 0 /\ offset < s.start /\ offset + limit > s.start ->
         Reply(s, s.start, TRUE,
               SubSeq(s.lines, 1, Least(offset + limit - s.start, Len(s.lines))))
    [] limit > 0 /\ offset >= SpanEnd(s) -> Reply(s, SpanEnd(s), FALSE, <<>>)
    [] limit > 0 /\ offset >= s.start /\ offset < SpanEnd(s) ->
         LET i == offset - s.start
         IN  Reply(s, offset, FALSE,
                   SubSeq(s.lines, i + 1, Least(i + limit, Len(s.lines))))

(* Of a ring, a page of no lines still says whether its offset is gone.    *)
RingPage(r, offset, limit) ==
  IF limit = 0
  THEN Reply(RingSpan(r), offset, offset < OldestOffset(r), <<>>)
  ELSE PageOf(RingSpan(r), offset, limit)

TailOf(s, limit) ==
  LET n == Least(limit, Len(s.lines))
  IN  Reply(s, SpanEnd(s) - n, FALSE,
            SubSeq(s.lines, Len(s.lines) - n + 1, Len(s.lines)))

(* An agent that never wrote a line has no ring.                           *)
AgentPage(a, offset, limit) ==
  CASE ring[a].next = 0 -> Reply(RingSpan(ring[a]), 0, FALSE, <<>>)
    [] ring[a].next > 0 /\ offset = Tail_ -> TailOf(RingSpan(ring[a]), limit)
    [] ring[a].next > 0 /\ offset # Tail_ ->
         RingPage(ring[a], Most(offset, 0), limit)

GetEventLogs(e, offset, limit) ==
  LET capped == Least(limit, PageCap) IN
  IF e \in DOMAIN windows
  THEN IF offset = Tail_ THEN TailOf(windows[e], capped)
       ELSE PageOf(windows[e], Most(offset, 0), capped)
  ELSE AgentPage(owner[e], offset, capped)

-----------------------------------------------------------------------------
(* Pins.                                                                   *)

SliceRange(r, from, to) ==
  LET start == Most(from, OldestOffset(r))
      end   == Least(to, r.next)
  IN  [start |-> start,
       lines |-> IF start >= end THEN <<>>
                 ELSE SubSeq(r.lines, start - OldestOffset(r) + 1,
                             end - OldestOffset(r))]

Pinned(r, range) ==
  SliceRange(r, Most(range.start - PinBefore, 0), range.end + PinAfter)

-----------------------------------------------------------------------------
Init ==
  /\ ring = [a \in Agents |-> EmptyRing]
  /\ owner = <<>>
  /\ ranges = <<>>
  /\ windows = [e \in {} |-> EmptyRing]

EventIds == DOMAIN owner

(* A line that belongs to no event.                                        *)
ProcessLine(a) ==
  /\ ring[a].next + 1 <= MaxLines
  /\ ring' = [ring EXCEPT ![a] = AppendLines(@, 1, "output")]
  /\ UNCHANGED <<owner, ranges, windows>>

(* An event with its lines; requests and errors have their lines pinned.   *)
ProcessEvent(a, n, attention) ==
  LET r     == AppendLines(ring[a], n, "output")
      range == [start |-> ring[a].next, end |-> r.next]
      e     == Len(owner) + 1
  IN
  /\ Len(owner) < MaxEvents
  /\ r.next <= MaxLines
  /\ ring' = [ring EXCEPT ![a] = r]
  /\ owner' = Append(owner, a)
  /\ ranges' = Append(ranges, range)
  /\ windows' = IF attention
                THEN [x \in DOMAIN windows \cup {e} |->
                        IF x = e THEN Pinned(r, range) ELSE windows[x]]
                ELSE windows

(* A prompt is written to the log before it goes to the adapter: a line for*)
(* the prompt, and one for each line of it.                                *)
StartTaskLogged(a, n) ==
  /\ ring[a].next + 1 + n <= MaxLines
  /\ ring' = [ring EXCEPT ![a] = AppendLines(@, 1 + n, "prompt")]
  /\ UNCHANGED <<owner, ranges, windows>>

AppendToPinned_Lost(window) ==   \* variant: a window keeps its size
  [window EXCEPT !.lines =
     LastOf(Append(@, Line(SpanEnd(window), "decision")),
            IF @ = <<>> THEN 1 ELSE Len(@))]

AppendToPinned(window) ==
  [window EXCEPT !.lines = Append(@, Line(SpanEnd(window), "decision"))]

Decisions(window) ==
  Cardinality({i \in DOMAIN window.lines : window.lines[i].text = "decision"})

(* A decision is added to the window of its request when it is accepted,   *)
(* and once more when it was not delivered and is made again.              *)
RecordDecision(e) ==
  /\ e \in DOMAIN windows
  /\ Decisions(windows[e]) < MaxDecisions
  /\ windows' = [windows EXCEPT ![e] = AppendToPinned(@)]
  /\ UNCHANGED <<ring, owner, ranges>>

LogNext ==
  \/ \E a \in Agents :
       \/ ProcessLine(a)
       \/ \E n \in Bursts : StartTaskLogged(a, n)
       \/ \E n \in Bursts, attention \in BOOLEAN : ProcessEvent(a, n, attention)
  \/ \E e \in EventIds : RecordDecision(e)

LogSpec == Init /\ [][LogNext]_logVars

-----------------------------------------------------------------------------
(* Properties.                                                             *)

Joined(lines) ==
  \A i \in DOMAIN lines : lines[i].offset = lines[1].offset + i - 1

(* A ring keeps the most recent lines, as many as it can, and no others.   *)
RingConsistent ==
  \A a \in Agents :
    LET r == ring[a] IN
    /\ Len(r.lines) = Least(r.next, Capacity)
    /\ \A i \in DOMAIN r.lines :
         r.lines[i].offset = r.next - Len(r.lines) + i - 1

(* Every page is what was asked for: the lines of the event that lie in the*)
(* range, joined and none left out, under the offset of the first of them, *)
(* and marked as evicted exactly when the range starts before what is left *)
(* (page, get_event_logs: three ranges and two ends to get wrong by one).  *)
PagesHonest ==
  \A e \in EventIds, limit \in 1..PageCap + 1, offset \in 0..MaxLines :
    LET span  == IF e \in DOMAIN windows THEN windows[e]
                 ELSE RingSpan(ring[owner[e]])
        page  == GetEventLogs(e, offset, limit)
        asked == offset..(offset + Least(limit, PageCap) - 1)
    IN
    /\ {page.lines[i].offset : i \in DOMAIN page.lines}
         = asked \cap (span.start..(SpanEnd(span) - 1))
    /\ Joined(page.lines)
    /\ page.lines # <<>> => page.offset = page.lines[1].offset
    /\ page.evicted <=> offset < span.start

(* The window of an event holds every line that came with it, but for those*)
(* a burst longer than the ring has already pushed out (pin).              *)
WindowCoversEvent ==
  \A e \in DOMAIN windows :
    (Most(ranges[e].start, ranges[e].end - Capacity)..(ranges[e].end - 1))
      \subseteq {windows[e].lines[i].offset : i \in DOMAIN windows[e].lines}

(* Whatever the ring drops, a window keeps its lines and only grows.       *)
WindowsOnlyGrow ==
  [][\A e \in DOMAIN windows :
       /\ e \in DOMAIN windows'
       /\ windows'[e].start = windows[e].start
       /\ Len(windows'[e].lines) >= Len(windows[e].lines)
       /\ \A i \in DOMAIN windows[e].lines :
            windows'[e].lines[i] = windows[e].lines[i]]_logVars

=============================================================================
