----------------------------- MODULE LogViewer -----------------------------
(***************************************************************************)
(* The phone's log screen over the log store: it asks for the last lines of*)
(* an event and then, page by page, for earlier ones, while the agent goes *)
(* on writing and the ring drops what it was about to ask for.             *)
(***************************************************************************)
EXTENDS LogStore

CONSTANTS
  PageSize,     \* lines a page of the phone
  MaxLoads      \* bound: pages asked for

(* The phone never asks for more than a page of the server.                *)
ASSUME LogViewerAssumption ==
  PageSize \in 1..PageCap /\ MaxLoads \in Nat

VARIABLES
  viewed,    \* the event whose log is open, 0 for none
  shown,     \* lines, offset of the first, and whether there are no earlier
  asked,     \* the request on its way: kind, offset, limit
  answer,    \* the answer on its way back
  loads      \* pages asked for so far

viewerVars == <<viewed, shown, asked, answer, loads>>
allVars == <<ring, owner, ranges, windows, viewed, shown, asked, answer, loads>>

NoneAsked == [kind |-> "none", offset |-> 0, limit |-> 0]
NoAnswer == [arrived |-> FALSE]
EmptyScreen == [lines |-> <<>>, first |-> -1, evicted |-> FALSE]

ViewerInit ==
  /\ Init
  /\ viewed = 0
  /\ shown = EmptyScreen
  /\ asked = NoneAsked
  /\ answer = NoAnswer
  /\ loads = 0

IsLoading == asked.kind # "none"

Ask(kind, offset, limit) ==
  /\ loads < MaxLoads
  /\ loads' = loads + 1
  /\ asked' = [kind |-> kind, offset |-> offset, limit |-> limit]
  /\ UNCHANGED <<ring, owner, ranges, windows, answer>>

Open(e) ==
  /\ viewed = 0
  /\ viewed' = e
  /\ Ask("tail", Tail_, PageSize)
  /\ UNCHANGED shown

Refresh ==
  /\ viewed # 0 /\ ~IsLoading
  /\ Ask("tail", Tail_, PageSize)
  /\ UNCHANGED <<viewed, shown>>

LoadEarlier_WholePage ==    \* variant: a whole page, also at the beginning
  LET target == Most(0, shown.first - PageSize) IN
  /\ viewed # 0 /\ ~IsLoading
  /\ shown.first > 0 /\ ~shown.evicted
  /\ Ask("earlier", target, PageSize)
  /\ UNCHANGED <<viewed, shown>>

LoadEarlier ==
  LET target == Most(0, shown.first - PageSize) IN
  /\ viewed # 0 /\ ~IsLoading
  /\ shown.first > 0 /\ ~shown.evicted
  /\ Ask("earlier", target, shown.first - target)
  /\ UNCHANGED <<viewed, shown>>

(* The core task answers from the store as it is when the request arrives. *)
Answer ==
  /\ IsLoading /\ ~answer.arrived
  /\ answer' = [arrived |-> TRUE,
                page |-> GetEventLogs(viewed, asked.offset, asked.limit)]
  /\ UNCHANGED <<ring, owner, ranges, windows, viewed, shown, asked, loads>>

ShowPage ==
  LET page == answer.page IN
  /\ answer.arrived
  /\ shown' = [lines |-> IF asked.kind = "tail" THEN page.lines
                         ELSE page.lines \o shown.lines,
               first |-> page.offset,
               evicted |-> page.evicted]
  /\ asked' = NoneAsked
  /\ answer' = NoAnswer
  /\ UNCHANGED <<ring, owner, ranges, windows, viewed, loads>>

(* No answer in time, or the connection is gone: nothing changes, and the  *)
(* page can be asked for again.                                            *)
LoadFails ==
  /\ IsLoading
  /\ asked' = NoneAsked
  /\ answer' = NoAnswer
  /\ UNCHANGED <<ring, owner, ranges, windows, viewed, shown, loads>>

Close ==
  /\ viewed # 0
  /\ viewed' = 0
  /\ shown' = EmptyScreen
  /\ asked' = NoneAsked
  /\ answer' = NoAnswer
  /\ UNCHANGED <<ring, owner, ranges, windows, loads>>

ViewerNext ==
  \/ LogNext /\ UNCHANGED viewerVars
  \/ \E e \in EventIds : Open(e)
  \/ Refresh
  \/ LoadEarlier
  \/ Answer
  \/ ShowPage
  \/ LoadFails
  \/ Close

ViewerSpec == ViewerInit /\ [][ViewerNext]_allVars

-----------------------------------------------------------------------------
(* Properties.                                                             *)

(* However pages and the agent's lines interleave, the screen shows one    *)
(* piece of the log without a gap and without a line twice                 *)
(* (_loadEarlier puts a page in front of what it has without looking).     *)
ScreenJoined ==
  /\ Joined(shown.lines)
  /\ (shown.lines # <<>> /\ ~shown.evicted)
       => shown.first = shown.lines[1].offset

(* "Load earlier" gets somewhere: the first offset goes down with every    *)
(* page or the screen says that there is no more, so a reader who goes on  *)
(* reaches one of the two ends.                                            *)
EarlierGetsOn ==
  [][(answer.arrived /\ asked.kind = "earlier" /\ shown' # shown
        /\ viewed' = viewed)
       => shown'.first < shown.first \/ shown'.evicted]_allVars

=============================================================================
