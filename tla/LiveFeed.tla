------------------------------ MODULE LiveFeed ------------------------------
(***************************************************************************)
(* The live view (appliance/egress_proxy.py: _live_emit, api_stream,       *)
(* api_live_clear; workbench daemon.ts: subscribeLive; LivePanel.tsx; the  *)
(* script of _SETTINGS_HTML).  The gateway keeps a ring of recent events   *)
(* and a queue per subscriber, all in memory; a console is first sent the  *)
(* ring, then its queue, and connects again when the stream breaks.        *)
(*                                                                         *)
(* There are two consoles: the page the gateway serves itself (Pages), and *)
(* the workbench's panel.  What is written to the network counts as queued *)
(* until the console reads it.                                             *)
(***************************************************************************)
EXTENDS Naturals, Sequences, SequencesExt

CONSTANTS
  Consoles,
  Pages,     \* the consoles that are the gateway's own page
  RingMax,   \* GATEWAY_LIVE_MAX
  QueueMax,  \* maxsize of a subscriber's queue
  RowsMax,   \* MAX_ROWS, and the page's 400 cards
  None

ASSUME FeedAssumption ==
  Pages \subseteq Consoles /\ {RingMax, QueueMax, RowsMax} \subseteq Nat \ {0}

VARIABLES
  up,        \* the gateway runs
  life,      \* how often it has been started
  seq,       \* _live_seq
  ring,      \* _live_ring
  link,      \* what the gateway still has to send each subscriber
  view,      \* a console's connection: away, connecting, open or waiting
  rows,      \* the events a console shows, newest first
  paused,
  held,      \* pausedBuf: what a paused page keeps
  lastSeq,   \* the newest number a page has seen
  clearing   \* consoles whose POST /api/live/clear is under way

gateFeed == <<seq, ring, link>>
screen == <<rows, paused, held, lastSeq>>
feedVars == <<gateFeed, view, screen, clearing>>

Events == [life : Nat, seq : Nat]
Links == [backlog : Seq(Events), queue : Seq(Events), last : Nat, dropped : BOOLEAN]
ASSUME LinkAssumption == None \notin Links

Newest(s, n) == SubSeq(s, 1, IF Len(s) < n THEN Len(s) ELSE n)
Recent(s) == IF Len(s) > RingMax THEN Tail(s) ELSE s
Event(n) == [life |-> life, seq |-> n]
Pending(c) == link[c].backlog \o link[c].queue
-----------------------------------------------------------------------------
(* The gateway *)

\* [mutant] A subscriber is fed only once it has its backlog.
EnqueuedLate(l, e) ==
  CASE l = None -> None
    [] l # None /\ l.backlog # <<>> -> l
    [] OTHER -> [l EXCEPT !.queue = Append(@, e)]

\* put_nowait: a full queue drops the event.
Enqueued(l, e) ==
  CASE l = None -> None
    [] l # None /\ Len(l.queue) >= QueueMax -> [l EXCEPT !.dropped = TRUE]
    [] OTHER -> [l EXCEPT !.queue = Append(@, e)]

Emit ==
  /\ up
  /\ seq' = seq + 1
  /\ ring' = Recent(Append(ring, Event(seq + 1)))
  /\ link' = [c \in Consoles |-> Enqueued(link[c], Event(seq + 1))]
  /\ UNCHANGED <<view, screen, clearing>>

\* [mutant] A subscriber gets what is emitted from now on.
SubscribeFresh(c) ==
  /\ view[c] = "connecting" /\ up
  /\ view' = [view EXCEPT ![c] = "open"]
  /\ link' = [link EXCEPT ![c] = [backlog |-> <<>>, queue |-> <<>>, last |-> 0, dropped |-> FALSE]]
  /\ UNCHANGED <<seq, ring, screen, clearing>>

\* GET /api/stream: the ring is copied and the queue registered in one step.
Subscribe(c) ==
  /\ view[c] = "connecting" /\ up
  /\ view' = [view EXCEPT ![c] = "open"]
  /\ link' = [link EXCEPT ![c] = [backlog |-> ring, queue |-> <<>>, last |-> 0, dropped |-> FALSE]]
  /\ UNCHANGED <<seq, ring, screen, clearing>>

\* The POST arrives: the panel has cleared its rows already, the page waits.
ServeClear(c) ==
  /\ clearing[c]
  /\ clearing' = [clearing EXCEPT ![c] = FALSE]
  /\ ring' = IF up THEN <<>> ELSE ring
  /\ IF c \in Pages
     THEN rows' = [rows EXCEPT ![c] = <<>>] /\ held' = [held EXCEPT ![c] = <<>>]
     ELSE UNCHANGED <<rows, held>>
  /\ UNCHANGED <<seq, link, view, paused, lastSeq>>

\* Everything of the live view is in memory only.
FeedStopped ==
  /\ seq' = 0 /\ ring' = <<>>
  /\ link' = [c \in Consoles |-> None]
  /\ view' = [c \in Consoles |-> IF view[c] = "open" THEN "waiting" ELSE view[c]]
  /\ UNCHANGED <<screen, clearing>>
-----------------------------------------------------------------------------
(* The consoles *)

\* [mutant] The page compares numbers with < instead of <=.
SeenBefore(c, e) == e.seq < lastSeq[c]

Seen(c, e) == e.seq <= lastSeq[c]

\* onEvent of the page: numbers it has seen are dropped, and a pause keeps.
PageTakes(c, e) ==
  IF Seen(c, e) THEN UNCHANGED <<rows, held, lastSeq>>
  ELSE /\ lastSeq' = [lastSeq EXCEPT ![c] = e.seq]
       /\ IF paused[c]
          THEN held' = [held EXCEPT ![c] = Append(@, e)] /\ UNCHANGED rows
          ELSE rows' = [rows EXCEPT ![c] = Newest(<<e>> \o @, RowsMax)] /\ UNCHANGED held

\* The panel drops the number it shows on top, and everything while paused.
PanelTakes(c, e) ==
  /\ rows' = IF paused[c] \/ (rows[c] # <<>> /\ Head(rows[c]).seq = e.seq) THEN rows
             ELSE [rows EXCEPT ![c] = Newest(<<e>> \o @, RowsMax)]
  /\ UNCHANGED <<held, lastSeq>>

Deliver(c) ==
  /\ view[c] = "open" /\ Pending(c) # <<>>
  /\ LET e == Head(Pending(c))
     IN /\ IF c \in Pages THEN PageTakes(c, e) ELSE PanelTakes(c, e)
        /\ link' = [link EXCEPT ![c].last = e.seq,
                      ![c].backlog = IF @ = <<>> THEN @ ELSE Tail(@),
                      ![c].queue = IF link[c].backlog = <<>> THEN Tail(@) ELSE @]
  /\ UNCHANGED <<seq, ring, view, paused, clearing>>

\* The Live tab is opened: a new page or panel, which knows nothing.
Mount(c) ==
  /\ view[c] = "away"
  /\ view' = [view EXCEPT ![c] = "connecting"]
  /\ UNCHANGED <<gateFeed, screen, clearing>>

\* It is closed, with its stream; the next one starts empty.
Unmount(c) ==
  /\ view[c] # "away"
  /\ view' = [view EXCEPT ![c] = "away"]
  /\ link' = [link EXCEPT ![c] = None]
  /\ rows' = [rows EXCEPT ![c] = <<>>] /\ held' = [held EXCEPT ![c] = <<>>]
  /\ paused' = [paused EXCEPT ![c] = FALSE] /\ lastSeq' = [lastSeq EXCEPT ![c] = 0]
  /\ clearing' = [clearing EXCEPT ![c] = FALSE]
  /\ UNCHANGED <<seq, ring>>

\* The stream breaks, or the gateway cannot be reached: try again later.
Break(c) ==
  /\ view[c] = "open" \/ (view[c] = "connecting" /\ ~up)
  /\ view' = [view EXCEPT ![c] = "waiting"]
  /\ link' = [link EXCEPT ![c] = None]
  /\ UNCHANGED <<seq, ring, screen, clearing>>

Retry(c) ==
  /\ view[c] = "waiting"
  /\ view' = [view EXCEPT ![c] = "connecting"]
  /\ UNCHANGED <<gateFeed, screen, clearing>>

Pause(c) ==
  /\ view[c] # "away" /\ ~paused[c]
  /\ paused' = [paused EXCEPT ![c] = TRUE]
  /\ UNCHANGED <<gateFeed, view, rows, held, lastSeq, clearing>>

\* The page shows what it held; the panel has dropped it.
Resume(c) ==
  /\ paused[c]
  /\ paused' = [paused EXCEPT ![c] = FALSE]
  /\ rows' = [rows EXCEPT ![c] = Newest(Reverse(held[c]) \o @, RowsMax)]
  /\ held' = [held EXCEPT ![c] = <<>>]
  /\ UNCHANGED <<gateFeed, view, lastSeq, clearing>>

Clear(c) ==
  /\ view[c] # "away" /\ ~clearing[c]
  /\ clearing' = [clearing EXCEPT ![c] = TRUE]
  /\ rows' = IF c \in Pages THEN rows ELSE [rows EXCEPT ![c] = <<>>]
  /\ UNCHANGED <<gateFeed, view, paused, held, lastSeq>>
-----------------------------------------------------------------------------
FeedInit ==
  /\ seq = 0 /\ ring = <<>>
  /\ link = [c \in Consoles |-> None]
  /\ view = [c \in Consoles |-> "away"]
  /\ rows = [c \in Consoles |-> <<>>] /\ held = [c \in Consoles |-> <<>>]
  /\ paused = [c \in Consoles |-> FALSE] /\ lastSeq = [c \in Consoles |-> 0]
  /\ clearing = [c \in Consoles |-> FALSE]
-----------------------------------------------------------------------------
Numbers(s) == [i \in DOMAIN s |-> s[i].seq]
Run(first, last) == [i \in 1..(last + 1 - first) |-> first + i - 1]

\* "Never block redaction" costs a subscriber events only when its queue is
\* full: what it is still to be sent is every event from the first it has not
\* had to the newest, each once, although ring and queue overlap in time.
NothingSkipped ==
  \A c \in Consoles : link[c] # None /\ ~link[c].dropped /\ Pending(c) # <<>> =>
    /\ link[c].last # 0 => Pending(c)[1].seq = link[c].last + 1
    /\ Numbers(Pending(c)) = Run(Pending(c)[1].seq, seq)

\* The page shows no event twice and the newest on top, whatever breaks, is
\* cleared or was held while it was paused: the ring is sent again on every
\* connection.
PageInOrder ==
  \A c \in Pages :
    LET all == Numbers(Reverse(held[c]) \o rows[c])
    IN \A i, j \in DOMAIN all : i < j => all[i] > all[j]

\* The console can still tell event n of this life from what it has shown:
\* numbers start again with the gateway, and it compares nothing else.
Distinguishable(c, n) ==
  /\ \A i \in DOMAIN rows[c] : rows[c][i].life = life
  /\ c \in Pages => n > lastSeq[c]

\* The console is to show event n: it is on its way, or in the ring it will
\* be sent when it connects.
Owed(c, n) ==
  /\ view[c] # "away" /\ ~paused[c] /\ up
  /\ Event(n) \in ToSet(IF link[c] = None THEN ring ELSE Pending(c))
  /\ Distinguishable(c, n)

\* It need not: it is closed, paused or cleared, the gateway has stopped, or the
\* ring had no longer the event when it came back.
Excused(c, n) ==
  \/ view[c] = "away" \/ paused[c] \/ clearing[c] \/ ~up
  \/ link[c] = None /\ Event(n) \notin ToSet(ring)

\* "It appears here, live": an event that a watching console is owed is shown,
\* through every reconnection.
EventShown(n) ==
  \A c \in Consoles : Owed(c, n) ~> (Event(n) \in ToSet(rows[c]) \/ Excused(c, n))
=============================================================================
