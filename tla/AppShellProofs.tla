--------------------------- MODULE AppShellProofs ---------------------------
(***************************************************************************)
(* What the two surfaces of the workbench can rely on, whatever runs       *)
(* beside them: the live view gets every event in order, a request is      *)
(* redacted with the list that was saved, and what one session of the      *)
(* document workbench began never reaches the next.                        *)
(***************************************************************************)
EXTENDS AppShell, SequenceTheorems, FiniteSetTheorems, WellFoundedInduction, TLAPS

(* The live view *)

\* The steps of the app as the live view sees them.
FeedNext ==
  \/ FeedStopped /\ up' = FALSE /\ life' = life
  \/ UNCHANGED feedVars /\ up' = TRUE /\ life' = life + 1
  \/ /\ Same
     /\ \/ UNCHANGED feedVars
        \/ Emit
        \/ \E c \in Consoles : \/ Mount(c) \/ Unmount(c) \/ Pause(c) \/ Resume(c) \/ Clear(c) \/ Break(c)
                               \/ ServeClear(c) \/ Subscribe(c) \/ Deliver(c) \/ Retry(c)

LEMMA FeedSteps ==
  ASSUME [ShellNext]_shellVars
  PROVE  FeedNext
<1>1. CASE UNCHANGED vars
  BY <1>1 DEF vars, FeedNext, Same
<1>2. CASE Next
  <2>1. CASE Stop
    BY <2>1 DEF Stop, FeedNext
  <2>2. CASE Start
    BY <2>2 DEF Start, FeedNext
  <2>3. CASE Emit /\ FeedOnly
    BY <2>3 DEF FeedOnly, FeedNext
  <2>4. ASSUME NEW c \in Consoles, Watch(c) \/ Flow(c) PROVE FeedNext
    BY <2>4 DEF Watch, Flow, FeedOnly, FeedNext
  <2>5. ASSUME NEW e \in Editors, Edit(e) \/ Serve(e) PROVE FeedNext
    BY <2>5 DEF Edit, Serve, ListOnly, FeedNext
  <2>6. CASE Enforce
    BY <2>6 DEF Enforce, ListOnly, FeedNext
  <2>7. CASE ListOnly
    BY <2>7 DEF ListOnly, FeedNext
  <2> QED BY <1>2, <2>1, <2>2, <2>3, <2>4, <2>5, <2>6, <2>7 DEF Next
<1>3. ShellNext => Next \/ UNCHANGED vars
  BY DEF ShellNext, InConsole, InWorkbench, OpenFirewall, OpenRedact, LateExport
<1> QED BY <1>1, <1>2, <1>3 DEF shellVars

FeedTyped ==
  /\ life \in Nat /\ seq \in Nat
  /\ ring \in Seq(Events)
  /\ link \in [Consoles -> Links \cup {None}]
  /\ view \in [Consoles -> {"away", "connecting", "open", "waiting"}]
  /\ \A c \in Consoles : view[c] = "open" => link[c] # None

\* The numbers of s are a run that ends with n.
EndsWith(s, n) == \A i \in 1..Len(s) : s[i].seq = n - Len(s) + i

\* The ring ends with the newest event, and so does what a subscriber that has
\* lost nothing is still to be sent, which goes on where it has got to.
AllNumbered ==
  /\ EndsWith(ring, seq)
  /\ \A c \in Consoles : link[c] # None /\ ~link[c].dropped =>
       /\ EndsWith(Pending(c), seq)
       /\ link[c].last # 0 => link[c].last = seq - Len(Pending(c))

LEMMA RunAppended ==
  ASSUME NEW s \in Seq(Events), NEW n \in Nat, EndsWith(s, n), NEW e \in Events, e.seq = n + 1
  PROVE  Append(s, e) \in Seq(Events) /\ EndsWith(Append(s, e), n + 1)
<1>1. Len(s) \in Nat /\ Len(Append(s, e)) = Len(s) + 1
  OBVIOUS
<1>2. ASSUME NEW i \in 1..Len(s) + 1
      PROVE  Append(s, e)[i].seq = n + 1 - (Len(s) + 1) + i
  <2>1. CASE i = Len(s) + 1
    BY <1>1, <2>1
  <2>2. CASE i # Len(s) + 1
    <3>1. i \in 1..Len(s) /\ Append(s, e)[i] = s[i]
      BY <1>1, <2>2
    <3>2. s[i].seq = n - Len(s) + i
      BY <3>1 DEF EndsWith
    <3> QED BY <1>1, <3>1, <3>2
  <2> QED BY <2>1, <2>2
<1> QED BY <1>1, <1>2 DEF EndsWith

LEMMA RunGoesOn ==
  ASSUME NEW s \in Seq(Events), NEW n \in Nat, EndsWith(s, n), s # <<>>
  PROVE  /\ Tail(s) \in Seq(Events) /\ Len(Tail(s)) = Len(s) - 1
         /\ EndsWith(Tail(s), n) /\ s[1] \in Events /\ s[1].seq = n - Len(Tail(s))
<1>1. Len(s) \in Nat \ {0} /\ Tail(s) \in Seq(Events) /\ Len(Tail(s)) = Len(s) - 1
  OBVIOUS
<1>2. s[1] \in Events /\ s[1].seq = n - Len(s) + 1
  BY <1>1 DEF EndsWith
<1>3. ASSUME NEW i \in 1..Len(s) - 1
      PROVE  Tail(s)[i].seq = n - (Len(s) - 1) + i
  <2>1. Tail(s)[i] = s[i + 1] /\ i + 1 \in 1..Len(s)
    BY <1>1
  <2>2. s[i + 1].seq = n - Len(s) + (i + 1)
    BY <2>1 DEF EndsWith
  <2> QED BY <1>1, <2>1, <2>2
<1> QED BY <1>1, <1>2, <1>3 DEF EndsWith


\* An event that is emitted is at the end of the ring, which may have lost its
\* first, and of every queue, unless it is dropped.
LEMMA EmitKeepsNumbers ==
  ASSUME FeedTyped, AllNumbered, UNCHANGED life, Emit
  PROVE  FeedTyped' /\ AllNumbered'
<1> DEFINE e == Event(seq + 1)
<1>1. e \in Events /\ e.seq = seq + 1 /\ seq \in Nat /\ seq' = seq + 1 /\ seq' \in Nat /\ life' \in Nat
  BY DEF FeedTyped, Event, Events, Emit
<1>2. ring \in Seq(Events) /\ EndsWith(ring, seq) /\ ring' = Recent(Append(ring, e))
  BY DEF FeedTyped, AllNumbered, Emit
<1>3. link \in [Consoles -> Links \cup {None}] /\ link' = [c \in Consoles |-> Enqueued(link[c], e)]
      /\ view' = view
  BY DEF FeedTyped, Emit
<1> HIDE DEF e
<1>4. ring' \in Seq(Events) /\ EndsWith(ring', seq')
  <2> DEFINE r == Append(ring, e)
  <2>1. r \in Seq(Events) /\ EndsWith(r, seq')
    BY <1>1, <1>2, RunAppended
  <2>2. r # <<>>
    BY <1>1, <1>2
  <2> HIDE DEF r
  <2>3. Tail(r) \in Seq(Events) /\ EndsWith(Tail(r), seq')
    BY <1>1, <2>1, <2>2, RunGoesOn
  <2> QED BY <1>2, <2>1, <2>3 DEF Recent, r
<1>5. ASSUME NEW c \in Consoles
      PROVE  /\ link'[c] \in Links \cup {None}
             /\ link[c] # None => link'[c] # None
             /\ link'[c] # None /\ ~link'[c].dropped =>
                  /\ EndsWith(link'[c].backlog \o link'[c].queue, seq')
                  /\ link'[c].last # 0 =>
                       link'[c].last = seq' - Len(link'[c].backlog \o link'[c].queue)
  <2> DEFINE l == link[c]
  <2>1. link'[c] = Enqueued(l, e) /\ l \in Links \cup {None}
    BY <1>3
  <2>2. l # None /\ ~l.dropped => /\ EndsWith(l.backlog \o l.queue, seq)
                                  /\ l.last # 0 => l.last = seq - Len(l.backlog \o l.queue)
    BY DEF AllNumbered, Pending
  <2> HIDE DEF l
  <2>3. CASE l = None
    BY <2>1, <2>3 DEF Enqueued, l
  <2>4. CASE l # None /\ Len(l.queue) >= QueueMax
    <3>1. link'[c] = [l EXCEPT !.dropped = TRUE]
      BY <2>1, <2>4 DEF Enqueued
    <3> QED BY <2>1, <2>4, <3>1, LinkAssumption DEF Links, l
  <2>5. CASE l # None /\ ~(Len(l.queue) >= QueueMax)
    <3> DEFINE b == l.backlog
               q == l.queue
    <3>1. l \in Links /\ b \in Seq(Events) /\ q \in Seq(Events) /\ l.last \in Nat
      BY <2>1, <2>5 DEF Links
    <3>2. link'[c] = [l EXCEPT !.queue = Append(q, e)]
      BY <2>1, <2>5 DEF Enqueued
    <3>3. Append(q, e) \in Seq(Events)
      BY <1>1, <3>1
    <3>4. link'[c] \in Links /\ link'[c].backlog = b /\ link'[c].queue = Append(q, e)
          /\ link'[c].last = l.last /\ link'[c].dropped = l.dropped
      BY <3>1, <3>2, <3>3 DEF Links
    <3> HIDE DEF b, q
    <3>5. b \o Append(q, e) = Append(b \o q, e) /\ b \o q \in Seq(Events)
          /\ Len(Append(b \o q, e)) = Len(b \o q) + 1 /\ Len(b \o q) \in Nat
      BY <1>1, <3>1
    <3>6. CASE ~l.dropped
      <4> DEFINE p == b \o q
      <4>1. EndsWith(p, seq) /\ (l.last # 0 => l.last = seq - Len(p)) /\ p \in Seq(Events)
        BY <2>2, <2>5, <3>5, <3>6 DEF b, q
      <4> HIDE DEF p
      <4>2. EndsWith(Append(p, e), seq')
        BY <1>1, <4>1, RunAppended
      <4>3. Len(Append(p, e)) = Len(p) + 1 /\ Len(p) \in Nat
        BY <4>1
      <4>4. l.last # 0 => l.last = seq' - Len(Append(p, e))
        BY <1>1, <3>1, <4>1, <4>3
      <4>5. link'[c].backlog \o link'[c].queue = Append(p, e)
        BY <3>4, <3>5 DEF p
      <4> QED BY <3>4, <4>2, <4>4, <4>5, LinkAssumption
    <3> QED BY <3>4, <3>6, LinkAssumption
  <2> QED BY <2>3, <2>4, <2>5
<1>6. FeedTyped'
  BY <1>1, <1>3, <1>4, <1>5 DEF FeedTyped
<1>7. AllNumbered'
  BY <1>4, <1>5 DEF AllNumbered, Pending
<1> QED BY <1>6, <1>7

\* A new subscriber is owed the ring.
LEMMA SubscribeKeepsNumbers ==
  ASSUME FeedTyped, AllNumbered, UNCHANGED life, NEW c \in Consoles, Subscribe(c)
  PROVE  FeedTyped' /\ AllNumbered'
<1> DEFINE l == [backlog |-> ring, queue |-> <<>>, last |-> 0, dropped |-> FALSE]
<1>1. ring \in Seq(Events) /\ <<>> \in Seq(Events) /\ ring \o <<>> = ring
  BY ConcatEmptySeq DEF FeedTyped
<1>2. l \in Links
  BY <1>1 DEF Links
<1>3. /\ link' = [link EXCEPT ![c] = l] /\ seq' = seq /\ ring' = ring
      /\ link \in [Consoles -> Links \cup {None}] /\ view' = [view EXCEPT ![c] = "open"]
  BY DEF Subscribe, FeedTyped
<1>4. l.backlog \o l.queue = ring /\ l.last = 0
  BY <1>1
<1> HIDE DEF l
<1>5. FeedTyped'
  BY <1>2, <1>3, LinkAssumption DEF FeedTyped
<1>6. ASSUME NEW d \in Consoles, link'[d] # None, ~link'[d].dropped
      PROVE  /\ EndsWith(Pending(d)', seq')
             /\ link'[d].last # 0 => link'[d].last = seq' - Len(Pending(d)')
  <2>1. CASE d = c
    BY <1>3, <1>4, <2>1 DEF AllNumbered, Pending
  <2>2. CASE d # c
    <3>1. link'[d] = link[d]
      BY <1>3, <2>2
    <3> QED BY <1>3, <1>6, <3>1 DEF AllNumbered, Pending
  <2> QED BY <2>1, <2>2
<1> QED BY <1>3, <1>5, <1>6 DEF AllNumbered


LEMMA TailOfConcat ==
  ASSUME NEW s \in Seq(Events), NEW t \in Seq(Events), s # <<>>
  PROVE  Tail(s \o t) = Tail(s) \o t
<1>1. /\ s \o t \in Seq(Events) /\ s \o t # <<>> /\ Len(s \o t) = Len(s) + Len(t)
      /\ Len(s) \in Nat \ {0} /\ Len(t) \in Nat
      /\ Tail(s) \in Seq(Events) /\ Len(Tail(s)) = Len(s) - 1
      /\ \A i \in 1..Len(s) - 1 : Tail(s)[i] = s[i + 1]
  OBVIOUS
<1>2. /\ Tail(s \o t) \in Seq(Events) /\ Len(Tail(s \o t)) = Len(s) + Len(t) - 1
      /\ \A i \in 1..Len(s) + Len(t) - 1 : Tail(s \o t)[i] = (s \o t)[i + 1]
  <2> DEFINE u == s \o t
  <2>1. u \in Seq(Events) /\ u # <<>> /\ Len(u) = Len(s) + Len(t)
    BY <1>1
  <2> HIDE DEF u
  <2>2. Tail(u) \in Seq(Events) /\ Len(Tail(u)) = Len(u) - 1
        /\ \A i \in 1..Len(u) - 1 : Tail(u)[i] = u[i + 1]
    BY <2>1
  <2> QED BY <2>1, <2>2 DEF u
<1>3. Tail(s) \o t \in Seq(Events) /\ Len(Tail(s) \o t) = Len(s) + Len(t) - 1
  BY <1>1
<1>4. ASSUME NEW i \in 1..Len(s) + Len(t) - 1 PROVE Tail(s \o t)[i] = (Tail(s) \o t)[i]
  <2>1. i + 1 \in 1..Len(s) + Len(t) /\ i \in 1..Len(Tail(s)) + Len(t)
    BY <1>1
  <2>2. (s \o t)[i + 1] = IF i + 1 <= Len(s) THEN s[i + 1] ELSE t[i + 1 - Len(s)]
    BY <2>1, ConcatProperties
  <2>3. (Tail(s) \o t)[i] = IF i <= Len(Tail(s)) THEN Tail(s)[i] ELSE t[i - Len(Tail(s))]
    BY <1>1, <2>1, ConcatProperties
  <2>4. i - (Len(s) - 1) = i + 1 - Len(s)
    BY <1>1
  <2> QED BY <1>1, <1>2, <2>2, <2>3, <2>4
<1> QED BY <1>2, <1>3, <1>4, SeqEqual

\* What is sent next is the first of what is pending, and the rest goes on
\* where that ends.
LEMMA DeliverKeepsNumbers ==
  ASSUME FeedTyped, AllNumbered, UNCHANGED life, NEW c \in Consoles, Deliver(c)
  PROVE  FeedTyped' /\ AllNumbered'
<1> DEFINE l == link[c]
           b == l.backlog
           q == l.queue
           p == b \o q
           e == Head(p)
           m == [l EXCEPT !.last = e.seq, !.backlog = IF b = <<>> THEN b ELSE Tail(b),
                          !.queue = IF b = <<>> THEN Tail(q) ELSE q]
<1>0. /\ link \in [Consoles -> Links \cup {None}] /\ p # <<>> /\ seq' = seq /\ ring' = ring
      /\ seq \in Nat /\ view' = view /\ l # None
      /\ link' = [link EXCEPT ![c] = m]
  BY DEF Deliver, FeedTyped, Pending
<1>1. l \in Links /\ b \in Seq(Events) /\ q \in Seq(Events) /\ p \in Seq(Events)
  BY <1>0 DEF Links
<1>2. e = p[1] /\ e \in Events /\ e.seq \in Nat
  <2> HIDE DEF p
  <2>1. 1 \in 1..Len(p) /\ Head(p) = p[1] /\ p[1] \in Events
    BY <1>0, <1>1
  <2> QED BY <2>1 DEF Events
<1>3. /\ (IF b = <<>> THEN b ELSE Tail(b)) \in Seq(Events)
      /\ (IF b = <<>> THEN Tail(q) ELSE q) \in Seq(Events)
      /\ (IF b = <<>> THEN b ELSE Tail(b)) \o (IF b = <<>> THEN Tail(q) ELSE q) = Tail(p)
  <2>1. CASE b = <<>>
    <3>1. p = q
      BY <1>1, <2>1, ConcatEmptySeq
    <3> QED BY <1>0, <1>1, <2>1, <3>1, ConcatEmptySeq
  <2>2. CASE b # <<>>
    <3>1. Tail(b) \in Seq(Events) /\ Len(Tail(b)) = Len(b) - 1 /\ Len(b) \in Nat \ {0}
      BY <1>1, <2>2
    <3>2. Tail(b \o q) = Tail(b) \o q
      BY <1>1, <2>2, TailOfConcat
    <3> QED BY <1>1, <2>2, <3>1, <3>2
  <2> QED BY <2>1, <2>2
<1>4. m \in Links /\ m.last = e.seq /\ m.dropped = l.dropped /\ m.backlog \o m.queue = Tail(p)
  BY <1>1, <1>2, <1>3 DEF Links
<1>5. FeedTyped'
  BY <1>0, <1>4, LinkAssumption DEF FeedTyped
<1>6. ~l.dropped => EndsWith(p, seq)
  BY <1>0 DEF AllNumbered, Pending
<1> HIDE DEF p, e, m
<1>8. ~l.dropped => EndsWith(Tail(p), seq) /\ e.seq = seq - Len(Tail(p))
  BY <1>0, <1>1, <1>2, <1>6, RunGoesOn
<1>9. ASSUME NEW d \in Consoles, link'[d] # None, ~link'[d].dropped
      PROVE  /\ EndsWith(Pending(d)', seq')
             /\ link'[d].last # 0 => link'[d].last = seq' - Len(Pending(d)')
  <2>1. CASE d = c
    <3>1. link'[d] = m
      BY <1>0, <2>1
    <3> QED BY <1>0, <1>4, <1>8, <1>9, <3>1 DEF Pending
  <2>2. CASE d # c
    <3>1. link'[d] = link[d]
      BY <1>0, <2>2
    <3> QED BY <1>0, <1>9, <3>1 DEF AllNumbered, Pending
  <2> QED BY <2>1, <2>2
<1> QED BY <1>0, <1>5, <1>9 DEF AllNumbered

\* Every step of the app keeps the numbers.
LEMMA NumbersStay ==
  ASSUME FeedTyped, AllNumbered, FeedNext
  PROVE  FeedTyped' /\ AllNumbered'
<1> DEFINE Closed(c) == /\ link' = [link EXCEPT ![c] = None] /\ UNCHANGED <<life, seq, ring>>
                        /\ \E w \in {"away", "waiting"} : view' = [view EXCEPT ![c] = w]
           Quietly(c) == /\ UNCHANGED <<life, seq, ring, link>>
                      /\ \E w \in {"away", "connecting", "waiting"} :
                           view' = view \/ view' = [view EXCEPT ![c] = w]
<1>1. CASE FeedStopped /\ life' = life
  <2>1. <<>> \in Seq(Events) /\ Len(<<>>) = 0
    OBVIOUS
  <2>2. link' = [c \in Consoles |-> None] /\ seq' = 0 /\ ring' = <<>>
        /\ view' = [c \in Consoles |-> IF view[c] = "open" THEN "waiting" ELSE view[c]]
    BY <1>1 DEF FeedStopped
  <2>3. FeedTyped'
    BY <1>1, <2>1, <2>2 DEF FeedTyped
  <2> QED BY <2>1, <2>2, <2>3 DEF AllNumbered, EndsWith
<1>2. CASE UNCHANGED feedVars /\ (life' = life \/ life' = life + 1)
  <2>1. UNCHANGED <<seq, ring, link, view>>
    BY <1>2 DEF feedVars, gateFeed
  <2>2. FeedTyped'
    BY <1>2, <2>1 DEF FeedTyped
  <2> QED BY <2>1, <2>2 DEF AllNumbered, EndsWith, Pending
<1>3. ASSUME NEW c \in Consoles, Closed(c) PROVE FeedTyped' /\ AllNumbered'
  <2>1. FeedTyped'
    BY <1>3 DEF FeedTyped
  <2>2. ASSUME NEW d \in Consoles PROVE link'[d] = None \/ link'[d] = link[d]
    BY <1>3 DEF FeedTyped
  <2>3. ASSUME NEW d \in Consoles, link'[d] # None, ~link'[d].dropped
        PROVE  /\ EndsWith(Pending(d)', seq')
               /\ link'[d].last # 0 => link'[d].last = seq' - Len(Pending(d)')
    BY <1>3, <2>2, <2>3 DEF AllNumbered, Pending
  <2> QED BY <1>3, <2>1, <2>3 DEF AllNumbered
<1>4. ASSUME NEW c \in Consoles, Quietly(c) PROVE FeedTyped' /\ AllNumbered'
  BY <1>4 DEF FeedTyped, AllNumbered, EndsWith, Pending
<1>5. ASSUME NEW c \in Consoles, ServeClear(c), Same PROVE FeedTyped' /\ AllNumbered'
  <2>1. <<>> \in Seq(Events) /\ Len(<<>>) = 0
    OBVIOUS
  <2>2. UNCHANGED <<life, seq, link, view>> /\ (ring' = ring \/ ring' = <<>>)
    BY <1>5 DEF ServeClear, Same
  <2>3. FeedTyped'
    BY <2>1, <2>2 DEF FeedTyped
  <2>4. EndsWith(ring', seq')
    BY <2>1, <2>2 DEF AllNumbered, EndsWith
  <2> QED BY <2>2, <2>3, <2>4 DEF AllNumbered, Pending
<1>6. ASSUME NEW c \in Consoles, Same, Unmount(c) \/ Break(c) PROVE Closed(c)
  BY <1>6 DEF Unmount, Break, Same
<1>7. ASSUME NEW c \in Consoles, Same, Mount(c) \/ Pause(c) \/ Resume(c) \/ Clear(c) \/ Retry(c)
      PROVE  Quietly(c)
  BY <1>7 DEF Mount, Pause, Resume, Clear, Retry, Same, gateFeed
<1> HIDE DEF Closed, Quietly
<1>8. ASSUME NEW c \in Consoles, Same, Subscribe(c) \/ Deliver(c) PROVE FeedTyped' /\ AllNumbered'
  BY <1>8, SubscribeKeepsNumbers, DeliverKeepsNumbers DEF Same
<1>9. CASE Same /\ Emit
  BY <1>9, EmitKeepsNumbers DEF Same
<1> QED BY <1>1, <1>2, <1>3, <1>4, <1>5, <1>6, <1>7, <1>8, <1>9 DEF FeedNext, Same

\* NothingSkipped: what an undropped subscriber is still to be sent is every
\* event from the one after the last it got to the newest, each once, across
\* the ring and its queue (egress_proxy.py: _live_emit, api_stream).
THEOREM FeedSkipsNothing == ShellSpec => []NothingSkipped
<1>1. ShellInit => FeedTyped /\ AllNumbered
  <2>1. <<>> \in Seq(Events) /\ Len(<<>>) = 0
    OBVIOUS
  <2> QED BY <2>1 DEF ShellInit, Init, FeedInit, FeedTyped, AllNumbered, EndsWith
<1>2. FeedTyped /\ AllNumbered /\ [ShellNext]_shellVars => (FeedTyped /\ AllNumbered)'
  BY FeedSteps, NumbersStay
<1>3. FeedTyped /\ AllNumbered => NothingSkipped
  <2> SUFFICES ASSUME FeedTyped, AllNumbered, NEW c \in Consoles,
                      link[c] # None, ~link[c].dropped, Pending(c) # <<>>
               PROVE  /\ link[c].last # 0 => Pending(c)[1].seq = link[c].last + 1
                      /\ Numbers(Pending(c)) = Run(Pending(c)[1].seq, seq)
    BY DEF NothingSkipped
  <2> DEFINE p == Pending(c)
  <2>1. p \in Seq(Events) /\ link[c].last \in Nat /\ seq \in Nat
    BY DEF FeedTyped, Links, Pending
  <2>2. EndsWith(p, seq) /\ (link[c].last # 0 => link[c].last = seq - Len(p))
    BY DEF AllNumbered
  <2>3. p # <<>>
    OBVIOUS
  <2> HIDE DEF p
  <2>4. Len(p) \in Nat \ {0} /\ DOMAIN p = 1..Len(p)
    BY <2>1, <2>3
  <2>5. p[1].seq = seq - Len(p) + 1
    BY <2>2, <2>4 DEF EndsWith
  <2>6. seq + 1 - p[1].seq = Len(p)
    BY <2>1, <2>4, <2>5
  <2>7. \A i \in 1..Len(p) : p[i].seq = p[1].seq + i - 1
    BY <2>1, <2>2, <2>4, <2>5 DEF EndsWith
  <2>8. Numbers(p) = Run(p[1].seq, seq)
    BY <2>4, <2>6, <2>7 DEF Numbers, Run
  <2> QED BY <2>1, <2>2, <2>4, <2>5, <2>8 DEF p
<1> QED BY <1>1, <1>2, <1>3, PTL DEF ShellSpec

-----------------------------------------------------------------------------
\* What a page has: what it holds back and what it shows, newest first.
ScreenTyped ==
  /\ rows \in [Consoles -> Seq(Events)] /\ held \in [Consoles -> Seq(Events)]
  /\ lastSeq \in [Consoles -> Nat] /\ paused \in [Consoles -> BOOLEAN]

\* The numbers of s fall, from n or less.
Falls(s, n) ==
  /\ \A i, j \in 1..Len(s) : i < j => s[i].seq > s[j].seq
  /\ \A i \in 1..Len(s) : s[i].seq <= n

\* What a page holds and shows falls from the newest number it has seen, and it
\* holds something back only while it is paused.
PagesFall ==
  \A c \in Pages : /\ ~paused[c] => held[c] = <<>>
                   /\ Falls(Reverse(held[c]) \o rows[c], lastSeq[c])

LEMMA NewestOnTop ==
  ASSUME NEW s \in Seq(Events), NEW n \in Nat, Falls(s, n), NEW e \in Events, e.seq > n
  PROVE  <<e>> \o s \in Seq(Events) /\ Falls(<<e>> \o s, e.seq)
<1> DEFINE t == <<e>> \o s
<1>0. <<e>> \in Seq(Events) /\ Len(<<e>>) = 1 /\ <<e>>[1] = e
  OBVIOUS
<1>1. t \in Seq(Events) /\ Len(t) = Len(s) + 1 /\ Len(s) \in Nat
  BY <1>0, ConcatProperties
<1>2. \A i \in 1..Len(s) + 1 : t[i] = IF i <= 1 THEN e ELSE s[i - 1]
  <2>1. \A i \in 1..Len(<<e>>) + Len(s) : t[i] = IF i <= Len(<<e>>) THEN <<e>>[i] ELSE s[i - Len(<<e>>)]
    BY <1>0, ConcatProperties
  <2> HIDE DEF t
  <2> QED BY <1>0, <1>1, <2>1
<1> HIDE DEF t
<1>3. \A i \in 1..Len(s) : s[i] \in Events /\ s[i].seq \in Nat /\ s[i].seq <= n
  <2>1. \A i \in 1..Len(s) : s[i] \in Events
    OBVIOUS
  <2>2. \A x \in Events : x.seq \in Nat
    BY DEF Events
  <2> QED BY <2>1, <2>2 DEF Falls
<1>4. e.seq \in Nat
  BY DEF Events
<1>5. ASSUME NEW i \in 1..Len(t) PROVE t[i].seq <= e.seq /\ (i > 1 => t[i].seq < e.seq)
  <2>1. CASE i = 1
    BY <1>1, <1>2, <1>4, <2>1
  <2>2. CASE i > 1
    <3>1. i - 1 \in 1..Len(s) /\ t[i] = s[i - 1]
      BY <1>1, <1>2, <2>2
    <3> QED BY <1>3, <1>4, <3>1
  <2> QED BY <1>1, <2>1, <2>2
<1>6. ASSUME NEW i \in 1..Len(t), NEW j \in 1..Len(t), i < j PROVE t[i].seq > t[j].seq
  <2>1. CASE i = 1
    BY <1>1, <1>2, <1>5, <1>6, <2>1
  <2>2. CASE i > 1
    <3>1. i - 1 \in 1..Len(s) /\ j - 1 \in 1..Len(s) /\ t[i] = s[i - 1] /\ t[j] = s[j - 1] /\ i - 1 < j - 1
      BY <1>1, <1>2, <1>6, <2>2
    <3> QED BY <3>1 DEF Falls
  <2> QED BY <1>1, <2>1, <2>2
<1> QED BY <1>1, <1>5, <1>6 DEF Falls, t

LEMMA NewestFall ==
  ASSUME NEW s \in Seq(Events), NEW n, Falls(s, n)
  PROVE  Newest(s, RowsMax) \in Seq(Events) /\ Falls(Newest(s, RowsMax), n)
<1> DEFINE k == IF Len(s) < RowsMax THEN Len(s) ELSE RowsMax
           t == SubSeq(s, 1, k)
<1>1. k \in 0..Len(s) /\ Len(s) \in Nat
  BY FeedAssumption
<1> HIDE DEF k
<1>2. t \in Seq(Events) /\ Len(t) = k /\ \A i \in 1..k : t[i] = s[i] /\ i \in 1..Len(s)
  BY <1>1
<1> HIDE DEF t
<1>3. Falls(t, n)
  BY <1>2 DEF Falls
<1> QED BY <1>2, <1>3 DEF Newest, t, k

LEMMA ReversedMore ==
  ASSUME NEW s \in Seq(Events), NEW e \in Events
  PROVE  /\ Reverse(s) \in Seq(Events) /\ Reverse(<<>>) = <<>>
         /\ Reverse(Append(s, e)) = <<e>> \o Reverse(s)
<1>1. Reverse(s) \in Seq(Events) /\ Len(Reverse(s)) = Len(s) /\ Len(s) \in Nat
      /\ \A i \in 1..Len(s) : Reverse(s)[i] = s[Len(s) - i + 1]
  BY DEF Reverse
<1>2. Reverse(<<>>) = <<>>
  <2>1. Len(<<>>) = 0 /\ 1..0 = {}
    OBVIOUS
  <2> QED BY <2>1 DEF Reverse
<1> DEFINE u == Append(s, e)
<1>3. u \in Seq(Events) /\ Len(u) = Len(s) + 1 /\ u[Len(s) + 1] = e /\ \A i \in 1..Len(s) : u[i] = s[i]
  OBVIOUS
<1> HIDE DEF u
<1>4. Reverse(u) \in Seq(Events) /\ Len(Reverse(u)) = Len(s) + 1
      /\ \A i \in 1..Len(s) + 1 : Reverse(u)[i] = u[Len(s) + 1 - i + 1]
  BY <1>1, <1>3 DEF Reverse
<1>5. <<e>> \in Seq(Events) /\ Len(<<e>>) = 1 /\ <<e>>[1] = e
  OBVIOUS
<1> DEFINE r == Reverse(s)
<1>6. r \in Seq(Events) /\ Len(r) = Len(s) /\ \A i \in 1..Len(s) : r[i] = s[Len(s) - i + 1]
  BY <1>1
<1> HIDE DEF r
<1>7. /\ <<e>> \o r \in Seq(Events) /\ Len(<<e>> \o r) = Len(s) + 1
      /\ \A i \in 1..Len(s) + 1 : (<<e>> \o r)[i] = IF i <= 1 THEN e ELSE r[i - 1]
  BY <1>1, <1>5, <1>6, ConcatProperties
<1>8. ASSUME NEW i \in 1..Len(s) + 1 PROVE Reverse(u)[i] = (<<e>> \o r)[i]
  <2>1. CASE i = 1
    BY <1>1, <1>3, <1>4, <1>7, <2>1
  <2>2. CASE i > 1
    <3>1. i - 1 \in 1..Len(s) /\ Len(s) - (i - 1) + 1 = Len(s) + 1 - i + 1 /\ Len(s) + 1 - i + 1 \in 1..Len(s)
      BY <1>1, <2>2
    <3>2. Reverse(u)[i] = s[Len(s) + 1 - i + 1]
      BY <1>3, <1>4, <3>1
    <3>3. (<<e>> \o r)[i] = r[i - 1] /\ r[i - 1] = s[Len(s) - (i - 1) + 1]
      BY <1>6, <1>7, <2>2, <3>1
    <3> QED BY <3>1, <3>2, <3>3
  <2>3. i = 1 \/ i > 1
    BY <1>1
  <2> QED BY <2>1, <2>2, <2>3
<1>9. Reverse(u) = <<e>> \o r
  BY <1>4, <1>7, <1>8, SeqEqual
<1> QED BY <1>1, <1>2, <1>9 DEF u, r

\* A step of one console leaves the others' pages as they are.
LEMMA OthersFall ==
  ASSUME ScreenTyped, PagesFall, NEW c \in Consoles,
         \A d \in Consoles \ {c} : /\ held'[d] = held[d] /\ rows'[d] = rows[d]
                                  /\ lastSeq'[d] = lastSeq[d] /\ paused'[d] = paused[d],
         c \in Pages => /\ Falls(Reverse(held'[c]) \o rows'[c], lastSeq'[c])
                        /\ paused'[c] \/ held'[c] = <<>>
  PROVE  PagesFall'
BY FeedAssumption DEF PagesFall

\* A page that gets an event puts it on top of what it shows, or of what it
\* holds back, unless it has seen its number.
LEMMA PageTakesInOrder ==
  ASSUME ScreenTyped, PagesFall, NEW c \in Pages, NEW e \in Events, PageTakes(c, e), UNCHANGED paused
  PROVE  ScreenTyped' /\ PagesFall'
<1> DEFINE h == held[c]
           r == rows[c]
<1>0. c \in Consoles /\ e.seq \in Nat /\ <<e>> \in Seq(Events)
  BY FeedAssumption DEF Events
<1>1. h \in Seq(Events) /\ r \in Seq(Events) /\ lastSeq[c] \in Nat /\ <<>> \in Seq(Events)
  BY <1>0 DEF ScreenTyped
<1>2. Falls(Reverse(h) \o r, lastSeq[c]) /\ (~paused[c] => h = <<>>)
  BY DEF PagesFall
<1>3. Reverse(h) \in Seq(Events) /\ Reverse(<<>>) = <<>> /\ Reverse(Append(h, e)) = <<e>> \o Reverse(h)
  BY <1>1, ReversedMore
<1> HIDE DEF h, r
<1>4. Reverse(h) \o r \in Seq(Events)
  BY <1>1, <1>3
<1>5. CASE Seen(c, e)
  BY <1>5 DEF PageTakes, ScreenTyped, PagesFall
<1>6. CASE ~Seen(c, e)
  <2>1. e.seq > lastSeq[c] /\ lastSeq' = [lastSeq EXCEPT ![c] = e.seq]
    BY <1>0, <1>1, <1>6 DEF Seen, PageTakes
  <2>2. <<e>> \o (Reverse(h) \o r) \in Seq(Events) /\ Falls(<<e>> \o (Reverse(h) \o r), e.seq)
    <3> DEFINE t == Reverse(h) \o r
    <3> HIDE DEF t
    <3>1. t \in Seq(Events) /\ Falls(t, lastSeq[c])
      BY <1>2, <1>4 DEF t
    <3> QED BY <1>1, <2>1, <3>1, NewestOnTop DEF t
  <2>3. CASE paused[c]
    <3>1. held' = [held EXCEPT ![c] = Append(h, e)] /\ rows' = rows
      BY <1>6, <2>3 DEF PageTakes, h
    <3>2. Append(h, e) \in Seq(Events)
      BY <1>1
    <3>3. Reverse(Append(h, e)) \o r = <<e>> \o (Reverse(h) \o r)
      <4> DEFINE v == Reverse(h)
      <4>1. v \in Seq(Events)
        BY <1>3
      <4> HIDE DEF v
      <4>2. (<<e>> \o v) \o r = <<e>> \o (v \o r)
        BY SMTT(30), <1>0, <1>1, <4>1, ConcatAssociative
      <4> QED BY <1>3, <4>2 DEF v
    <3>4. ScreenTyped'
      BY <1>0, <2>1, <3>1, <3>2 DEF ScreenTyped
    <3>5. Falls(Reverse(held'[c]) \o rows'[c], lastSeq'[c]) /\ paused'[c]
      BY <1>0, <2>1, <2>2, <2>3, <3>1, <3>3 DEF ScreenTyped, r
    <3>6. \A d \in Consoles \ {c} : /\ held'[d] = held[d] /\ rows'[d] = rows[d]
                                   /\ lastSeq'[d] = lastSeq[d] /\ paused'[d] = paused[d]
      BY <2>1, <3>1 DEF ScreenTyped
    <3> QED BY <1>0, <3>4, <3>5, <3>6, OthersFall
  <2>4. CASE ~paused[c]
    <3> DEFINE s == <<e>> \o r
    <3>1. held' = held /\ rows' = [rows EXCEPT ![c] = Newest(s, RowsMax)]
      BY <1>6, <2>4 DEF PageTakes, r
    <3>2. h = <<>> /\ Reverse(h) \o r = r
      BY <1>1, <1>2, <1>3, <2>4, ConcatEmptySeq
    <3>3. s \in Seq(Events) /\ Falls(s, e.seq)
      BY <2>2, <3>2
    <3> HIDE DEF s
    <3>4. Newest(s, RowsMax) \in Seq(Events) /\ Falls(Newest(s, RowsMax), e.seq)
      BY <3>3, NewestFall
    <3>5. Reverse(h) \o Newest(s, RowsMax) = Newest(s, RowsMax)
      BY <1>3, <3>2, <3>4, ConcatEmptySeq
    <3>6. ScreenTyped'
      BY <1>0, <2>1, <3>1, <3>4 DEF ScreenTyped
    <3>7. Falls(Reverse(held'[c]) \o rows'[c], lastSeq'[c]) /\ held'[c] = <<>>
      BY <1>0, <2>1, <3>1, <3>2, <3>4, <3>5 DEF ScreenTyped, h
    <3>8. \A d \in Consoles \ {c} : /\ held'[d] = held[d] /\ rows'[d] = rows[d]
                                   /\ lastSeq'[d] = lastSeq[d] /\ paused'[d] = paused[d]
      BY <2>1, <3>1 DEF ScreenTyped
    <3> QED BY <1>0, <3>6, <3>7, <3>8, OthersFall
  <2> QED BY <2>3, <2>4
<1> QED BY <1>5, <1>6


LEMMA NothingFalls ==
  ASSUME NEW n
  PROVE  Reverse(<<>>) = <<>> /\ Falls(Reverse(<<>>) \o <<>>, n) /\ <<>> \in Seq(Events)
<1>1. <<>> \in Seq(Events) /\ Len(<<>>) = 0 /\ 1..0 = {} /\ <<>> \o <<>> = <<>>
  BY ConcatEmptySeq
<1>2. Reverse(<<>>) = <<>>
  BY <1>1 DEF Reverse
<1> QED BY <1>1, <1>2 DEF Falls

\* The panel's rows are no page's.
LEMMA PanelTakesIt ==
  ASSUME ScreenTyped, PagesFall, NEW c \in Consoles \ Pages, NEW e \in Events, PanelTakes(c, e),
         UNCHANGED paused
  PROVE  ScreenTyped' /\ PagesFall'
<1>1. rows[c] \in Seq(Events) /\ RowsMax \in Nat /\ <<e>> \in Seq(Events)
  BY FeedAssumption DEF ScreenTyped
<1> DEFINE s == <<e>> \o rows[c]
           new == Newest(s, RowsMax)
<1>2. new \in Seq(Events)
  <2>1. s \in Seq(Events) /\ Len(s) \in Nat
    BY <1>1
  <2> HIDE DEF s
  <2> QED BY <1>1, <2>1 DEF Newest
<1>3. rows' = rows \/ rows' = [rows EXCEPT ![c] = new]
  BY DEF PanelTakes
<1> HIDE DEF new
<1>4. held' = held /\ lastSeq' = lastSeq
  BY DEF PanelTakes
<1>5. ScreenTyped'
  BY <1>2, <1>3, <1>4 DEF ScreenTyped
<1>6. \A d \in Consoles \ {c} : rows'[d] = rows[d]
  BY <1>3 DEF ScreenTyped
<1> QED BY <1>4, <1>5, <1>6, OthersFall

\* Every step of the app keeps the pages in order.
LEMMA PagesStay ==
  ASSUME FeedTyped, ScreenTyped, PagesFall, FeedNext
  PROVE  ScreenTyped' /\ PagesFall'
<1>0. Pages \subseteq Consoles
  BY FeedAssumption
<1>1. CASE UNCHANGED screen
  BY <1>1 DEF screen, ScreenTyped, PagesFall
<1>2. ASSUME NEW c \in Consoles, ServeClear(c) PROVE ScreenTyped' /\ PagesFall'
  <2>1. CASE c \in Pages
    <3>1. /\ rows' = [rows EXCEPT ![c] = <<>>] /\ held' = [held EXCEPT ![c] = <<>>]
          /\ UNCHANGED <<paused, lastSeq>>
      BY <1>2, <2>1 DEF ServeClear
    <3>2. ScreenTyped' /\ held'[c] = <<>> /\ rows'[c] = <<>>
      BY <3>1, NothingFalls DEF ScreenTyped
    <3>3. \A d \in Consoles \ {c} : held'[d] = held[d] /\ rows'[d] = rows[d]
      BY <3>1 DEF ScreenTyped
    <3> QED BY <3>1, <3>2, <3>3, NothingFalls, OthersFall
  <2>2. CASE c \notin Pages
    <3>1. UNCHANGED screen
      BY <1>2, <2>2 DEF ServeClear, screen
    <3> QED BY <1>1, <3>1
  <2> QED BY <2>1, <2>2
<1>3. ASSUME NEW c \in Consoles, Unmount(c) PROVE ScreenTyped' /\ PagesFall'
  <2>1. /\ rows' = [rows EXCEPT ![c] = <<>>] /\ held' = [held EXCEPT ![c] = <<>>]
        /\ paused' = [paused EXCEPT ![c] = FALSE] /\ lastSeq' = [lastSeq EXCEPT ![c] = 0]
    BY <1>3 DEF Unmount
  <2>2. ScreenTyped' /\ held'[c] = <<>> /\ rows'[c] = <<>>
    BY <2>1, NothingFalls DEF ScreenTyped
  <2>3. \A d \in Consoles \ {c} : /\ held'[d] = held[d] /\ rows'[d] = rows[d]
                                 /\ lastSeq'[d] = lastSeq[d] /\ paused'[d] = paused[d]
    BY <2>1 DEF ScreenTyped
  <2> QED BY <2>1, <2>2, <2>3, NothingFalls, OthersFall
<1>4. ASSUME NEW c \in Consoles, Pause(c) PROVE ScreenTyped' /\ PagesFall'
  <2>1. paused' = [paused EXCEPT ![c] = TRUE] /\ UNCHANGED <<rows, held, lastSeq>>
    BY <1>4 DEF Pause
  <2> QED BY <1>0, <2>1 DEF ScreenTyped, PagesFall
<1>5. ASSUME NEW c \in Consoles, Resume(c) PROVE ScreenTyped' /\ PagesFall'
  <2> DEFINE h == Reverse(held[c])
             s == h \o rows[c]
             new == Newest(s, RowsMax)
  <2>1. /\ paused' = [paused EXCEPT ![c] = FALSE] /\ rows' = [rows EXCEPT ![c] = new]
        /\ held' = [held EXCEPT ![c] = <<>>] /\ UNCHANGED lastSeq
    BY <1>5 DEF Resume
  <2>2. s \in Seq(Events)
    <3>1. h \in Seq(Events) /\ rows[c] \in Seq(Events)
      <4>1. held[c] \in Seq(Events)
        BY DEF ScreenTyped
      <4> QED BY <4>1 DEF Reverse, ScreenTyped
    <3> HIDE DEF h
    <3> QED BY <3>1
  <2>3. c \in Pages => Falls(s, lastSeq[c])
    BY DEF PagesFall
  <2> HIDE DEF s
  <2>4. new \in Seq(Events)
    <3>1. RowsMax \in Nat /\ Len(s) \in Nat
      BY <2>2, FeedAssumption
    <3> QED BY <2>2, <3>1 DEF Newest
  <2>5. c \in Pages => Falls(new, lastSeq[c])
    BY <2>2, <2>3, NewestFall
  <2> HIDE DEF new
  <2>6. ScreenTyped' /\ held'[c] = <<>> /\ rows'[c] = new /\ lastSeq'[c] = lastSeq[c]
    BY <2>1, <2>4, NothingFalls DEF ScreenTyped
  <2>7. Reverse(held'[c]) \o rows'[c] = new
    BY <2>4, <2>6, NothingFalls, ConcatEmptySeq
  <2>8. \A d \in Consoles \ {c} : /\ held'[d] = held[d] /\ rows'[d] = rows[d]
                                 /\ lastSeq'[d] = lastSeq[d] /\ paused'[d] = paused[d]
    BY <2>1 DEF ScreenTyped
  <2> QED BY <2>5, <2>6, <2>7, <2>8, OthersFall
<1>6. ASSUME NEW c \in Consoles, Clear(c) PROVE ScreenTyped' /\ PagesFall'
  <2>1. /\ rows' = rows \/ (c \notin Pages /\ rows' = [rows EXCEPT ![c] = <<>>])
        /\ UNCHANGED <<held, lastSeq, paused>>
    BY <1>6 DEF Clear
  <2>2. ScreenTyped'
    BY <2>1, NothingFalls DEF ScreenTyped
  <2>3. \A d \in Pages : rows'[d] = rows[d]
    BY <1>0, <2>1 DEF ScreenTyped
  <2> QED BY <2>1, <2>2, <2>3 DEF PagesFall
<1>7. ASSUME NEW c \in Consoles, Deliver(c) PROVE ScreenTyped' /\ PagesFall'
  <2> DEFINE e == Head(Pending(c))
  <2>1. e \in Events
    <3> DEFINE p == Pending(c)
    <3>1. link[c] \in Links /\ p # <<>>
      BY <1>7 DEF Deliver, FeedTyped
    <3>2. p \in Seq(Events)
      BY <3>1 DEF Links, Pending
    <3> HIDE DEF p
    <3>3. Head(p) \in Events
      BY <3>1, <3>2
    <3> QED BY <3>3 DEF p
  <2>2. UNCHANGED paused /\ IF c \in Pages THEN PageTakes(c, e) ELSE PanelTakes(c, e)
    BY <1>7 DEF Deliver
  <2> HIDE DEF e
  <2> QED BY <2>1, <2>2, PageTakesInOrder, PanelTakesIt
<1>8. ASSUME NEW c \in Consoles, Mount(c) \/ Break(c) \/ Subscribe(c) \/ Retry(c)
      PROVE  UNCHANGED screen
  BY <1>8 DEF Mount, Break, Subscribe, Retry
<1>9. Emit \/ FeedStopped \/ UNCHANGED feedVars => UNCHANGED screen
  BY DEF Emit, FeedStopped, feedVars
<1> QED BY <1>1, <1>2, <1>3, <1>4, <1>5, <1>6, <1>7, <1>8, <1>9 DEF FeedNext

\* PageInOrder: the gateway's own page shows no event twice and the newest on
\* top, through reconnections, pauses and clears (_SETTINGS_HTML: onEvent, the
\* pause button).
THEOREM PageKeepsOrder == ShellSpec => []PageInOrder
<1> DEFINE I == FeedTyped /\ AllNumbered /\ ScreenTyped /\ PagesFall
<1>1. ShellInit => I
  <2> SUFFICES ASSUME ShellInit PROVE I
    OBVIOUS
  <2>1. Pages \subseteq Consoles /\ <<>> \in Seq(Events) /\ Len(<<>>) = 0
    BY FeedAssumption
  <2>2. FeedTyped /\ AllNumbered
    BY <2>1 DEF ShellInit, Init, FeedInit, FeedTyped, AllNumbered, EndsWith
  <2>3. ScreenTyped
    BY <2>1 DEF ShellInit, Init, FeedInit, ScreenTyped
  <2>4. \A c \in Pages : held[c] = <<>> /\ rows[c] = <<>>
    BY <2>1 DEF ShellInit, Init, FeedInit
  <2> QED BY <2>2, <2>3, <2>4, NothingFalls DEF PagesFall
<1>2. I /\ [ShellNext]_shellVars => I'
  BY FeedSteps, NumbersStay, PagesStay
<1>3. I => PageInOrder
  <2> SUFFICES ASSUME ScreenTyped, PagesFall, NEW c \in Pages
               PROVE  LET all == Numbers(Reverse(held[c]) \o rows[c])
                      IN \A i, j \in DOMAIN all : i < j => all[i] > all[j]
    BY DEF PageInOrder
  <2> DEFINE s == Reverse(held[c]) \o rows[c]
  <2>1. Falls(s, lastSeq[c])
    BY DEF PagesFall
  <2>2. s \in Seq(Events)
    <3>1. held[c] \in Seq(Events) /\ rows[c] \in Seq(Events)
      BY FeedAssumption DEF ScreenTyped
    <3>2. Reverse(held[c]) \in Seq(Events)
      BY <3>1 DEF Reverse
    <3> QED BY <3>1, <3>2
  <2> HIDE DEF s
  <2>3. DOMAIN s = 1..Len(s)
    BY <2>2
  <2>4. \A i, j \in DOMAIN Numbers(s) : i < j => Numbers(s)[i] > Numbers(s)[j]
    BY <2>1, <2>3 DEF Numbers, Falls
  <2> QED BY <2>4 DEF s
<1> QED BY <1>1, <1>2, <1>3, PTL DEF ShellSpec

-----------------------------------------------------------------------------
(* The lists *)

\* The steps of the app as the lists see them.
ListNext ==
  \/ ListsStopped \/ UNCHANGED listVars
  \/ \E e \in Editors : \/ Load(e) \/ Loaded(e) \/ LoadFails(e) \/ Leave(e) \/ SaveDraft(e) \/ Revert(e)
                        \/ \E t \in Terms : EditTerm(e, t)
                        \/ SaveTimesOut(e) \/ Receive(e) \/ ServeSave(e) \/ SaveServed(e) \/ SaveFails(e)
  \/ Scan \/ Scanned
  \/ \E p \in Refreshers : Refresh(p) \/ ReadFails(p)
  \/ \E T \in SUBSET Terms : HandEdit(T)

LEMMA ListSteps ==
  ASSUME [ShellNext]_shellVars
  PROVE  ListNext
<1>1. CASE UNCHANGED vars
  BY <1>1 DEF vars, ListNext
<1>2. CASE Next
  <2>1. CASE Stop
    BY <2>1 DEF Stop, ListNext
  <2>2. CASE Start
    BY <2>2 DEF Start, ListNext
  <2>3. CASE FeedOnly
    BY <2>3 DEF FeedOnly, ListNext
  <2>4. ASSUME NEW e \in Editors, Edit(e) \/ Serve(e) PROVE ListNext
    BY <2>4 DEF Edit, Serve, ListNext
  <2>5. CASE Enforce
    BY <2>5 DEF Enforce, ListNext
  <2>6. ASSUME NEW T \in SUBSET Terms, HandEdit(T) PROVE ListNext
    BY <2>6 DEF ListNext
  <2>7. ASSUME NEW c \in Consoles, Watch(c) \/ Flow(c) PROVE FeedOnly
    BY <2>7 DEF Watch, Flow
  <2> QED BY <1>2, <2>1, <2>2, <2>3, <2>4, <2>5, <2>6, <2>7 DEF Next
<1>3. ShellNext => Next \/ UNCHANGED vars
  BY DEF ShellNext, InConsole, InWorkbench, OpenFirewall, OpenRedact, LateExport
<1> QED BY <1>1, <1>2, <1>3 DEF shellVars

Answers == {Nothing, "ok", "failed", "lost"}
Saves == [n : Nat, terms : SUBSET Terms, answer : Answers]
Views == {"away", "loading", "ready", "saving", "error"}
EditorStates == [view : Views, saved : SUBSET Terms, draft : SUBSET Terms, awaits : Nat, sent : Nat]
Stages == {"rest", "stat", "note", "read", "install", "done"}
Copies == [at : Stages, mtime : Nat \cup {Nothing}, got : SUBSET Terms]

ListsTyped ==
  /\ file \in [terms : SUBSET Terms, mtime : Nat]
  /\ noted \in Nat \cup {Nothing} /\ enforced \subseteq Terms /\ astray \in BOOLEAN
  /\ refresh \in [Refreshers -> Copies]
  /\ posts \in [Editors -> Seq(Saves)]
  /\ editor \in [Editors -> EditorStates]

\* The save that is served next is one of those under way.
LEMMA OldestIsOne ==
  ASSUME ListsTyped, NEW e \in Editors, Unanswered(e) # {}
  PROVE  Oldest(e) \in 1..Len(posts[e]) /\ posts[e][Oldest(e)] \in Saves
<1> DEFINE R == OpToRel(<, Nat)
           U == Unanswered(e)
<1>1. IsWellFoundedOn(R, Nat)
  BY NatLessThanWellFounded
<1>2. \A y \in Nat, z \in Nat : y < z => <<y, z>> \in R
  BY DEF OpToRel
<1>3. posts[e] \in Seq(Saves) /\ U \subseteq 1..Len(posts[e]) /\ U \subseteq Nat
  BY DEF ListsTyped, Unanswered
<1> HIDE DEF R, U
<1>4. PICK i \in U : \A y \in U : ~ (<<y, i>> \in R)
  BY <1>1, <1>3, WFMin DEF U
<1>5. \A j \in U : i <= j
  <2> SUFFICES ASSUME NEW j \in U PROVE i <= j
    OBVIOUS
  <2>1. i \in Nat /\ j \in Nat /\ ~(<<j, i>> \in R)
    BY <1>3, <1>4
  <2>2. ~(j < i)
    BY <1>2, <2>1
  <2> QED BY <2>1, <2>2
<1>6. Oldest(e) \in U
  BY <1>5 DEF Oldest, U
<1>7. \A k \in 1..Len(posts[e]) : posts[e][k] \in Saves
  BY <1>3
<1> QED BY <1>3, <1>6, <1>7

LEMMA CopyTyped ==
  ASSUME ListsTyped, NEW p \in Refreshers
  PROVE  /\ Loop \in Refreshers /\ Rest \in Copies
         /\ \A a \in Stages : [refresh EXCEPT ![p].at = a] \in [Refreshers -> Copies]
         /\ \A r \in Copies : [refresh EXCEPT ![p] = r] \in [Refreshers -> Copies]
<1>1. refresh \in [Refreshers -> Copies] /\ refresh[p] \in Copies
  BY DEF ListsTyped
<1>2. ASSUME NEW a \in Stages PROVE [refresh[p] EXCEPT !.at = a] \in Copies
  BY <1>1, <1>2 DEF Copies
<1>3. Loop \in Refreshers /\ Rest \in Copies
  BY DEF Refreshers, Rest, Copies, Stages
<1> QED BY <1>1, <1>2, <1>3

LEMMA EditorTyped ==
  ASSUME ListsTyped, NEW e \in Editors
  PROVE  /\ editor[e] \in EditorStates
         /\ \A x \in EditorStates : [editor EXCEPT ![e] = x] \in [Editors -> EditorStates]
         /\ \A v \in Views : /\ [editor[e] EXCEPT !.view = v] \in EditorStates
                             /\ [editor[e] EXCEPT !.view = v, !.awaits = 0] \in EditorStates
         /\ \A v \in Views, T \in SUBSET Terms :
              [Fresh(v, T) EXCEPT !.sent = editor[e].sent] \in EditorStates
<1>1. editor \in [Editors -> EditorStates] /\ editor[e] \in EditorStates
  BY DEF ListsTyped
<1>2. ASSUME NEW v \in Views
      PROVE  /\ [editor[e] EXCEPT !.view = v] \in EditorStates
             /\ [editor[e] EXCEPT !.view = v, !.awaits = 0] \in EditorStates
  BY <1>1 DEF EditorStates
<1>3. ASSUME NEW v \in Views, NEW T \in SUBSET Terms
      PROVE  [Fresh(v, T) EXCEPT !.sent = editor[e].sent] \in EditorStates
  BY <1>1 DEF EditorStates, Fresh
<1> QED BY <1>1, <1>2, <1>3

LEMMA SentTyped ==
  ASSUME ListsTyped, NEW e \in Editors, NEW T \in SUBSET Terms, Send(e, T)
  PROVE  posts' \in [Editors -> Seq(Saves)]
<1> DEFINE x == [n |-> editor[e].sent + 1, terms |-> T, answer |-> Nothing]
<1>1. x \in Saves
  <2>1. editor[e] \in EditorStates
    BY EditorTyped
  <2>2. editor[e].sent + 1 \in Nat
    BY <2>1 DEF EditorStates
  <2> QED BY <2>2 DEF Saves, Answers
<1>2. posts \in [Editors -> Seq(Saves)] /\ posts' = [posts EXCEPT ![e] = Append(@, x)]
  BY DEF Send, ListsTyped
<1> HIDE DEF x
<1>3. Append(posts[e], x) \in Seq(Saves)
  BY <1>1, <1>2
<1> QED BY <1>2, <1>3

LEMMA AnsweredTyped ==
  ASSUME ListsTyped, NEW e \in Editors, NEW a \in Answers, Answered(e, a)
  PROVE  posts' \in [Editors -> Seq(Saves)]
<1> DEFINE i == Oldest(e)
           q == posts[e]
           r == [q EXCEPT ![i].answer = a]
<1>2. q \in Seq(Saves) /\ posts \in [Editors -> Seq(Saves)]
  BY DEF ListsTyped
<1>3. posts' = [posts EXCEPT ![e] = r]
  BY DEF Answered
<1> HIDE DEF i, q
<1>4. CASE i \in 1..Len(q)
  <2>1. q[i] \in Saves
    BY <1>2, <1>4
  <2>2. [q[i] EXCEPT !.answer = a] \in Saves
    BY <2>1 DEF Saves
  <2>3. r \in Seq(Saves)
    BY <1>2, <1>4, <2>2
  <2> HIDE DEF r
  <2> QED BY <1>2, <1>3, <2>3
<1>5. CASE i \notin 1..Len(q)
  <2>1. r = q
    BY <1>2, <1>5
  <2> HIDE DEF r
  <2> QED BY <1>2, <1>3, <2>1
<1> QED BY <1>4, <1>5


\* Every step of the app keeps the lists' types.
LEMMA ListTypesStay ==
  ASSUME ListsTyped, ListNext
  PROVE  ListsTyped'
<1>0. /\ file \in [terms : SUBSET Terms, mtime : Nat]
      /\ noted \in Nat \cup {Nothing} /\ enforced \subseteq Terms /\ astray \in BOOLEAN
      /\ refresh \in [Refreshers -> Copies]
      /\ posts \in [Editors -> Seq(Saves)]
      /\ editor \in [Editors -> EditorStates]
      /\ Loop \in Refreshers /\ Editors \subseteq Refreshers
  BY DEF ListsTyped, Refreshers
<1>00. /\ file.mtime \in Nat /\ file.mtime + 1 \in Nat /\ file.terms \in SUBSET Terms
       /\ \A p \in Refreshers : refresh[p].mtime \in Nat \cup {Nothing} /\ refresh[p].got \in SUBSET Terms
  <2>1. \A p \in Refreshers : refresh[p] \in Copies
    BY <1>0
  <2> QED BY <1>0, <2>1 DEF Copies
<1>1. CASE ListsStopped
  <2>1. ASSUME NEW e \in Editors
        PROVE  [i \in DOMAIN posts[e] |->
                  [posts[e][i] EXCEPT !.answer = IF @ = Nothing THEN "lost" ELSE @]] \in Seq(Saves)
    <3> DEFINE q == posts[e]
    <3>1. q \in Seq(Saves) /\ DOMAIN q = 1..Len(q) /\ Len(q) \in Nat
      BY <1>0
    <3>2. \A x \in Saves : [x EXCEPT !.answer = IF @ = Nothing THEN "lost" ELSE @] \in Saves
      BY DEF Saves, Answers
    <3>3. \A i \in 1..Len(q) : q[i] \in Saves
      BY <3>1
    <3> HIDE DEF q
    <3>4. \A i \in 1..Len(q) : [q[i] EXCEPT !.answer = IF @ = Nothing THEN "lost" ELSE @] \in Saves
      BY <3>2, <3>3
    <3> QED BY <3>1, <3>4 DEF q
  <2>2. posts' \in [Editors -> Seq(Saves)]
    BY <1>1, <2>1 DEF ListsStopped
  <2>3. refresh' \in [Refreshers -> Copies]
    BY <1>0, <1>1, CopyTyped DEF ListsStopped
  <2>4. noted' = Nothing /\ enforced' = {} /\ astray' = FALSE /\ file' = file /\ editor' = editor
    BY <1>1 DEF ListsStopped
  <2> QED BY <1>0, <2>2, <2>3, <2>4 DEF ListsTyped
<1>2. CASE UNCHANGED listVars
  BY <1>0, <1>2 DEF listVars, gateLists, ListsTyped
<1>3. ASSUME NEW p \in Refreshers, Stat(p) PROVE ListsTyped'
  <2>1. [at |-> IF file.mtime = noted THEN "done" ELSE "note", mtime |-> file.mtime, got |-> {}] \in Copies
    BY <1>00 DEF Copies, Stages
  <2> QED BY <1>0, <1>3, <2>1 DEF Stat, ListsTyped
<1>4. ASSUME NEW p \in Refreshers, Note(p) PROVE ListsTyped'
  <2>1. refresh' \in [Refreshers -> Copies]
    BY <1>4, CopyTyped DEF Note, Stages
  <2> QED BY <1>0, <1>00, <1>4, <2>1 DEF Note, ListsTyped
<1>5. ASSUME NEW p \in Refreshers, Read(p) \/ ReadFails(p) PROVE ListsTyped'
  <2>1. /\ [at |-> "install", mtime |-> file.mtime, got |-> file.terms] \in Copies
        /\ [at |-> "install", mtime |-> Nothing, got |-> {}] \in Copies
    BY <1>00 DEF Copies, Stages
  <2> QED BY <1>0, <1>5, <2>1 DEF Read, ReadFails, ListsTyped
<1>6. ASSUME NEW p \in Refreshers, Install(p) PROVE ListsTyped'
  <2>1. refresh' \in [Refreshers -> Copies]
    BY <1>6, CopyTyped DEF Install, Stages
  <2> QED BY <1>0, <1>00, <1>6, <2>1 DEF Install, ListsTyped
<1>7. CASE Scan
  <2>1. refresh' \in [Refreshers -> Copies]
    BY <1>0, <1>7, CopyTyped DEF Scan, Begins, Stages
  <2> QED BY <1>0, <1>7, <2>1 DEF Scan, ListsTyped
<1>8. CASE Scanned
  <2>1. refresh' \in [Refreshers -> Copies]
    BY <1>0, <1>8, CopyTyped DEF Scanned, Ends
  <2> QED BY <1>0, <1>8, <2>1 DEF Scanned, ListsTyped
<1>9. ASSUME NEW T \in SUBSET Terms, HandEdit(T) PROVE ListsTyped'
  BY <1>0, <1>00, <1>9 DEF HandEdit, gateLists, ListsTyped
<1>10. ASSUME NEW e \in Editors, Load(e) PROVE ListsTyped'
  <2>1. refresh' \in [Refreshers -> Copies] /\ editor' \in [Editors -> EditorStates]
    BY <1>0, <1>10, CopyTyped, EditorTyped DEF Load, Begins, Stages, Views
  <2> QED BY <1>0, <1>10, <2>1 DEF Load, ListsTyped
<1>11. ASSUME NEW e \in Editors, Loaded(e) PROVE ListsTyped'
  <2>1. refresh' \in [Refreshers -> Copies]
    BY <1>0, <1>11, CopyTyped DEF Loaded
  <2>2. editor' \in [Editors -> EditorStates]
    BY <1>0, <1>00, <1>11, EditorTyped DEF Loaded, Views
  <2> QED BY <1>0, <1>11, <2>1, <2>2 DEF Loaded, ListsTyped
<1>12. ASSUME NEW e \in Editors, NEW v \in Views, NEW T \in SUBSET Terms,
              \/ editor' = [editor EXCEPT ![e].view = v]
              \/ editor' = [editor EXCEPT ![e].view = v, ![e].awaits = 0]
              \/ editor' = [editor EXCEPT ![e] = [Fresh(v, T) EXCEPT !.sent = editor[e].sent]],
              UNCHANGED <<file, gateLists, posts>>
       PROVE  ListsTyped'
  <2> DEFINE x == [editor[e] EXCEPT !.view = v]
             y == [editor[e] EXCEPT !.view = v, !.awaits = 0]
             z == [Fresh(v, T) EXCEPT !.sent = editor[e].sent]
  <2>1. x \in EditorStates /\ y \in EditorStates /\ z \in EditorStates
    BY EditorTyped
  <2>2. editor' = [editor EXCEPT ![e] = x] \/ editor' = [editor EXCEPT ![e] = y]
        \/ editor' = [editor EXCEPT ![e] = z]
    BY <1>0, <1>12
  <2> HIDE DEF x, y, z
  <2>3. editor' \in [Editors -> EditorStates]
    BY <1>0, <2>1, <2>2
  <2> QED BY <1>0, <1>12, <2>3 DEF gateLists, ListsTyped
<1>13. ASSUME NEW e \in Editors, LoadFails(e) \/ SaveTimesOut(e) \/ Leave(e) PROVE ListsTyped'
  <2>1. {} \in SUBSET Terms /\ "error" \in Views /\ "ready" \in Views /\ "away" \in Views
    BY DEF Views
  <2> QED BY <1>12, <1>13, <2>1 DEF LoadFails, SaveTimesOut, Leave
<1>14. ASSUME NEW e \in Editors, Revert(e) PROVE ListsTyped'
  <2>1. editor[e] \in EditorStates
    BY EditorTyped
  <2>2. [editor[e] EXCEPT !.draft = editor[e].saved] \in EditorStates
    BY <2>1 DEF EditorStates
  <2> QED BY <1>0, <1>14, <2>2 DEF Revert, gateLists, ListsTyped
<1>15. ASSUME NEW e \in Editors, NEW t \in Terms, EditTerm(e, t) PROVE ListsTyped'
  <2> DEFINE T == Toggled(editor[e].draft, t)
             x == [editor[e] EXCEPT !.draft = T, !.sent = @ + 1]
             y == [editor[e] EXCEPT !.draft = T]
  <2>1. editor[e] \in EditorStates
    BY EditorTyped
  <2>2. T \in SUBSET Terms
    BY <2>1 DEF EditorStates, Toggled
  <2>3. x \in EditorStates /\ y \in EditorStates
    <3> HIDE DEF T
    <3>1. editor[e].sent \in Nat /\ editor[e].sent + 1 \in Nat
      BY <2>1 DEF EditorStates
    <3>2. [editor[e] EXCEPT !.draft = T] \in EditorStates
      BY <2>1, <2>2 DEF EditorStates
    <3>3. [editor[e] EXCEPT !.draft = T, !.sent = editor[e].sent + 1] \in EditorStates
      BY <2>1, <2>2, <3>1 DEF EditorStates
    <3> QED BY <2>1, <3>2, <3>3 DEF EditorStates
  <2>4. posts' \in [Editors -> Seq(Saves)]
    BY <1>0, <1>15, <2>2, SentTyped DEF EditTerm
  <2>5. UNCHANGED <<file, gateLists>>
        /\ (editor' = [editor EXCEPT ![e] = x] \/ editor' = [editor EXCEPT ![e] = y])
    BY <1>0, <1>15 DEF EditTerm
  <2> HIDE DEF x, y
  <2> QED BY <1>0, <2>3, <2>4, <2>5 DEF gateLists, ListsTyped
<1>16. ASSUME NEW e \in Editors, SaveDraft(e) PROVE ListsTyped'
  <2> DEFINE x == [editor[e] EXCEPT !.view = "saving", !.sent = @ + 1, !.awaits = editor[e].sent + 1]
  <2>1. editor[e] \in EditorStates
    BY EditorTyped
  <2>2. x \in EditorStates /\ editor[e].draft \in SUBSET Terms
    <3>1. editor[e].sent \in Nat /\ editor[e].sent + 1 \in Nat /\ "saving" \in Views
      BY <2>1 DEF EditorStates, Views
    <3>2. [editor[e] EXCEPT !.view = "saving", !.sent = editor[e].sent + 1, !.awaits = editor[e].sent + 1]
            \in EditorStates
      BY <2>1, <3>1 DEF EditorStates
    <3> QED BY <2>1, <3>2 DEF EditorStates
  <2>3. posts' \in [Editors -> Seq(Saves)]
    BY <1>16, <2>2, SentTyped DEF SaveDraft
  <2>4. UNCHANGED <<file, gateLists>> /\ editor' = [editor EXCEPT ![e] = x]
    BY <1>0, <1>16 DEF SaveDraft
  <2> HIDE DEF x
  <2> QED BY <1>0, <2>2, <2>3, <2>4 DEF gateLists, ListsTyped
<1>17. ASSUME NEW e \in Editors, ServeSave(e) PROVE ListsTyped'
  <2>1. posts[e][Oldest(e)] \in Saves
    BY <1>17, OldestIsOne DEF ServeSave
  <2>2. posts[e][Oldest(e)].terms \in SUBSET Terms
    BY <2>1 DEF Saves
  <2>3. refresh' \in [Refreshers -> Copies]
    BY <1>0, <1>17, CopyTyped DEF ServeSave, Begins, Stages
  <2>4. file' \in [terms : SUBSET Terms, mtime : Nat]
    BY <1>00, <1>17, <2>2 DEF ServeSave
  <2> QED BY <1>0, <1>17, <2>3, <2>4 DEF ServeSave, ListsTyped
<1>18. ASSUME NEW e \in Editors, SaveServed(e) PROVE ListsTyped'
  <2>1. posts' \in [Editors -> Seq(Saves)]
    BY <1>18, AnsweredTyped DEF SaveServed, Answers
  <2>2. refresh' \in [Refreshers -> Copies]
    BY <1>0, <1>18, CopyTyped DEF SaveServed, Ends
  <2> QED BY <1>0, <1>18, <2>1, <2>2 DEF SaveServed, ListsTyped
<1>19. ASSUME NEW e \in Editors, SaveFails(e) PROVE ListsTyped'
  <2>1. posts' \in [Editors -> Seq(Saves)]
    BY <1>19, AnsweredTyped DEF SaveFails, Answers
  <2> QED BY <1>0, <1>19, <2>1 DEF SaveFails, gateLists, ListsTyped
<1>20. ASSUME NEW e \in Editors, Receive(e) PROVE ListsTyped'
  <2> DEFINE q == posts[e]
  <2>1. q \in Seq(Saves) /\ q # <<>>
    BY <1>0, <1>20 DEF Receive
  <2> HIDE DEF q
  <2>2. Tail(q) \in Seq(Saves) /\ Head(q) \in Saves
    BY <2>1
  <2> DEFINE h == Head(q)
  <2> HIDE DEF h
  <2>3. After(e, h) \in EditorStates
    <3>1. h.terms \in SUBSET Terms
      BY <2>2 DEF Saves, h
    <3>2. "ready" \in Views /\ "error" \in Views
      BY DEF Views
    <3> QED BY <3>1, <3>2, EditorTyped DEF After
  <2>4. posts' = [posts EXCEPT ![e] = Tail(q)] /\ UNCHANGED <<file, gateLists>>
        /\ (editor' = editor \/ editor' = [editor EXCEPT ![e] = After(e, h)])
    BY <1>0, <1>20 DEF Receive, q, h
  <2> QED BY <1>0, <2>2, <2>3, <2>4 DEF gateLists, ListsTyped
<1> QED BY <1>1, <1>2, <1>3, <1>4, <1>5, <1>6, <1>7, <1>8, <1>9, <1>10, <1>11, <1>13, <1>14, <1>15,
           <1>16, <1>17, <1>18, <1>19, <1>20 DEF ListNext, Refresh


\* The copy is that of the file, or was made by a read that failed or was
\* overtaken.
Current == enforced = file.terms \/ astray

\* No mtime that was noted or seen is newer than the file's; what was read from
\* the file as it is now is what it says; and when the file's mtime is noted, or
\* the event loop has found it so, the copy is current or being replaced.
CopyInv ==
  /\ noted \in Nat => noted <= file.mtime
  /\ \A p \in Refreshers :
       /\ refresh[p].mtime \in Nat => refresh[p].mtime <= file.mtime
       /\ refresh[p].at = "install" /\ refresh[p].mtime = file.mtime => refresh[p].got = file.terms
  /\ noted = file.mtime =>
       Current \/ \E p \in Refreshers : refresh[p].at \in {"read", "install"}
  /\ refresh[Loop].at = "done" /\ refresh[Loop].mtime = file.mtime => Current \/ Replacing

\* A step that leaves the file and the copy alone, and moves p's refresh between
\* stages that are neither a read nor an answer.
LEMMA CopyRests ==
  ASSUME ListsTyped, CopyInv, NEW p \in Refreshers,
         UNCHANGED <<file, noted, enforced, astray>>,
         \A q \in Refreshers : q # p => refresh'[q] = refresh[q],
         refresh[p].at \notin {"read", "install"}, refresh'[p].at \in {"rest", "stat", "note"},
         refresh'[p].mtime \in {refresh[p].mtime, file.mtime, Nothing}
  PROVE  CopyInv'
<1>1. Loop \in Refreshers /\ Editors \subseteq Refreshers /\ file.mtime \in Nat
  BY DEF Refreshers, ListsTyped
<1>2. \A q \in Refreshers : /\ refresh'[q].mtime \in Nat => refresh'[q].mtime <= file.mtime
                            /\ refresh'[q].at = "install" => q # p
  BY <1>1, NothingAssumption DEF CopyInv
<1>3. /\ \A q \in Refreshers : refresh[q].at \in {"read", "install"} => refresh'[q] = refresh[q]
      /\ refresh'[Loop].at = "done" => refresh'[Loop] = refresh[Loop]
  BY <1>1
<1>4. Replacing => Replacing'
  BY <1>1, <1>3 DEF Replacing
<1>5. noted' = file'.mtime => Current' \/ \E q \in Refreshers : refresh'[q].at \in {"read", "install"}
  BY <1>3 DEF CopyInv, Current
<1>6. refresh'[Loop].at = "done" /\ refresh'[Loop].mtime = file'.mtime => Current' \/ Replacing'
  BY <1>3, <1>4 DEF CopyInv, Current
<1>7. \A q \in Refreshers : refresh'[q].at = "install" /\ refresh'[q].mtime = file'.mtime
                              => refresh'[q].got = file'.terms
  BY <1>2 DEF CopyInv
<1> QED BY <1>2, <1>5, <1>6, <1>7 DEF CopyInv

\* Once the file is written, nothing that was noted or seen is of it.
LEMMA CopyOutdated ==
  ASSUME ListsTyped, CopyInv, file'.mtime = file.mtime + 1, noted' = noted,
         \A q \in Refreshers : refresh'[q].mtime = refresh[q].mtime
  PROVE  CopyInv'
<1>1. Loop \in Refreshers /\ file.mtime \in Nat
  BY DEF Refreshers, ListsTyped
<1>2. /\ noted' \in Nat => noted' < file'.mtime
      /\ \A q \in Refreshers : refresh'[q].mtime \in Nat => refresh'[q].mtime < file'.mtime
  BY <1>1 DEF CopyInv
<1>3. /\ noted' # file'.mtime
      /\ \A q \in Refreshers : refresh'[q].mtime # file'.mtime
  BY <1>1, <1>2
<1>4. \A m \in Nat : m < file'.mtime => m <= file'.mtime
  BY <1>1
<1> QED BY <1>1, <1>2, <1>3, <1>4 DEF CopyInv

\* Every step of the app keeps the copy's invariant.
LEMMA CopyStays ==
  ASSUME ListsTyped, CopyInv, ListNext
  PROVE  CopyInv'
<1>0. /\ refresh \in [Refreshers -> Copies] /\ file.mtime \in Nat
      /\ \A p \in Refreshers : refresh[p] \in Copies
      /\ Loop \in Refreshers /\ Editors \subseteq Refreshers
  BY DEF ListsTyped, Refreshers
<1>00. /\ \A p \in Refreshers, a \in Stages :
            [refresh[p] EXCEPT !.at = a] = [at |-> a, mtime |-> refresh[p].mtime, got |-> refresh[p].got]
       /\ Stages = {"rest", "stat", "note", "read", "install", "done"}
  BY <1>0 DEF Copies, Stages
<1>1. CASE ListsStopped
  <2>1. noted' = Nothing /\ refresh' = [p \in Refreshers |-> Rest] /\ file' = file
    BY <1>1 DEF ListsStopped
  <2> QED BY <1>0, <2>1, NothingAssumption DEF CopyInv, Rest
<1>2. CASE UNCHANGED <<file, noted, enforced, astray, refresh>>
  BY <1>2 DEF CopyInv, Current, Replacing
<1>3. ASSUME NEW p \in Refreshers, Stat(p) PROVE CopyInv'
  <2>1. /\ UNCHANGED <<file, noted, enforced, astray>> /\ refresh[p].at = "stat"
        /\ \A q \in Refreshers : q # p => refresh'[q] = refresh[q]
        /\ refresh'[p] = [at |-> IF file.mtime = noted THEN "done" ELSE "note",
                          mtime |-> file.mtime, got |-> {}]
    BY <1>0, <1>3 DEF Stat
  <2>2. CASE file.mtime # noted
    BY <2>1, <2>2, CopyRests
  <2>3. CASE file.mtime = noted
    <3>1. Current \/ \E q \in Refreshers : refresh[q].at \in {"read", "install"}
      BY <2>3 DEF CopyInv
    <3>2. Current' \/ \E q \in Refreshers : q # p /\ refresh'[q].at \in {"read", "install"}
      BY <2>1, <3>1 DEF Current
    <3>3. p # Loop => refresh'[Loop] = refresh[Loop]
      BY <1>0, <2>1
    <3>4. \A q \in Refreshers : q # Loop => q \in Editors
      BY DEF Refreshers
    <3>5. \A q \in Editors : refresh[q].at \in {"read", "install"} => refresh'[q] = refresh[q]
      BY <1>0, <2>1
    <3>6. refresh'[Loop].at = "done" /\ refresh'[Loop].mtime = file'.mtime => Current' \/ Replacing'
      <4>1. CASE p = Loop
        BY <3>2, <3>4, <4>1 DEF Replacing
      <4>2. CASE p # Loop
        BY <2>1, <3>3, <3>5, <4>2 DEF CopyInv, Current, Replacing
      <4> QED BY <4>1, <4>2
    <3>7. \A q \in Refreshers : /\ refresh'[q].mtime \in Nat => refresh'[q].mtime <= file'.mtime
                                /\ refresh'[q].at = "install" /\ refresh'[q].mtime = file'.mtime
                                     => refresh'[q].got = file'.terms
      BY <1>0, <2>1, <2>3 DEF CopyInv
    <3> QED BY <2>1, <3>2, <3>6, <3>7 DEF CopyInv
  <2> QED BY <2>2, <2>3
<1>4. ASSUME NEW p \in Refreshers, Note(p) \/ Read(p) \/ ReadFails(p) PROVE CopyInv'
  <2>1. /\ UNCHANGED <<file, enforced, astray>>
        /\ \A q \in Refreshers : q # p => refresh'[q] = refresh[q]
        /\ refresh'[p].at \in {"read", "install"} /\ refresh[p].at \in {"note", "read"}
        /\ noted' \in {noted, refresh[p].mtime}
        /\ refresh'[p].mtime \in {refresh[p].mtime, file.mtime, Nothing}
        /\ refresh'[p].at = "install" /\ refresh'[p].mtime = file.mtime => refresh'[p].got = file.terms
    <3>1. CASE Note(p)
      <4>1. refresh'[p] = [refresh[p] EXCEPT !.at = "read"] /\ noted' = refresh[p].mtime
        BY <1>0, <3>1 DEF Note
      <4>2. refresh'[p].at = "read" /\ refresh'[p].mtime = refresh[p].mtime
        BY <1>00, <4>1
      <4> QED BY <1>0, <3>1, <4>1, <4>2 DEF Note
    <3>2. CASE Read(p)
      BY <1>0, <3>2 DEF Read
    <3>3. CASE ReadFails(p)
      BY <1>0, <3>3, NothingAssumption DEF ReadFails
    <3> QED BY <1>4, <3>1, <3>2, <3>3
  <2>2. /\ noted' \in Nat => noted' <= file'.mtime
        /\ \A q \in Refreshers : /\ refresh'[q].mtime \in Nat => refresh'[q].mtime <= file'.mtime
                                 /\ refresh'[q].at = "install" /\ refresh'[q].mtime = file'.mtime
                                      => refresh'[q].got = file'.terms
    BY <1>0, <2>1, NothingAssumption DEF CopyInv
  <2>3. refresh'[Loop].at = "done" => Loop # p /\ refresh'[Loop] = refresh[Loop]
    BY <1>0, <2>1
  <2>4. Replacing => Replacing'
    BY <1>0, <2>1 DEF Replacing
  <2> QED BY <2>1, <2>2, <2>3, <2>4 DEF CopyInv, Current
<1>5. ASSUME NEW p \in Refreshers, Install(p) PROVE CopyInv'
  <2>1. /\ UNCHANGED <<file, noted>> /\ refresh[p].at = "install"
        /\ \A q \in Refreshers : q # p => refresh'[q] = refresh[q]
        /\ refresh'[p].at = "done" /\ refresh'[p].mtime = refresh[p].mtime
        /\ enforced' = refresh[p].got /\ astray' = (refresh[p].mtime # file.mtime)
    BY <1>0, <1>00, <1>5 DEF Install
  <2>2. Current'
    BY <2>1 DEF CopyInv, Current
  <2>3. \A q \in Refreshers : /\ refresh'[q].mtime \in Nat => refresh'[q].mtime <= file'.mtime
                              /\ refresh'[q].at = "install" /\ refresh'[q].mtime = file'.mtime
                                   => refresh'[q].got = file'.terms
    BY <2>1 DEF CopyInv
  <2> QED BY <2>1, <2>2, <2>3 DEF CopyInv
<1>6. ASSUME NEW p \in Refreshers, Begins(p), UNCHANGED <<file, noted, enforced, astray>> PROVE CopyInv'
  <2>1. /\ refresh[p].at = "rest" /\ refresh'[p].at = "stat" /\ refresh'[p].mtime = refresh[p].mtime
        /\ \A q \in Refreshers : q # p => refresh'[q] = refresh[q]
    BY <1>0, <1>00, <1>6 DEF Begins
  <2> QED BY <1>6, <2>1, CopyRests
<1>7. ASSUME NEW p \in Refreshers, refresh' = [refresh EXCEPT ![p] = Rest], refresh[p].at = "done",
             UNCHANGED <<file, noted, enforced, astray>>
      PROVE  CopyInv'
  <2>1. /\ refresh'[p].at = "rest" /\ refresh'[p].mtime = Nothing
        /\ \A q \in Refreshers : q # p => refresh'[q] = refresh[q]
    BY <1>0, <1>7 DEF Rest
  <2> QED BY <1>7, <2>1, CopyRests
<1>8. CASE Scan \/ Scanned
  BY <1>0, <1>6, <1>7, <1>8 DEF Scan, Scanned, Ends
<1>9. ASSUME NEW T \in SUBSET Terms, HandEdit(T) PROVE CopyInv'
  BY <1>9, CopyOutdated DEF HandEdit, gateLists
<1>10. ASSUME NEW e \in Editors, ServeSave(e) PROVE CopyInv'
  <2>1. file'.mtime = file.mtime + 1 /\ noted' = noted /\ Begins(Loop)
    BY <1>10 DEF ServeSave
  <2>2. \A q \in Refreshers : refresh'[q].mtime = refresh[q].mtime
    BY ZenonT(60), <1>0, <1>00, <2>1 DEF Begins
  <2> QED BY <2>1, <2>2, CopyOutdated
<1>11. ASSUME NEW e \in Editors, Load(e) \/ Loaded(e) \/ SaveServed(e) PROVE CopyInv'
  BY <1>0, <1>6, <1>7, <1>11 DEF Load, Loaded, SaveServed, Ends
<1>12. ASSUME NEW e \in Editors, \/ LoadFails(e) \/ Leave(e) \/ SaveDraft(e) \/ Revert(e)
                                \/ SaveTimesOut(e) \/ Receive(e) \/ SaveFails(e)
       PROVE  CopyInv'
  BY <1>2, <1>12 DEF LoadFails, Leave, SaveDraft, Revert, SaveTimesOut, Receive, SaveFails, gateLists
<1>13. ASSUME NEW e \in Editors, NEW t \in Terms, EditTerm(e, t) PROVE CopyInv'
  BY <1>2, <1>13 DEF EditTerm, gateLists
<1>14. CASE UNCHANGED listVars
  BY <1>2, <1>14 DEF listVars, gateLists
<1> QED BY <1>1, <1>3, <1>4, <1>5, <1>8, <1>9, <1>10, <1>11, <1>12, <1>13, <1>14 DEF ListNext, Refresh

\* SavedIsEnforced: a request is redacted with the list that was in the file when
\* it asked, unless a refresh on another thread overlaps it, or the last copy
\* was made by a read that failed or was overtaken (egress_proxy.py:
\* current_denylist, current_allowlist).
THEOREM SavedListIsEnforced == ShellSpec => []SavedIsEnforced
<1>1. ShellInit => ListsTyped /\ CopyInv
  <2> SUFFICES ASSUME ListInit PROVE ListsTyped /\ CopyInv
    BY DEF ShellInit, Init
  <2>1. Rest \in Copies /\ <<>> \in Seq(Saves) /\ Loop \in Refreshers
    BY DEF Rest, Copies, Stages, Refreshers
  <2>2. Fresh("away", {}) \in EditorStates
    BY DEF Fresh, EditorStates, Views
  <2>3. ListsTyped
    BY <2>1, <2>2 DEF ListInit, ListsTyped
  <2>4. CopyInv
    BY <2>1, NothingAssumption DEF ListInit, CopyInv, Rest
  <2> QED BY <2>3, <2>4
<1>2. ListsTyped /\ CopyInv /\ [ShellNext]_shellVars => (ListsTyped /\ CopyInv)'
  BY ListSteps, ListTypesStay, CopyStays
<1>3. CopyInv => SavedIsEnforced
  BY DEF CopyInv, Current, SavedIsEnforced
<1> QED BY <1>1, <1>2, <1>3, PTL DEF ShellSpec

-----------------------------------------------------------------------------
(* Folds *)

\* A set that has zero and every successor has all.
LEMMA AllNumbers ==
  ASSUME NEW G, 0 \in G, \A k \in Nat : k \in G => k + 1 \in G
  PROVE  \A k \in Nat : k \in G
<1> DEFINE R == OpToRel(<, Nat)
           T == {k \in Nat : k \notin G}
<1>1. SUFFICES ASSUME T # {} PROVE FALSE
  OBVIOUS
<1>2. PICK k \in T : \A y \in T : ~ (<<y, k>> \in R)
  <2>1. IsWellFoundedOn(R, Nat) /\ T \subseteq Nat
    BY NatLessThanWellFounded
  <2> HIDE DEF R, T
  <2> QED BY <1>1, <2>1, WFMin
<1>3. k # 0
  OBVIOUS
<1>4. k - 1 \in Nat /\ k - 1 < k /\ (k - 1) + 1 = k
  BY <1>3
<1>5. k - 1 \in G
  BY <1>2, <1>4 DEF OpToRel
<1> QED BY <1>4, <1>5

\* A bounded rank has a largest value.
LEMMA LargestRank ==
  ASSUME NEW S, S # {}, NEW rank \in [S -> Nat], NEW n \in Nat, \A s \in S : rank[s] <= n
  PROVE  \E s \in S : \A t \in S : rank[t] <= rank[s]
<1> DEFINE R == OpToRel(<, Nat)
           T == {n - rank[s] : s \in S}
<1>1. \A s \in S : n - rank[s] \in Nat
  OBVIOUS
<1>2. PICK k \in T : \A y \in T : ~ (<<y, k>> \in R)
  <2>1. IsWellFoundedOn(R, Nat) /\ T \subseteq Nat /\ T # {}
    BY <1>1, NatLessThanWellFounded
  <2> HIDE DEF R, T
  <2> QED BY <2>1, WFMin
<1>3. PICK s \in S : k = n - rank[s]
  OBVIOUS
<1>4. \A t \in S : ~(n - rank[t] < n - rank[s])
  BY <1>1, <1>2, <1>3 DEF OpToRel
<1> QED BY <1>4

LEMMA MaxIsLargest ==
  ASSUME NEW n \in Nat, NEW R \in SUBSET (1 .. n), R # {}
  PROVE  Max(R) \in R /\ \A y \in R : y <= Max(R)
<1> DEFINE rank == [s \in R |-> s]
<1>1. rank \in [R -> Nat] /\ \A s \in R : rank[s] <= n
  OBVIOUS
<1> HIDE DEF rank
<1>2. \E s \in R : \A t \in R : rank[t] <= rank[s]
  BY <1>1, LargestRank
<1>3. \E s \in R : \A t \in R : s >= t
  BY <1>2 DEF rank
<1> QED BY <1>3 DEF Max

\* What holds of a set once it holds of its proper subsets holds of all.
LEMMA AllSubsets ==
  ASSUME NEW S, IsFiniteSet(S), NEW G,
         \A R \in SUBSET S : (\A Q \in SUBSET R : Q # R => Q \in G) => R \in G
  PROVE  \A R \in SUBSET S : R \in G
<1> DEFINE Z == {k \in Nat : \A R \in SUBSET S : Cardinality(R) <= k => R \in G}
<1>1. \A R \in SUBSET S : IsFiniteSet(R) /\ Cardinality(R) \in Nat
  BY FS_Subset, FS_CardinalityType
<1>2. \A R \in SUBSET S : \A Q \in SUBSET R : Q # R => Cardinality(Q) < Cardinality(R)
  <2> TAKE R \in SUBSET S
  <2> TAKE Q \in SUBSET R
  <2>1. Cardinality(Q) <= Cardinality(R) /\ (Cardinality(Q) = Cardinality(R) => Q = R)
    BY <1>1, FS_Subset
  <2>2. Q \in SUBSET S
    OBVIOUS
  <2> QED BY <1>1, <2>1, <2>2
<1>3. 0 \in Z
  <2>1. ASSUME NEW R \in SUBSET S, Cardinality(R) <= 0 PROVE R \in G
    BY <1>1, <1>2, <2>1
  <2> QED BY <2>1
<1>4. ASSUME NEW k \in Nat, k \in Z PROVE k + 1 \in Z
  <2>1. ASSUME NEW R \in SUBSET S, Cardinality(R) <= k + 1 PROVE R \in G
    <3>1. ASSUME NEW Q \in SUBSET R, Q # R PROVE Q \in G
      <4>1. Q \in SUBSET S /\ Cardinality(Q) <= k
        BY <1>1, <1>2, <2>1, <3>1
      <4> QED BY <1>4, <4>1
    <3> QED BY <3>1
  <2> QED BY <2>1
<1>5. \A k \in Nat : k \in Z
  <2> HIDE DEF Z
  <2> QED BY <1>3, <1>4, AllNumbers
<1> QED BY <1>1, <1>5

\* A fold over a finite set that stays among X.
FoldStays(S, X, b, pick, step) ==
  \E f \in [SUBSET S -> X] :
    \A R \in SUBSET S : f[R] = IF R = {} THEN b ELSE step[<<f[R \ {pick[R]}], pick[R]>>]

LEMMA FoldExists ==
  ASSUME NEW S, IsFiniteSet(S), NEW X, NEW b \in X,
         NEW pick, \A R \in SUBSET S : R # {} => pick[R] \in R,
         NEW step, \A x \in X, s \in S : step[<<x, s>>] \in X
  PROVE  FoldStays(S, X, b, pick, step)
<1> DEFINE Upto(k) == {R \in SUBSET S : Cardinality(R) <= k}
           Value(f, R) == IF R = {} THEN b ELSE step[<<f[R \ {pick[R]}], pick[R]>>]
           Solves(f, k) == f \in [Upto(k) -> X] /\ \A R \in Upto(k) : f[R] = Value(f, R)
           G == {k \in Nat : \E f : Solves(f, k)}
<1>1. \A R \in SUBSET S : IsFiniteSet(R) /\ Cardinality(R) \in Nat /\ (Cardinality(R) = 0 <=> R = {})
  BY FS_Subset, FS_CardinalityType, FS_EmptySet
<1>2. \A R \in SUBSET S, k \in Nat : Cardinality(R) <= k + 1 /\ R # {}
                                      => R \ {pick[R]} \in Upto(k) /\ pick[R] \in S
  <2> TAKE R \in SUBSET S, k \in Nat
  <2> HAVE Cardinality(R) <= k + 1 /\ R # {}
  <2>1. Cardinality(R \ {pick[R]}) = Cardinality(R) - 1
    BY <1>1, FS_RemoveElement
  <2> QED BY <1>1, <2>1
<1>3. 0 \in G
  <2>1. \A R \in Upto(0) : R = {}
    BY <1>1
  <2>2. Solves([R \in Upto(0) |-> b], 0)
    BY <2>1
  <2> QED BY <2>2
<1>4. ASSUME NEW k \in Nat, k \in G PROVE k + 1 \in G
  <2>1. PICK g : Solves(g, k)
    BY <1>4
  <2> DEFINE f == [R \in Upto(k + 1) |-> IF R \in Upto(k) THEN g[R] ELSE Value(g, R)]
  <2>2. ASSUME NEW R \in Upto(k + 1) PROVE Value(f, R) = Value(g, R) /\ f[R] = Value(g, R) /\ f[R] \in X
    <3>1. R # {} => R \ {pick[R]} \in Upto(k) /\ R \ {pick[R]} \in Upto(k + 1) /\ pick[R] \in S
      BY <1>1, <1>2
    <3>2. R # {} => f[R \ {pick[R]}] = g[R \ {pick[R]}] /\ g[R \ {pick[R]}] \in X
      BY <2>1, <3>1
    <3>3. Value(g, R) \in X /\ Value(f, R) = Value(g, R)
      <4> HIDE DEF f, Upto
      <4> QED BY <3>1, <3>2
    <3>4. R \in Upto(k) => g[R] = Value(g, R)
      BY <2>1
    <3> HIDE DEF Value, Solves
    <3> QED BY <3>3, <3>4
  <2>3. f \in [Upto(k + 1) -> X]
    <3> HIDE DEF Upto, Value
    <3> QED BY <2>2
  <2>4. Solves(f, k + 1)
    <3> HIDE DEF f, Upto, Value
    <3> QED BY <2>2, <2>3
  <2> HIDE DEF Solves
  <2> QED BY <2>4
<1>5. \A k \in Nat : k \in G
  <2> HIDE DEF G
  <2> QED BY <1>3, <1>4, AllNumbers
<1>6. PICK f : Solves(f, Cardinality(S))
  BY <1>1, <1>5
<1>7. Upto(Cardinality(S)) = SUBSET S
  BY FS_Subset
<1> QED BY <1>6, <1>7 DEF FoldStays

\* A sequence of the members of S, each once, by their rank.
Lists(list, S, rank) ==
  /\ list \in Seq(S)
  /\ \A s \in S : \E i \in 1 .. Len(list) : list[i] = s
  /\ \A i, j \in 1 .. Len(list) : i < j => list[i] # list[j] /\ rank[list[i]] <= rank[list[j]]

LEMMA ListGoesOn ==
  ASSUME NEW S, NEW T, T \subseteq S, NEW rank \in [S -> Nat], NEW s \in S \ T, \A t \in T : rank[t] <= rank[s],
         NEW list, Lists(list, T, rank)
  PROVE  Lists(Append(list, s), T \cup {s}, rank)
<1> DEFINE k == Len(list)
           new == Append(list, s)
           U == T \cup {s}
<1>1. list \in Seq(U) /\ k \in Nat /\ \A i \in 1 .. k : list[i] \in T
  <2>1. list \in Seq(T) /\ T \subseteq U
    BY DEF Lists
  <2> HIDE DEF U
  <2> QED BY <2>1
<1>2. new \in Seq(U) /\ Len(new) = k + 1 /\ new[k + 1] = s /\ \A i \in 1 .. k : new[i] = list[i]
  <2>1. s \in U
    OBVIOUS
  <2> HIDE DEF U
  <2> QED BY <1>1, <2>1
<1> HIDE DEF new, U
<1>3. ASSUME NEW t \in U PROVE \E i \in 1 .. k + 1 : new[i] = t
  <2>1. CASE t = s
    BY <1>1, <1>2, <2>1
  <2>2. CASE t # s
    <3>1. PICK i \in 1 .. k : list[i] = t
      BY <2>2 DEF U, Lists
    <3>2. i \in 1 .. k + 1 /\ new[i] = t
      BY <1>1, <1>2, <3>1
    <3> QED BY <3>2
  <2> QED BY <2>1, <2>2
<1>4. ASSUME NEW i \in 1 .. k + 1, NEW j \in 1 .. k + 1, i < j
      PROVE  new[i] # new[j] /\ rank[new[i]] <= rank[new[j]]
  <2>1. i \in 1 .. k /\ new[i] = list[i] /\ list[i] \in T
    BY <1>1, <1>2, <1>4
  <2>2. CASE j = k + 1
    BY <1>2, <2>1, <2>2
  <2>3. CASE j # k + 1
    <3>1. j \in 1 .. k /\ new[j] = list[j]
      BY <1>1, <1>2, <2>3
    <3> QED BY <1>4, <2>1, <3>1 DEF Lists
  <2> QED BY <2>2, <2>3
<1> QED BY <1>2, <1>3, <1>4 DEF Lists, new, U

\* A sorted set is such a sequence.
LEMMA RankedLists ==
  ASSUME NEW S, IsFiniteSet(S), NEW rank \in [S -> Nat], NEW n \in Nat, \A s \in S : rank[s] <= n
  PROVE  Lists(Ranked(S, rank), S, rank)
<1> DEFINE last(R) == CHOOSE s \in R : \A t \in R : rank[t] <= rank[s]
           Value(g, R) == IF R = {} THEN <<>> ELSE Append(g[R \ {last(R)}], last(R))
           Solves(g) == g = [R \in SUBSET S |-> Value(g, R)]
           iter == CHOOSE g : Solves(g)
           pick == [R \in SUBSET S |-> last(R)]
           step == [p \in Seq(S) \X S |-> Append(p[1], p[2])]
<1>1. Ranked(S, rank) = iter[S]
  BY DEF Ranked, MapThenFoldSet
<1>2. \A R \in SUBSET S : R # {} => last(R) \in R
  <2> TAKE R \in SUBSET S
  <2> HAVE R # {}
  <2> DEFINE r == [s \in R |-> rank[s]]
  <2>1. r \in [R -> Nat] /\ \A s \in R : r[s] <= n
    OBVIOUS
  <2> HIDE DEF r
  <2>2. \E s \in R : \A t \in R : r[t] <= r[s]
    BY <2>1, LargestRank
  <2>3. \E s \in R : \A t \in R : rank[t] <= rank[s]
    BY <2>2 DEF r
  <2> QED BY <2>3
<1>3. <<>> \in Seq(S) /\ \A x \in Seq(S), s \in S : step[<<x, s>>] = Append(x, s) /\ Append(x, s) \in Seq(S)
  OBVIOUS
<1>4. PICK f \in [SUBSET S -> Seq(S)] :
        \A R \in SUBSET S : f[R] = IF R = {} THEN <<>> ELSE step[<<f[R \ {pick[R]}], pick[R]>>]
  <2>1. \A R \in SUBSET S : R # {} => pick[R] \in R
    BY <1>2
  <2>2. \A x \in Seq(S), s \in S : step[<<x, s>>] \in Seq(S)
    BY <1>3
  <2> DEFINE X == Seq(S)
             b == <<>>
  <2>3. b \in X /\ \A x \in X, s \in S : step[<<x, s>>] \in X
    BY <1>3, <2>2
  <2> HIDE DEF pick, step, X, b
  <2>4. FoldStays(S, X, b, pick, step)
    BY <2>1, <2>3, FoldExists
  <2> QED BY <2>4 DEF FoldStays, X, b
<1>5. Solves(f)
  <2>1. ASSUME NEW R \in SUBSET S PROVE f[R] = Value(f, R)
    <3>1. pick[R] = last(R) /\ (R # {} => last(R) \in S /\ R \ {last(R)} \in SUBSET S)
      BY <1>2
    <3> HIDE DEF pick, step, last
    <3> QED BY <1>3, <1>4, <3>1
  <2> HIDE DEF Value
  <2> QED BY <2>1
<1>6. Solves(iter)
  <2> HIDE DEF Solves
  <2> QED BY <1>5
<1>7. \A R \in SUBSET S : iter[R] = Value(iter, R)
  <2> HIDE DEF iter, Value
  <2> QED BY <1>6
<1>20. \A R \in SUBSET S : R # {} => \A t \in R : rank[t] <= rank[last(R)]
  <2> TAKE R \in SUBSET S
  <2> HAVE R # {}
  <2> DEFINE r == [s \in R |-> rank[s]]
  <2>1. r \in [R -> Nat] /\ \A s \in R : r[s] <= n
    OBVIOUS
  <2> HIDE DEF r
  <2>2. \E s \in R : \A t \in R : r[t] <= r[s]
    BY <2>1, LargestRank
  <2>3. \E s \in R : \A t \in R : rank[t] <= rank[s]
    BY <2>2 DEF r
  <2> QED BY <2>3
<1> HIDE DEF iter, last
<1> DEFINE G == {R \in SUBSET S : Lists(iter[R], R, rank)}
<1>8. ASSUME NEW R \in SUBSET S, \A Q \in SUBSET R : Q # R => Q \in G PROVE R \in G
  <2>1. CASE R = {}
    <3>1. iter[R] = <<>>
      BY <1>7, <2>1
    <3> DEFINE e == <<>>
    <3>2. e \in Seq(R) /\ 1 .. Len(e) = {}
      OBVIOUS
    <3> HIDE DEF e
    <3>3. Lists(e, R, rank)
      BY <2>1, <3>2 DEF Lists
    <3> QED BY <3>1, <3>3 DEF e
  <2>2. CASE R # {}
    <3> DEFINE T == R \ {last(R)}
    <3>1. last(R) \in R /\ T \in G
      BY <1>2, <1>8, <2>2
    <3>2. last(R) \in S \ T /\ T \subseteq S /\ Lists(iter[T], T, rank) /\ \A t \in T : rank[t] <= rank[last(R)]
      BY <1>20, <2>2, <3>1
    <3>3. iter[R] = Append(iter[T], last(R)) /\ R = T \cup {last(R)}
      BY <1>7, <2>2, <3>1
    <3> HIDE DEF T
    <3>4. Lists(Append(iter[T], last(R)), T \cup {last(R)}, rank)
      BY <3>2, ListGoesOn
    <3> QED BY <3>3, <3>4
  <2> QED BY <2>1, <2>2
<1>9. \A R \in SUBSET S : R \in G
  <2> HIDE DEF G
  <2> QED BY <1>8, AllSubsets
<1> QED BY <1>1, <1>9

-----------------------------------------------------------------------------
(* The sweep *)

\* A value that begins at place i of a text.
Reads(tokens, i, e, exact) ==
  /\ i + Len(e.value) - 1 <= Len(tokens)
  /\ \A j \in 1 .. Len(e.value) :
       LET t == tokens[i + j - 1] IN
         Len(t) = 1 /\ (IF exact THEN t[1] = e.value[j] ELSE Fold[t[1]] = Fold[e.value[j]])

IsText(s) == Len(s) \in Nat /\ s = [i \in 1 .. Len(s) |-> s[i]]
AreValues(known) == \A e \in known : Len(e.value) \in Nat \ {0} /\ Len(e.ph) = 2

LEMMA KnownThere ==
  ASSUME NEW tokens, IsText(tokens), NEW known, AreValues(known), NEW i \in Nat \ {0}, NEW exact
  PROVE  /\ KnownAt(tokens, i, known, exact) \subseteq {e \in known : Reads(tokens, i, e, exact)}
         /\ KnownAt(tokens, i, known, exact) = {} => \A e \in known : ~Reads(tokens, i, e, exact)
<1> DEFINE S == {e \in known : Reads(tokens, i, e, exact)}
           rank == [e \in S |-> Len(e.value)]
<1>1. KnownAt(tokens, i, known, exact) = {e \in S : \A f \in S : Len(f.value) <= Len(e.value)}
  BY DEF KnownAt, Reads
<1>2. ASSUME S # {} PROVE \E e \in S : \A f \in S : Len(f.value) <= Len(e.value)
  <2>1. rank \in [S -> Nat] /\ \A e \in S : rank[e] <= Len(tokens)
    BY DEF Reads, AreValues, IsText
  <2>2. \E e \in S : \A f \in S : rank[f] <= rank[e]
    <3> HIDE DEF S, rank
    <3> QED BY <1>2, <2>1, LargestRank DEF IsText
  <2> QED BY <2>2
<1> QED BY <1>1, <1>2

\* One step of the pass, from place i on.
Swept(tokens, known, exact, f, i) ==
  IF i > Len(tokens) THEN <<>>
  ELSE LET hits == KnownAt(tokens, i, known, exact) IN
       IF hits = {} THEN <<tokens[i]>> \o f[i + 1]
       ELSE LET e == CHOOSE e \in hits : TRUE IN <<e.ph>> \o f[i + Len(e.value)]

\* Where the pass goes on after place i, and what it has written there.
GoesTo(tokens, known, exact, i) ==
  LET hits == KnownAt(tokens, i, known, exact)
  IN IF hits = {} THEN i + 1 ELSE i + Len((CHOOSE e \in hits : TRUE).value)
Wrote(tokens, known, exact, i) ==
  LET hits == KnownAt(tokens, i, known, exact)
  IN IF hits = {} THEN tokens[i] ELSE (CHOOSE e \in hits : TRUE).ph

LEMMA SweptGoesOn ==
  ASSUME NEW tokens, IsText(tokens), NEW known, AreValues(known), NEW exact, NEW i \in 1 .. Len(tokens)
  PROVE  /\ GoesTo(tokens, known, exact, i) \in i + 1 .. Len(tokens) + 1
         /\ \A f : Swept(tokens, known, exact, f, i)
                     = <<Wrote(tokens, known, exact, i)>> \o f[GoesTo(tokens, known, exact, i)]
         /\ KnownAt(tokens, i, known, exact) # {} => Len(Wrote(tokens, known, exact, i)) = 2
<1> DEFINE hits == KnownAt(tokens, i, known, exact)
           e == CHOOSE e \in hits : TRUE
<1>1. hits # {} => e \in hits
  OBVIOUS
<1>2. hits # {} => e \in known /\ i + Len(e.value) - 1 <= Len(tokens) /\ Len(e.value) \in Nat \ {0} /\ Len(e.ph) = 2
  <2>1. i \in Nat \ {0}
    BY DEF IsText
  <2>2. hits \subseteq {d \in known : Reads(tokens, i, d, exact)}
    BY <2>1, KnownThere
  <2> HIDE DEF hits, e
  <2> QED BY <1>1, <2>2 DEF Reads, AreValues
<1>3. Len(tokens) \in Nat /\ i \in Nat
  BY DEF IsText
<1>4. GoesTo(tokens, known, exact, i) = (IF hits = {} THEN i + 1 ELSE i + Len(e.value))
  BY DEF GoesTo
<1>5. Wrote(tokens, known, exact, i) = (IF hits = {} THEN tokens[i] ELSE e.ph)
  BY DEF Wrote
<1>6. \A f : Swept(tokens, known, exact, f, i) =
               (IF hits = {} THEN <<tokens[i]>> \o f[i + 1] ELSE <<e.ph>> \o f[i + Len(e.value)])
  BY <1>3 DEF Swept
<1> HIDE DEF hits, e
<1>7. GoesTo(tokens, known, exact, i) \in i + 1 .. Len(tokens) + 1
  BY <1>2, <1>3, <1>4
<1>8. hits = {} \/ hits # {}
  OBVIOUS
<1> QED BY <1>2, <1>4, <1>5, <1>6, <1>7, <1>8 DEF hits

\* A set that has i whenever it has all that follows has all.
LEMMA Backwards ==
  ASSUME NEW n \in Nat, NEW S,
         \A i \in 1 .. n : (\A j \in i + 1 .. n : j \in S) => i \in S
  PROVE  \A i \in 1 .. n : i \in S
<1> DEFINE G == {k \in Nat : \A i \in 1 .. n : i > n - k => i \in S}
<1>1. 0 \in G
  OBVIOUS
<1>2. ASSUME NEW k \in Nat, k \in G PROVE k + 1 \in G
  <2>1. ASSUME NEW i \in 1 .. n, i > n - (k + 1) PROVE i \in S
    <3>1. \A j \in i + 1 .. n : j \in 1 .. n /\ j > n - k
      BY <2>1
    <3> QED BY <1>2, <3>1
  <2> QED BY <2>1
<1>3. n \in G
  <2> HIDE DEF G
  <2> QED BY <1>1, <1>2, AllNumbers
<1> QED BY <1>3

LEMMA PassExists ==
  ASSUME NEW tokens, IsText(tokens), NEW known, AreValues(known), NEW exact
  PROVE  \E from : /\ from = [i \in 1 .. Len(tokens) + 1 |-> Swept(tokens, known, exact, from, i)]
                   /\ SweepPass(tokens, known, exact) = from[1]
<1> DEFINE n == Len(tokens) + 1
           Solves(f, m) == f = [i \in m .. n |-> Swept(tokens, known, exact, f, i)]
           S == {m \in 1 .. n : \E f : Solves(f, m)}
<1>1. n \in Nat /\ Len(tokens) \in Nat
  BY DEF IsText
<1>2. ASSUME NEW m \in 1 .. n, \A j \in m + 1 .. n : j \in S PROVE m \in S
  <2>1. CASE m = n
    <3> DEFINE f == [i \in m .. n |-> <<>>]
    <3>1. \A i \in m .. n : Swept(tokens, known, exact, f, i) = <<>>
      BY <1>1, <2>1 DEF Swept
    <3>2. Solves(f, m)
      BY <3>1
    <3> QED BY <3>2
  <2>2. CASE m < n
    <3>1. m + 1 \in S
      <4>1. m + 1 \in m + 1 .. n
        BY <1>1, <2>2
      <4> HIDE DEF S, n
      <4> QED BY <1>2, <4>1
    <3>2. PICK g : Solves(g, m + 1)
      BY <3>1
    <3> DEFINE f == [i \in m .. n |-> IF i = m THEN Swept(tokens, known, exact, g, m) ELSE g[i]]
    <3>3. \A i \in m + 1 .. n : f[i] = g[i] /\ g[i] = Swept(tokens, known, exact, g, i)
      BY <3>2
    <3>4. ASSUME NEW i \in m .. n PROVE Swept(tokens, known, exact, f, i) = Swept(tokens, known, exact, g, i)
      <4>1. CASE i > Len(tokens)
        BY <4>1 DEF Swept
      <4>2. CASE ~(i > Len(tokens))
        <5>1. i \in 1 .. Len(tokens)
          BY <1>1, <4>2
        <5> DEFINE k == GoesTo(tokens, known, exact, i)
        <5>2. /\ k \in i + 1 .. Len(tokens) + 1
              /\ \A h : Swept(tokens, known, exact, h, i) = <<Wrote(tokens, known, exact, i)>> \o h[k]
          BY <5>1, SweptGoesOn
        <5> HIDE DEF k
        <5>3. k \in m + 1 .. n
          BY <1>1, <5>1, <5>2
        <5>4. f[k] = g[k]
          BY <3>3, <5>3
        <5> HIDE DEF f
        <5> QED BY <5>2, <5>4
      <4> QED BY <4>1, <4>2
    <3>5. \A i \in m .. n : f[i] = Swept(tokens, known, exact, f, i)
      <4>1. f[m] = Swept(tokens, known, exact, g, m)
        BY <1>1
      <4>2. \A i \in m .. n : i = m \/ i \in m + 1 .. n
        BY <1>1
      <4> QED BY <3>3, <3>4, <4>1, <4>2
    <3>6. Solves(f, m)
      <4>1. f = [i \in m .. n |-> f[i]]
        OBVIOUS
      <4> HIDE DEF f
      <4> QED BY <3>5, <4>1
    <3> QED BY <3>6
  <2> QED BY <1>1, <2>1, <2>2
<1>3. 1 \in S
  <2>1. 1 \in 1 .. n
    BY <1>1
  <2> HIDE DEF S
  <2> QED BY <1>1, <1>2, <2>1, Backwards
<1>4. PICK g : Solves(g, 1)
  BY <1>3
<1> DEFINE from == CHOOSE f : Solves(f, 1)
<1>5. Solves(from, 1)
  <2> HIDE DEF Solves
  <2> QED BY <1>4
<1>6. SweepPass(tokens, known, exact) = from[1]
  BY DEF SweepPass, Swept
<1> HIDE DEF from
<1> QED BY <1>5, <1>6

\* What the pass writes from place i on: each place of it was written at one
\* place of the text, and the words it begins with are those of the text, where
\* no known value begins.
Suffix(tokens, known, exact, from, i) ==
  LET out == from[i]
      n == Len(tokens)
  IN /\ IsText(out)
     /\ \A p \in 1 .. Len(out) : \E k \in i .. n :
          /\ Len(from[k]) = Len(out) - p + 1
          /\ \A j \in 1 .. Len(from[k]) : from[k][j] = out[p + j - 1]
     /\ \A l \in 1 .. Len(out) : (\A j \in 1 .. l : Len(out[j]) = 1) =>
          /\ i + l - 1 <= n /\ \A j \in 1 .. l : out[j] = tokens[i + j - 1]
          /\ KnownAt(tokens, i, known, exact) = {}

LEMMA PutBefore ==
  ASSUME NEW w, NEW r, IsText(r)
  PROVE  LET s == <<w>> \o r
         IN IsText(s) /\ Len(s) = Len(r) + 1 /\ s[1] = w /\ \A j \in 1 .. Len(r) : s[j + 1] = r[j]
<1> DEFINE T == {r[i] : i \in 1 .. Len(r)} \cup {w}
           s == <<w>> \o r
           n == Len(r)
<1>1. n \in Nat /\ r = [i \in 1 .. n |-> r[i]] /\ \A i \in 1 .. n : r[i] \in T
  BY DEF IsText
<1>2. r \in Seq(T)
  <2> HIDE DEF T, n
  <2> QED BY <1>1
<1>3. <<w>> \in Seq(T) /\ Len(<<w>>) = 1 /\ <<w>>[1] = w
  OBVIOUS
<1> HIDE DEF T
<1>4. s \in Seq(T) /\ Len(s) = n + 1 /\ s[1] = w /\ \A j \in 1 .. n : s[j + 1] = r[j]
  BY <1>1, <1>2, <1>3
<1>5. IsText(s)
  <2> HIDE DEF s
  <2> QED BY <1>4 DEF IsText
<1> QED BY <1>4, <1>5

LEMMA SuffixOf ==
  ASSUME NEW tokens, IsText(tokens), NEW known, AreValues(known), NEW exact, NEW from,
         from = [i \in 1 .. Len(tokens) + 1 |-> Swept(tokens, known, exact, from, i)]
  PROVE  \A i \in 1 .. Len(tokens) + 1 : Suffix(tokens, known, exact, from, i)
<1> DEFINE n == Len(tokens)
           S == {i \in 1 .. n + 1 : Suffix(tokens, known, exact, from, i)}
<1>1. n \in Nat /\ n + 1 \in Nat
  BY DEF IsText
<1>2. \A i \in 1 .. n + 1 : from[i] = Swept(tokens, known, exact, from, i)
  OBVIOUS
<1>3. ASSUME NEW i \in 1 .. n + 1, \A j \in i + 1 .. n + 1 : j \in S PROVE i \in S
  <2> DEFINE out == from[i]
  <2>1. CASE i = n + 1
    <3>1. out = <<>>
      BY <1>1, <1>2, <2>1 DEF Swept
    <3>2. Len(out) = 0 /\ IsText(out) /\ 1 .. 0 = {}
      BY <3>1 DEF IsText
    <3> HIDE DEF out
    <3> QED BY <3>2 DEF Suffix, out
  <2>2. CASE i # n + 1
    <3>1. i \in 1 .. n /\ i \in Nat
      BY <1>1, <2>2
    <3> DEFINE k == GoesTo(tokens, known, exact, i)
               w == Wrote(tokens, known, exact, i)
               r == from[k]
               none == KnownAt(tokens, i, known, exact) = {}
    <3>20. /\ k \in i + 1 .. n + 1 /\ (~none => Len(w) = 2)
           /\ \A f : Swept(tokens, known, exact, f, i) = <<w>> \o f[k]
      BY <3>1, SweptGoesOn
    <3>21. from[i] = Swept(tokens, known, exact, from, i)
      BY <1>2
    <3>2. k \in i + 1 .. n + 1 /\ out = <<w>> \o r /\ (~none => Len(w) = 2)
      <4> HIDE DEF k, w, none
      <4> QED BY <3>20, <3>21
    <3>3. none => k = i + 1 /\ w = tokens[i]
      BY DEF GoesTo, Wrote
    <3> HIDE DEF k, w, none, S
    <3>4. k \in S
      BY <1>3, <3>2
    <3>5. Suffix(tokens, known, exact, from, k)
      BY <3>4 DEF S
    <3>6. /\ IsText(r)
          /\ \A p \in 1 .. Len(r) : \E m \in k .. n :
               /\ Len(from[m]) = Len(r) - p + 1
               /\ \A j \in 1 .. Len(from[m]) : from[m][j] = r[p + j - 1]
          /\ \A l \in 1 .. Len(r) : (\A j \in 1 .. l : Len(r[j]) = 1) =>
               k + l - 1 <= n /\ \A j \in 1 .. l : r[j] = tokens[k + j - 1]
      BY <3>5 DEF Suffix
    <3> HIDE DEF out, r
    <3>7. IsText(out) /\ Len(out) = Len(r) + 1 /\ out[1] = w /\ \A j \in 1 .. Len(r) : out[j + 1] = r[j]
      BY <3>2, <3>6, PutBefore
    <3>8. Len(r) \in Nat /\ k \in Nat
      BY <1>1, <3>1, <3>2, <3>6 DEF IsText
    <3>9. ASSUME NEW p \in 1 .. Len(out)
          PROVE  \E m \in i .. n : /\ Len(from[m]) = Len(out) - p + 1
                                   /\ \A j \in 1 .. Len(from[m]) : from[m][j] = out[p + j - 1]
      <4>1. CASE p = 1
        <5>1. from[i] = out /\ i \in i .. n /\ Len(out) = Len(out) - p + 1
          BY <3>1, <3>7, <3>8, <4>1 DEF out
        <5>2. \A j \in 1 .. Len(out) : p + j - 1 = j
          BY <3>7, <3>8, <4>1
        <5> QED BY <5>1, <5>2
      <4>2. CASE p # 1
        <5>1. p - 1 \in 1 .. Len(r)
          BY <3>7, <3>8, <4>2
        <5>2. PICK m \in k .. n : /\ Len(from[m]) = Len(r) - (p - 1) + 1
                                  /\ \A j \in 1 .. Len(from[m]) : from[m][j] = r[p - 1 + j - 1]
          BY <3>6, <5>1
        <5>3. m \in i .. n /\ Len(from[m]) = Len(out) - p + 1
          BY <1>1, <3>1, <3>2, <3>7, <3>8, <5>1, <5>2
        <5>4. ASSUME NEW j \in 1 .. Len(from[m]) PROVE from[m][j] = out[p + j - 1]
          <6>1. p + j - 2 \in 1 .. Len(r) /\ (p + j - 2) + 1 = p + j - 1 /\ p - 1 + j - 1 = p + j - 2
            <7> DEFINE a == Len(r)
                       b == Len(from[m])
            <7>1. a \in Nat /\ p - 1 \in 1 .. a /\ b = a - (p - 1) + 1 /\ j \in 1 .. b
              BY <3>8, <5>1, <5>2
            <7> HIDE DEF a, b
            <7>2. p \in Int /\ j \in Int /\ p + j - 2 \in 1 .. a
              BY <7>1
            <7> QED BY <7>2 DEF a
          <6>2. out[(p + j - 2) + 1] = r[p + j - 2]
            BY <3>7, <6>1
          <6> QED BY <5>2, <6>1, <6>2
        <5> QED BY <5>3, <5>4
      <4> QED BY <4>1, <4>2
    <3>10. ASSUME NEW l \in 1 .. Len(out), \A j \in 1 .. l : Len(out[j]) = 1
           PROVE  /\ i + l - 1 <= n /\ \A j \in 1 .. l : out[j] = tokens[i + j - 1]
                  /\ none
      <4>1. l \in Nat /\ l >= 1 /\ 1 \in 1 .. l
        BY <3>7, <3>8
      <4>2. none
        <5>1. Len(w) = 1
          BY <3>7, <3>10, <4>1
        <5>2. Len(w) # 2
          BY <5>1
        <5> QED BY <3>2, <5>2
      <4>3. k = i + 1 /\ out[1] = tokens[i]
        BY <3>3, <3>7, <4>2
      <4>4. CASE l = 1
        BY <3>1, <4>2, <4>3, <4>4
      <4>5. CASE l # 1
        <5>1. l - 1 \in 1 .. Len(r)
          BY <3>7, <3>8, <4>1, <4>5
        <5>2. \A j \in 1 .. l - 1 : j + 1 \in 1 .. l /\ j \in 1 .. Len(r) /\ r[j] = out[j + 1]
          BY <3>7, <3>8, <5>1
        <5>3. \A j \in 1 .. l - 1 : Len(r[j]) = 1
          BY <3>10, <5>2
        <5>4. k + (l - 1) - 1 <= n /\ \A j \in 1 .. l - 1 : r[j] = tokens[k + j - 1]
          BY <3>6, <5>1, <5>3
        <5>5. ASSUME NEW j \in 1 .. l PROVE out[j] = tokens[i + j - 1]
          <6>1. CASE j = 1
            BY <3>1, <4>3, <6>1
          <6>2. CASE j # 1
            <7>1. j - 1 \in 1 .. l - 1 /\ (j - 1) + 1 = j /\ k + (j - 1) - 1 = i + j - 1
              BY <3>1, <4>1, <4>3, <6>2
            <7> QED BY <5>2, <5>4, <7>1
          <6> QED BY <6>1, <6>2
        <5> QED BY <1>1, <3>1, <4>1, <4>2, <4>3, <5>4, <5>5
      <4> QED BY <4>4, <4>5
    <3> QED BY <3>7, <3>9, <3>10 DEF Suffix, out, S, none
  <2> QED BY <2>1, <2>2
<1>4. \A i \in 1 .. n + 1 : i \in S
  <2> HIDE DEF S, n
  <2> QED BY <1>1, <1>3, Backwards
<1> QED BY <1>4

\* After a pass no value it knows can be read, and what can be read could be
\* before.
LEMMA PassIsClean ==
  ASSUME NEW tokens, IsText(tokens), NEW known, AreValues(known), NEW exact
  PROVE  LET out == SweepPass(tokens, known, exact)
         IN /\ IsText(out)
            /\ \A i \in 1 .. Len(out), e \in known : ~Reads(out, i, e, exact)
            /\ \A e, x : \A i \in 1 .. Len(out) : Len(e.value) \in Nat \ {0} /\ Reads(out, i, e, x)
                                               => \E k \in 1 .. Len(tokens) : Reads(tokens, k, e, x)
<1>1. PICK from : /\ from = [i \in 1 .. Len(tokens) + 1 |-> Swept(tokens, known, exact, from, i)]
                  /\ SweepPass(tokens, known, exact) = from[1]
  BY PassExists
<1> DEFINE out == from[1]
           n == Len(tokens)
<1>2. n \in Nat /\ 1 \in 1 .. n + 1
  BY DEF IsText
<1>3. \A i \in 1 .. n + 1 : Suffix(tokens, known, exact, from, i)
  BY <1>1, SuffixOf
<1>4. /\ IsText(out)
      /\ \A p \in 1 .. Len(out) : \E k \in 1 .. n :
           /\ Len(from[k]) = Len(out) - p + 1
           /\ \A j \in 1 .. Len(from[k]) : from[k][j] = out[p + j - 1]
  <2> HIDE DEF out
  <2>1. Suffix(tokens, known, exact, from, 1)
    BY <1>2, <1>3
  <2> QED BY <2>1 DEF Suffix, out
<1> HIDE DEF out, n
<1>5. ASSUME NEW p \in 1 .. Len(out), NEW e, NEW x, Len(e.value) \in Nat \ {0}, Reads(out, p, e, x)
      PROVE  \E k \in 1 .. n : Reads(tokens, k, e, x) /\ KnownAt(tokens, k, known, exact) = {}
  <2>1. PICK k \in 1 .. n : /\ Len(from[k]) = Len(out) - p + 1
                            /\ \A j \in 1 .. Len(from[k]) : from[k][j] = out[p + j - 1]
    BY <1>4
  <2> DEFINE l == Len(e.value)
             s == from[k]
  <2>2. /\ p + l - 1 <= Len(out)
        /\ \A j \in 1 .. l : /\ Len(out[p + j - 1]) = 1
                             /\ IF x THEN out[p + j - 1][1] = e.value[j] ELSE Fold[out[p + j - 1][1]] = Fold[e.value[j]]
    BY <1>5 DEF Reads
  <2>3. l \in Nat \ {0} /\ Len(out) \in Nat /\ p \in Nat
    BY <1>4, <1>5 DEF IsText
  <2>4. /\ \A m \in 1 .. Len(s) : (\A j \in 1 .. m : Len(s[j]) = 1) =>
             /\ k + m - 1 <= n /\ \A j \in 1 .. m : s[j] = tokens[k + j - 1]
             /\ KnownAt(tokens, k, known, exact) = {}
    <3>1. Suffix(tokens, known, exact, from, k)
      BY <1>2, <1>3, <2>1
    <3> QED BY <3>1 DEF Suffix, n
  <2> HIDE DEF l, s
  <2>5. l \in 1 .. Len(s) /\ \A j \in 1 .. l : s[j] = out[p + j - 1] /\ Len(s[j]) = 1
    <3>1. Len(s) = Len(out) - p + 1 /\ l \in 1 .. Len(s)
      BY <2>1, <2>2, <2>3 DEF s
    <3>2. \A j \in 1 .. l : j \in 1 .. Len(s)
      BY <2>3, <3>1
    <3> QED BY <2>1, <2>2, <3>1, <3>2 DEF s
  <2>6. k + l - 1 <= n /\ (\A j \in 1 .. l : tokens[k + j - 1] = out[p + j - 1]) /\ KnownAt(tokens, k, known, exact) = {}
    BY <2>4, <2>5
  <2>7. Reads(tokens, k, e, x)
    BY <2>2, <2>6 DEF Reads, l, n
  <2> QED BY <2>6, <2>7
<1>6. ASSUME NEW i \in 1 .. Len(out), NEW e \in known, Reads(out, i, e, exact) PROVE FALSE
  <2>1. PICK k \in 1 .. n : Reads(tokens, k, e, exact) /\ KnownAt(tokens, k, known, exact) = {}
    BY <1>5, <1>6 DEF AreValues
  <2>2. k \in Nat \ {0}
    BY <1>2
  <2> QED BY <2>1, <2>2, KnownThere
<1> QED BY <1>1, <1>4, <1>5, <1>6 DEF out, n

\* The values and placeholders of an index.
Mapped(map) == \A e \in map : IsText(e.value) /\ Len(e.ph) = 2

LEMMA LongIsNotEmpty ==
  ASSUME NEW map, Mapped(map)
  PROVE  AreValues({e \in map : Long(e.value)})
<1>1. ASSUME NEW e \in map, Long(e.value) PROVE Len(e.value) \in Nat \ {0} /\ Len(e.ph) = 2
  <2>1. Len(e.value) \in Nat /\ e.value = [i \in 1 .. Len(e.value) |-> e.value[i]] /\ Len(e.ph) = 2
    BY DEF Mapped, IsText
  <2>2. Len(e.value) = 0 => e.value = <<>>
    BY <2>1
  <2> QED BY <1>1, <2>1, <2>2 DEF Long
<1> QED BY <1>1 DEF AreValues

\* The sweep leaves no long value that can be read.
LEMMA SweepIsClean ==
  ASSUME NEW tokens, IsText(tokens), NEW map, Mapped(map)
  PROVE  \A e \in map, i \in DOMAIN Sweep(tokens, map) :
           Long(e.value) => KnownAt(Sweep(tokens, map), i, {e}, e.ph[1] \in CaseSensitive) = {}
<1> DEFINE long == {e \in map : Long(e.value)}
           exact == {e \in long : e.ph[1] \in CaseSensitive}
           first == SweepPass(tokens, exact, TRUE)
           others == long \ exact
           out == SweepPass(first, others, FALSE)
<1>1. \A e \in long : Len(e.value) \in Nat \ {0} /\ Len(e.ph) = 2
  BY LongIsNotEmpty DEF AreValues
<1>2. AreValues(exact) /\ AreValues(long \ exact)
  BY <1>1 DEF AreValues
<1>3. /\ IsText(first)
      /\ \A i \in 1 .. Len(first), e \in exact : ~Reads(first, i, e, TRUE)
  <2> HIDE DEF exact
  <2> QED BY <1>2, PassIsClean
<1>4. /\ IsText(out)
      /\ \A i \in 1 .. Len(out), e \in others : ~Reads(out, i, e, FALSE)
      /\ \A e, x : \A i \in 1 .. Len(out) : Len(e.value) \in Nat \ {0} /\ Reads(out, i, e, x)
                                         => \E k \in 1 .. Len(first) : Reads(first, k, e, x)
  <2> HIDE DEF others, first
  <2>1. AreValues(others)
    BY <1>2 DEF others
  <2> QED BY <1>3, <2>1, PassIsClean
<1>5. Sweep(tokens, map) = out /\ DOMAIN out = 1 .. Len(out)
  BY <1>4 DEF Sweep, IsText
<1> HIDE DEF out, first
<1>6. ASSUME NEW e \in long, NEW i \in 1 .. Len(out)
      PROVE  ~Reads(out, i, e, e.ph[1] \in CaseSensitive)
  <2>1. CASE e.ph[1] \in CaseSensitive
    <3>1. ~Reads(out, i, e, TRUE)
      BY <1>1, <1>3, <1>4, <2>1
    <3> QED BY <2>1, <3>1 DEF Reads
  <2>2. CASE e.ph[1] \notin CaseSensitive
    <3>1. ~Reads(out, i, e, FALSE)
      BY <1>4, <2>2
    <3> QED BY <2>2, <3>1 DEF Reads
  <2> QED BY <2>1, <2>2
<1>7. ASSUME NEW e \in long, NEW i \in 1 .. Len(out)
      PROVE  KnownAt(out, i, {e}, e.ph[1] \in CaseSensitive) = {}
  <2>1. AreValues({e}) /\ i \in Nat \ {0}
    BY <1>1, <1>4 DEF AreValues, IsText
  <2>2. KnownAt(out, i, {e}, e.ph[1] \in CaseSensitive)
          \subseteq {d \in {e} : Reads(out, i, d, e.ph[1] \in CaseSensitive)}
    BY <1>4, <2>1, KnownThere
  <2> QED BY <1>6, <2>2
<1> QED BY <1>5, <1>7

-----------------------------------------------------------------------------
(* Spans, values and placeholders *)

\* A fold over a list, from the first to the last.
LeftFolds(n, X, b, step) ==
  \E f \in [SUBSET (1 .. n) -> X] :
    \A R \in SUBSET (1 .. n) : f[R] = IF R = {} THEN b ELSE step[<<f[R \ {Max(R)}], Max(R)>>]

LEMMA LeftFoldExists ==
  ASSUME NEW n \in Nat, NEW X, NEW b \in X, NEW step, \A x \in X, i \in 1 .. n : step[<<x, i>>] \in X
  PROVE  LeftFolds(n, X, b, step)
<1> DEFINE pick == [R \in SUBSET (1 .. n) |-> Max(R)]
<1>1. \A R \in SUBSET (1 .. n) : R # {} => pick[R] \in R
  BY MaxIsLargest
<1>2. IsFiniteSet(1 .. n)
  BY FS_Interval
<1>3. \A R \in SUBSET (1 .. n) : pick[R] = Max(R)
  OBVIOUS
<1> HIDE DEF pick
<1>4. FoldStays(1 .. n, X, b, pick, step)
  BY <1>1, <1>2, FoldExists
<1> QED BY <1>3, <1>4 DEF FoldStays, LeftFolds

\* What holds of the empty set, and of a set once it holds without its largest
\* number, holds of all.
LEMMA UpFromEmpty ==
  ASSUME NEW n \in Nat, NEW G, {} \in G,
         \A R \in SUBSET (1 .. n) : R # {} /\ R \ {Max(R)} \in G => R \in G
  PROVE  \A R \in SUBSET (1 .. n) : R \in G
<1> DEFINE S == 1 .. n
<1>1. ASSUME NEW R \in SUBSET (1 .. n), \A Q \in SUBSET R : Q # R => Q \in G PROVE R \in G
  <2>1. CASE R = {}
    BY <2>1
  <2>2. CASE R # {}
    <3>1. Max(R) \in R
      BY <2>2, MaxIsLargest
    <3>2. R \ {Max(R)} \in SUBSET R /\ R \ {Max(R)} # R
      BY <3>1
    <3> QED BY <1>1, <2>2, <3>2
  <2> QED BY <2>1, <2>2
<1>2. IsFiniteSet(S)
  BY FS_Interval
<1>3. \A R \in SUBSET S : R \in G
  <2>1. \A R \in SUBSET S : (\A Q \in SUBSET R : Q # R => Q \in G) => R \in G
    BY <1>1
  <2> HIDE DEF S
  <2> QED BY <1>2, <2>1, AllSubsets
<1> QED BY <1>3

\* What a fold begins with and keeps it ends with.
LEMMA LeftFoldKeeps ==
  ASSUME NEW n \in Nat, NEW X, NEW g, g[{}] \in X,
         \A R \in SUBSET (1 .. n) : R # {} /\ g[R \ {Max(R)}] \in X => g[R] \in X
  PROVE  \A R \in SUBSET (1 .. n) : g[R] \in X
<1> DEFINE G == {R \in SUBSET (1 .. n) : g[R] \in X}
<1>1. {} \in G
  OBVIOUS
<1>2. \A R \in SUBSET (1 .. n) : R # {} /\ R \ {Max(R)} \in G => R \in G
  OBVIOUS
<1>3. \A R \in SUBSET (1 .. n) : R \in G
  <2> HIDE DEF G
  <2> QED BY <1>1, <1>2, UpFromEmpty
<1> QED BY <1>3

LEMMA ListIsText ==
  ASSUME NEW T, NEW s \in Seq(T)
  PROVE  IsText(s)
BY DEF IsText

LEMMA SliceIsText ==
  ASSUME NEW text, Len(text) \in Nat, NEW s, s.start \in Nat, s.end \in Nat
  PROVE  /\ IsText(Slice(text, s))
         /\ LET b == Min2(s.end, Len(text))
            IN /\ Len(Slice(text, s)) = IF b > s.start THEN b - s.start ELSE 0
               /\ \A i \in 1 .. Len(Slice(text, s)) : Slice(text, s)[i] = text[s.start + i]
<1> DEFINE a == s.start
           b == Min2(s.end, Len(text))
           n == IF b > a THEN b - a ELSE 0
           v == [i \in 1 .. n |-> text[a + i]]
<1>0. a \in Nat /\ b \in Nat
  BY DEF Min2
<1>1. Slice(text, s) = [i \in 1 .. (1 + b - (a + 1)) |-> text[i + (a + 1) - 1]]
  BY SMTT(30), <1>0 DEF Slice
<1> HIDE DEF b
<1>2. n \in Nat /\ 1 .. (1 + b - (a + 1)) = 1 .. n
  BY <1>0
<1>3. \A i \in 1 .. n : text[i + (a + 1) - 1] = text[a + i]
  <2>1. \A i \in 1 .. n : i + (a + 1) - 1 = a + i
    BY <1>0
  <2> QED BY <2>1
<1>4. Slice(text, s) = v
  BY <1>1, <1>2, <1>3
<1> HIDE DEF n
<1>5. Len(v) = n /\ \A i \in 1 .. n : v[i] = text[a + i]
  BY <1>2
<1>6. IsText(v)
  BY <1>2, <1>5 DEF IsText
<1> HIDE DEF v
<1> QED BY <1>4, <1>5, <1>6 DEF n, b

LEMMA ImageFinite ==
  ASSUME NEW S, IsFiniteSet(S), NEW f
  PROVE  IsFiniteSet({f[x] : x \in S})
<1> DEFINE T == {f[x] : x \in S}
           h == [x \in S |-> f[x]]
<1>1. h \in Surjection(S, T)
  BY DEF Surjection
<1> QED BY <1>1, FS_Surjection

LEMMA ListIsFinite ==
  ASSUME NEW T, NEW s \in Seq(T)
  PROVE  IsFiniteSet(ToSet(s))
<1>1. IsFiniteSet(DOMAIN s)
  BY FS_Interval
<1> QED BY <1>1, ImageFinite DEF ToSet

\* The active spans one after another, each once, by their start.
Marks(S) == {s \in S : s.active}
InLine(list, A) ==
  /\ list \in Seq(A)
  /\ \A s \in A : \E i \in 1 .. Len(list) : list[i] = s
  /\ \A i, j \in 1 .. Len(list) : i < j => list[i] # list[j] /\ list[i].start <= list[j].start

LEMMA InOrderLists ==
  ASSUME NEW S, IsFiniteSet(S), \A s \in S : s.start \in Nat
  PROVE  InLine(InOrder(S), Marks(S))
<1> DEFINE A == Marks(S)
           before(s, t) == s.start < t.start \/ (s.start = t.start /\ s.source = "manual" /\ t.source # "manual")
           ahead(s) == {t \in A : before(t, s)}
           rank == [s \in A |-> Cardinality(ahead(s))]
           list == InOrder(S)
<1>1. IsFiniteSet(A) /\ (\A s \in A : ahead(s) \in SUBSET A) /\ \A s \in A : s.start \in Nat
  BY FS_Subset DEF Marks
<1>2. Cardinality(A) \in Nat /\ \A B \in SUBSET A : Cardinality(B) \in Nat /\ Cardinality(B) <= Cardinality(A)
  BY <1>1, FS_Subset, FS_CardinalityType
<1>3. rank \in [A -> Nat] /\ \A s \in A : rank[s] <= Cardinality(A)
  <2> HIDE DEF A, ahead
  <2> QED BY <1>1, <1>2
<1>4. list = Ranked(A, rank)
  BY DEF InOrder, Sorted, Marks
<1>5. ASSUME NEW s \in A, NEW t \in A, t.start < s.start PROVE rank[t] < rank[s]
  <2>1. ahead(t) \subseteq ahead(s) /\ t \in ahead(s) /\ t \notin ahead(t)
    BY <1>1, <1>5
  <2>2. IsFiniteSet(ahead(s))
    BY <1>1, FS_Subset
  <2>3. ahead(t) \in SUBSET ahead(s) /\ ahead(t) # ahead(s)
    BY <2>1
  <2> HIDE DEF ahead, A
  <2>4. Cardinality(ahead(t)) <= Cardinality(ahead(s)) /\ Cardinality(ahead(t)) # Cardinality(ahead(s))
    BY <2>2, <2>3, FS_Subset
  <2>5. Cardinality(ahead(t)) \in Nat /\ Cardinality(ahead(s)) \in Nat
    BY <1>1, <1>2
  <2> QED BY <2>4, <2>5
<1> HIDE DEF A, rank, ahead
<1>6. Lists(list, A, rank)
  BY <1>1, <1>2, <1>3, <1>4, RankedLists
<1> HIDE DEF list
<1>7. ASSUME NEW i \in 1 .. Len(list), NEW j \in 1 .. Len(list), i < j
      PROVE  list[i] # list[j] /\ list[i].start <= list[j].start
  <2>1. list[i] # list[j] /\ rank[list[i]] <= rank[list[j]]
    BY <1>6, <1>7 DEF Lists
  <2>2. list[i] \in A /\ list[j] \in A
    <3>1. list \in Seq(A)
      BY <1>6 DEF Lists
    <3> QED BY <3>1
  <2>3. ~(list[j].start < list[i].start)
    <3>1. rank[list[i]] \in Nat /\ rank[list[j]] \in Nat
      BY <1>3, <2>2
    <3> QED BY <1>5, <2>1, <2>2, <3>1
  <2> QED BY <1>1, <2>1, <2>2, <2>3
<1>8. list \in Seq(A) /\ \A s \in A : \E i \in 1 .. Len(list) : list[i] = s
  BY <1>6 DEF Lists
<1> QED BY <1>7, <1>8 DEF InLine, list, A

\* Spans that do not overlap follow one another.
LEMMA ApartFollow ==
  ASSUME NEW A, NEW list, InLine(list, A), \A s \in A : s.start \in Nat /\ s.end \in Nat /\ s.start < s.end,
         \A s, t \in A : s # t => ~Overlaps(s, t)
  PROVE  \A i, j \in 1 .. Len(list) : i < j => list[i].end <= list[j].start
<1> SUFFICES ASSUME NEW i \in 1 .. Len(list), NEW j \in 1 .. Len(list), i < j PROVE list[i].end <= list[j].start
  OBVIOUS
<1>1. list[i] \in A /\ list[j] \in A /\ list[i] # list[j] /\ list[i].start <= list[j].start
  <2>1. list \in Seq(A)
    BY DEF InLine
  <2>2. list[i] \in A /\ list[j] \in A
    BY <2>1
  <2> QED BY <2>2 DEF InLine
<1>2. ~Overlaps(list[i], list[j])
  BY <1>1
<1> QED BY <1>1, <1>2 DEF Overlaps

\* The fold that writes the text: the places before a mark, and the mark.
PlacesOf(n, from, to) == [i \in 1 .. (IF Min2(to, n) > from THEN Min2(to, n) - from ELSE 0) |-> <<from + i>>]
Mark(n, ph, acc, s) == [out |-> acc.out \o PlacesOf(n, acc.last, s.start) \o <<ph[s]>>, last |-> s.end]
Written(P) == [out : Seq(P), last : Nat]
Parts(marks, ph) == {<<i>> : i \in Nat} \cup {ph[s] : s \in Marks(marks)}
WritesTo(n, marks, ph, P, g) ==
  LET list == InOrder(marks)
  IN /\ \A R \in SUBSET (1 .. Len(list)) :
          /\ g[R] = IF R = {} THEN [out |-> <<>>, last |-> 0] ELSE Mark(n, ph, g[R \ {Max(R)}], list[Max(R)])
          /\ g[R] \in Written(P)
     /\ Positional(n, marks, ph) = g[1 .. Len(list)].out \o PlacesOf(n, g[1 .. Len(list)].last, n)

LEMMA PlacesTyped ==
  ASSUME NEW n \in Nat, NEW from \in Nat, NEW to \in Nat
  PROVE  LET k == IF Min2(to, n) > from THEN Min2(to, n) - from ELSE 0
         IN /\ k \in Nat /\ Len(PlacesOf(n, from, to)) = k
            /\ PlacesOf(n, from, to) \in Seq({<<i>> : i \in Nat})
            /\ \A i \in 1 .. k : PlacesOf(n, from, to)[i] = <<from + i>>
<1> DEFINE k == IF Min2(to, n) > from THEN Min2(to, n) - from ELSE 0
           s == [i \in 1 .. k |-> <<from + i>>]
           P == {<<i>> : i \in Nat}
<1>1. k \in Nat
  BY DEF Min2
<1>2. \A i \in 1 .. k : <<from + i>> \in P
  OBVIOUS
<1>3. PlacesOf(n, from, to) = s
  BY DEF PlacesOf
<1> HIDE DEF k, P
<1>4. s \in Seq(P) /\ Len(s) = k /\ \A i \in 1 .. k : s[i] = <<from + i>>
  BY <1>1, <1>2
<1> QED BY <1>1, <1>3, <1>4 DEF k, P

LEMMA WritingExists ==
  ASSUME NEW n \in Nat, NEW marks, IsFiniteSet(marks), \A s \in marks : s.start \in Nat /\ s.end \in Nat, NEW ph
  PROVE  \E g : WritesTo(n, marks, ph, Parts(marks, ph), g)
<1> DEFINE A == Marks(marks)
           list == InOrder(marks)
           P == {<<i>> : i \in Nat} \cup {ph[s] : s \in A}
           X == Written(P)
           b == [out |-> <<>>, last |-> 0]
           Value(g, R) == IF R = {} THEN b ELSE Mark(n, ph, g[R \ {Max(R)}], list[Max(R)])
           Solves(g) == g = [R \in SUBSET DOMAIN list |-> Value(g, R)]
           iter == CHOOSE g : Solves(g)
           all == iter[DOMAIN list]
           m == Len(list)
           step == [p \in X \X (1 .. m) |-> Mark(n, ph, p[1], list[p[2]])]
<1>1. Positional(n, marks, ph) = all.out \o PlacesOf(n, all.last, n)
  BY DEF Positional, FoldLeft, MapThenFoldSet, Mark, PlacesOf
<1>2. m \in Nat /\ DOMAIN list = 1 .. m /\ \A i \in 1 .. m : list[i] \in A
  <2>1. list \in Seq(A)
    BY InOrderLists DEF InLine
  <2> HIDE DEF list, A
  <2> QED BY <2>1
<1>3. \A s \in A : s.start \in Nat /\ s.end \in Nat
  BY DEF Marks
<1>4. \A x \in X, s \in A : Mark(n, ph, x, s) \in X
  <2> TAKE x \in X, s \in A
  <2>1. x.out \in Seq(P) /\ x.last \in Nat /\ s.start \in Nat /\ s.end \in Nat /\ <<ph[s]>> \in Seq(P)
    BY <1>3 DEF Written
  <2> DEFINE r == PlacesOf(n, x.last, s.start)
  <2>2. r \in Seq({<<i>> : i \in Nat})
    BY <2>1, PlacesTyped
  <2> HIDE DEF r
  <2>3. r \in Seq(P)
    BY <2>2
  <2> HIDE DEF P
  <2> QED BY <2>1, <2>3 DEF Mark, r, Written
<1>5. b \in X
  BY DEF Written
<1> HIDE DEF b, X, A
<1>6. \A x \in X, i \in 1 .. m : step[<<x, i>>] = Mark(n, ph, x, list[i]) /\ step[<<x, i>>] \in X
  BY <1>2, <1>4
<1> HIDE DEF list, m, step
<1>7. PICK f \in [SUBSET (1 .. m) -> X] :
        \A R \in SUBSET (1 .. m) : f[R] = IF R = {} THEN b ELSE step[<<f[R \ {Max(R)}], Max(R)>>]
  <2>1. LeftFolds(m, X, b, step)
    BY <1>2, <1>5, <1>6, LeftFoldExists
  <2> QED BY <2>1 DEF LeftFolds
<1>8. \A R \in SUBSET (1 .. m) : R # {} => Max(R) \in 1 .. m /\ R \ {Max(R)} \in SUBSET (1 .. m)
  BY <1>2, MaxIsLargest
<1>9. Solves(f)
  <2>1. \A R \in SUBSET (1 .. m) : f[R] = Value(f, R)
    BY <1>6, <1>7, <1>8
  <2> HIDE DEF Value
  <2> QED BY <1>2, <2>1
<1>10. Solves(iter)
  <2> HIDE DEF Solves
  <2> QED BY <1>9
<1>11. \A R \in SUBSET (1 .. m) : iter[R] = Value(iter, R)
  <2> HIDE DEF iter, Value
  <2> QED BY <1>2, <1>10
<1> HIDE DEF iter
<1>12. \A R \in SUBSET (1 .. m) : iter[R] \in X
  <2>1. iter[{}] \in X
    BY <1>5, <1>11
  <2>2. ASSUME NEW R \in SUBSET (1 .. m), R # {}, iter[R \ {Max(R)}] \in X PROVE iter[R] \in X
    <3>1. iter[R] = Mark(n, ph, iter[R \ {Max(R)}], list[Max(R)])
      BY <1>11, <2>2
    <3>2. list[Max(R)] \in A
      BY <1>2, <1>8, <2>2
    <3> QED BY <1>4, <2>2, <3>1, <3>2
  <2> HIDE DEF Value
  <2> QED BY <1>2, <2>1, <2>2, LeftFoldKeeps
<1>13. WritesTo(n, marks, ph, P, iter)
  <2> HIDE DEF P
  <2> QED BY <1>1, <1>2, <1>11, <1>12 DEF WritesTo, list, m, X, b
<1>14. P = Parts(marks, ph)
  BY DEF A, Parts
<1> HIDE DEF P
<1> QED BY <1>13, <1>14

LEMMA PositionalIsText ==
  ASSUME NEW n \in Nat, NEW marks, IsFiniteSet(marks), \A s \in marks : s.start \in Nat /\ s.end \in Nat, NEW ph
  PROVE  IsText(Positional(n, marks, ph))
<1> DEFINE P == Parts(marks, ph)
           m == Len(InOrder(marks))
<1>1. PICK g : WritesTo(n, marks, ph, P, g)
  BY WritingExists
<1> DEFINE all == g[1 .. m]
           rest == PlacesOf(n, all.last, n)
<1>2. all \in Written(P) /\ Positional(n, marks, ph) = all.out \o rest
  BY <1>1 DEF WritesTo
<1> HIDE DEF all
<1>3. all.out \in Seq(P) /\ all.last \in Nat
  BY <1>2 DEF Written
<1>4. rest \in Seq({<<i>> : i \in Nat})
  BY <1>3, PlacesTyped
<1> HIDE DEF rest
<1>5. rest \in Seq(P)
  BY <1>4 DEF Parts
<1> HIDE DEF P
<1>6. all.out \o rest \in Seq(P)
  BY <1>3, <1>5
<1> QED BY <1>2, <1>6, ListIsText

\* What can be numbered in texts T with spans S.
KeyOf(text, s) == DedupKey(s.label, Slice(text, s))
Numbering(t, s, n) == [key |-> KeyOf(t, s), value |-> Slice(t, s), ph |-> <<s.label, n>>]
Numberings(T, S) == {Numbering(t, s, n) : t \in T, s \in S, n \in Nat}
Labelled(idx, l) == {e \in ToSet(idx) : e.key[1] = l}

\* Every value has one placeholder, and every placeholder one value: numbers do
\* not exceed the number of values of their label.
WellNumbered(idx) ==
  \A e, f \in ToSet(idx) :
    /\ e.key = f.key => e = f
    /\ e.ph = f.ph => e = f
    /\ e.ph[2] <= Cardinality(Labelled(idx, e.ph[1]))
Indexes(T, S) == {idx \in Seq(Numberings(T, S)) : WellNumbered(idx)}
HasKeys(idx, text, A) == \A s \in A : \E e \in ToSet(idx) : e.key = KeyOf(text, s)

LEMMA NumberingIs ==
  ASSUME NEW T, NEW S, NEW e \in Numberings(T, S)
  PROVE  /\ e.key[1] = e.ph[1] /\ e.key = DedupKey(e.ph[1], e.value) /\ e.ph = <<e.ph[1], e.ph[2]>>
         /\ Len(e.ph) = 2 /\ e.ph[2] \in Nat /\ \E t \in T, s \in S : e.value = Slice(t, s)
<1>1. PICK t \in T, s \in S, n \in Nat : e = Numbering(t, s, n)
  BY DEF Numberings
<1> DEFINE key == KeyOf(t, s)
           ph == <<s.label, n>>
<1>2. e.key = key /\ e.value = Slice(t, s) /\ e.ph = ph
  BY <1>1 DEF Numbering
<1>3. key[1] = s.label /\ key = DedupKey(s.label, Slice(t, s))
  BY DEF KeyOf, DedupKey
<1>4. Len(ph) = 2 /\ ph[1] = s.label /\ ph[2] = n
  OBVIOUS
<1> HIDE DEF key
<1> QED BY <1>2, <1>3, <1>4

\* A value that has no number gets the next one of its label.
LEMMA NumberedOnce ==
  ASSUME NEW T, NEW S, NEW text \in T, NEW s \in S, NEW idx \in Indexes(T, S),
         \A e \in ToSet(idx) : e.key # KeyOf(text, s)
  PROVE  LET e == Numbering(text, s, 1 + Cardinality(Labelled(idx, s.label)))
         IN Append(idx, e) \in Indexes(T, S) /\ ToSet(Append(idx, e)) = ToSet(idx) \cup {e} /\ e.key = KeyOf(text, s)
<1> DEFINE E == Numberings(T, S)
           k == Cardinality(Labelled(idx, s.label))
           e == Numbering(text, s, 1 + k)
           new == Append(idx, e)
<1>1. idx \in Seq(E) /\ WellNumbered(idx) /\ IsFiniteSet(ToSet(idx))
  BY ListIsFinite DEF Indexes
<1>2. \A l : IsFiniteSet(Labelled(idx, l)) /\ Cardinality(Labelled(idx, l)) \in Nat
  BY <1>1, FS_Subset, FS_CardinalityType DEF Labelled
<1>3. k \in Nat /\ e \in E
  BY <1>2 DEF Numberings
<1>4. e.key = KeyOf(text, s) /\ e.key[1] = s.label /\ e.ph[1] = s.label /\ e.ph[2] = 1 + k
  BY DEF Numbering, KeyOf, DedupKey
<1>5. \A f \in ToSet(idx) : f \in E
  <2> HIDE DEF E
  <2> QED BY <1>1 DEF ToSet
<1>6. \A f \in E : f.key[1] = f.ph[1] /\ f.ph[2] \in Nat
  BY NumberingIs
<1> HIDE DEF e, E
<1>7. new \in Seq(E) /\ ToSet(new) = ToSet(idx) \cup {e}
  <2>1. Len(idx) \in Nat /\ DOMAIN idx = 1 .. Len(idx) /\ DOMAIN new = 1 .. Len(idx) + 1
        /\ (\A i \in 1 .. Len(idx) : new[i] = idx[i]) /\ new[Len(idx) + 1] = e /\ new \in Seq(E)
    BY <1>1, <1>3
  <2> HIDE DEF new
  <2>2. ASSUME NEW f \in ToSet(new) PROVE f \in ToSet(idx) \cup {e}
    <3>1. PICK i \in 1 .. Len(idx) + 1 : f = new[i]
      BY <2>1 DEF ToSet
    <3>2. i = Len(idx) + 1 \/ i \in 1 .. Len(idx)
      BY <2>1
    <3> QED BY <2>1, <3>1, <3>2 DEF ToSet
  <2>3. ASSUME NEW f \in ToSet(idx) \cup {e} PROVE f \in ToSet(new)
    <3>1. CASE f = e
      BY <2>1, <3>1 DEF ToSet
    <3>2. CASE f # e
      <4>1. PICK i \in 1 .. Len(idx) : f = idx[i]
        BY <2>1, <3>2 DEF ToSet
      <4>2. i \in 1 .. Len(idx) + 1 /\ f = new[i]
        BY <2>1, <4>1
      <4> QED BY <2>1, <4>2 DEF ToSet
    <3> QED BY <3>1, <3>2
  <2> QED BY <2>1, <2>2, <2>3
<1> HIDE DEF new
<1>8. e \notin ToSet(idx)
  BY <1>4
<1>9. \A l : Cardinality(Labelled(new, l)) = IF l = s.label THEN k + 1 ELSE Cardinality(Labelled(idx, l))
  <2> TAKE l
  <2>1. CASE l = s.label
    <3> DEFINE L == Labelled(idx, s.label)
    <3>1. Labelled(new, l) = L \cup {e} /\ e \notin L
      BY <1>4, <1>7, <1>8, <2>1 DEF Labelled
    <3>2. IsFiniteSet(L) /\ k = Cardinality(L)
      BY <1>2
    <3> HIDE DEF L
    <3>3. Cardinality(L \cup {e}) = Cardinality(L) + 1
      BY <3>1, <3>2, FS_AddElement
    <3> QED BY <2>1, <3>1, <3>2, <3>3
  <2>2. CASE l # s.label
    <3>1. Labelled(new, l) = Labelled(idx, l)
      BY <1>4, <1>7, <2>2 DEF Labelled
    <3> QED BY <2>2, <3>1
  <2> QED BY <2>1, <2>2
<1>10. \A f \in ToSet(idx) : f.ph[2] <= Cardinality(Labelled(idx, f.ph[1])) /\ f.ph # e.ph
  <2> TAKE f \in ToSet(idx)
  <2>1. f.ph[2] <= Cardinality(Labelled(idx, f.ph[1])) /\ f.ph[2] \in Nat
    BY <1>1, <1>5, <1>6 DEF WellNumbered
  <2> HIDE DEF k
  <2>2. f.ph[1] = s.label => f.ph[2] # 1 + k
    BY <1>3, <2>1 DEF k
  <2> QED BY <1>4, <2>1, <2>2
<1>11. ASSUME NEW f \in ToSet(idx) \cup {e}, NEW g \in ToSet(idx) \cup {e}
       PROVE  /\ f.key = g.key => f = g
              /\ f.ph = g.ph => f = g
              /\ f.ph[2] <= Cardinality(Labelled(new, f.ph[1]))
  <2>1. f.key = g.key => f = g
    BY <1>1, <1>4 DEF WellNumbered
  <2>2. f.ph = g.ph => f = g
    BY <1>1, <1>10 DEF WellNumbered
  <2>3. f.ph[2] <= Cardinality(Labelled(new, f.ph[1]))
    <3>1. CASE f = e
      BY <1>3, <1>4, <1>9, <3>1
    <3>2. CASE f # e
      <4>1. f.ph[2] <= Cardinality(Labelled(idx, f.ph[1])) /\ f.ph[2] \in Nat
        BY <1>5, <1>6, <1>10, <3>2
      <4>2. Cardinality(Labelled(idx, f.ph[1])) <= Cardinality(Labelled(new, f.ph[1]))
            /\ Cardinality(Labelled(new, f.ph[1])) \in Nat
        BY <1>2, <1>9
      <4> QED BY <1>2, <4>1, <4>2
    <3> QED BY <3>1, <3>2
  <2> QED BY <2>1, <2>2, <2>3
<1>12. WellNumbered(new)
  BY <1>7, <1>11 DEF WellNumbered
<1> QED BY <1>4, <1>7, <1>12 DEF Indexes, e, new, E

\* Every active value of a text is numbered, and what was numbered stays.
LEMMA NumberedStays ==
  ASSUME NEW T, NEW S, NEW text \in T, NEW marks \in SUBSET S, IsFiniteSet(marks), \A s \in marks : s.start \in Nat,
         NEW index \in Indexes(T, S)
  PROVE  /\ Numbered(index, text, marks) \in Indexes(T, S)
         /\ ToSet(index) \subseteq ToSet(Numbered(index, text, marks))
         /\ HasKeys(Numbered(index, text, marks), text, Marks(marks))
<1> DEFINE A == Marks(marks)
           list == InOrder(marks)
           X == Indexes(T, S)
           new(idx, s) == [key |-> DedupKey(s.label, Slice(text, s)), value |-> Slice(text, s),
                           ph |-> <<s.label, 1 + Cardinality({e \in ToSet(idx) : e.key[1] = s.label})>>]
           put(idx, s) == IF \E e \in ToSet(idx) : e.key = DedupKey(s.label, Slice(text, s))
                          THEN idx ELSE Append(idx, new(idx, s))
           Value(g, R) == IF R = {} THEN index ELSE put(g[R \ {Max(R)}], list[Max(R)])
           Solves(g) == g = [R \in SUBSET DOMAIN list |-> Value(g, R)]
           iter == CHOOSE g : Solves(g)
           m == Len(list)
           step == [p \in X \X (1 .. m) |-> put(p[1], list[p[2]])]
<1>1. Numbered(index, text, marks) = iter[DOMAIN list]
  BY DEF Numbered, FoldLeft, MapThenFoldSet
<1>2. m \in Nat /\ DOMAIN list = 1 .. m /\ \A i \in 1 .. m : list[i] \in A
  <2>1. list \in Seq(A)
    BY InOrderLists DEF InLine
  <2> HIDE DEF list, A
  <2> QED BY <2>1
<1>3. \A s \in A : \E i \in 1 .. m : list[i] = s
  BY InOrderLists DEF InLine
<1>4. ASSUME NEW x \in X, NEW s \in A
      PROVE  /\ put(x, s) \in X /\ ToSet(x) \subseteq ToSet(put(x, s))
             /\ \E e \in ToSet(put(x, s)) : e.key = KeyOf(text, s)
  <2>1. CASE \E e \in ToSet(x) : e.key = KeyOf(text, s)
    BY <2>1 DEF KeyOf
  <2>2. CASE ~\E e \in ToSet(x) : e.key = KeyOf(text, s)
    <3> DEFINE e == Numbering(text, s, 1 + Cardinality(Labelled(x, s.label)))
    <3>1. s \in S
      BY DEF Marks
    <3>2. put(x, s) = Append(x, e)
      BY <2>2 DEF KeyOf, Numbering, Labelled
    <3>3. Append(x, e) \in X /\ ToSet(Append(x, e)) = ToSet(x) \cup {e} /\ e.key = KeyOf(text, s)
      <4> HIDE DEF put
      <4> QED BY <2>2, <3>1, NumberedOnce
    <3> HIDE DEF put, e
    <3> QED BY <3>2, <3>3
  <2> QED BY <2>1, <2>2
<1> HIDE DEF put, X, A
<1>6. \A x \in X, i \in 1 .. m : step[<<x, i>>] = put(x, list[i]) /\ step[<<x, i>>] \in X
  BY <1>2, <1>4
<1> HIDE DEF list, m, step
<1>7. PICK f \in [SUBSET (1 .. m) -> X] :
        \A R \in SUBSET (1 .. m) : f[R] = IF R = {} THEN index ELSE step[<<f[R \ {Max(R)}], Max(R)>>]
  <2>1. LeftFolds(m, X, index, step)
    BY <1>2, <1>6, LeftFoldExists DEF X
  <2> QED BY <2>1 DEF LeftFolds
<1>8. \A R \in SUBSET (1 .. m) : R # {} => Max(R) \in R /\ Max(R) \in 1 .. m /\ R \ {Max(R)} \in SUBSET (1 .. m)
  BY <1>2, MaxIsLargest
<1>9. Solves(f)
  <2>1. \A R \in SUBSET (1 .. m) : f[R] = Value(f, R)
    BY <1>6, <1>7, <1>8
  <2> HIDE DEF Value
  <2> QED BY <1>2, <2>1
<1>10. Solves(iter)
  <2> HIDE DEF Solves
  <2> QED BY <1>9
<1>11. \A R \in SUBSET (1 .. m) : iter[R] = Value(iter, R)
  <2> HIDE DEF iter, Value
  <2> QED BY <1>2, <1>10
<1> HIDE DEF iter
<1> DEFINE Good(R) == /\ iter[R] \in X /\ ToSet(index) \subseteq ToSet(iter[R])
                      /\ \A i \in R : \E e \in ToSet(iter[R]) : e.key = KeyOf(text, list[i])
           G == {R \in SUBSET (1 .. m) : Good(R)}
<1>12. {} \in G
  <2>1. iter[{}] = index
    BY <1>11
  <2> QED BY <2>1 DEF X
<1>13. ASSUME NEW R \in SUBSET (1 .. m), R # {}, R \ {Max(R)} \in G PROVE R \in G
  <2> DEFINE Q == R \ {Max(R)}
             s == list[Max(R)]
  <2>1. s \in A /\ iter[R] = put(iter[Q], s) /\ Good(Q)
    BY <1>2, <1>8, <1>11, <1>13
  <2> HIDE DEF Value, s, Q
  <2>2. /\ iter[R] \in X /\ ToSet(iter[Q]) \subseteq ToSet(iter[R])
        /\ \E e \in ToSet(iter[R]) : e.key = KeyOf(text, s)
    BY <1>4, <2>1
  <2>3. ASSUME NEW i \in R PROVE \E e \in ToSet(iter[R]) : e.key = KeyOf(text, list[i])
    <3>1. CASE i = Max(R)
      BY <2>2, <3>1 DEF s
    <3>2. CASE i # Max(R)
      <4>1. i \in Q
        BY <3>2 DEF Q
      <4> QED BY <2>1, <2>2, <4>1
    <3> QED BY <3>1, <3>2
  <2> QED BY <2>1, <2>2, <2>3
<1>14. 1 .. m \in G
  <2>1. \A R \in SUBSET (1 .. m) : R # {} /\ R \ {Max(R)} \in G => R \in G
    BY <1>13
  <2> HIDE DEF G
  <2>2. \A R \in SUBSET (1 .. m) : R \in G
    BY <1>2, <1>12, <2>1, UpFromEmpty
  <2> QED BY <2>2
<1>15. Good(1 .. m)
  BY <1>14
<1>16. HasKeys(iter[1 .. m], text, A)
  BY <1>3, <1>15 DEF HasKeys
<1> QED BY <1>1, <1>2, <1>15, <1>16 DEF X, A

LEMMA NumberedIsMapped ==
  ASSUME NEW T, \A t \in T : Len(t) \in Nat, NEW S, \A s \in S : s.start \in Nat /\ s.end \in Nat,
         NEW index \in Indexes(T, S)
  PROVE  Mapped(EntityMap(index))
<1>1. ASSUME NEW e \in ToSet(index) PROVE IsText(e.value) /\ Len(e.ph) = 2
  <2>1. e \in Numberings(T, S)
    BY DEF ToSet, Indexes
  <2>2. Len(e.ph) = 2 /\ \E t \in T, s \in S : e.value = Slice(t, s)
    BY <2>1, NumberingIs
  <2> QED BY <2>2, SliceIsText
<1>2. ASSUME NEW d \in EntityMap(index) PROVE IsText(d.value) /\ Len(d.ph) = 2
  <2>1. PICK e \in ToSet(index) : d = [ph |-> e.ph, value |-> e.value]
    BY DEF EntityMap
  <2>2. d.value = e.value /\ d.ph = e.ph
    BY <2>1
  <2> QED BY <1>1, <2>2
<1> QED BY <1>2 DEF Mapped

\* What is handed out can be read for no value of the map.
Illegible(body, map) ==
  \A e \in map, i \in DOMAIN body :
    Long(e.value) => KnownAt(body, i, {e}, e.ph[1] \in CaseSensitive) = {}

LEMMA RedactedIsClean ==
  ASSUME NEW text, Len(text) \in Nat, NEW marks, IsFiniteSet(marks),
         \A s \in marks : s.start \in Nat /\ s.end \in Nat, NEW index, Mapped(EntityMap(index))
  PROVE  Illegible(Redacted(text, marks, index), EntityMap(index))
<1> DEFINE ph == [s \in {t \in marks : t.active} |-> PhOf(index, text, s)]
           written == Positional(Len(text), marks, ph)
           tokens == [i \in DOMAIN written |-> IF Len(written[i]) = 1 THEN <<text[written[i][1]]>> ELSE written[i]]
           map == EntityMap(index)
<1>1. IsText(written)
  <2> HIDE DEF ph
  <2> QED BY PositionalIsText
<1>2. Redacted(text, marks, index) = Sweep(tokens, map)
  BY DEF Redacted, KnownValues
<1> HIDE DEF written, map
<1>3. IsText(tokens)
  <2>1. Len(written) \in Nat /\ DOMAIN written = 1 .. Len(written)
    BY <1>1 DEF IsText
  <2>2. Len(tokens) = Len(written)
    BY <2>1
  <2> QED BY <2>1, <2>2 DEF IsText
<1> HIDE DEF tokens
<1>4. Mapped(map)
  BY DEF map
<1> QED BY <1>2, <1>3, <1>4, SweepIsClean DEF Illegible, map

-----------------------------------------------------------------------------
(* What a redacted text says *)

\* A value in place of the words a + 1 .. b of a text, up to case.
StandsFor(v, text, a, b) ==
  /\ IsText(v) /\ a \in Nat /\ b \in Nat /\ a <= b /\ b <= Len(text) /\ Len(v) = b - a
  /\ \A j \in 1 .. b - a : Fold[v[j]] = Fold[text[a + j]]

\* A token in their place: a word, or the placeholder of a value.
TokenFor(t, map, text, a, b) ==
  \/ Len(t) = 1 /\ t = <<t[1]>> /\ b = a + 1 /\ StandsFor(t, text, a, b)
  \/ \E e \in map : t = e.ph /\ StandsFor(e.value, text, a, b)

\* Tokens that stand for them one after another.
Spells(tokens, map, text, a, b) ==
  /\ IsText(tokens)
  /\ \E cut \in [0 .. Len(tokens) -> Nat] :
       /\ cut[0] = a /\ cut[Len(tokens)] = b
       /\ \A i \in 1 .. Len(tokens) : TokenFor(tokens[i], map, text, cut[i - 1], cut[i])

LEMMA SpellsNothing ==
  ASSUME NEW map, NEW text, NEW a \in Nat
  PROVE  Spells(<<>>, map, text, a, a)
<1>1. Len(<<>>) = 0 /\ IsText(<<>>)
  BY DEF IsText
<1>2. [i \in 0 .. 0 |-> a] \in [0 .. 0 -> Nat] /\ [i \in 0 .. 0 |-> a][0] = a
  OBVIOUS
<1>3. \A i \in 1 .. 0 : FALSE
  OBVIOUS
<1> QED BY <1>1, <1>2, <1>3 DEF Spells

LEMMA SpellsOne ==
  ASSUME NEW map, NEW text, NEW t, NEW a \in Nat, NEW b \in Nat, TokenFor(t, map, text, a, b)
  PROVE  Spells(<<t>>, map, text, a, b)
<1> DEFINE cut == [i \in 0 .. 1 |-> IF i = 0 THEN a ELSE b]
           s == <<t>>
<1>1. Len(s) = 1 /\ s[1] = t /\ IsText(s)
  BY DEF IsText
<1>2. cut \in [0 .. 1 -> Nat] /\ cut[0] = a /\ cut[1] = b
  OBVIOUS
<1> HIDE DEF cut, s
<1>3. \A i \in 1 .. 1 : TokenFor(s[i], map, text, cut[i - 1], cut[i])
  <2>1. \A i \in 1 .. 1 : i = 1 /\ i - 1 = 0
    OBVIOUS
  <2> QED BY <1>1, <1>2, <2>1
<1>4. Spells(s, map, text, a, b)
  BY <1>1, <1>2, <1>3 DEF Spells
<1> QED BY <1>4 DEF s

LEMMA SpellsGlued ==
  ASSUME NEW map, NEW text, NEW a, NEW b, NEW c, NEW u, NEW v, NEW w,
         Spells(u, map, text, a, b), Spells(v, map, text, b, c),
         IsText(w), Len(w) = Len(u) + Len(v),
         \A i \in 1 .. Len(u) : w[i] = u[i], \A i \in 1 .. Len(v) : w[Len(u) + i] = v[i]
  PROVE  Spells(w, map, text, a, c)
<1> DEFINE m == Len(u)
           n == Len(v)
<1>1. m \in Nat /\ n \in Nat /\ Len(w) = m + n
  BY DEF Spells, IsText
<1>2. PICK p \in [0 .. m -> Nat] : /\ p[0] = a /\ p[m] = b
                                   /\ \A i \in 1 .. m : TokenFor(u[i], map, text, p[i - 1], p[i])
  BY DEF Spells
<1>3. PICK q \in [0 .. n -> Nat] : /\ q[0] = b /\ q[n] = c
                                   /\ \A i \in 1 .. n : TokenFor(v[i], map, text, q[i - 1], q[i])
  BY DEF Spells
<1> DEFINE cut == [i \in 0 .. m + n |-> IF i <= m THEN p[i] ELSE q[i - m]]
<1> HIDE DEF m, n
<1>4. cut \in [0 .. m + n -> Nat] /\ cut[0] = a /\ cut[m + n] = c
      /\ (\A i \in 0 .. m : cut[i] = p[i]) /\ \A i \in 0 .. n : cut[m + i] = q[i]
  <2>1. \A i \in 0 .. m + n : (i <= m => i \in 0 .. m) /\ (~(i <= m) => i - m \in 0 .. n)
    BY <1>1
  <2>2. \A i \in 0 .. m : cut[i] = p[i]
    BY <1>1
  <2>3. ASSUME NEW i \in 0 .. n PROVE cut[m + i] = q[i]
    <3>1. m + i \in 0 .. m + n /\ (m + i) - m = i
      BY <1>1
    <3>2. CASE i = 0
      BY <1>1, <1>2, <1>3, <3>2
    <3>3. CASE i # 0
      <4>1. ~(m + i <= m)
        BY <1>1, <3>3
      <4> QED BY <3>1, <4>1
    <3> QED BY <3>2, <3>3
  <2>4. 0 \in 0 .. m /\ n \in 0 .. n
    BY <1>1
  <2>5. \A i \in 0 .. m + n : cut[i] \in Nat
    BY <1>1, <2>1
  <2> QED BY <1>2, <1>3, <2>2, <2>3, <2>4, <2>5
<1> HIDE DEF cut
<1>5. ASSUME NEW i \in 1 .. m + n PROVE TokenFor(w[i], map, text, cut[i - 1], cut[i])
  <2>1. CASE i <= m
    <3>1. i \in 1 .. m /\ i - 1 \in 0 .. m /\ i \in 0 .. m
      BY <1>1, <2>1
    <3>2. w[i] = u[i]
      BY <3>1 DEF m
    <3> QED BY <1>2, <1>4, <3>1, <3>2
  <2>2. CASE ~(i <= m)
    <3> DEFINE j == i - m
    <3>1. j \in 1 .. n /\ j - 1 \in 0 .. n /\ j \in 0 .. n /\ m + j = i /\ m + (j - 1) = i - 1
      BY <1>1, <2>2
    <3> HIDE DEF j
    <3>2. w[m + j] = v[j]
      BY <3>1 DEF m, n
    <3>3. cut[m + (j - 1)] = q[j - 1] /\ cut[m + j] = q[j]
      BY <1>4, <3>1
    <3> QED BY <1>3, <3>1, <3>2, <3>3
  <2> QED BY <2>1, <2>2
<1> QED BY <1>1, <1>4, <1>5 DEF Spells

LEMMA TextsJoined ==
  ASSUME NEW u, NEW v, IsText(u), IsText(v)
  PROVE  /\ IsText(u \o v) /\ Len(u \o v) = Len(u) + Len(v)
         /\ \A i \in 1 .. Len(u) : (u \o v)[i] = u[i]
         /\ \A i \in 1 .. Len(v) : (u \o v)[Len(u) + i] = v[i]
<1> DEFINE T == {u[i] : i \in 1 .. Len(u)} \cup {v[i] : i \in 1 .. Len(v)}
           m == Len(u)
           n == Len(v)
<1>1. m \in Nat /\ u = [i \in 1 .. m |-> u[i]] /\ \A i \in 1 .. m : u[i] \in T
  BY DEF IsText
<1>2. n \in Nat /\ v = [i \in 1 .. n |-> v[i]] /\ \A i \in 1 .. n : v[i] \in T
  BY DEF IsText
<1>3. u \in Seq(T)
  <2> HIDE DEF T, m
  <2> QED BY <1>1
<1>4. v \in Seq(T)
  <2> HIDE DEF T, n
  <2> QED BY <1>2
<1> HIDE DEF T
<1>5. u \o v \in Seq(T) /\ Len(u \o v) = m + n
  BY <1>3, <1>4
<1>6. \A i \in 1 .. m : (u \o v)[i] = u[i]
  BY <1>3, <1>4
<1>7. \A i \in 1 .. n : (u \o v)[m + i] = v[i]
  BY <1>3, <1>4
<1> QED BY <1>5, <1>6, <1>7, ListIsText

-----------------------------------------------------------------------------
(* Writing it *)

\* The words at the places that were copied.
Word(text, t) == IF Len(t) = 1 THEN <<text[t[1]]>> ELSE t
Worded(text, written) == [i \in DOMAIN written |-> Word(text, written[i])]

LEMMA WordedIsText ==
  ASSUME NEW text, NEW written, IsText(written)
  PROVE  /\ IsText(Worded(text, written)) /\ Len(Worded(text, written)) = Len(written)
         /\ \A i \in 1 .. Len(written) : Worded(text, written)[i] = Word(text, written[i])
<1> DEFINE n == Len(written)
           f == [i \in 1 .. n |-> Word(text, written[i])]
<1>1. n \in Nat /\ DOMAIN written = 1 .. n
  BY DEF IsText
<1>2. Worded(text, written) = f
  BY <1>1 DEF Worded
<1> HIDE DEF n
<1>3. Len(f) = n
  BY <1>1
<1> QED BY <1>1, <1>2, <1>3 DEF IsText, n

LEMMA WordedJoined ==
  ASSUME NEW map, NEW text, NEW a, NEW b, NEW c, NEW u, NEW v, IsText(u), IsText(v),
         Spells(Worded(text, u), map, text, a, b), Spells(Worded(text, v), map, text, b, c)
  PROVE  IsText(u \o v) /\ Spells(Worded(text, u \o v), map, text, a, c)
<1> DEFINE w == u \o v
           x == Worded(text, u)
           y == Worded(text, v)
           z == Worded(text, w)
<1>1. /\ IsText(w) /\ Len(w) = Len(u) + Len(v) /\ Len(u) \in Nat /\ Len(v) \in Nat
      /\ \A i \in 1 .. Len(u) : w[i] = u[i]
      /\ \A i \in 1 .. Len(v) : w[Len(u) + i] = v[i]
  BY TextsJoined DEF IsText
<1> HIDE DEF w
<1>2. IsText(z) /\ Len(z) = Len(w) /\ \A i \in 1 .. Len(w) : z[i] = Word(text, w[i])
  BY <1>1, WordedIsText
<1>20. Len(x) = Len(u) /\ \A i \in 1 .. Len(u) : x[i] = Word(text, u[i])
  BY WordedIsText
<1>21. Len(y) = Len(v) /\ \A i \in 1 .. Len(v) : y[i] = Word(text, v[i])
  BY WordedIsText
<1> HIDE DEF x, y, z
<1>3. \A i \in 1 .. Len(x) : z[i] = x[i]
  <2> TAKE i \in 1 .. Len(x)
  <2>1. i \in 1 .. Len(w) /\ i \in 1 .. Len(u)
    BY <1>1, <1>20
  <2> QED BY <1>1, <1>2, <1>20, <2>1
<1>4. \A i \in 1 .. Len(y) : z[Len(x) + i] = y[i]
  <2> TAKE i \in 1 .. Len(y)
  <2>1. Len(u) + i \in 1 .. Len(w) /\ i \in 1 .. Len(v)
    BY <1>1, <1>21
  <2> QED BY <1>1, <1>2, <1>20, <1>21, <2>1
<1>5. Spells(x, map, text, a, b) /\ Spells(y, map, text, b, c)
  BY DEF x, y
<1>6. Spells(z, map, text, a, c)
  BY <1>1, <1>2, <1>20, <1>21, <1>3, <1>4, <1>5, SpellsGlued
<1> QED BY <1>1, <1>6 DEF z, w

LEMMA PlacesSpell ==
  ASSUME NEW map, NEW text, Len(text) \in Nat, NEW from \in Nat, NEW to \in Nat, from <= to \/ to = Len(text)
  PROVE  LET n == Len(text)
             s == PlacesOf(n, from, to)
         IN IsText(s) /\ Spells(Worded(text, s), map, text, Min2(from, n), Min2(to, n))
<1> DEFINE n == Len(text)
           b == Min2(to, n)
           k == IF b > from THEN b - from ELSE 0
           s == PlacesOf(n, from, to)
           w == Worded(text, s)
           a == Min2(from, n)
           cut == [i \in 0 .. k |-> a + i]
<1>1. k \in Nat /\ Len(s) = k /\ s \in Seq({<<i>> : i \in Nat}) /\ \A i \in 1 .. k : s[i] = <<from + i>>
  BY PlacesTyped
<1>2. IsText(s)
  <2> HIDE DEF s
  <2> QED BY <1>1, ListIsText
<1>30. n \in Nat
  OBVIOUS
<1>31. /\ a \in Nat /\ b \in Nat /\ a <= n /\ b <= n /\ a <= b /\ a <= from
       /\ b > from => a = from
       /\ ~(b > from) => a = b
  <2> HIDE DEF n
  <2>1. CASE from <= to
    BY <1>30, <2>1 DEF Min2
  <2>2. CASE to = n
    BY <1>30, <2>2 DEF Min2
  <2> QED BY <2>1, <2>2 DEF n
<1>3. /\ a \in Nat /\ a + k = b /\ b \in Nat
      /\ \A i \in 1 .. k : from + i \in 1 .. n /\ a + (i - 1) + 1 = from + i
  <2> HIDE DEF a, b, n
  <2>1. CASE b > from
    BY <1>30, <1>31, <2>1
  <2>2. CASE ~(b > from)
    BY <1>31, <2>2
  <2> QED BY <2>1, <2>2
<1>4. IsText(w) /\ Len(w) = k /\ \A i \in 1 .. k : w[i] = Word(text, s[i])
  <2> HIDE DEF s, k
  <2> QED BY <1>1, <1>2, WordedIsText
<1>5. \A i \in 1 .. k : w[i] = <<text[from + i]>>
  <2> HIDE DEF w, k, s
  <2> TAKE i \in 1 .. k
  <2> DEFINE p == <<from + i>>
  <2>1. Len(p) = 1 /\ p[1] = from + i
    OBVIOUS
  <2>2. w[i] = Word(text, p)
    BY <1>1, <1>4
  <2> HIDE DEF p
  <2> QED BY <2>1, <2>2 DEF Word
<1> HIDE DEF w, s, k, a
<1>6. cut \in [0 .. k -> Nat] /\ cut[0] = a /\ cut[k] = Min2(to, n) /\ \A i \in 0 .. k : cut[i] = a + i
  BY <1>1, <1>3
<1> HIDE DEF cut
<1>7. ASSUME NEW i \in 1 .. k PROVE TokenFor(w[i], map, text, cut[i - 1], cut[i])
  <2> DEFINE c == cut[i - 1]
             d == cut[i]
             t == <<text[from + i]>>
  <2>1. c \in Nat /\ d = c + 1 /\ d = from + i /\ d \in 1 .. n
    <3>1. i - 1 \in 0 .. k /\ i \in 0 .. k
      BY <1>1
    <3>2. c = a + (i - 1) /\ d = a + i
      BY <1>6, <3>1
    <3>30. k \in Nat /\ i \in Nat /\ i >= 1
      BY <1>1
    <3>3. from + i \in 1 .. n /\ a + (i - 1) + 1 = from + i /\ a \in Nat
      BY <1>3
    <3> HIDE DEF c, d, n
    <3> QED BY <3>2, <3>3, <3>30
  <2> HIDE DEF c, d
  <2>2. Len(t) = 1 /\ t[1] = text[from + i] /\ IsText(t) /\ t = <<t[1]>>
    BY DEF IsText
  <2> HIDE DEF t
  <2>3. d - c = 1
    BY <2>1
  <2>4. \A j \in 1 .. d - c : Fold[t[j]] = Fold[text[c + j]]
    <3>1. \A j \in 1 .. d - c : j = 1 /\ c + j = from + i
      BY <2>1, <2>3
    <3> QED BY <2>2, <3>1
  <2>5. StandsFor(t, text, c, d)
    BY <2>1, <2>2, <2>3, <2>4 DEF StandsFor
  <2> QED BY <1>5, <2>1, <2>2, <2>5 DEF TokenFor, t, c, d
<1>8. Spells(w, map, text, a, Min2(to, n))
  BY <1>1, <1>4, <1>6, <1>7 DEF Spells
<1> QED BY <1>2, <1>8 DEF w, s, a

\* The text with the placeholders in place of spans that do not overlap.
LEMMA PositionalSpells ==
  ASSUME NEW text, Len(text) \in Nat, NEW map, NEW marks, IsFiniteSet(marks),
         \A s \in marks : s.start \in Nat /\ s.end \in Nat /\ s.start < s.end,
         \A s, t \in Marks(marks) : s # t => ~Overlaps(s, t),
         NEW ph,
         \A s \in Marks(marks) : /\ Len(ph[s]) = 2
                                 /\ TokenFor(ph[s], map, text, Min2(s.start, Len(text)), Min2(s.end, Len(text)))
  PROVE  LET w == Positional(Len(text), marks, ph)
         IN IsText(w) /\ Spells(Worded(text, w), map, text, 0, Len(text))
<1> DEFINE n == Len(text)
           A == Marks(marks)
           P == Parts(marks, ph)
           list == InOrder(marks)
           m == Len(list)
<1>1. PICK g : WritesTo(n, marks, ph, P, g)
  BY WritingExists
<1>2. InLine(list, A)
  BY InOrderLists
<1>3. m \in Nat /\ \A i \in 1 .. m : list[i] \in A
  <2>1. list \in Seq(A)
    BY <1>2 DEF InLine
  <2> HIDE DEF list, A
  <2> QED BY <2>1
<1>4. \A s \in A : s.start \in Nat /\ s.end \in Nat /\ s.start < s.end
  BY DEF Marks
<1>5. \A i, j \in 1 .. m : i < j => list[i].end <= list[j].start
  <2> HIDE DEF list, A
  <2>1. \A s, t \in A : s # t => ~Overlaps(s, t)
    BY DEF A
  <2> QED BY <1>2, <1>4, <2>1, ApartFollow DEF m
<1>6. /\ \A R \in SUBSET (1 .. m) :
           /\ g[R] = IF R = {} THEN [out |-> <<>>, last |-> 0] ELSE Mark(n, ph, g[R \ {Max(R)}], list[Max(R)])
           /\ g[R] \in Written(P)
      /\ Positional(n, marks, ph) = g[1 .. m].out \o PlacesOf(n, g[1 .. m].last, n)
  BY <1>1 DEF WritesTo
<1>7. \A s \in A : Len(ph[s]) = 2 /\ TokenFor(ph[s], map, text, Min2(s.start, n), Min2(s.end, n))
  OBVIOUS
<1> HIDE DEF A, list, m, P, n
<1> DEFINE end(R) == IF R = {} THEN 0 ELSE list[Max(R)].end
           Good(R) == /\ IsText(g[R].out) /\ g[R].last = end(R)
                      /\ Spells(Worded(text, g[R].out), map, text, 0, Min2(end(R), n))
           G == {R \in SUBSET (1 .. m) : Good(R)}
<1>8. \A R \in SUBSET (1 .. m) : R # {} => Max(R) \in R /\ Max(R) \in 1 .. m /\ \A y \in R : y <= Max(R)
  BY <1>3, MaxIsLargest
<1>9. n \in Nat
  BY DEF n
<1>10. {} \in G
  <2>1. g[{}].out = <<>> /\ g[{}].last = 0
    <3>1. {} \in SUBSET (1 .. m)
      OBVIOUS
    <3>2. g[{}] = [out |-> <<>>, last |-> 0]
      BY <1>6, <3>1
    <3> QED BY <3>2
  <2>2. IsText(<<>>) /\ Worded(text, <<>>) = <<>>
    BY DEF IsText, Worded
  <2>3. Spells(<<>>, map, text, 0, 0) /\ Min2(0, n) = 0
    BY <1>9, SpellsNothing DEF Min2
  <2> QED BY <2>1, <2>2, <2>3
<1>11. ASSUME NEW R \in SUBSET (1 .. m), R # {}, R \ {Max(R)} \in G PROVE R \in G
  <2> DEFINE Q == R \ {Max(R)}
             s == list[Max(R)]
             a == end(Q)
             u == g[Q].out
             r == PlacesOf(n, a, s.start)
             t == <<ph[s]>>
  <2>1. /\ g[R] = Mark(n, ph, g[Q], s) /\ s \in A /\ end(R) = s.end
        /\ IsText(u) /\ g[Q].last = a /\ Spells(Worded(text, u), map, text, 0, Min2(a, n))
    BY <1>3, <1>6, <1>8, <1>11
  <2>2. g[R].out = (u \o r) \o t /\ g[R].last = s.end
    <3> HIDE DEF s, a
    <3>1. Mark(n, ph, g[Q], s) = [out |-> u \o r \o t, last |-> s.end]
      BY <2>1 DEF Mark
    <3> HIDE DEF Q, u, r, t
    <3>2. [out |-> u \o r \o t, last |-> s.end].out = u \o r \o t
      OBVIOUS
    <3> QED BY <2>1, <3>1, <3>2
  <2>3. a \in Nat /\ a <= s.start /\ s.start \in Nat /\ s.end \in Nat
    <3>1. CASE Q = {}
      BY <1>4, <2>1, <3>1
    <3>2. CASE Q # {}
      <4>1. Max(Q) \in Q /\ Max(Q) \in 1 .. m
        BY <1>8, <3>2
      <4>2. Max(R) \in 1 .. m /\ Max(Q) < Max(R)
        BY <1>3, <1>8, <1>11, <4>1
      <4>3. list[Max(Q)].end <= s.start /\ list[Max(Q)] \in A
        BY <1>3, <1>5, <4>1, <4>2
      <4> QED BY <1>4, <2>1, <3>2, <4>3
    <3> QED BY <3>1, <3>2
  <2>4. IsText(t) /\ Spells(Worded(text, t), map, text, Min2(s.start, n), Min2(s.end, n))
    <3>1. Len(ph[s]) = 2 /\ TokenFor(ph[s], map, text, Min2(s.start, n), Min2(s.end, n))
      BY <1>7, <2>1
    <3>2. IsText(t) /\ Worded(text, t) = t
      <4> DEFINE p == ph[s]
      <4>1. Word(text, p) = p
        BY <3>1 DEF Word
      <4>2. IsText(<<p>>) /\ DOMAIN <<p>> = {1} /\ Len(<<p>>) = 1
        BY DEF IsText
      <4> HIDE DEF p
      <4>3. [i \in {1} |-> Word(text, <<p>>[i])] = <<p>>
        BY <4>1
      <4> QED BY <4>2, <4>3 DEF Worded, p
    <3>3. Min2(s.start, n) \in Nat /\ Min2(s.end, n) \in Nat
      BY <1>9, <2>3 DEF Min2
    <3> HIDE DEF s
    <3>4. Spells(t, map, text, Min2(s.start, n), Min2(s.end, n))
      BY <3>1, <3>3, SpellsOne
    <3> QED BY <3>2, <3>4
  <2>5. IsText(r) /\ Spells(Worded(text, r), map, text, Min2(a, n), Min2(s.start, n))
    <3> HIDE DEF a, s
    <3> QED BY <1>9, <2>3, PlacesSpell DEF n
  <2> HIDE DEF a, s, u, r, t, Q, end
  <2>6. IsText(u \o r) /\ Spells(Worded(text, u \o r), map, text, 0, Min2(s.start, n))
    BY <2>1, <2>5, WordedJoined
  <2> DEFINE v == u \o r
  <2>7. IsText(v) /\ Spells(Worded(text, v), map, text, 0, Min2(s.start, n))
    BY <2>6
  <2> HIDE DEF v
  <2>8. IsText(v \o t) /\ Spells(Worded(text, v \o t), map, text, 0, Min2(s.end, n))
    BY <2>4, <2>7, WordedJoined
  <2> QED BY <2>1, <2>2, <2>8 DEF v
<1>12. Good(1 .. m)
  <2>1. \A R \in SUBSET (1 .. m) : R # {} /\ R \ {Max(R)} \in G => R \in G
    BY <1>11
  <2> HIDE DEF G
  <2>2. \A R \in SUBSET (1 .. m) : R \in G
    BY <1>3, <1>10, <2>1, UpFromEmpty
  <2> QED BY <2>2 DEF G
<1> DEFINE a == end(1 .. m)
           u == g[1 .. m].out
           r == PlacesOf(n, a, n)
<1>13. a \in Nat
  <2>1. CASE 1 .. m = {}
    BY <2>1
  <2>2. CASE 1 .. m # {}
    BY <1>3, <1>4, <1>8, <2>2
  <2> QED BY <2>1, <2>2
<1>14. IsText(u) /\ Spells(Worded(text, u), map, text, 0, Min2(a, n)) /\ Positional(n, marks, ph) = u \o r
  BY <1>6, <1>12
<1> HIDE DEF a, u
<1>15. IsText(r) /\ Spells(Worded(text, r), map, text, Min2(a, n), Min2(n, n))
  BY <1>9, <1>13, PlacesSpell DEF n
<1> HIDE DEF r
<1>16. IsText(u \o r) /\ Spells(Worded(text, u \o r), map, text, 0, Min2(n, n))
  BY <1>14, <1>15, WordedJoined
<1>17. Min2(n, n) = n
  BY <1>9 DEF Min2
<1> QED BY <1>14, <1>16, <1>17 DEF n

\* A value that can be read is one the words stand for.
LEMMA ReadStandsFor ==
  ASSUME NEW map, Mapped(map), NEW text, NEW tokens, IsText(tokens),
         NEW cut \in [0 .. Len(tokens) -> Nat],
         \A i \in 1 .. Len(tokens) : TokenFor(tokens[i], map, text, cut[i - 1], cut[i]),
         NEW i \in 1 .. Len(tokens), NEW e \in map, Len(e.value) \in Nat \ {0}, NEW exact, Reads(tokens, i, e, exact)
  PROVE  StandsFor(e.value, text, cut[i - 1], cut[i + Len(e.value) - 1])
<1> DEFINE n == Len(tokens)
           l == Len(e.value)
           c == cut[i - 1]
           v == e.value
<1>1. n \in Nat /\ i \in 1 .. n /\ l \in Nat /\ l >= 1 /\ i + l - 1 <= n
  BY DEF IsText, Reads
<1>2. \A j \in 1 .. l : Len(tokens[i + j - 1]) = 1 /\ Fold[tokens[i + j - 1][1]] = Fold[v[j]]
  BY DEF Reads
<1>3. \A p \in 1 .. n : Len(tokens[p]) = 1 =>
         cut[p] = cut[p - 1] + 1 /\ cut[p] <= Len(text) /\ Fold[tokens[p][1]] = Fold[text[cut[p - 1] + 1]]
  <2> SUFFICES ASSUME NEW p \in 1 .. n, Len(tokens[p]) = 1
               PROVE  /\ cut[p] = cut[p - 1] + 1 /\ cut[p] <= Len(text)
                      /\ Fold[tokens[p][1]] = Fold[text[cut[p - 1] + 1]]
    OBVIOUS
  <2>1. \A d \in map : tokens[p] # d.ph
    <3>1. \A d \in map : Len(d.ph) = 2
      BY DEF Mapped
    <3>2. Len(tokens[p]) # 2
      OBVIOUS
    <3> QED BY <3>1, <3>2
  <2>2. TokenFor(tokens[p], map, text, cut[p - 1], cut[p])
    OBVIOUS
  <2>3. cut[p] = cut[p - 1] + 1 /\ StandsFor(tokens[p], text, cut[p - 1], cut[p])
    BY <2>1, <2>2 DEF TokenFor
  <2> DEFINE x == cut[p - 1]
             y == cut[p]
  <2>4. x \in Nat /\ y \in Nat /\ y = x + 1 /\ y <= Len(text)
        /\ \A j \in 1 .. y - x : Fold[tokens[p][j]] = Fold[text[x + j]]
    BY <2>3 DEF StandsFor
  <2> HIDE DEF x, y
  <2>5. 1 \in 1 .. y - x
    BY <2>4
  <2>6. Fold[tokens[p][1]] = Fold[text[x + 1]]
    BY <2>4, <2>5
  <2> QED BY <2>4, <2>6 DEF x, y
<1>4. \A p \in 0 .. n : cut[p] \in Nat
  OBVIOUS
<1> DEFINE G == {j \in Nat : j <= l => cut[(i - 1) + j] = c + j}
<1> HIDE DEF n, l, v
<1>5. 0 \in G
  <2>1. i - 1 \in 0 .. n /\ (i - 1) + 0 = i - 1
    BY <1>1
  <2> QED BY <1>4, <2>1
<1>6. ASSUME NEW j \in Nat, j \in G PROVE j + 1 \in G
  <2> SUFFICES ASSUME j + 1 <= l PROVE cut[(i - 1) + (j + 1)] = c + (j + 1)
    OBVIOUS
  <2> DEFINE p == (i - 1) + (j + 1)
  <2>1. p \in 1 .. n /\ p = i + (j + 1) - 1 /\ p - 1 = (i - 1) + j /\ j + 1 \in 1 .. l /\ j <= l
    BY <1>1
  <2> HIDE DEF p
  <2>2. Len(tokens[p]) = 1
    BY <1>2, <2>1
  <2>3. cut[p] = cut[p - 1] + 1 /\ cut[p - 1] = c + j
    BY <1>3, <1>6, <2>1, <2>2
  <2>4. c \in Nat
    BY <1>1, <1>4
  <2> HIDE DEF c
  <2> QED BY <2>3, <2>4 DEF p
<1>7. \A j \in Nat : j \in G
  <2> HIDE DEF G
  <2> QED BY <1>5, <1>6, AllNumbers
<1>8. \A j \in 0 .. l : cut[(i - 1) + j] = c + j
  BY <1>7
<1>9. c \in Nat
  BY <1>1, <1>4
<1> HIDE DEF G, c
<1>10. \A j \in 1 .. l : Fold[v[j]] = Fold[text[c + j]] /\ c + j <= Len(text)
  <2> TAKE j \in 1 .. l
  <2> DEFINE p == i + j - 1
  <2>1. p \in 1 .. n /\ p = (i - 1) + j /\ p - 1 = (i - 1) + (j - 1) /\ j \in 0 .. l /\ j - 1 \in 0 .. l
    BY <1>1
  <2> HIDE DEF p
  <2>2. cut[p] = c + j /\ cut[p - 1] = c + (j - 1)
    BY <1>8, <2>1
  <2>3. cut[p - 1] + 1 = c + j
    BY <1>9, <2>2
  <2>4. Len(tokens[p]) = 1 /\ Fold[tokens[p][1]] = Fold[v[j]]
    BY <1>2 DEF p
  <2> QED BY <1>3, <2>1, <2>2, <2>3, <2>4
<1> DEFINE d == cut[i + l - 1]
<1>11. d = c + l
  <2>1. l \in 0 .. l /\ (i - 1) + l = i + l - 1
    BY <1>1
  <2> QED BY <1>8, <2>1
<1> HIDE DEF d
<1>12. IsText(v) /\ Len(v) = l
  BY DEF v, l, Mapped
<1>13. d \in Nat /\ c <= d /\ d <= Len(text) /\ d - c = l
  <2>1. l \in 1 .. l
    BY <1>1
  <2>2. c + l <= Len(text)
    BY <1>10, <2>1
  <2> QED BY <1>1, <1>9, <1>11, <2>2
<1>14. StandsFor(v, text, c, d)
  BY <1>9, <1>10, <1>12, <1>13 DEF StandsFor
<1> QED BY <1>14 DEF v, c, d, l

\* A pass of the sweep leaves what the tokens stand for.
LEMMA PassSpells ==
  ASSUME NEW map, Mapped(map), NEW known \in SUBSET map, AreValues(known), NEW exact,
         NEW text, NEW tokens, NEW a, NEW b, Spells(tokens, map, text, a, b)
  PROVE  Spells(SweepPass(tokens, known, exact), map, text, a, b)
<1> DEFINE n == Len(tokens)
<1>1. IsText(tokens) /\ n \in Nat
  BY DEF Spells, IsText
<1>2. PICK cut \in [0 .. n -> Nat] : /\ cut[0] = a /\ cut[n] = b
                                     /\ \A i \in 1 .. n : TokenFor(tokens[i], map, text, cut[i - 1], cut[i])
  BY DEF Spells
<1>3. PICK from : /\ from = [i \in 1 .. n + 1 |-> Swept(tokens, known, exact, from, i)]
                  /\ SweepPass(tokens, known, exact) = from[1]
  BY <1>1, PassExists
<1>4. \A i \in 1 .. n + 1 : from[i] = Swept(tokens, known, exact, from, i)
  BY <1>3
<1> DEFINE S == {i \in 1 .. n + 1 : Spells(from[i], map, text, cut[i - 1], b)}
<1>5. ASSUME NEW i \in 1 .. n + 1, \A j \in i + 1 .. n + 1 : j \in S PROVE i \in S
  <2>1. CASE i = n + 1
    <3>1. from[i] = <<>>
      BY <1>1, <1>4, <2>1 DEF Swept
    <3>2. i - 1 = n /\ b \in Nat
      BY <1>1, <1>2, <2>1
    <3> HIDE DEF n
    <3>3. Spells(<<>>, map, text, b, b)
      BY <3>2, SpellsNothing
    <3> QED BY <1>2, <3>1, <3>2, <3>3
  <2>2. CASE i # n + 1
    <3>1. i \in 1 .. n /\ i \in Nat \ {0}
      BY <1>1, <2>2
    <3> DEFINE hits == KnownAt(tokens, i, known, exact)
               e == CHOOSE e \in hits : TRUE
               k == GoesTo(tokens, known, exact, i)
               w == Wrote(tokens, known, exact, i)
               r == from[k]
    <3>2. k \in i + 1 .. n + 1 /\ Swept(tokens, known, exact, from, i) = <<w>> \o r
      BY <1>1, <3>1, SweptGoesOn
    <3>3. IF hits = {} THEN k = i + 1 /\ w = tokens[i] ELSE k = i + Len(e.value) /\ w = e.ph /\ e \in hits
      BY DEF GoesTo, Wrote
    <3>4. hits \subseteq {d \in known : Reads(tokens, i, d, exact)}
      BY <1>1, <3>1, KnownThere
    <3> HIDE DEF hits, e, k, w, S, n
    <3>5. TokenFor(w, map, text, cut[i - 1], cut[k - 1])
      <4>1. CASE hits = {}
        <5>1. k - 1 = i /\ w = tokens[i]
          BY <3>1, <3>3, <4>1
        <5> QED BY <1>2, <3>1, <5>1
      <4>2. CASE hits # {}
        <5>1. /\ e \in map /\ Reads(tokens, i, e, exact) /\ Len(e.value) \in Nat \ {0}
              /\ k = i + Len(e.value) /\ w = e.ph
          BY <3>3, <3>4, <4>2 DEF AreValues
        <5>2. StandsFor(e.value, text, cut[i - 1], cut[i + Len(e.value) - 1])
          BY <1>1, <1>2, <3>1, <5>1, ReadStandsFor DEF n
        <5> QED BY <5>1, <5>2 DEF TokenFor
      <4> QED BY <4>1, <4>2
    <3>6. Spells(r, map, text, cut[k - 1], b)
      BY <1>5, <3>2 DEF S
    <3>7. cut[i - 1] \in Nat /\ cut[k - 1] \in Nat
      <4>1. i - 1 \in 0 .. n /\ k - 1 \in 0 .. n
        BY <1>1, <3>1, <3>2
      <4> QED BY <4>1
    <3>8. Spells(<<w>>, map, text, cut[i - 1], cut[k - 1])
      BY <3>5, <3>7, SpellsOne
    <3>9. IsText(r) /\ IsText(<<w>>)
      BY <3>6, <3>8 DEF Spells
    <3> DEFINE u == <<w>>
               s == u \o r
    <3>10. IsText(u) /\ Spells(u, map, text, cut[i - 1], cut[k - 1])
      BY <3>8, <3>9
    <3> HIDE DEF r, u
    <3>11. /\ IsText(s) /\ Len(s) = Len(u) + Len(r)
           /\ \A j \in 1 .. Len(u) : s[j] = u[j]
           /\ \A j \in 1 .. Len(r) : s[Len(u) + j] = r[j]
      BY <3>9, <3>10, TextsJoined
    <3> HIDE DEF s
    <3>12. Spells(s, map, text, cut[i - 1], b)
      BY <3>6, <3>10, <3>11, SpellsGlued
    <3>13. from[i] = s
      BY <1>4, <3>2 DEF s, u
    <3> QED BY <3>12, <3>13 DEF S
  <2> QED BY <2>1, <2>2
<1>6. 1 \in S
  <2>1. 1 \in 1 .. n + 1 /\ n + 1 \in Nat
    BY <1>1
  <2> HIDE DEF S, n
  <2> QED BY <1>5, <2>1, Backwards
<1> QED BY <1>2, <1>3, <1>6

LEMMA SweepSpells ==
  ASSUME NEW map, Mapped(map), NEW text, NEW tokens, NEW a, NEW b, Spells(tokens, map, text, a, b)
  PROVE  Spells(Sweep(tokens, map), map, text, a, b)
<1> DEFINE long == {e \in map : Long(e.value)}
           exact == {e \in long : e.ph[1] \in CaseSensitive}
           first == SweepPass(tokens, exact, TRUE)
           others == long \ exact
<1>1. AreValues(long)
  BY LongIsNotEmpty
<1>2. /\ exact \in SUBSET map /\ AreValues(exact)
      /\ others \in SUBSET map /\ AreValues(others)
  BY <1>1 DEF AreValues
<1>3. Sweep(tokens, map) = SweepPass(first, others, FALSE)
  BY DEF Sweep
<1> HIDE DEF exact, others
<1>4. Spells(first, map, text, a, b)
  BY <1>2, PassSpells
<1> HIDE DEF first
<1>5. Spells(SweepPass(first, others, FALSE), map, text, a, b)
  BY <1>2, <1>4, PassSpells
<1> QED BY <1>3, <1>5

-----------------------------------------------------------------------------
(* Restoring it *)

LEMMA StandsGlued ==
  ASSUME NEW text, NEW a, NEW b, NEW c, NEW u, NEW v, StandsFor(u, text, a, b), StandsFor(v, text, b, c)
  PROVE  StandsFor(u \o v, text, a, c)
<1> DEFINE w == u \o v
           m == Len(u)
           n == Len(v)
<1>1. /\ IsText(u) /\ a \in Nat /\ b \in Nat /\ a <= b /\ m = b - a
      /\ \A j \in 1 .. b - a : Fold[u[j]] = Fold[text[a + j]]
  BY DEF StandsFor
<1>2. /\ IsText(v) /\ c \in Nat /\ b <= c /\ c <= Len(text) /\ n = c - b
      /\ \A j \in 1 .. c - b : Fold[v[j]] = Fold[text[b + j]]
  BY DEF StandsFor
<1>3. /\ IsText(w) /\ Len(w) = m + n
      /\ (\A i \in 1 .. m : w[i] = u[i])
      /\ \A i \in 1 .. n : w[m + i] = v[i]
  <2> HIDE DEF m, n
  <2>1. IsText(u) /\ IsText(v)
    BY <1>1, <1>2
  <2> QED BY <2>1, TextsJoined DEF m, n
<1> HIDE DEF w, m, n
<1>4. ASSUME NEW j \in 1 .. c - a PROVE Fold[w[j]] = Fold[text[a + j]]
  <2>1. CASE j <= m
    <3>1. j \in 1 .. m /\ j \in 1 .. b - a
      BY <1>1, <2>1
    <3> QED BY <1>1, <1>3, <3>1
  <2>2. CASE ~(j <= m)
    <3> DEFINE i == j - m
    <3>1. i \in 1 .. n /\ i \in 1 .. c - b /\ m + i = j /\ b + i = a + j
      BY <1>1, <1>2, <2>2
    <3> HIDE DEF i
    <3>2. w[m + i] = v[i] /\ Fold[v[i]] = Fold[text[b + i]]
      BY <1>2, <1>3, <3>1
    <3> QED BY <3>1, <3>2
  <2> QED BY <2>1, <2>2
<1>5. Len(w) = c - a /\ a <= c
  BY <1>1, <1>2, <1>3
<1>6. StandsFor(w, text, a, c)
  BY <1>1, <1>2, <1>3, <1>4, <1>5 DEF StandsFor
<1> QED BY <1>6 DEF w

LEMMA FlattenExists ==
  ASSUME NEW s, Len(s) \in Nat \ {0}
  PROVE  \E f : /\ \A i \in 1 .. Len(s) : f[i] = IF i = 1 THEN s[i] ELSE f[i - 1] \o s[i]
                /\ FlattenSeq(s) = f[Len(s)]
<1> DEFINE n == Len(s)
           Value(f, i) == IF i = 1 THEN s[i] ELSE f[i - 1] \o s[i]
           Solves(f, k) == f = [i \in 1 .. k |-> Value(f, i)]
           G == {k \in Nat : \E f : Solves(f, k)}
           iter == CHOOSE f : Solves(f, n)
<1>1. 0 \in G
  <2>1. Solves([i \in 1 .. 0 |-> 0], 0)
    OBVIOUS
  <2> QED BY <2>1
<1>2. ASSUME NEW k \in Nat, k \in G PROVE k + 1 \in G
  <2>1. PICK g : Solves(g, k)
    BY <1>2
  <2> DEFINE f == [i \in 1 .. k + 1 |-> Value(g, i)]
  <2>2. \A i \in 1 .. k : f[i] = g[i]
    <3>1. \A i \in 1 .. k : i \in 1 .. k + 1
      OBVIOUS
    <3> HIDE DEF Value
    <3> QED BY <2>1, <3>1
  <2>3. \A i \in 1 .. k + 1 : i = 1 \/ i - 1 \in 1 .. k
    OBVIOUS
  <2>4. \A i \in 1 .. k + 1 : Value(f, i) = Value(g, i)
    <3> HIDE DEF f
    <3> QED BY <2>2, <2>3
  <2>5. Solves(f, k + 1)
    <3>1. f = [i \in 1 .. k + 1 |-> f[i]] /\ \A i \in 1 .. k + 1 : f[i] = Value(g, i)
      OBVIOUS
    <3> HIDE DEF f, Value
    <3> QED BY <2>4, <3>1
  <2> HIDE DEF f, Solves
  <2> QED BY <2>5
<1>3. n \in G
  <2> HIDE DEF G
  <2> QED BY <1>1, <1>2, AllNumbers
<1>4. Solves(iter, n)
  <2> HIDE DEF Solves
  <2> QED BY <1>3
<1>5. FlattenSeq(s) = iter[n]
  BY DEF FlattenSeq
<1>6. \A i \in 1 .. n : iter[i] = Value(iter, i)
  <2> HIDE DEF iter, Value, n
  <2> QED BY <1>4
<1> HIDE DEF iter
<1> QED BY <1>5, <1>6

\* Tokens that stand for a text are restored to it, up to case.
LEMMA SpellsRestored ==
  ASSUME NEW map, Mapped(map), \A e, f \in map : e.ph = f.ph => e = f,
         NEW text, IsText(text), NEW tokens, Spells(tokens, map, text, 0, Len(text))
  PROVE  Rehydrates(tokens, map) /\ Folded(Rehydrated(tokens, map)) = Folded(text)
<1> DEFINE n == Len(tokens)
           s == [i \in 1 .. n |-> IF Len(tokens[i]) = 2 THEN ValueIn(map, tokens[i]) ELSE tokens[i]]
<1>1. IsText(tokens) /\ n \in Nat /\ DOMAIN tokens = 1 .. n
  BY DEF Spells, IsText
<1>2. PICK cut \in [0 .. n -> Nat] : /\ cut[0] = 0 /\ cut[n] = Len(text)
                                     /\ \A i \in 1 .. n : TokenFor(tokens[i], map, text, cut[i - 1], cut[i])
  BY DEF Spells
<1>3. Rehydrated(tokens, map) = FlattenSeq(s)
  BY <1>1 DEF Rehydrated
<1>4. Len(s) = n
  BY <1>1
<1>5. ASSUME NEW i \in 1 .. n
      PROVE  /\ StandsFor(s[i], text, cut[i - 1], cut[i])
             /\ Len(tokens[i]) = 2 => \E e \in map : tokens[i] = e.ph
  <2>1. s[i] = IF Len(tokens[i]) = 2 THEN ValueIn(map, tokens[i]) ELSE tokens[i]
    OBVIOUS
  <2> HIDE DEF s
  <2>2. CASE Len(tokens[i]) = 1 /\ StandsFor(tokens[i], text, cut[i - 1], cut[i])
    <3>1. Len(tokens[i]) # 2
      BY <2>2
    <3> QED BY <2>1, <2>2, <3>1
  <2>3. ASSUME NEW e \in map, tokens[i] = e.ph, StandsFor(e.value, text, cut[i - 1], cut[i])
        PROVE  StandsFor(s[i], text, cut[i - 1], cut[i])
    <3>1. Len(tokens[i]) = 2
      BY <2>3 DEF Mapped
    <3>2. ValueIn(map, tokens[i]) = e.value
      BY <2>3 DEF ValueIn
    <3> QED BY <2>1, <2>3, <3>1, <3>2
  <2>4. TokenFor(tokens[i], map, text, cut[i - 1], cut[i])
    BY <1>2
  <2>5. Len(tokens[i]) = 2 => Len(tokens[i]) # 1
    OBVIOUS
  <2> QED BY <2>2, <2>3, <2>4, <2>5 DEF TokenFor
<1>6. Rehydrates(tokens, map)
  BY <1>1, <1>5 DEF Rehydrates, Placeholders, ToSet
<1> HIDE DEF s
<1>7. CASE n = 0
  <2>1. Rehydrated(tokens, map) = s
    BY <1>3, <1>4, <1>7 DEF FlattenSeq
  <2>2. DOMAIN s = {} /\ DOMAIN text = {}
    BY <1>2, <1>7 DEF s, IsText
  <2> QED BY <1>6, <2>1, <2>2 DEF Folded
<1>8. CASE n # 0
  <2>1. PICK f : /\ \A i \in 1 .. n : f[i] = IF i = 1 THEN s[i] ELSE f[i - 1] \o s[i]
                 /\ FlattenSeq(s) = f[n]
    BY <1>1, <1>4, <1>8, FlattenExists
  <2> DEFINE G == {k \in Nat : k + 1 <= n => StandsFor(f[k + 1], text, 0, cut[k + 1])}
  <2> HIDE DEF n
  <2>2. 0 \in G
    <3>1. 1 \in 1 .. n /\ 0 + 1 = 1 /\ 1 - 1 = 0
      BY <1>1, <1>8
    <3>2. StandsFor(s[1], text, cut[0], cut[1]) /\ f[1] = s[1]
      BY <1>5, <2>1, <3>1
    <3> QED BY <1>2, <3>1, <3>2
  <2>3. ASSUME NEW k \in Nat, k \in G PROVE k + 1 \in G
    <3> SUFFICES ASSUME k + 1 + 1 <= n PROVE StandsFor(f[k + 1 + 1], text, 0, cut[k + 1 + 1])
      OBVIOUS
    <3> DEFINE i == k + 1 + 1
    <3>1. i \in 1 .. n /\ i # 1 /\ i - 1 = k + 1 /\ k + 1 <= n
      BY <1>1
    <3> HIDE DEF i
    <3>2. StandsFor(f[k + 1], text, 0, cut[k + 1]) /\ StandsFor(s[i], text, cut[k + 1], cut[i])
      BY <1>5, <2>3, <3>1
    <3>3. f[i] = f[k + 1] \o s[i]
      BY <2>1, <3>1
    <3>4. StandsFor(f[k + 1] \o s[i], text, 0, cut[i])
      BY <3>2, StandsGlued
    <3> QED BY <3>3, <3>4 DEF i
  <2>4. \A k \in Nat : k \in G
    <3> HIDE DEF G
    <3> QED BY <2>2, <2>3, AllNumbers
  <2> DEFINE v == f[n]
  <2>5. StandsFor(v, text, 0, Len(text))
    <3>1. n - 1 \in Nat /\ (n - 1) + 1 = n
      BY <1>1, <1>8
    <3>2. n - 1 \in G
      BY <2>4, <3>1
    <3> QED BY <1>2, <3>1, <3>2
  <2> HIDE DEF v
  <2>6. DOMAIN v = 1 .. Len(text) /\ DOMAIN text = 1 .. Len(text) /\ Len(text) \in Nat
    <3>1. IsText(v) /\ Len(v) = Len(text) - 0 /\ Len(text) \in Nat
      BY <2>5 DEF StandsFor, IsText
    <3> QED BY <3>1 DEF IsText
  <2>7. \A j \in 1 .. Len(text) : Fold[v[j]] = Fold[text[j]]
    <3>1. \A j \in 1 .. Len(text) - 0 : Fold[v[j]] = Fold[text[0 + j]]
      BY <2>5 DEF StandsFor
    <3> QED BY <2>6, <3>1
  <2>8. Folded(v) = Folded(text)
    BY <2>6, <2>7 DEF Folded
  <2> QED BY <1>3, <1>6, <2>1, <2>8 DEF v
<1> QED BY <1>7, <1>8

\* The placeholder of a span is that of a value its words are, up to case.
LEMMA PhStandsFor ==
  ASSUME NEW T, \A t \in T : Len(t) \in Nat, NEW S, \A s \in S : s.start \in Nat /\ s.end \in Nat,
         NEW index \in Indexes(T, S), NEW text, Len(text) \in Nat,
         NEW s, s.start \in Nat, s.end \in Nat, s.start < s.end,
         \E e \in ToSet(index) : e.key = KeyOf(text, s)
  PROVE  /\ Len(PhOf(index, text, s)) = 2
         /\ TokenFor(PhOf(index, text, s), EntityMap(index), text, Min2(s.start, Len(text)), Min2(s.end, Len(text)))
<1> DEFINE e == CHOOSE e \in ToSet(index) : e.key = KeyOf(text, s)
           v == e.value
           u == Slice(text, s)
           n == Len(text)
           a == Min2(s.start, n)
           b == Min2(s.end, n)
           d == [ph |-> e.ph, value |-> v]
<1>1. e \in ToSet(index) /\ e.key = KeyOf(text, s)
  OBVIOUS
<1>2. PhOf(index, text, s) = e.ph
  BY DEF PhOf, PhFor, KeyOf
<1> HIDE DEF e
<1>3. d \in EntityMap(index)
  BY <1>1 DEF EntityMap
<1>4. IsText(v) /\ Len(e.ph) = 2
  <2>1. Mapped(EntityMap(index))
    BY NumberedIsMapped
  <2> QED BY <1>3, <2>1 DEF Mapped
<1>5. Folded(v) = Folded(u)
  <2>1. e \in Numberings(T, S)
    BY <1>1 DEF ToSet, Indexes
  <2>2. e.key = DedupKey(e.ph[1], v)
    BY <2>1, NumberingIs
  <2>3. DedupKey(e.ph[1], v) = DedupKey(s.label, u)
    BY <1>1, <2>2 DEF KeyOf
  <2> HIDE DEF v, u
  <2> QED BY <2>3 DEF DedupKey
<1>6. /\ IsText(u) /\ Len(u) = IF b > s.start THEN b - s.start ELSE 0
      /\ \A i \in 1 .. Len(u) : u[i] = text[s.start + i]
  BY SliceIsText
<1>7. a \in Nat /\ b \in Nat /\ a <= b /\ b <= n /\ Len(u) = b - a /\ (b - a > 0 => a = s.start)
  BY <1>6 DEF Min2
<1> HIDE DEF v, u, a, b
<1>8. DOMAIN v = 1 .. Len(v) /\ DOMAIN u = 1 .. Len(u) /\ Len(v) \in Nat /\ Len(u) \in Nat
  BY <1>4, <1>6 DEF IsText
<1>9. DOMAIN v = DOMAIN u /\ \A j \in DOMAIN u : Fold[v[j]] = Fold[u[j]]
  <2>1. DOMAIN Folded(v) = DOMAIN v /\ DOMAIN Folded(u) = DOMAIN u
    BY DEF Folded
  <2>2. (\A j \in DOMAIN v : Folded(v)[j] = Fold[v[j]]) /\ \A j \in DOMAIN u : Folded(u)[j] = Fold[u[j]]
    BY DEF Folded
  <2> QED BY <1>5, <2>1, <2>2
<1>10. Len(v) = b - a
  <2>1. ~(Len(v) < Len(u)) /\ ~(Len(u) < Len(v))
    <3>1. 1 .. Len(v) = 1 .. Len(u)
      BY <1>8, <1>9
    <3> DEFINE x == Len(v)
               y == Len(u)
    <3> HIDE DEF x, y
    <3>2. x \in Nat /\ y \in Nat /\ 1 .. x = 1 .. y
      BY <1>8, <3>1 DEF x, y
    <3>3. ~(x < y) /\ ~(y < x)
      <4>1. ASSUME x < y PROVE FALSE
        <5>1. y \in 1 .. y /\ y \notin 1 .. x
          BY <3>2, <4>1
        <5> QED BY <3>2, <5>1
      <4>2. ASSUME y < x PROVE FALSE
        <5>1. x \in 1 .. x /\ x \notin 1 .. y
          BY <3>2, <4>2
        <5> QED BY <3>2, <5>1
      <4> QED BY <4>1, <4>2
    <3> QED BY <3>3 DEF x, y
  <2> QED BY <1>7, <1>8, <2>1
<1>11. \A j \in 1 .. b - a : Fold[v[j]] = Fold[text[a + j]]
  <2> TAKE j \in 1 .. b - a
  <2>1. j \in 1 .. Len(u) /\ a = s.start
    BY <1>7
  <2>2. Fold[v[j]] = Fold[u[j]] /\ u[j] = text[s.start + j]
    BY <1>6, <1>8, <1>9, <2>1
  <2> QED BY <2>1, <2>2
<1>12. StandsFor(v, text, a, b)
  BY <1>4, <1>7, <1>10, <1>11 DEF StandsFor, n
<1>13. d.ph = e.ph /\ d.value = v
  OBVIOUS
<1> HIDE DEF d
<1>14. TokenFor(e.ph, EntityMap(index), text, a, b)
  BY <1>3, <1>12, <1>13 DEF TokenFor
<1> QED BY <1>2, <1>4, <1>14 DEF a, b, n

LEMMA MapIsOneToOne ==
  ASSUME NEW T, NEW S, NEW index \in Indexes(T, S)
  PROVE  \A e, f \in EntityMap(index) : e.ph = f.ph => e = f
<1> SUFFICES ASSUME NEW e \in EntityMap(index), NEW f \in EntityMap(index), e.ph = f.ph PROVE e = f
  OBVIOUS
<1>1. PICK p \in ToSet(index) : e = [ph |-> p.ph, value |-> p.value]
  BY DEF EntityMap
<1>2. PICK q \in ToSet(index) : f = [ph |-> q.ph, value |-> q.value]
  BY DEF EntityMap
<1>3. p.ph = q.ph
  BY <1>1, <1>2
<1>4. p = q
  BY <1>3 DEF Indexes, WellNumbered
<1> QED BY <1>1, <1>2, <1>4

\* What was redacted is restored with its own map, unless spans overlap.
LEMMA RedactedRestores ==
  ASSUME NEW T, \A t \in T : Len(t) \in Nat, NEW S, \A s \in S : s.start \in Nat /\ s.end \in Nat,
         NEW index \in Indexes(T, S), NEW text, IsText(text),
         NEW marks, IsFiniteSet(marks), \A s \in marks : s.start \in Nat /\ s.end \in Nat /\ s.start < s.end,
         HasKeys(index, text, Marks(marks)),
         \A s, t \in Marks(marks) : s # t => ~Overlaps(s, t)
  PROVE  LET body == Redacted(text, marks, index)
             map == EntityMap(index)
         IN Rehydrates(body, map) /\ Folded(Rehydrated(body, map)) = Folded(text)
<1> DEFINE ph == [s \in {t \in marks : t.active} |-> PhOf(index, text, s)]
           written == Positional(Len(text), marks, ph)
           tokens == Worded(text, written)
           map == EntityMap(index)
           n == Len(text)
           body == Redacted(text, marks, index)
<1>1. n \in Nat
  BY DEF IsText
<1>2. \A s \in Marks(marks) : ph[s] = PhOf(index, text, s)
  BY DEF Marks
<1>3. ASSUME NEW s \in Marks(marks)
      PROVE  Len(ph[s]) = 2 /\ TokenFor(ph[s], map, text, Min2(s.start, n), Min2(s.end, n))
  <2>1. s.start \in Nat /\ s.end \in Nat /\ s.start < s.end /\ \E e \in ToSet(index) : e.key = KeyOf(text, s)
    BY DEF Marks, HasKeys
  <2> HIDE DEF ph
  <2>2. Len(PhOf(index, text, s)) = 2 /\ TokenFor(PhOf(index, text, s), map, text, Min2(s.start, n), Min2(s.end, n))
    BY <1>1, <2>1, PhStandsFor
  <2> QED BY <1>2, <2>2
<1>4. body = Sweep(tokens, map)
  BY DEF Redacted, KnownValues, Worded, Word
<1> HIDE DEF ph, map
<1>5. Spells(tokens, map, text, 0, n)
  BY <1>1, <1>3, PositionalSpells
<1> HIDE DEF tokens
<1>6. Mapped(map) /\ \A e, f \in map : e.ph = f.ph => e = f
  BY NumberedIsMapped, MapIsOneToOne DEF map
<1>7. Spells(body, map, text, 0, n)
  <2> HIDE DEF body
  <2> QED BY <1>4, <1>5, <1>6, SweepSpells
<1> HIDE DEF body
<1>8. Rehydrates(body, map) /\ Folded(Rehydrated(body, map)) = Folded(text)
  BY <1>6, <1>7, SpellsRestored
<1> QED BY <1>8 DEF body, map

-----------------------------------------------------------------------------
(* Detections *)

Found(n) == [start : 0 .. n, end : 0 .. n, label : STRING, conf : Int, tier : Nat]
Moved(s, i, j) == [s EXCEPT !.start = i, !.end = j]
Moves(raw, n) == {Moved(s, i, j) : s \in raw, i \in 0 .. n, j \in 0 .. n}

LEMMA MovedTyped ==
  ASSUME NEW n \in Nat, NEW s \in Found(n), NEW i \in 0 .. n, NEW j \in 0 .. n
  PROVE  /\ Moved(s, i, j) \in Found(n) /\ Moved(s, i, j).start = i /\ Moved(s, i, j).end = j
         /\ Moved(s, s.start, s.end) = s
         /\ \A k, l : Moved(Moved(s, i, j), k, l) = Moved(s, k, l)
BY DEF Found, Moved

\* A name's end, and then its beginning.
LEMMA GrownIsMoved ==
  ASSUME NEW text, Len(text) \in Nat, NEW s \in Found(Len(text))
  PROVE  \E i, j \in 0 .. Len(text) : Grown(text, s) = Moved(s, i, j) /\ i <= s.start /\ s.end <= j
<1> DEFINE n == Len(text)
           named(from, to) == \A i \in (from + 1) .. to : text[i] \in NameLike
           finish == CHOOSE r \in s.end .. n :
                      /\ named(s.end, r) /\ (r > s.end => r - s.start <= 5)
                      /\ r = n \/ r - s.start >= 5 \/ ~named(r, r + 1)
           begin == CHOOSE l \in 0 .. s.start :
                     /\ named(l, s.start) /\ (l < s.start => finish - l <= 5)
                     /\ l = 0 \/ finish - l >= 5 \/ ~named(l - 1, l)
<1>1. n \in Nat /\ s.start \in 0 .. n /\ s.end \in 0 .. n
  BY DEF Found
<1>2. finish \in s.end .. n
  <2> DEFINE R == {r \in s.end .. n : named(s.end, r) /\ (r > s.end => r - s.start <= 5)}
             rank == [r \in R |-> r]
  <2>1. s.end \in R
    BY <1>1
  <2>2. rank \in [R -> Nat] /\ \A r \in R : rank[r] <= n
    BY <1>1
  <2> HIDE DEF R, rank
  <2>3. PICK m \in R : \A q \in R : rank[q] <= rank[m]
    BY <1>1, <2>1, <2>2, LargestRank
  <2>4. \A q \in R : q <= m
    BY <2>3 DEF rank
  <2>5. ASSUME ~(m = n \/ m - s.start >= 5 \/ ~named(m, m + 1)) PROVE FALSE
    <3>1. m \in s.end .. n /\ named(s.end, m)
      BY DEF R
    <3>2. m + 1 \in s.end .. n /\ m + 1 - s.start <= 5
      BY <1>1, <2>5, <3>1
    <3>3. named(s.end, m + 1)
      BY <1>1, <2>5, <3>1
    <3>4. m + 1 > s.end => (m + 1) - s.start <= 5
      BY <1>1, <3>1, <3>2
    <3>5. m + 1 \in R
      <4> HIDE DEF named
      <4> QED BY Zenon, <3>2, <3>3, <3>4 DEF R
    <3> QED BY <1>1, <2>4, <3>1, <3>5
  <2> QED BY <2>5 DEF R
<1> HIDE DEF finish
<1>3. begin \in 0 .. s.start
  <2> DEFINE L == {l \in 0 .. s.start : named(l, s.start) /\ (l < s.start => finish - l <= 5)}
             rank == [l \in L |-> s.start - l]
  <2>1. s.start \in L
    BY <1>1
  <2>2. s.start \in Nat /\ rank \in [L -> Nat] /\ \A l \in L : rank[l] <= s.start
    BY <1>1
  <2> HIDE DEF L, rank
  <2>3. PICK l \in L : \A q \in L : rank[q] <= rank[l]
    BY <2>1, <2>2, LargestRank
  <2>4. \A q \in L : q >= l
    <3>1. \A q \in L : rank[q] = s.start - q /\ q \in 0 .. s.start
      BY DEF rank, L
    <3> QED BY <1>1, <2>3, <3>1
  <2>5. ASSUME ~(l = 0 \/ finish - l >= 5 \/ ~named(l - 1, l)) PROVE FALSE
    <3>1. l \in 0 .. s.start /\ named(l, s.start)
      BY DEF L
    <3>2. l - 1 \in 0 .. s.start /\ finish - (l - 1) <= 5
      BY <1>1, <1>2, <2>5, <3>1
    <3>3. named(l - 1, s.start)
      BY <1>1, <2>5, <3>1
    <3>4. l - 1 \in L
      <4> HIDE DEF named
      <4> QED BY <3>2, <3>3 DEF L
    <3> QED BY <1>1, <2>4, <3>1, <3>4
  <2> QED BY <2>5 DEF L
<1> HIDE DEF begin
<1>4. Grown(text, s) = IF s.label = "person" /\ s.conf >= 75 /\ named(begin, finish)
                         THEN Moved(s, begin, finish) ELSE s
  BY DEF Grown, Moved, begin, finish
<1>5. begin \in 0 .. n /\ finish \in 0 .. n /\ begin <= s.start /\ s.end <= finish
      /\ s.start <= s.start /\ s.end <= s.end
  BY <1>1, <1>2, <1>3
<1>6. s = Moved(s, s.start, s.end)
  BY <1>1, MovedTyped
<1> HIDE DEF named
<1> QED BY <1>1, <1>4, <1>5, <1>6

\* Every place a detection may be moved to.
LEMMA MovesFinite ==
  ASSUME NEW raw, IsFiniteSet(raw), NEW n \in Nat
  PROVE  IsFiniteSet(Moves(raw, n))
<1> DEFINE P == (raw \X (0 .. n)) \X (0 .. n)
           f == [p \in P |-> Moved(p[1][1], p[1][2], p[2])]
           M == {Moved(s, i, j) : s \in raw, i \in 0 .. n, j \in 0 .. n}
<1>1. IsFiniteSet(0 .. n)
  BY FS_Interval
<1>2. IsFiniteSet(P)
  BY <1>1, FS_Product
<1>3. IsFiniteSet({f[p] : p \in P})
  <2> HIDE DEF P, f
  <2> QED BY <1>2, ImageFinite
<1>4. M \subseteq {f[p] : p \in P}
  <2>1. ASSUME NEW s \in raw, NEW i \in 0 .. n, NEW j \in 0 .. n PROVE Moved(s, i, j) \in {f[p] : p \in P}
    <3>1. <<<<s, i>>, j>> \in P /\ f[<<<<s, i>>, j>>] = Moved(s, i, j)
      OBVIOUS
    <3> HIDE DEF P, f
    <3> QED BY <3>1
  <2> QED BY <2>1
<1> HIDE DEF M, P, f
<1>5. IsFiniteSet(M)
  BY <1>3, <1>4, FS_Subset
<1> QED BY <1>5 DEF M, Moves

LEMMA RepeatsTyped ==
  ASSUME NEW text, Len(text) \in Nat, NEW raw, IsFiniteSet(raw), raw \subseteq Found(Len(text)),
         \A s \in raw : s.start < s.end
  PROVE  /\ IsFiniteSet(PropagateRepeats(text, raw)) /\ PropagateRepeats(text, raw) \subseteq Found(Len(text))
         /\ \A r \in PropagateRepeats(text, raw) : r.start < r.end
<1> DEFINE n == Len(text)
           M == Moves(raw, n)
           grown == {Grown(text, s) : s \in raw}
           sources == {s \in grown : s.label \in Propagated /\ s.conf >= 75 /\ Long(Slice(text, s))}
           parts(s) == {Slice(text, s)} \cup
                         (IF s.label = "person" THEN {<<w>> : w \in ToSet(Slice(text, s)) \ Short} ELSE {})
           places(v) == {i \in 0 .. (n - Len(v)) :
                           Folded(SubSeq(text, i + 1, i + Len(v))) = Folded(v)}
           repeats(s, v) == {[s EXCEPT !.start = i, !.end = i + Len(v)] :
                               i \in {j \in places(v) : j < s.start \/ j >= s.end}}
<1>1. PropagateRepeats(text, raw) = grown \cup UNION {UNION {repeats(s, v) : v \in parts(s)} : s \in sources}
  BY DEF PropagateRepeats
<1>0. n \in Nat /\ raw \subseteq Found(n)
  OBVIOUS
<1>2. \A r \in grown : r \in M /\ r.start < r.end
  <2>1. ASSUME NEW s \in raw PROVE Grown(text, s) \in M /\ Grown(text, s).start < Grown(text, s).end
    <3>1. PICK i, j \in 0 .. n : Grown(text, s) = Moved(s, i, j) /\ i <= s.start /\ s.end <= j
      BY GrownIsMoved
    <3>2. Moved(s, i, j) \in M
      BY DEF Moves
    <3>3. Moved(s, i, j).start = i /\ Moved(s, i, j).end = j
      <4> HIDE DEF n, M
      <4> QED BY <1>0, MovedTyped
    <3>4. s.start \in Nat /\ s.end \in Nat /\ s.start < s.end
      BY DEF Found
    <3> HIDE DEF M
    <3> QED BY <3>1, <3>2, <3>3, <3>4
  <2> HIDE DEF M
  <2> QED BY <2>1
<1>3. \A m \in M : m \in Found(n) /\ m.start \in 0 .. n /\ m.end \in 0 .. n
  <2> TAKE m \in M
  <2>1. PICK s \in raw, k \in 0 .. n, l \in 0 .. n : m = Moved(s, k, l)
    BY DEF Moves
  <2> HIDE DEF n
  <2> QED BY <1>0, <2>1, MovedTyped
<1>4. \A m \in M, i, j \in 0 .. n : Moved(m, i, j) \in M
  <2>1. ASSUME NEW m \in M, NEW i \in 0 .. n, NEW j \in 0 .. n PROVE Moved(m, i, j) \in M
    <3>1. PICK s \in raw, k \in 0 .. n, l \in 0 .. n : m = Moved(s, k, l)
      BY DEF Moves
    <3>2. Moved(m, i, j) = Moved(s, i, j)
      <4> HIDE DEF n
      <4> QED BY <1>0, <3>1, MovedTyped
    <3> QED BY <3>2 DEF Moves
  <2> HIDE DEF M
  <2> QED BY <2>1
<1> HIDE DEF n, M, grown, places, sources, parts, repeats
<1>5. ASSUME NEW s \in sources, NEW v \in parts(s), NEW r \in repeats(s, v) PROVE r \in M /\ r.start < r.end
  <2>1. s \in M /\ s.start \in Nat /\ s.end \in Nat
    <3>1. s \in M
      BY <1>2 DEF sources
    <3> QED BY <1>0, <1>3, <3>1
  <2>2. Len(v) \in Nat \ {0}
    <3>1. CASE v = Slice(text, s)
      <4>1. IsText(v) /\ Long(v)
        BY <2>1, <3>1, SliceIsText DEF sources
      <4>2. Len(v) \in Nat /\ v = [k \in 1 .. Len(v) |-> v[k]]
        BY <4>1 DEF IsText
      <4>3. Len(v) = 0 => v = <<>>
        BY <4>2
      <4> QED BY <4>1, <4>2, <4>3 DEF Long
    <3>2. CASE v # Slice(text, s)
      <4>1. PICK w : v = <<w>>
        BY <3>2 DEF parts
      <4> QED BY <4>1
    <3> QED BY <3>1, <3>2
  <2>3. PICK i \in places(v) : r = Moved(s, i, i + Len(v))
    BY DEF Moved, repeats
  <2>4. i \in 0 .. n /\ i + Len(v) \in 0 .. n /\ i < i + Len(v)
    <3>1. i \in 0 .. (n - Len(v))
      BY <2>3 DEF places
    <3> QED BY <1>0, <2>2, <3>1
  <2>5. r.start = i /\ r.end = i + Len(v)
    <3>1. s \in Found(n)
      BY <1>3, <2>1
    <3> HIDE DEF n
    <3> QED BY <1>0, <2>3, <2>4, <3>1, MovedTyped
  <2> QED BY <1>4, <2>1, <2>3, <2>4, <2>5
<1>6. \A r \in PropagateRepeats(text, raw) : r \in M /\ r.start < r.end
  BY <1>1, <1>2, <1>5
<1>7. IsFiniteSet(M)
  BY <1>0, MovesFinite DEF M
<1> QED BY <1>3, <1>6, <1>7, FS_Subset DEF n

LEMMA SortedLists ==
  ASSUME NEW S, IsFiniteSet(S)
  PROVE  Sorted(S, [s \in S |-> {t \in S : Before(t, s)}]) \in Seq(S)
<1> DEFINE rank == [s \in S |-> Cardinality({t \in S : Before(t, s)})]
<1>1. Cardinality(S) \in Nat /\ \A B \in SUBSET S : Cardinality(B) \in Nat /\ Cardinality(B) <= Cardinality(S)
  BY FS_Subset, FS_CardinalityType
<1>2. rank \in [S -> Nat] /\ \A s \in S : rank[s] <= Cardinality(S)
  BY <1>1
<1>3. Sorted(S, [s \in S |-> {t \in S : Before(t, s)}]) = Ranked(S, rank)
  BY DEF Sorted
<1> HIDE DEF rank
<1>4. Lists(Ranked(S, rank), S, rank)
  BY <1>1, <1>2, RankedLists
<1> QED BY <1>3, <1>4 DEF Lists

Clusters(raw) == {c \in [start : Nat, end : Nat, by : raw, floors : Seq(raw)] : c.start < c.end}

LEMMA JoinedStays ==
  ASSUME NEW raw, NEW out \in Seq(Clusters(raw)), NEW s \in raw, s.start \in Nat, s.end \in Nat,
         s.start < s.end
  PROVE  Joined(out, s) \in Seq(Clusters(raw))
<1> DEFINE c == Last(out)
           outscores == s.conf > c.by.conf \/ (s.conf = c.by.conf /\ s.end - s.start > c.by.end - c.by.start)
           wider == [start |-> c.start, end |-> IF s.end > c.end THEN s.end ELSE c.end,
                     by |-> IF outscores THEN s ELSE c.by,
                     floors |-> IF s.label \in FloorLabels THEN Append(c.floors, s) ELSE c.floors]
           own == [start |-> s.start, end |-> s.end, by |-> s,
                   floors |-> IF s.label \in FloorLabels THEN <<s>> ELSE <<>>]
<1>1. Joined(out, s) = IF out # <<>> /\ s.start < c.end THEN Append(Front(out), wider) ELSE Append(out, own)
  BY DEF Joined
<1>2. own \in Clusters(raw)
  <2>1. <<s>> \in Seq(raw) /\ <<>> \in Seq(raw)
    OBVIOUS
  <2> QED BY <2>1 DEF Clusters
<1>3. ASSUME out # <<>> PROVE wider \in Clusters(raw) /\ Front(out) \in Seq(Clusters(raw))
  <2>1. c \in Clusters(raw)
    BY <1>3 DEF Last
  <2>2. c.start \in Nat /\ c.end \in Nat /\ c.start < c.end /\ c.by \in raw /\ c.floors \in Seq(raw) /\ Append(c.floors, s) \in Seq(raw)
    <3> HIDE DEF c
    <3> QED BY <2>1 DEF Clusters
  <2> HIDE DEF c, outscores
  <2>3. wider \in Clusters(raw)
    BY <2>2 DEF Clusters
  <2>4. Front(out) \in Seq(Clusters(raw))
    BY <1>3 DEF Front
  <2> QED BY <2>3, <2>4
<1> HIDE DEF wider, own, c
<1> QED BY <1>1, <1>2, <1>3

\* The spans a merge makes of them.
Places(S) == IsFiniteSet(S) /\ \A s \in S : s.start \in Nat /\ s.end \in Nat /\ s.start < s.end

LEMMA MergedPlaces ==
  ASSUME NEW raw, Places(raw)
  PROVE  Places(MergeSpans(raw))
<1> DEFINE list == Sorted(raw, [s \in raw |-> {t \in raw : Before(t, s)}])
           X == Seq(Clusters(raw))
           b == <<>>
           Value(g, R) == IF R = {} THEN b ELSE Joined(g[R \ {Max(R)}], list[Max(R)])
           Solves(g) == g = [R \in SUBSET DOMAIN list |-> Value(g, R)]
           iter == CHOOSE g : Solves(g)
           m == Len(list)
           step == [p \in X \X (1 .. m) |-> Joined(p[1], list[p[2]])]
           out == iter[DOMAIN list]
<1>1. MergeSpans(raw) = {[start |-> c.start, end |-> c.end, label |-> ClusterLabel(c)] : c \in ToSet(out)}
  BY DEF MergeSpans, FoldLeft, MapThenFoldSet
<1>2. m \in Nat /\ DOMAIN list = 1 .. m /\ \A i \in 1 .. m : list[i] \in raw
  <2>1. list \in Seq(raw)
    BY SortedLists DEF Places
  <2> HIDE DEF list
  <2> QED BY <2>1
<1>3. b \in X /\ \A x \in X, s \in raw : Joined(x, s) \in X
  BY JoinedStays DEF Places
<1> HIDE DEF b, X
<1>4. \A x \in X, i \in 1 .. m : step[<<x, i>>] = Joined(x, list[i]) /\ step[<<x, i>>] \in X
  BY <1>2, <1>3
<1> HIDE DEF list, m, step
<1>5. PICK f \in [SUBSET (1 .. m) -> X] :
        \A R \in SUBSET (1 .. m) : f[R] = IF R = {} THEN b ELSE step[<<f[R \ {Max(R)}], Max(R)>>]
  <2>1. LeftFolds(m, X, b, step)
    BY <1>2, <1>3, <1>4, LeftFoldExists
  <2> QED BY <2>1 DEF LeftFolds
<1>6. \A R \in SUBSET (1 .. m) : R # {} => Max(R) \in 1 .. m /\ R \ {Max(R)} \in SUBSET (1 .. m)
  BY <1>2, MaxIsLargest
<1>7. Solves(f)
  <2>1. \A R \in SUBSET (1 .. m) : f[R] = Value(f, R)
    BY <1>4, <1>5, <1>6
  <2> HIDE DEF Value
  <2> QED BY <1>2, <2>1
<1>8. Solves(iter)
  <2> HIDE DEF Solves
  <2> QED BY <1>7
<1>9. \A R \in SUBSET (1 .. m) : iter[R] = Value(iter, R)
  <2> HIDE DEF iter, Value
  <2> QED BY <1>2, <1>8
<1> HIDE DEF iter
<1>10. iter[{}] \in X
  BY <1>3, <1>9
<1>11. ASSUME NEW R \in SUBSET (1 .. m), R # {}, iter[R \ {Max(R)}] \in X PROVE iter[R] \in X
  <2>1. Max(R) \in 1 .. m /\ list[Max(R)] \in raw
    BY <1>2, <1>6, <1>11
  <2>2. iter[R] = Joined(iter[R \ {Max(R)}], list[Max(R)])
    BY <1>9, <1>11
  <2> QED BY <1>3, <1>11, <2>1, <2>2
<1> HIDE DEF Value
<1>12. out \in X
  <2>1. iter[1 .. m] \in X
    <3>1. \A R \in SUBSET (1 .. m) : iter[R] \in X
      BY <1>2, <1>10, <1>11, LeftFoldKeeps
    <3> QED BY <3>1
  <2> QED BY <1>2, <2>1
<1> HIDE DEF out
<1>13. IsFiniteSet(ToSet(out)) /\ \A c \in ToSet(out) : c.start \in Nat /\ c.end \in Nat /\ c.start < c.end
  <2>1. out \in Seq(Clusters(raw))
    BY <1>12 DEF X
  <2>2. \A c \in ToSet(out) : c \in Clusters(raw)
    BY <2>1 DEF ToSet
  <2> QED BY <2>1, <2>2, ListIsFinite DEF Clusters
<1> DEFINE h == [c \in ToSet(out) |-> [start |-> c.start, end |-> c.end, label |-> ClusterLabel(c)]]
<1>14. MergeSpans(raw) = {h[c] : c \in ToSet(out)}
  BY <1>1
<1>15. IsFiniteSet({h[c] : c \in ToSet(out)})
  <2> HIDE DEF h
  <2> QED BY <1>13, ImageFinite
<1>16. ASSUME NEW r \in MergeSpans(raw) PROVE r.start \in Nat /\ r.end \in Nat /\ r.start < r.end
  <2>1. PICK c \in ToSet(out) : r = [start |-> c.start, end |-> c.end, label |-> ClusterLabel(c)]
    BY <1>1
  <2>2. r.start = c.start /\ r.end = c.end
    BY <2>1
  <2> QED BY <1>13, <2>2
<1> HIDE DEF h
<1> QED BY <1>14, <1>15, <1>16 DEF Places

LEMMA DeepPlaces ==
  ASSUME NEW text, Len(text) \in Nat, NEW floor, NEW neural, IsFiniteSet(floor \cup neural),
         floor \cup neural \subseteq Found(Len(text)), \A s \in floor \cup neural : s.start < s.end
  PROVE  Places(DeepSpans(text, floor, neural))
<1>1. Places(PropagateRepeats(text, floor \cup neural))
  <2>1. \A s \in Found(Len(text)) : s.start \in Nat /\ s.end \in Nat
    BY DEF Found
  <2> QED BY <2>1, RepeatsTyped DEF Places
<1> QED BY <1>1, MergedPlaces DEF DeepSpans

-----------------------------------------------------------------------------
(* The document workbench *)

\* The steps of the app as the workbench sees them.
BenchNext ==
  \/ WbNext
  \/ CloseWorkbench
  \/ UNCHANGED <<review, status, scans, zips, store, sent>>

LEMMA BenchSteps ==
  ASSUME [ShellNext]_shellVars
  PROVE  BenchNext
<1>1. CASE InConsole \/ UNCHANGED shellVars
  BY <1>1 DEF InConsole, shellVars, wbVars, BenchNext
<1>2. CASE InWorkbench
  BY <1>2 DEF InWorkbench, BenchNext
<1>3. CASE OpenFirewall
  BY <1>3 DEF OpenFirewall, BenchNext
<1>4. CASE OpenRedact
  BY <1>4 DEF OpenRedact, BenchNext
<1>5. CASE LateExport
  BY <1>5 DEF LateExport, BenchNext, WbNext
<1> QED BY <1>1, <1>2, <1>3, <1>4, <1>5 DEF ShellNext

\* Spans keep the document they are of and stay finitely many, through every
\* edit.
IsSpan(s, D) ==
  /\ {"start", "end", "of"} \subseteq DOMAIN s
  /\ s.start \in Nat /\ s.end \in Nat /\ s.start < s.end /\ s.of \in D
Placed(S, D) == IsFiniteSet(S) /\ \A s \in S : IsSpan(s, D)

LEMMA NothingPlaced ==
  ASSUME NEW D
  PROVE  Placed({}, D)
BY FS_EmptySet DEF Placed

LEMMA MappedPlaced ==
  ASSUME NEW D, NEW S, IsFiniteSet(S), NEW f, \A s \in S : IsSpan(f[s], D)
  PROVE  Placed({f[s] : s \in S}, D)
<1>1. IsFiniteSet({f[s] : s \in S})
  BY ImageFinite
<1> QED BY <1>1 DEF Placed

LEMMA SpanEdited ==
  ASSUME NEW D, NEW s, IsSpan(s, D), NEW v
  PROVE  IsSpan([s EXCEPT !.active = v], D) /\ IsSpan([s EXCEPT !.label = v], D)
BY DEF IsSpan

LEMMA NewSpansPlaced ==
  ASSUME NEW R, Places(R), NEW source, NEW hidden, NEW D, NEW d \in D
  PROVE  Placed(ToSpans(R, source, hidden, d), D)
<1> DEFINE f == [r \in R |-> [start |-> r.start, end |-> r.end, label |-> r.label, source |-> source,
                              active |-> r.label \notin hidden, of |-> d]]
<1>1. ToSpans(R, source, hidden, d) = {f[r] : r \in R}
  BY DEF ToSpans
<1>2. \A r \in R : IsSpan(f[r], D)
  BY DEF IsSpan, Places
<1> HIDE DEF f
<1> QED BY <1>1, <1>2, MappedPlaced DEF Places

LEMMA DetectionsPlaced ==
  ASSUME NEW D, NEW d \in D \cap Docs, NEW hidden
  PROVE  Placed(Tier0(d, hidden), D) /\ Placed(DeepResult(d, hidden), D)
<1>1. /\ Len(Text[d]) \in Nat /\ IsFiniteSet(Floor[d] \cup Neural[d])
      /\ Floor[d] \cup Neural[d] \subseteq Found(Len(Text[d]))
      /\ \A s \in Floor[d] \cup Neural[d] : s.start < s.end
  <2>1. Text[d] \in Seq(DOMAIN Fold)
    BY DetectionAssumption
  <2>2. Len(Text[d]) \in Nat
    BY <2>1
  <2> QED BY <2>2, DetectionAssumption DEF Found
<1>2. Places(MergeSpans(Floor[d]))
  <2>1. IsFiniteSet(Floor[d]) /\ Floor[d] \subseteq Found(Len(Text[d]))
    BY <1>1, FS_Subset
  <2>2. Places(Floor[d])
    BY <1>1, <2>1 DEF Places, Found
  <2> QED BY <2>2, MergedPlaces
<1>3. Places(DeepSpans(Text[d], Floor[d], Neural[d]))
  BY <1>1, DeepPlaces
<1> QED BY <1>2, <1>3, NewSpansPlaced DEF Tier0, DeepResult

LEMMA CombinedPlaced ==
  ASSUME NEW D, NEW prev, NEW found, Placed(prev, D), Placed(found, D)
  PROVE  Placed(CombineWithManual(prev, found), D)
<1> DEFINE manual == {s \in prev : s.source = "manual"}
           new == {d \in found : \A m \in manual : m.active => ~Overlaps(d, m)}
<1>1. IsFiniteSet(manual) /\ IsFiniteSet(new)
  BY FS_Subset DEF Placed
<1>2. IsFiniteSet(manual \cup new)
  <2> HIDE DEF manual, new
  <2> QED BY <1>1, FS_Union
<1> QED BY <1>2 DEF Placed, CombineWithManual

LEMMA InsertedPlaced ==
  ASSUME NEW D, NEW S, NEW s, Placed(S, D), IsSpan(s, D)
  PROVE  Placed(InsertSpan(S, s), D)
<1> DEFINE kept == {t \in S : ~Overlaps(s, t)}
<1>1. IsFiniteSet(kept)
  BY FS_Subset DEF Placed
<1>2. IsFiniteSet(kept \cup {s})
  <2> HIDE DEF kept
  <2> QED BY <1>1, FS_AddElement
<1> QED BY <1>2 DEF Placed, InsertSpan

\* What is loaded, and the files of a batch as a scan captures them.
InView == IF InBatch THEN {batch[i].doc : i \in DOMAIN batch} ELSE {doc} \cap Docs

Listed(b) ==
  /\ Len(b) \in Nat /\ DOMAIN b = 1 .. Len(b)
  /\ \A i \in DOMAIN b : {"id", "doc", "spans", "deep"} \subseteq DOMAIN b[i] /\ b[i].doc \in Docs

SameFiles(b, c) ==
  /\ DOMAIN b = DOMAIN c
  /\ \A i \in DOMAIN c : b[i].id = c[i].id /\ b[i].doc = c[i].doc

EntriesInv ==
  /\ Listed(batch) /\ doc \in Docs \cup {NoDoc}
  /\ \A i, j \in DOMAIN batch : batch[i].id = batch[j].id => i = j
  /\ InBatch => \E i \in DOMAIN batch : batch[i].id = active /\ batch[i].doc = doc /\ batch[i].spans = spans
  /\ Placed(spans, InView)
  /\ \A i \in DOMAIN batch : Placed(batch[i].spans, InView)

\* A scan of this generation is of what is loaded.
ScanShape == {"kind", "gen", "aborted", "doc", "muted", "entries", "active"}
Captured(es) ==
  /\ Listed(es) /\ SameFiles(es, batch)
  /\ \A i \in DOMAIN es : Placed(es[i].spans, InView)
ScansInv ==
  /\ gen \in Nat
  /\ \A t \in scans :
       /\ ScanShape \subseteq DOMAIN t
       /\ t.gen \in Nat /\ t.gen <= gen
       /\ t.gen = gen => t.doc \in InView /\ (t.kind = "all" => Captured(t.entries))

LEMMA MirroredFiles ==
  ASSUME NEW b, NEW id, NEW live, Listed(b)
  PROVE  /\ Listed(Mirrored(b, id, live)) /\ SameFiles(Mirrored(b, id, live), b)
         /\ \A i \in DOMAIN b : Mirrored(b, id, live)[i].deep = b[i].deep
         /\ \A i \in DOMAIN b : b[i].id = id => Mirrored(b, id, live)[i].spans = live
         /\ \A D : Placed(live, D) /\ (\A i \in DOMAIN b : Placed(b[i].spans, D))
                     => \A i \in DOMAIN b : Placed(Mirrored(b, id, live)[i].spans, D)
<1> DEFINE m == Mirrored(b, id, live)
<1>1. /\ m = [i \in 1 .. Len(b) |-> m[i]] /\ Len(b) \in Nat /\ DOMAIN m = DOMAIN b
      /\ \A i \in DOMAIN b : m[i] = IF b[i].id = id THEN [b[i] EXCEPT !.spans = live] ELSE b[i]
  BY DEF Mirrored, Listed
<1>2. \A i \in DOMAIN b : /\ m[i].id = b[i].id /\ m[i].doc = b[i].doc /\ m[i].deep = b[i].deep
                          /\ DOMAIN m[i] = DOMAIN b[i]
                          /\ m[i].spans = (IF b[i].id = id THEN live ELSE b[i].spans)
  BY <1>1 DEF Listed
<1> HIDE DEF m
<1>3. Len(m) = Len(b)
  BY <1>1
<1> QED BY <1>1, <1>2, <1>3 DEF Listed, SameFiles, m

LEMMA DocIsLoaded ==
  ASSUME EntriesInv
  PROVE  InView \subseteq Docs /\ (doc # NoDoc => doc \in InView)
BY DEF EntriesInv, InView, Listed

\* What is loaded depends on the files alone.
LEMMA LoadedStays ==
  ASSUME EntriesInv, SameFiles(batch', batch), Listed(batch'),
         ~InBatch => batch' = batch /\ doc' = doc
  PROVE  InView' = InView
<1>1. CASE InBatch
  BY <1>1 DEF EntriesInv, SameFiles, InView, InBatch
<1>2. CASE ~InBatch
  BY <1>2 DEF InView, InBatch
<1> QED BY <1>1, <1>2

\* What is put on screen is copied into the active file.
LEMMA ShownStays ==
  ASSUME EntriesInv, NEW live, Show(live), doc' = doc, active' = active, Placed(live, InView)
  PROVE  /\ EntriesInv' /\ InView' = InView /\ SameFiles(batch', batch)
         /\ \A i \in DOMAIN batch : batch'[i].deep = batch[i].deep
<1>1. spans' = live /\ batch' = Mirrored(batch, active, live)
  BY DEF Show
<1>2. /\ Listed(batch') /\ SameFiles(batch', batch)
      /\ \A i \in DOMAIN batch : batch'[i].deep = batch[i].deep
      /\ \A i \in DOMAIN batch : Placed(batch'[i].spans, InView)
      /\ \A i \in DOMAIN batch : batch[i].id = active => batch'[i].spans = live
  BY <1>1, MirroredFiles DEF EntriesInv
<1>3. ~InBatch => batch' = batch
  BY <1>1 DEF InBatch, Mirrored
<1>4. InView' = InView
  BY <1>2, <1>3, LoadedStays
<1>5. InBatch' => InBatch
  BY <1>3 DEF InBatch
<1>6. InBatch' => \E i \in DOMAIN batch' : batch'[i].id = active' /\ batch'[i].doc = doc' /\ batch'[i].spans = spans'
  <2> SUFFICES ASSUME InBatch'
               PROVE  \E i \in DOMAIN batch' : batch'[i].id = active' /\ batch'[i].doc = doc' /\ batch'[i].spans = spans'
    OBVIOUS
  <2>1. PICK i \in DOMAIN batch : batch[i].id = active /\ batch[i].doc = doc
    BY <1>5 DEF EntriesInv
  <2> QED BY <1>1, <1>2, <2>1 DEF SameFiles
<1> QED BY <1>1, <1>2, <1>4, <1>6 DEF EntriesInv, SameFiles

LEMMA ScansStay ==
  ASSUME ScansInv, gen' = gen, scans' \subseteq scans, InView' = InView, SameFiles(batch', batch)
  PROVE  ScansInv'
<1>1. \A es : Captured(es) => Captured(es)'
  BY DEF Captured, SameFiles
<1> QED BY <1>1 DEF ScansInv

LEMMA ScansOutdated ==
  ASSUME ScansInv, gen' = gen + 1, scans' = scans
  PROVE  ScansInv'
<1>1. gen' \in Nat /\ \A n \in Nat : n <= gen => n <= gen' /\ n # gen'
  BY DEF ScansInv
<1> QED BY <1>1 DEF ScansInv

\* A new session, and a batch of new files.
LEMMA OpenedStays ==
  ASSUME NEW d \in Docs \cup {NoDoc}, doc' = d, Placed(spans', {d} \cap Docs), batch' = <<>>
  PROVE  EntriesInv'
<1>1. Len(batch') = 0 /\ DOMAIN batch' = {} /\ ~InBatch' /\ 1 .. 0 = {}
  BY DEF InBatch
<1>2. InView' = {d} \cap Docs
  BY <1>1 DEF InView
<1> QED BY <1>1, <1>2 DEF EntriesInv, Listed

LEMMA BatchLoaded ==
  ASSUME NEW ds \in Batches, LoadBatch(ds)
  PROVE  EntriesInv'
<1>1. ds \in Seq(Docs) /\ ds # <<>>
  BY BatchAssumption
<1>2. Len(ds) \in Nat /\ DOMAIN ds = 1 .. Len(ds) /\ 1 \in DOMAIN ds /\ \A i \in DOMAIN ds : ds[i] \in Docs
  BY <1>1
<1>3. /\ batch' = [i \in 1 .. Len(ds) |-> batch'[i]] /\ DOMAIN batch' = DOMAIN ds
      /\ \A i \in DOMAIN ds : batch'[i] = [id |-> <<gen, i>>, doc |-> ds[i], spans |-> Tier0(ds[i], muted),
                                           deep |-> "none"]
      /\ doc' = ds[1] /\ spans' = Tier0(ds[1], muted) /\ active' = <<gen, 1>>
  BY <1>2 DEF LoadBatch
<1>4. Len(batch') = Len(ds)
  BY <1>2, <1>3
<1>5. Listed(batch')
  BY <1>2, <1>3, <1>4 DEF Listed
<1>6. (\A i, j \in DOMAIN batch' : batch'[i].id = batch'[j].id => i = j) /\ batch'[1].id = active'
  <2>1. \A i \in DOMAIN ds : batch'[i].id = <<gen, i>>
    <3> TAKE i \in DOMAIN ds
    <3> DEFINE pair == <<gen, i>>
    <3>1. batch'[i] = [id |-> pair, doc |-> ds[i], spans |-> Tier0(ds[i], muted), deep |-> "none"]
      BY <1>3
    <3> HIDE DEF pair
    <3>2. batch'[i].id = pair
      BY <3>1
    <3> QED BY <3>2 DEF pair
  <2> QED BY <1>2, <1>3, <2>1
<1>7. InBatch' /\ \A i \in DOMAIN ds : ds[i] \in InView'
  BY <1>2, <1>3 DEF InView, InBatch
<1>8. Placed(spans', InView') /\ \A i \in DOMAIN batch' : Placed(batch'[i].spans, InView')
  BY <1>2, <1>3, <1>7, DetectionsPlaced
<1> QED BY <1>2, <1>3, <1>5, <1>6, <1>8 DEF EntriesInv

\* The files of a scan are those of the batch, one by one.
LEMMA AllScanned ==
  ASSUME EntriesInv, ScansInv, NEW t \in scans, DeepAllEnds(t)
  PROVE  /\ EntriesInv' /\ InView' = InView /\ SameFiles(batch', batch)
         /\ Incomplete' => RequiresConfirmation(batchStatus')
<1> DEFINE es == t.entries
           hits(n, id) == {i \in 1 .. n : es[i].id = id}
<1>1. /\ Captured(es) /\ doc' = doc /\ active' = active
      /\ Listed(batch) /\ \A i, j \in DOMAIN batch : batch[i].id = batch[j].id => i = j
  BY DEF DeepAllEnds, StillCurrent, ScansInv, EntriesInv, Finishes
<1>2. PICK n \in 0 .. Len(es) : \E found \in SUBSET (1 .. n) :
        LET results == [i \in 1 .. n |-> EntryScanned(t, i, found)]
            at(id) == {i \in 1 .. n : t.entries[i].id = id}
            merged == [j \in DOMAIN batch |->
                         IF at(batch[j].id) = {} THEN [batch[j] EXCEPT !.deep = "skipped"]
                         ELSE results[CHOOSE i \in at(batch[j].id) : TRUE]]
            live == IF at(t.active) = {} THEN spans ELSE results[CHOOSE i \in at(t.active) : TRUE].spans
        IN /\ spans' = live
           /\ batch' = Mirrored(merged, active, live)
           /\ batchStatus' = BatchResult(t, found, n)
  <2>1. Len(es) \in Nat
    BY <1>1 DEF Captured, Listed
  <2>2. (IF t.aborted THEN 0 .. Len(es) ELSE {Len(es)}) \subseteq 0 .. Len(es)
    BY <2>1
  <2> QED BY <2>2 DEF DeepAllEnds
<1>20. PICK found \in SUBSET (1 .. n) :
        LET results == [i \in 1 .. n |-> EntryScanned(t, i, found)]
            at(id) == {i \in 1 .. n : t.entries[i].id = id}
            merged == [j \in DOMAIN batch |->
                         IF at(batch[j].id) = {} THEN [batch[j] EXCEPT !.deep = "skipped"]
                         ELSE results[CHOOSE i \in at(batch[j].id) : TRUE]]
            live == IF at(t.active) = {} THEN spans ELSE results[CHOOSE i \in at(t.active) : TRUE].spans
        IN /\ spans' = live
           /\ batch' = Mirrored(merged, active, live)
           /\ batchStatus' = BatchResult(t, found, n)
  BY <1>2
<1> DEFINE result(i) == EntryScanned(t, i, found)
           merged(j) == IF hits(n, batch[j].id) = {} THEN [batch[j] EXCEPT !.deep = "skipped"]
                      ELSE result(CHOOSE i \in hits(n, batch[j].id) : TRUE)
           union == [j \in DOMAIN batch |-> merged(j)]
           live == IF hits(n, t.active) = {} THEN spans
                   ELSE result(CHOOSE i \in hits(n, t.active) : TRUE).spans
<1>3. /\ DOMAIN es = 1 .. Len(es) /\ DOMAIN es = DOMAIN batch /\ Len(es) \in Nat
      /\ \A i \in 1 .. n : i \in DOMAIN es
  BY <1>1, <1>2 DEF Captured, Listed, SameFiles
<1>4. \A i \in 1 .. n :
        /\ {"id", "doc", "spans", "deep"} \subseteq DOMAIN result(i)
        /\ result(i).id = batch[i].id /\ result(i).doc = batch[i].doc
        /\ result(i).deep = (IF i \in found THEN "done" ELSE "failed")
        /\ Placed(result(i).spans, InView)
  <2> TAKE i \in 1 .. n
  <2>1. /\ {"id", "doc", "spans", "deep"} \subseteq DOMAIN es[i]
        /\ es[i].id = batch[i].id /\ es[i].doc = batch[i].doc /\ Placed(es[i].spans, InView)
    BY <1>1, <1>3 DEF Captured, Listed, SameFiles
  <2>2. batch[i].doc \in InView
    BY <1>3 DEF InView, InBatch
  <2> DEFINE combined == CombineWithManual(es[i].spans, DeepResult(es[i].doc, t.muted))
  <2>3. Placed(combined, InView)
    <3>1. es[i].doc \in InView \cap Docs
      BY <2>1, <2>2, DocIsLoaded
    <3>2. Placed(DeepResult(es[i].doc, t.muted), InView)
      BY <3>1, DetectionsPlaced
    <3> QED BY <2>1, <3>2, CombinedPlaced
  <2>4. result(i) = [es[i] EXCEPT !.spans = IF i \in found THEN combined ELSE @,
                                  !.deep = IF i \in found THEN "done" ELSE "failed"]
    BY DEF EntryScanned
  <2> HIDE DEF result, combined, es
  <2>5. /\ DOMAIN result(i) = DOMAIN es[i] /\ result(i).id = es[i].id /\ result(i).doc = es[i].doc
        /\ result(i).deep = (IF i \in found THEN "done" ELSE "failed")
        /\ result(i).spans = (IF i \in found THEN combined ELSE es[i].spans)
    BY <2>1, <2>4
  <2> QED BY <2>1, <2>3, <2>5
<1>5. \A j \in DOMAIN batch :
        hits(n, batch[j].id) = IF j <= n THEN {j} ELSE {}
  BY <1>1, <1>3 DEF Captured, SameFiles
<1>6. \A j \in DOMAIN batch : merged(j) = IF j <= n THEN result(j) ELSE [batch[j] EXCEPT !.deep = "skipped"]
  <2> HIDE DEF result
  <2> QED BY <1>5
<1>7. \A j \in DOMAIN batch :
        /\ {"id", "doc", "spans", "deep"} \subseteq DOMAIN merged(j)
        /\ merged(j).id = batch[j].id /\ merged(j).doc = batch[j].doc
        /\ merged(j).deep = (IF j > n THEN "skipped" ELSE IF j \in found THEN "done" ELSE "failed")
        /\ Placed(merged(j).spans, InView)
  <2> TAKE j \in DOMAIN batch
  <2>1. {"id", "doc", "spans", "deep"} \subseteq DOMAIN batch[j] /\ Placed(batch[j].spans, InView) /\ j \in 1 .. Len(es)
    BY <1>1, <1>3 DEF Listed, EntriesInv
  <2> HIDE DEF merged, result, es
  <2>2. CASE j <= n
    BY <1>2, <1>4, <1>6, <2>1, <2>2
  <2>3. CASE j > n
    <3>1. merged(j) = [batch[j] EXCEPT !.deep = "skipped"]
      BY <1>2, <1>6, <2>1, <2>3
    <3> QED BY <2>1, <2>3, <3>1
  <2> QED BY <1>2, <2>1, <2>2, <2>3
<1> HIDE DEF merged
<1>8. Listed(union) /\ SameFiles(union, batch) /\ \A j \in DOMAIN batch : union[j] = merged(j)
  <2>1. Len(union) = Len(batch)
    BY <1>1 DEF Listed
  <2> QED BY <1>1, <1>7, <2>1 DEF Listed, SameFiles
<1>9. Placed(live, InView)
  <2>1. CASE hits(n, t.active) = {}
    BY <2>1 DEF EntriesInv
  <2>2. CASE hits(n, t.active) # {}
    <3>1. (CHOOSE i \in hits(n, t.active) : TRUE) \in 1 .. n
      BY <2>2
    <3> HIDE DEF result, hits
    <3> QED BY <1>4, <2>2, <3>1
  <2> QED BY <2>1, <2>2
<1>10. spans' = live /\ batch' = Mirrored(union, active, live) /\ batchStatus' = BatchResult(t, found, n)
  <2>1. \A id : hits(n, id) # {} => (CHOOSE i \in hits(n, id) : TRUE) \in 1 .. n
    OBVIOUS
  <2> DEFINE rs == [i \in 1 .. n |-> result(i)]
             raw == [j \in DOMAIN batch |-> IF hits(n, batch[j].id) = {} THEN [batch[j] EXCEPT !.deep = "skipped"]
                                           ELSE rs[CHOOSE i \in hits(n, batch[j].id) : TRUE]]
             shown == IF hits(n, t.active) = {} THEN spans ELSE rs[CHOOSE i \in hits(n, t.active) : TRUE].spans
  <2>2. spans' = shown /\ batch' = Mirrored(raw, active, shown) /\ batchStatus' = BatchResult(t, found, n)
    BY <1>20
  <2> HIDE DEF result
  <2>3. \A id : hits(n, id) # {} => rs[CHOOSE i \in hits(n, id) : TRUE] = result(CHOOSE i \in hits(n, id) : TRUE)
    BY <2>1
  <2> HIDE DEF rs, hits
  <2>4. raw = union /\ shown = live
    BY <2>3 DEF merged
  <2> QED BY <2>2, <2>4
<1> HIDE DEF union, live, result
<1>11. /\ Listed(batch') /\ SameFiles(batch', batch)
       /\ \A j \in DOMAIN batch : batch'[j].deep = merged(j).deep /\ Placed(batch'[j].spans, InView)
  <2>1. /\ Listed(batch') /\ SameFiles(batch', union)
        /\ \A i \in DOMAIN union : batch'[i].deep = union[i].deep
        /\ \A D : Placed(live, D) /\ (\A i \in DOMAIN union : Placed(union[i].spans, D))
                    => \A i \in DOMAIN union : Placed(batch'[i].spans, D)
    BY <1>8, <1>10, MirroredFiles
  <2> QED BY <1>7, <1>8, <1>9, <2>1 DEF SameFiles
<1>12. InBatch' = InBatch /\ (~InBatch => batch' = batch)
  <2>1. CASE InBatch
    BY <1>11, <2>1 DEF EntriesInv, InBatch, SameFiles
  <2>2. CASE ~InBatch
    <3>1. DOMAIN batch' = {}
      BY <1>11, <2>2 DEF InBatch, SameFiles
    <3>2. batch' = [i \in DOMAIN union |-> batch'[i]]
      BY <1>10 DEF Mirrored
    <3> QED BY <1>10, <2>2, <3>1, <3>2 DEF InBatch, Mirrored
  <2> QED BY <2>1, <2>2
<1>13. InView' = InView
  BY <1>1, <1>11, <1>12, LoadedStays
<1>16. InBatch' => \E i \in DOMAIN batch' : batch'[i].id = active' /\ batch'[i].doc = doc' /\ batch'[i].spans = spans'
  <2> SUFFICES ASSUME InBatch
               PROVE  \E i \in DOMAIN batch' : batch'[i].id = active' /\ batch'[i].doc = doc' /\ batch'[i].spans = spans'
    BY <1>12
  <2>1. PICK i \in DOMAIN batch : batch[i].id = active /\ batch[i].doc = doc
    BY DEF EntriesInv
  <2>2. i \in DOMAIN union /\ union[i].id = active
    BY <1>8, <2>1 DEF SameFiles
  <2>3. batch'[i].spans = live
    BY <1>8, <1>10, <2>2, MirroredFiles
  <2> QED BY <1>1, <1>10, <1>11, <2>1, <2>3 DEF SameFiles
<1>14. EntriesInv'
  BY <1>1, <1>9, <1>10, <1>11, <1>13, <1>16 DEF EntriesInv, SameFiles
<1>15. Incomplete' => RequiresConfirmation(batchStatus')
  <2> SUFFICES ASSUME Incomplete' PROVE RequiresConfirmation(batchStatus')
    OBVIOUS
  <2>1. PICK j \in DOMAIN batch : merged(j).deep \in {"failed", "skipped"}
    BY <1>11 DEF Incomplete, SameFiles
  <2>2. j > n \/ found # 1 .. n
    BY <1>2, <1>3, <1>7, <2>1
  <2>3. j \in 1 .. Len(es)
    BY <1>3
  <2>4. BatchResult(t, found, n) \in {"degraded", "partial"}
    BY SMTT(30), <1>2, <1>3, <2>2, <2>3 DEF BatchResult
  <2> QED BY <1>10, <2>4 DEF RequiresConfirmation
<1> QED BY <1>11, <1>13, <1>14, <1>15

\* An edit of the page: what is shown was found in, or drawn on, what is loaded.
LEMMA EditStays ==
  ASSUME EntriesInv, ScansInv, NEW live, Edited(live), Placed(live, InView)
  PROVE  EntriesInv' /\ ScansInv'
<1>1. Show(live) /\ doc' = doc /\ active' = active /\ gen' = gen /\ scans' = scans
  BY DEF Edited, status
<1>2. EntriesInv' /\ InView' = InView /\ SameFiles(batch', batch)
  BY <1>1, ShownStays
<1> QED BY <1>1, <1>2, ScansStay

\* Every step keeps each session's spans, and each scan's, its own.
LEMMA SessionsStay ==
  ASSUME EntriesInv, ScansInv, BenchNext
  PROVE  EntriesInv' /\ ScansInv'
<1>0. SameFiles(batch, batch)
  BY DEF SameFiles
<1>1. ASSUME UNCHANGED review PROVE EntriesInv' /\ InView' = InView /\ SameFiles(batch', batch)
  BY <1>0, <1>1 DEF review, EntriesInv, InView, InBatch
<1>2. ASSUME UNCHANGED review, gen' = gen, scans' \subseteq scans PROVE EntriesInv' /\ ScansInv'
  <2>1. EntriesInv' /\ InView' = InView /\ SameFiles(batch', batch)
    BY <1>1, <1>2
  <2> QED BY <1>2, <2>1, ScansStay
<1>3. CASE UNCHANGED <<review, status, scans, zips, store, sent>>
  BY <1>2, <1>3 DEF status
<1>4. CASE CloseWorkbench
  <2>1. EntriesInv'
    BY <1>4, OpenedStays, NothingPlaced DEF CloseWorkbench
  <2>2. ScansInv'
    BY <1>4 DEF CloseWorkbench, ScansInv
  <2> QED BY <2>1, <2>2
<1>5. ASSUME NEW d \in Docs, Open(d) PROVE EntriesInv' /\ ScansInv'
  <2>1. doc' = d /\ batch' = <<>> /\ Placed(spans', {d} \cap Docs)
    BY <1>5, DetectionsPlaced DEF Open
  <2>2. EntriesInv'
    BY <2>1, OpenedStays
  <2> QED BY <1>5, <2>2, ScansOutdated DEF Open, NewGeneration
<1>6. ASSUME NEW ds \in Batches, LoadBatch(ds) PROVE EntriesInv' /\ ScansInv'
  BY <1>6, BatchLoaded, ScansOutdated DEF LoadBatch, NewGeneration
<1>7. ASSUME NEW i \in DOMAIN batch, Select(i) PROVE EntriesInv' /\ ScansInv'
  <2>1. /\ batch' = batch /\ doc' = batch[i].doc /\ spans' = batch[i].spans /\ active' = batch[i].id
        /\ gen' = gen /\ scans' = scans /\ InBatch /\ InBatch'
    BY <1>7 DEF Select, status, InBatch
  <2>2. InView' = InView
    BY <2>1 DEF InView
  <2>3. EntriesInv'
    <3>1. batch[i].doc \in Docs
      BY DEF EntriesInv, Listed
    <3> QED BY <2>1, <2>2, <3>1 DEF EntriesInv
  <2> QED BY <1>0, <2>1, <2>2, <2>3, ScansStay
<1>8. CASE Reset
  <2>1. EntriesInv'
    BY <1>8, OpenedStays, NothingPlaced DEF Reset
  <2> QED BY <1>8, <2>1, ScansOutdated DEF Reset, NewGeneration
<1>9. ASSUME NEW b \in Boxes, AddManual(b) PROVE EntriesInv' /\ ScansInv'
  <2> DEFINE s == [start |-> b[1], end |-> b[2], label |-> "manual", source |-> "manual",
                   active |-> TRUE, of |-> doc]
  <2>1. IsSpan(s, InView)
    <3>1. b[1] \in Nat /\ b[2] \in Nat /\ b[1] < b[2] /\ doc \in InView
      BY <1>9, BoxAssumption, DocIsLoaded DEF AddManual, Edited
    <3> QED BY <3>1 DEF IsSpan
  <2>2. Placed(InsertSpan(spans, s), InView)
    <3> HIDE DEF s
    <3> QED BY <2>1, InsertedPlaced DEF EntriesInv
  <2> QED BY <1>9, <2>2, EditStays DEF AddManual
<1>10. ASSUME NEW s \in spans, Toggle(s) \/ Delete(s) \/ \E l \in Labels : Relabel(s, l)
       PROVE  EntriesInv' /\ ScansInv'
  <2> DEFINE rest == spans \ {s}
  <2>1. Placed(rest, InView) /\ IsSpan(s, InView)
    BY FS_Subset DEF EntriesInv, Placed
  <2>2. \A r : IsSpan(r, InView) => Placed(rest \cup {r}, InView)
    <3> HIDE DEF rest
    <3> QED BY <2>1, FS_AddElement DEF Placed
  <2>3. /\ Placed((spans \ {s}) \cup {[s EXCEPT !.active = ~@]}, InView)
        /\ \A l : Placed((spans \ {s}) \cup {[s EXCEPT !.label = l]}, InView)
        /\ Placed(spans \ {s}, InView)
    BY <2>1, <2>2, SpanEdited
  <2> QED BY <1>10, <2>3, EditStays DEF Toggle, Delete, Relabel
<1>11. ASSUME NEW L, NEW on \in BOOLEAN, SetLabels(L, on) PROVE EntriesInv' /\ ScansInv'
  <2>1. Placed({IF s.label \in L THEN [s EXCEPT !.active = on] ELSE s : s \in spans}, InView)
    <3> DEFINE f == [s \in spans |-> IF s.label \in L THEN [s EXCEPT !.active = on] ELSE s]
    <3>1. IsFiniteSet(spans) /\ \A s \in spans : IsSpan(f[s], InView)
      BY SpanEdited DEF EntriesInv, Placed
    <3>2. {IF s.label \in L THEN [s EXCEPT !.active = on] ELSE s : s \in spans} = {f[s] : s \in spans}
      OBVIOUS
    <3> HIDE DEF f
    <3>3. Placed({f[s] : s \in spans}, InView)
      BY <3>1, MappedPlaced
    <3> QED BY <3>2, <3>3
  <2> QED BY <1>11, <2>1, EditStays DEF SetLabels
<1>12. CASE ApplyLabelsToAll
  <2> DEFINE ruled(S) == {[s EXCEPT !.active = s.label \notin muted] : s \in S}
  <2>1. ASSUME NEW S, Placed(S, InView) PROVE Placed(ruled(S), InView)
    <3> DEFINE f == [s \in S |-> [s EXCEPT !.active = s.label \notin muted]]
    <3>1. IsFiniteSet(S) /\ \A s \in S : IsSpan(f[s], InView)
      BY <2>1, SpanEdited DEF Placed
    <3>2. ruled(S) = {f[s] : s \in S}
      OBVIOUS
    <3> HIDE DEF f, ruled
    <3> QED BY <3>1, <3>2, MappedPlaced
  <2>2. /\ batch' = [i \in DOMAIN batch |-> [batch[i] EXCEPT !.spans = ruled(@)]]
        /\ spans' = ruled(spans) /\ doc' = doc /\ active' = active /\ InBatch /\ gen' = gen /\ scans' = scans
    BY <1>12 DEF ApplyLabelsToAll, status
  <2> HIDE DEF ruled
  <2>3. /\ DOMAIN batch' = DOMAIN batch /\ Len(batch') = Len(batch)
        /\ \A i \in DOMAIN batch : /\ DOMAIN batch'[i] = DOMAIN batch[i]
                                   /\ batch'[i].id = batch[i].id /\ batch'[i].doc = batch[i].doc
                                   /\ batch'[i].spans = ruled(batch[i].spans)
    BY <2>2 DEF EntriesInv, Listed
  <2>4. Listed(batch') /\ SameFiles(batch', batch)
    BY <2>3 DEF EntriesInv, Listed, SameFiles
  <2>5. InView' = InView
    BY <2>2, <2>4, LoadedStays
  <2>6. EntriesInv'
    <3>1. Placed(spans', InView') /\ \A i \in DOMAIN batch' : Placed(batch'[i].spans, InView')
      BY <2>1, <2>2, <2>3, <2>5 DEF EntriesInv
    <3>2. /\ \A i, j \in DOMAIN batch' : batch'[i].id = batch'[j].id => i = j
          /\ \E i \in DOMAIN batch' : batch'[i].id = active' /\ batch'[i].doc = doc' /\ batch'[i].spans = spans'
      <4>1. PICK k \in DOMAIN batch : batch[k].id = active /\ batch[k].doc = doc /\ batch[k].spans = spans
        BY <2>2 DEF EntriesInv
      <4>2. k \in DOMAIN batch' /\ batch'[k].id = active' /\ batch'[k].doc = doc' /\ batch'[k].spans = spans'
        BY <2>2, <2>3, <4>1
      <4>3. \A i, j \in DOMAIN batch : batch[i].id = batch[j].id => i = j
        BY DEF EntriesInv
      <4> QED BY <2>3, <4>2, <4>3
    <3>3. doc' \in Docs \cup {NoDoc}
      BY <2>2 DEF EntriesInv
    <3> QED BY <2>4, <3>1, <3>2, <3>3 DEF EntriesInv
  <2> QED BY <2>2, <2>4, <2>5, <2>6, ScansStay
<1>13. CASE AutoDetect
  <2>1. Placed(CombineWithManual(spans, Tier0(doc, muted)), InView)
    <3>1. Placed(Tier0(doc, muted), InView)
      BY <1>13, DocIsLoaded, DetectionsPlaced DEF AutoDetect
    <3> QED BY <3>1, CombinedPlaced DEF EntriesInv
  <2>2. EntriesInv'
    BY <1>13, <2>1, ShownStays DEF AutoDetect
  <2> QED BY <1>13, <2>2, ScansOutdated DEF AutoDetect, NewGeneration
<1>14. CASE ClearDetections
  <2>1. Placed({}, InView)
    BY NothingPlaced
  <2>2. EntriesInv'
    BY <1>14, <2>1, ShownStays DEF ClearDetections
  <2> QED BY <1>14, <2>2, ScansOutdated DEF ClearDetections, NewGeneration
<1>15. CASE RunDeep \/ RunDeepAll
  <2>1. PICK t : /\ UNCHANGED review /\ gen' = gen + 1 /\ scans' = scans \cup {t}
                 /\ ScanShape \subseteq DOMAIN t
                 /\ t.gen = gen + 1 /\ t.doc = doc /\ doc # NoDoc
                 /\ t.kind = "all" => t.entries = batch
    <3> DEFINE one == [kind |-> "one", gen |-> gen + 1, aborted |-> FALSE, doc |-> doc, muted |-> muted,
                       entries |-> <<>>, active |-> active]
               all == [kind |-> "all", gen |-> gen + 1, aborted |-> FALSE, doc |-> doc, muted |-> muted,
                       entries |-> batch, active |-> active]
    <3>1. PICK t \in {one, all} : Begin(t)
      BY <1>15 DEF RunDeep, RunDeepAll
    <3>2. /\ ScanShape \subseteq DOMAIN t /\ t.gen = gen + 1 /\ t.doc = doc
          /\ t.kind = "all" => t.entries = batch
      <4>1. CASE t = one
        BY <4>1 DEF ScanShape
      <4>2. CASE t = all
        BY <4>2 DEF ScanShape
      <4> QED BY <4>1, <4>2
    <3> HIDE DEF one, all
    <3> QED BY <3>1, <3>2 DEF Begin
  <2>2. EntriesInv' /\ InView' = InView /\ SameFiles(batch', batch)
    BY <1>1, <2>1
  <2>3. t.doc \in InView' /\ (t.kind = "all" => Captured(t.entries)')
    BY <1>0, <2>1, <2>2, DocIsLoaded DEF EntriesInv, Captured, review
  <2>4. gen' \in Nat /\ \A m \in Nat : m <= gen => m <= gen' /\ m # gen'
    BY <2>1 DEF ScansInv
  <2> QED BY <2>1, <2>2, <2>3, <2>4 DEF ScansInv
<1>16. ASSUME NEW t \in scans, CancelBatch(t) PROVE EntriesInv' /\ ScansInv'
  <2> DEFINE u == [t EXCEPT !.aborted = TRUE]
  <2>1. UNCHANGED review /\ gen' = gen /\ scans' = (scans \ {t}) \cup {u}
    BY <1>16 DEF CancelBatch, status
  <2>2. EntriesInv' /\ InView' = InView /\ SameFiles(batch', batch)
    BY <1>1, <2>1
  <2>3. /\ ScanShape \subseteq DOMAIN u /\ u.gen = t.gen /\ u.doc = t.doc /\ u.kind = t.kind
        /\ u.entries = t.entries
    BY DEF ScansInv, ScanShape
  <2>4. \A es : Captured(es) => Captured(es)'
    BY <2>2 DEF Captured, SameFiles
  <2> HIDE DEF u
  <2> QED BY <2>1, <2>2, <2>3, <2>4 DEF ScansInv
<1>17. ASSUME NEW t \in scans, DropResult(t) \/ DeepFails(t) PROVE EntriesInv' /\ ScansInv'
  <2>1. UNCHANGED review /\ gen' = gen /\ scans' \subseteq scans
    BY <1>17 DEF DropResult, DeepFails, Finishes, review
  <2> QED BY <1>2, <2>1
<1>18. ASSUME NEW t \in scans, DeepFinds(t) PROVE EntriesInv' /\ ScansInv'
  <2>1. t.doc \in InView /\ doc' = doc /\ active' = active /\ gen' = gen /\ scans' \subseteq scans
    BY <1>18 DEF DeepFinds, StillCurrent, Finishes, ScansInv
  <2>2. Placed(CombineWithManual(spans, DeepResult(t.doc, t.muted)), InView)
    <3>1. Placed(DeepResult(t.doc, t.muted), InView)
      BY <2>1, DocIsLoaded, DetectionsPlaced
    <3> QED BY <3>1, CombinedPlaced DEF EntriesInv
  <2>3. EntriesInv' /\ InView' = InView /\ SameFiles(batch', batch)
    BY <1>18, <2>1, <2>2, ShownStays DEF DeepFinds
  <2> QED BY <2>1, <2>3, ScansStay
<1>19. ASSUME NEW t \in scans, DeepAllEnds(t) PROVE EntriesInv' /\ ScansInv'
  <2>1. EntriesInv' /\ InView' = InView /\ SameFiles(batch', batch)
    BY <1>19, AllScanned
  <2>2. gen' = gen /\ scans' \subseteq scans
    BY <1>19 DEF DeepAllEnds, Finishes
  <2> QED BY <2>1, <2>2, ScansStay
<1>20. CASE \/ CopyRedacted \/ DownloadRedacted \/ DownloadMap \/ ForgetMaps \/ ZipBegins \/ DownloadBatchMap
            \/ \E z \in zips : ZipEnds(z)
  <2>1. UNCHANGED review /\ gen' = gen /\ scans' \subseteq scans
    BY <1>20 DEF CopyRedacted, DownloadRedacted, DownloadMap, ForgetMaps, ZipBegins, DownloadBatchMap,
                 ZipEnds, status
  <2> QED BY <1>2, <2>1
<1> QED BY <1>3, <1>4, <1>5, <1>6, <1>7, <1>8, <1>9, <1>10, <1>11, <1>12, <1>13, <1>14, <1>15, <1>16,
          <1>17, <1>18, <1>19, <1>20 DEF BenchNext, WbNext

LEMMA SessionsBegin ==
  ASSUME WbInit
  PROVE  EntriesInv /\ ScansInv
<1>1. Len(batch) = 0 /\ DOMAIN batch = {} /\ ~InBatch /\ 1 .. 0 = {} /\ gen = 0
  BY DEF WbInit, InBatch
<1> QED BY <1>1, NothingPlaced DEF WbInit, EntriesInv, ScansInv, Listed

\* SessionsApart: a deep scan's answer never reaches a later session
\* (workbench/src/App.tsx: stillCurrent in runDeep and runDeepAll).
THEOREM SessionsStayApart == ShellSpec => []SessionsApart
<1>1. ShellInit => EntriesInv /\ ScansInv
  BY SessionsBegin DEF ShellInit
<1>2. EntriesInv /\ ScansInv /\ [ShellNext]_shellVars => (EntriesInv /\ ScansInv)'
  BY BenchSteps, SessionsStay
<1>3. EntriesInv => SessionsApart
  <2> SUFFICES ASSUME EntriesInv PROVE SessionsApart
    OBVIOUS
  <2>1. ASSUME NEW s \in spans \cup UNION {batch[i].spans : i \in DOMAIN batch} PROVE s.of \in InView
    BY <2>1 DEF EntriesInv, Placed, IsSpan
  <2>2. InView \subseteq (IF InBatch THEN {batch[i].doc : i \in DOMAIN batch} ELSE {doc})
    BY DEF InView
  <2> QED BY <2>1, <2>2 DEF SessionsApart
<1> QED BY <1>1, <1>2, <1>3, PTL DEF ShellSpec

\* A file the last scan of all files has missed shows in the batch's status.
GateInv == Incomplete => RequiresConfirmation(batchStatus)

\* What is handed out was confirmed if it had to be, no value of its map can be
\* read in it, and its map restores it, unless spans overlap.
Restorable(x) ==
  (\A s, t \in x.spans : s # t => ~Overlaps(s, t)) =>
    Rehydrates(x.body, x.map) /\ Folded(Rehydrated(x.body, x.map)) = Folded(Text[x.doc])
Handed(x) == (x.incomplete => x.confirmed) /\ Illegible(x.body, x.map) /\ Restorable(x)

HandedInv ==
  /\ \A x \in sent : Handed(x)
  /\ \A z \in zips : {"here", "files"} \subseteq DOMAIN z /\ \A i \in DOMAIN z.files : Handed(z.files[i])

\* The values of all files are numbered together.
AllTexts == {Text[d] : d \in Docs}
AllSpans == spans \cup UNION {batch[i].spans : i \in DOMAIN batch}

LEMMA TextsTyped ==
  ASSUME NEW d \in Docs
  PROVE  Len(Text[d]) \in Nat /\ Text[d] = [i \in 1 .. Len(Text[d]) |-> Text[d][i]]
<1>1. Text[d] \in Seq(DOMAIN Fold)
  BY DetectionAssumption
<1> QED BY <1>1

LEMMA IndexFits ==
  ASSUME EntriesInv, doc \in Docs
  PROVE  /\ Index \in Indexes(AllTexts, AllSpans)
         /\ HasKeys(Index, Text[doc], Marks(spans))
         /\ \A i \in DOMAIN batch : HasKeys(Index, Text[batch[i].doc], Marks(batch[i].spans))
<1> DEFINE T == AllTexts
           S == AllSpans
           X == Indexes(T, S)
           m == Len(batch)
           b == <<>>
           put(idx, e) == Numbered(idx, Text[e.doc], e.spans)
           Value(g, R) == IF R = {} THEN b ELSE put(g[R \ {Max(R)}], batch[Max(R)])
           Solves(g) == g = [R \in SUBSET DOMAIN batch |-> Value(g, R)]
           iter == CHOOSE g : Solves(g)
           step == [p \in X \X (1 .. m) |-> put(p[1], batch[p[2]])]
           keys(x, i) == HasKeys(x, Text[batch[i].doc], Marks(batch[i].spans))
<1>2. m \in Nat /\ DOMAIN batch = 1 .. m
  BY DEF EntriesInv, Listed
<1>3. b \in X
  <2>1. <<>> \in Seq(Numberings(T, S)) /\ ToSet(<<>>) = {}
    BY DEF ToSet
  <2> QED BY <2>1 DEF Indexes, WellNumbered
<1>4. ASSUME ~InBatch PROVE Index \in X /\ HasKeys(Index, Text[doc], Marks(spans)) /\ DOMAIN batch = {}
  <2>1. Text[doc] \in T /\ spans \in SUBSET S /\ IsFiniteSet(spans) /\ \A s \in spans : s.start \in Nat
    BY DEF EntriesInv, Placed, IsSpan, AllTexts, AllSpans
  <2> HIDE DEF T, S
  <2>2. Numbered(b, Text[doc], spans) \in X /\ HasKeys(Numbered(b, Text[doc], spans), Text[doc], Marks(spans))
    BY <1>3, <2>1, NumberedStays
  <2>3. DOMAIN batch = {}
    BY <1>4 DEF InBatch
  <2> QED BY <1>4, <2>2, <2>3 DEF Index
<1>5. \A x \in X, i \in 1 .. m : /\ put(x, batch[i]) \in X /\ ToSet(x) \subseteq ToSet(put(x, batch[i]))
                                /\ keys(put(x, batch[i]), i)
  <2> TAKE x \in X, i \in 1 .. m
  <2>1. /\ Text[batch[i].doc] \in T /\ batch[i].spans \in SUBSET S /\ IsFiniteSet(batch[i].spans)
        /\ \A s \in batch[i].spans : s.start \in Nat
    BY <1>2 DEF EntriesInv, Listed, Placed, IsSpan, AllTexts, AllSpans
  <2> HIDE DEF T, S
  <2> QED BY <2>1, NumberedStays
<1>50. \A x, y, i : ToSet(x) \subseteq ToSet(y) /\ keys(x, i) => keys(y, i)
  BY DEF HasKeys
<1> HIDE DEF X, b, put, keys
<1>6. \A x \in X, i \in 1 .. m : step[<<x, i>>] = put(x, batch[i]) /\ step[<<x, i>>] \in X
  BY <1>5
<1> HIDE DEF m, step, T, S
<1>7. PICK f \in [SUBSET (1 .. m) -> X] :
        \A R \in SUBSET (1 .. m) : f[R] = IF R = {} THEN b ELSE step[<<f[R \ {Max(R)}], Max(R)>>]
  <2>1. LeftFolds(m, X, b, step)
    BY <1>2, <1>3, <1>6, LeftFoldExists
  <2> QED BY <2>1 DEF LeftFolds
<1>8. \A R \in SUBSET (1 .. m) : R # {} => Max(R) \in R /\ Max(R) \in 1 .. m /\ R \ {Max(R)} \in SUBSET (1 .. m)
  BY <1>2, MaxIsLargest
<1>9. Solves(f)
  <2>1. \A R \in SUBSET (1 .. m) : f[R] = Value(f, R)
    BY <1>6, <1>7, <1>8
  <2> HIDE DEF Value
  <2> QED BY <1>2, <2>1
<1>10. Solves(iter)
  <2> HIDE DEF Solves
  <2> QED BY <1>9
<1>11. \A R \in SUBSET (1 .. m) : iter[R] = Value(iter, R)
  <2> HIDE DEF iter, Value
  <2> QED BY <1>2, <1>10
<1>12. InBatch => Index = iter[DOMAIN batch]
  BY DEF Index, FoldLeft, MapThenFoldSet, put, b
<1> HIDE DEF iter
<1> DEFINE G == {R \in SUBSET (1 .. m) : iter[R] \in X /\ \A i \in R : keys(iter[R], i)}
<1>13. {} \in G
  BY <1>3, <1>11
<1>14. ASSUME NEW R \in SUBSET (1 .. m), R # {}, R \ {Max(R)} \in G PROVE R \in G
  <2> DEFINE Q == R \ {Max(R)}
  <2>1. iter[R] = put(iter[Q], batch[Max(R)]) /\ Max(R) \in 1 .. m /\ R = Q \cup {Max(R)}
        /\ iter[Q] \in X /\ \A i \in Q : keys(iter[Q], i)
    BY <1>8, <1>11, <1>14
  <2> HIDE DEF Q, Value
  <2>2. iter[R] \in X /\ ToSet(iter[Q]) \subseteq ToSet(iter[R]) /\ keys(iter[R], Max(R))
    BY <1>5, <2>1
  <2> QED BY <1>50, <2>1, <2>2
<1>15. 1 .. m \in G
  <2>1. \A R \in SUBSET (1 .. m) : R # {} /\ R \ {Max(R)} \in G => R \in G
    BY <1>14
  <2> HIDE DEF G
  <2>2. \A R \in SUBSET (1 .. m) : R \in G
    BY <1>2, <1>13, <2>1, UpFromEmpty
  <2> QED BY <2>2
<1>16. InBatch => Index \in X /\ \A i \in DOMAIN batch : keys(Index, i)
  BY <1>2, <1>12, <1>15
<1>17. InBatch => HasKeys(Index, Text[doc], Marks(spans))
  <2> SUFFICES ASSUME InBatch PROVE HasKeys(Index, Text[doc], Marks(spans))
    OBVIOUS
  <2>1. PICK i \in DOMAIN batch : batch[i].doc = doc /\ batch[i].spans = spans
    BY DEF EntriesInv
  <2> QED BY <1>16, <2>1 DEF keys
<1> QED BY <1>4, <1>16, <1>17 DEF X, T, S, keys

LEMMA IndexTyped ==
  ASSUME EntriesInv
  PROVE  (\A t \in AllTexts : Len(t) \in Nat) /\ \A s \in AllSpans : s.start \in Nat /\ s.end \in Nat
<1>1. \A t \in AllTexts : Len(t) \in Nat
  BY TextsTyped DEF AllTexts
<1>2. \A s \in AllSpans : s.start \in Nat /\ s.end \in Nat
  BY DEF AllSpans, EntriesInv, Placed, IsSpan
<1> QED BY <1>1, <1>2

LEMMA IndexIsMapped ==
  ASSUME EntriesInv, doc \in Docs
  PROVE  Mapped(EntityMap(Index))
BY IndexTyped, IndexFits, NumberedIsMapped

LEMMA HandoutChecked ==
  ASSUME EntriesInv, GateInv, doc \in Docs, NEW d \in Docs, NEW S, Placed(S, InView),
         HasKeys(Index, Text[d], Marks(S))
  PROVE  Handed(Handout(d, S, Index))
<1>1. Incomplete => Confirms
  BY DEF GateInv, Incomplete, Confirms, InBatch
<1>2. Illegible(Redacted(Text[d], S, Index), EntityMap(Index))
  <2>1. Len(Text[d]) \in Nat /\ IsFiniteSet(S) /\ \A s \in S : s.start \in Nat /\ s.end \in Nat
    BY TextsTyped DEF Placed, IsSpan
  <2> QED BY <2>1, IndexIsMapped, RedactedIsClean
<1>3. (\A s, t \in Marks(S) : s # t => ~Overlaps(s, t)) =>
        /\ Rehydrates(Redacted(Text[d], S, Index), EntityMap(Index))
        /\ Folded(Rehydrated(Redacted(Text[d], S, Index), EntityMap(Index))) = Folded(Text[d])
  <2>1. IsText(Text[d]) /\ IsFiniteSet(S) /\ \A s \in S : s.start \in Nat /\ s.end \in Nat /\ s.start < s.end
    BY TextsTyped DEF IsText, Placed, IsSpan
  <2>2. (\A t \in AllTexts : Len(t) \in Nat) /\ \A s \in AllSpans : s.start \in Nat /\ s.end \in Nat
    BY IndexTyped
  <2>3. Index \in Indexes(AllTexts, AllSpans)
    BY IndexFits
  <2> QED BY <2>1, <2>2, <2>3, RedactedRestores
<1> DEFINE x == Handout(d, S, Index)
<1>4. /\ x.doc = d /\ x.body = Redacted(Text[d], S, Index) /\ x.map = EntityMap(Index) /\ x.spans = Marks(S)
      /\ x.incomplete = Incomplete /\ x.confirmed = Confirms
  BY DEF Handout, Marks
<1> HIDE DEF x
<1>5. x.incomplete => x.confirmed
  BY <1>1, <1>4
<1>6. Illegible(x.body, x.map)
  BY <1>2, <1>4
<1>7. Restorable(x)
  BY <1>3, <1>4 DEF Restorable
<1> QED BY <1>5, <1>6, <1>7 DEF Handed, x

LEMMA GateStays ==
  ASSUME EntriesInv, ScansInv, GateInv, BenchNext
  PROVE  GateInv'
<1>1. ASSUME UNCHANGED <<batch, batchStatus>> PROVE GateInv'
  BY <1>1 DEF GateInv, Incomplete
<1>2. ASSUME NEW live, Show(live), batchStatus' = batchStatus PROVE GateInv'
  <2>1. DOMAIN batch' = DOMAIN batch /\ \A i \in DOMAIN batch : batch'[i].deep = batch[i].deep
    BY <1>2, MirroredFiles DEF Show, EntriesInv, SameFiles
  <2> QED BY <1>2, <2>1 DEF GateInv, Incomplete
<1>3. ASSUME batch' = <<>> PROVE GateInv'
  BY <1>3 DEF GateInv, Incomplete
<1>4. CASE UNCHANGED <<review, status, scans, zips, store, sent>>
  BY <1>1, <1>4 DEF review, status
<1>5. CASE CloseWorkbench \/ Reset \/ \E d \in Docs : Open(d)
  BY <1>3, <1>5 DEF CloseWorkbench, Reset, Open
<1>6. ASSUME NEW ds \in Batches, LoadBatch(ds) PROVE GateInv'
  <2>1. \A i \in DOMAIN batch' : batch'[i].deep = "none"
    BY <1>6 DEF LoadBatch
  <2> QED BY <2>1 DEF GateInv, Incomplete
<1>7. ASSUME NEW live, Edited(live) PROVE GateInv'
  BY <1>2, <1>7 DEF Edited, status
<1>8. CASE \/ doc # NoDoc /\ \E b \in Boxes : AddManual(b)
           \/ \E s \in spans : Toggle(s) \/ Delete(s) \/ \E l \in Labels : Relabel(s, l)
           \/ \E L \in SUBSET {s.label : s \in spans}, on \in BOOLEAN : SetLabels(L, on)
  BY <1>7, <1>8 DEF AddManual, Toggle, Delete, Relabel, SetLabels
<1>9. CASE AutoDetect \/ ClearDetections
  BY <1>2, <1>9 DEF AutoDetect, ClearDetections
<1>10. CASE ApplyLabelsToAll
  <2>1. /\ DOMAIN batch' = DOMAIN batch /\ batchStatus' = batchStatus
        /\ \A i \in DOMAIN batch : batch'[i].deep = batch[i].deep
    BY <1>10 DEF ApplyLabelsToAll, status, EntriesInv, Listed
  <2> QED BY <2>1 DEF GateInv, Incomplete
<1>11. CASE \/ \E i \in DOMAIN batch : Select(i)
            \/ RunDeep \/ RunDeepAll
            \/ \E t \in scans : CancelBatch(t) \/ DropResult(t) \/ DeepFails(t)
  BY <1>1, <1>11 DEF Select, RunDeep, RunDeepAll, Begin, CancelBatch, DropResult, DeepFails, Finishes, review, status
<1>12. ASSUME NEW t \in scans, DeepFinds(t) PROVE GateInv'
  BY <1>2, <1>12 DEF DeepFinds
<1>13. ASSUME NEW t \in scans, DeepAllEnds(t) PROVE GateInv'
  BY <1>13, AllScanned DEF GateInv
<1>14. CASE \/ CopyRedacted \/ DownloadRedacted \/ DownloadMap \/ ForgetMaps \/ ZipBegins \/ DownloadBatchMap
            \/ \E z \in zips : ZipEnds(z)
  BY <1>1, <1>14 DEF CopyRedacted, DownloadRedacted, DownloadMap, ForgetMaps, ZipBegins, DownloadBatchMap,
                     ZipEnds, review, status
<1> QED BY <1>4, <1>5, <1>6, <1>8, <1>9, <1>10, <1>11, <1>12, <1>13, <1>14 DEF BenchNext, WbNext

\* What is handed out was checked when it was made, and stays what it was.
LEMMA HandedStays ==
  ASSUME EntriesInv, GateInv, HandedInv, BenchNext
  PROVE  HandedInv'
<1>1. ASSUME sent' = sent, zips' = zips PROVE HandedInv'
  BY <1>1 DEF HandedInv
<1>2. CASE UNCHANGED <<review, status, scans, zips, store, sent>>
  BY <1>1, <1>2
<1>3. CASE CloseWorkbench
  BY <1>3 DEF CloseWorkbench, HandedInv
<1>14. /\ InBatch => doc \in Docs
       /\ (\E s \in spans : s.active) => /\ doc \in Docs /\ Placed(spans, InView)
                                         /\ HasKeys(Index, Text[doc], Marks(spans))
  <2>1. InBatch => doc \in Docs
    BY DEF EntriesInv, Listed
  <2>2. ~InBatch /\ spans # {} => doc \in Docs
    BY DEF EntriesInv, Placed, IsSpan, InView
  <2>3. doc \in Docs => HasKeys(Index, Text[doc], Marks(spans))
    BY IndexFits
  <2> QED BY <2>1, <2>2, <2>3 DEF EntriesInv
<1>4. ASSUME NEW x, Handed(x), sent' = sent \cup {x}, zips' = zips PROVE HandedInv'
  BY <1>4 DEF HandedInv
<1>5. CASE CopyRedacted
  <2> DEFINE x == Handout(doc, spans, Index)
  <2>1. Handed(x)
    BY <1>5, <1>14, HandoutChecked DEF CopyRedacted
  <2>2. sent' = sent \cup {x} /\ zips' = zips
    BY <1>5 DEF CopyRedacted
  <2> HIDE DEF x
  <2> QED BY <1>4, <2>1, <2>2
<1>6. CASE DownloadRedacted
  <2>1. PICK opted \in BOOLEAN :
          LET x == Handout(doc, spans, Index) IN
            IF Survives(x.body, x.map) THEN UNCHANGED <<sent, store>>
            ELSE sent' = sent \cup {x} /\ Remembers(<<x.body>>, x.map, opted)
    BY <1>6 DEF DownloadRedacted
  <2> DEFINE x == Handout(doc, spans, Index)
  <2>2. sent' = sent \/ sent' = sent \cup {x}
    BY <2>1
  <2>3. Handed(x)
    BY <1>6, <1>14, HandoutChecked DEF DownloadRedacted
  <2>4. zips' = zips
    BY <1>6 DEF DownloadRedacted
  <2> HIDE DEF x
  <2> QED BY <1>1, <1>4, <2>2, <2>3, <2>4
<1>7. CASE ZipBegins
  <2> DEFINE z == [here |-> TRUE, files |-> [i \in DOMAIN batch |->
                     Handout(batch[i].doc, batch[i].spans, Index)]]
  <2>1. sent' = sent /\ zips' = zips \cup {z}
    BY <1>7 DEF ZipBegins
  <2>2. /\ {"here", "files"} \subseteq DOMAIN z /\ DOMAIN z.files = DOMAIN batch
        /\ \A i \in DOMAIN batch : z.files[i] = Handout(batch[i].doc, batch[i].spans, Index)
    OBVIOUS
  <2>3. \A i \in DOMAIN z.files : Handed(z.files[i])
    <3>1. \A i \in DOMAIN batch : batch[i].doc \in Docs /\ Placed(batch[i].spans, InView)
      BY DEF EntriesInv, Listed
    <3>2. doc \in Docs
      BY <1>7, <1>14 DEF ZipBegins
    <3>3. \A i \in DOMAIN batch : HasKeys(Index, Text[batch[i].doc], Marks(batch[i].spans))
      BY <3>2, IndexFits
    <3> HIDE DEF z
    <3> QED BY <2>2, <3>1, <3>2, <3>3, HandoutChecked
  <2> HIDE DEF z
  <2> QED BY <2>1, <2>2, <2>3 DEF HandedInv
<1>8. ASSUME NEW z \in zips, ZipEnds(z) PROVE HandedInv'
  <2>1. zips' \subseteq zips
    BY <1>8 DEF ZipEnds
  <2>2. sent' = sent \/ sent' = sent \cup ToSet(z.files)
    BY <1>8 DEF ZipEnds
  <2>3. \A x \in ToSet(z.files) : Handed(x)
    BY DEF HandedInv, ToSet
  <2>4. \A x \in sent' : Handed(x)
    BY <2>2, <2>3 DEF HandedInv
  <2> QED BY <2>1, <2>4 DEF HandedInv
<1>9. CASE ForgetMaps
  BY <1>9 DEF ForgetMaps, HandedInv
<1>10. CASE DownloadMap \/ DownloadBatchMap
  BY <1>1, <1>10 DEF DownloadMap, DownloadBatchMap
<1>11. CASE \/ \E d \in Docs : Open(d)
            \/ \E ds \in Batches : LoadBatch(ds)
            \/ \E i \in DOMAIN batch : Select(i)
            \/ Reset \/ ApplyLabelsToAll \/ AutoDetect \/ ClearDetections \/ RunDeep \/ RunDeepAll
            \/ \E t \in scans : CancelBatch(t)
  BY <1>1, <1>11 DEF Open, LoadBatch, Select, Reset, ApplyLabelsToAll, AutoDetect, ClearDetections, RunDeep,
                     RunDeepAll, Begin, CancelBatch
<1>12. CASE \/ doc # NoDoc /\ \E b \in Boxes : AddManual(b)
            \/ \E s \in spans : Toggle(s) \/ Delete(s) \/ \E l \in Labels : Relabel(s, l)
            \/ \E L \in SUBSET {s.label : s \in spans}, on \in BOOLEAN : SetLabels(L, on)
  BY <1>1, <1>12 DEF AddManual, Toggle, Delete, Relabel, SetLabels, Edited
<1>13. CASE \E t \in scans : DropResult(t) \/ DeepFinds(t) \/ DeepFails(t) \/ DeepAllEnds(t)
  BY <1>1, <1>13 DEF DropResult, DeepFinds, DeepFails, DeepAllEnds, Finishes
<1> QED BY <1>2, <1>3, <1>5, <1>6, <1>7, <1>8, <1>9, <1>10, <1>11, <1>12, <1>13 DEF BenchNext, WbNext

\* What the three theorems below follow from.
LEMMA HandoutsStay == ShellSpec => [](EntriesInv /\ ScansInv /\ GateInv /\ HandedInv)
<1>1. ShellInit => EntriesInv /\ ScansInv /\ GateInv /\ HandedInv
  <2> SUFFICES ASSUME WbInit PROVE EntriesInv /\ ScansInv /\ GateInv /\ HandedInv
    BY DEF ShellInit
  <2>1. GateInv /\ HandedInv
    BY DEF WbInit, GateInv, Incomplete, HandedInv
  <2>2. EntriesInv /\ ScansInv
    BY SessionsBegin
  <2> QED BY <2>1, <2>2
<1>2. EntriesInv /\ ScansInv /\ GateInv /\ HandedInv /\ [ShellNext]_shellVars
        => (EntriesInv /\ ScansInv /\ GateInv /\ HandedInv)'
  BY BenchSteps, SessionsStay, GateStays, HandedStays
<1> QED BY <1>1, <1>2, PTL DEF ShellSpec

\* GateHolds: while the last scan of all files missed one, nothing is handed out
\* that the reviewer has not confirmed (workbench/src/App.tsx:
\* confirmDegradedExport, lib/deepScanState.ts: deriveBatchDeepScanStatus).
THEOREM ExportsAreConfirmed == ShellSpec => []GateHolds
<1>1. HandedInv => GateHolds
  BY DEF HandedInv, Handed, GateHolds
<1> QED BY <1>1, HandoutsStay, PTL

\* KnownValuesSwept: a value detected anywhere in the batch can be read in
\* nothing that is handed out (packages/redaction-core/src/redaction.ts:
\* sweepKnownValues).
THEOREM KnownValuesAreSwept == ShellSpec => []KnownValuesSwept
<1>1. HandedInv => KnownValuesSwept
  BY DEF HandedInv, Handed, Illegible, KnownValuesSwept
<1> QED BY <1>1, HandoutsStay, PTL

\* Maps that agree on the placeholders of a body restore it alike.
LEMMA RestoredAlike ==
  ASSUME NEW body, NEW p, NEW q, \A ph \in Placeholders(body) : ValueIn(p, ph) = ValueIn(q, ph)
  PROVE  Rehydrated(body, p) = Rehydrated(body, q)
<1>1. \A i \in DOMAIN body : Len(body[i]) = 2 => body[i] \in Placeholders(body)
  BY DEF Placeholders, ToSet
<1>2. [i \in DOMAIN body |-> IF Len(body[i]) = 2 THEN ValueIn(p, body[i]) ELSE body[i]]
        = [i \in DOMAIN body |-> IF Len(body[i]) = 2 THEN ValueIn(q, body[i]) ELSE body[i]]
  BY <1>1
<1> QED BY <1>2 DEF Rehydrated

\* RestoreRight: as long as the record of a body is stored, the body is restored
\* to the text it was made of, up to case, or refused; with its own map it is
\* the text, and another record is taken only where it says the same
\* (workbench/src/lib/mapStore.ts: matchByFingerprint, lib/formats.ts:
\* rehydrateFile).
THEOREM BodiesAreRestored == ShellSpec => []RestoreRight
<1>1. ASSUME HandedInv PROVE RestoreRight
  <2>1. SUFFICES ASSUME NEW x \in sent, Match(store, x.body) # NoRecord,
                        NEW q \in store, x.body \in q.prints, q.map = x.map,
                        \A s, t \in x.spans : s # t => ~Overlaps(s, t)
                 PROVE  Folded(Rehydrated(x.body, Match(store, x.body).map)) = Folded(Text[x.doc])
    BY DEF RestoreRight
  <2>2. Rehydrates(x.body, x.map) /\ Folded(Rehydrated(x.body, x.map)) = Folded(Text[x.doc])
    BY <1>1, <2>1 DEF HandedInv, Handed, Restorable
  <2> DEFINE C == Candidates(store, x.body)
             r == Match(store, x.body)
  <2>3. q \in C
    BY <2>1, <2>2 DEF Candidates
  <2> HIDE DEF C
  <2>4. r \in C /\ \A c, d \in C, ph \in Placeholders(x.body) : ValueIn(c.map, ph) = ValueIn(d.map, ph)
    BY <2>1, <2>3 DEF Match, Unambiguous, C
  <2>5. \A ph \in Placeholders(x.body) : ValueIn(r.map, ph) = ValueIn(x.map, ph)
    BY <2>1, <2>3, <2>4
  <2> HIDE DEF r
  <2>6. Rehydrated(x.body, r.map) = Rehydrated(x.body, x.map)
    BY <2>5, RestoredAlike
  <2> QED BY <2>2, <2>6 DEF r
<1> QED BY <1>1, HandoutsStay, PTL
=============================================================================
