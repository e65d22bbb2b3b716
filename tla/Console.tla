------------------------------ MODULE Console ------------------------------
(***************************************************************************)
(* The operator's consoles and the gateway they talk to: the live view and *)
(* the lists, of one gateway that stops and starts.                        *)
(***************************************************************************)
EXTENDS LiveFeed, ListFiles

CONSTANTS Budgets   \* bound: which consoles are used, and how often each kind of
                    \* thing happens

VARIABLE left       \* what of the budget is left

vars == <<up, life, feedVars, listVars, left>>

Spend(k) == left[k] > 0 /\ left' = [left EXCEPT ![k] = @ - 1]
Free == UNCHANGED left
Same == UNCHANGED <<up, life>>
FeedOnly == Same /\ UNCHANGED listVars
ListOnly == Same /\ UNCHANGED feedVars

Stop ==
  /\ up /\ Spend("stops")
  /\ up' = FALSE /\ life' = life
  /\ FeedStopped /\ ListsStopped

Start ==
  /\ ~up /\ Free
  /\ up' = TRUE /\ life' = life + 1
  /\ UNCHANGED <<feedVars, listVars>>

Watch(c) ==
  /\ FeedOnly
  /\ \/ c \in left.who /\ (Mount(c) \/ Unmount(c) \/ Pause(c) \/ Resume(c) \/ Clear(c)) /\ Spend("clicks")
     \/ Break(c) /\ IF up THEN Spend("faults") ELSE Free
     \/ ServeClear(c) /\ Free

\* What goes on by itself once a console is open.
Flow(c) ==
  /\ FeedOnly /\ Free
  /\ Subscribe(c) \/ Deliver(c) \/ Retry(c)

Edit(e) ==
  /\ ListOnly
  /\ \/ e \in left.who /\ ((Load(e) /\ up) \/ Leave(e) \/ SaveDraft(e) \/ Revert(e)) /\ Spend("visits")
     \/ \E t \in Terms : EditTerm(e, t) /\ Spend("edits")
     \/ (LoadFails(e) \/ SaveTimesOut(e)) /\ Spend("faults")
     \/ Receive(e) /\ Free

Serve(e) ==
  /\ up /\ ListOnly
  /\ \/ (ServeSave(e) \/ SaveServed(e) \/ Loaded(e)) /\ Free
     \/ SaveFails(e) /\ Spend("faults")

Enforce ==
  /\ up /\ ListOnly
  /\ \/ Scan /\ Spend("scans")
     \/ Scanned /\ Free
     \/ \E p \in Refreshers : Refresh(p) /\ Free
     \/ \E p \in Refreshers : ReadFails(p) /\ Spend("faults")

Init ==
  /\ left \in Budgets
  /\ up = TRUE /\ life = 1
  /\ FeedInit /\ ListInit

Next ==
  \/ Stop \/ Start
  \/ Emit /\ FeedOnly /\ Spend("events")
  \/ \E c \in Consoles : Watch(c) \/ Flow(c)
  \/ \E e \in Editors : Edit(e) \/ Serve(e)
  \/ Enforce
  \/ \E T \in SUBSET Terms : HandEdit(T) /\ ListOnly /\ Spend("edits")

Spec == Init /\ [][Next]_vars

\* A console's timer fires, its request reaches a gateway that runs, and what
\* is queued for it is sent.
FairSpec == Spec /\ \A c \in Consoles : WF_vars(Flow(c))
=============================================================================
