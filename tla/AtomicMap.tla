----------------------------- MODULE AtomicMap -----------------------------
(***************************************************************************)
(* What map_file_lock promises its callers (ARCHITECTURE.md, "Same-session *)
(* concurrency"): the load -> mint -> save cycle of each request is one    *)
(* atomic step on the session's map, so that "the same value gets one      *)
(* stable placeholder even under concurrency".                             *)
(***************************************************************************)
EXTENDS MintedMap

CONSTANTS
  SaveMayFail,   \* TRUE: a map may not reach its file, or not whole
  Garbled,       \* a file no map can be read from
  None           \* no map

VARIABLES
  stored,   \* the session's map, as its file has it
  told      \* the placeholders requests were given

Init == stored = None /\ told = {}

\* A request for v on map m.  It is answered whether or not the map is kept.
ServeOn(m, v) ==
  /\ \/ stored' = Minted(m, v)
     \/ SaveMayFail /\ stored' \in {stored, Garbled}
  /\ told' = told \cup {Answer(m, v)}

ServeStored(v) == stored \notin {None, Garbled} /\ ServeOn(stored, v)

\* The first request of a new map, which has a creation time of its own, where
\* the stored one is missing, has expired, or cannot be read at this moment.
ServeNew(v) ==
  \E now \in Instants :
    /\ \A t \in told : t.created # now
    /\ ServeOn(NewMap(now), v)

\* The file of an expired map is removed.
Expire == stored' = None /\ UNCHANGED told

Next == Expire \/ \E v \in Values : ServeStored(v) \/ ServeNew(v)

Spec == Init /\ [][Next]_<<stored, told>>
-----------------------------------------------------------------------------
TypeOK == stored \in Maps \cup {None, Garbled} /\ told \subseteq Answers

\* Within one life of the map, two answers are for one value exactly when they
\* give one number.
OneMeaning ==
  \A s, t \in told : s.created = t.created => (s.value = t.value <=> s.num = t.num)

\* What makes OneMeaning inductive, where saves succeed: the stored map remembers every answer of
\* its life, no two values share a number, and the counter has passed them all.
Remembered ==
  stored \in Maps =>
    /\ \A t \in told : t.created = stored.created =>
         t.num = stored.ids[t.value] /\ t.num # 0
    /\ \A v \in Values : stored.ids[v] <= stored.count
    /\ \A v, x \in Values :
         stored.ids[v] = stored.ids[x] /\ stored.ids[v] # 0 => v = x
=============================================================================
