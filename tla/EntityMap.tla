----------------------------- MODULE EntityMap -----------------------------
(***************************************************************************)
(* One session's value <-> placeholder map (appliance/entity_map.py) over  *)
(* its life: every request loads it from its encrypted file, mints or      *)
(* reuses placeholders, saves it and is then forwarded upstream or         *)
(* refused.  Requests on one map run one after the other here, as          *)
(* map_file_lock makes them do; MapLock models the lock.                   *)
(*                                                                         *)
(* Values are names whose only structure is Fold, Python's str.casefold.   *)
(* A placeholder <LABEL_NNN> is its label and number.  The clocks of the   *)
(* file (idle time, absolute age) become "a load may find it expired".     *)
(***************************************************************************)
EXTENDS OrderedDict, FiniteSets

CONSTANTS
  Values,          \* the texts that can be detected, and their casefolds
  Labels,          \* span labels, as _placeholder_label returns them
  CaseSensitive,   \* the labels of _CASE_SENSITIVE_LABEL_KEYS
  Fold,            \* str.casefold
  MaxEntities,     \* GATEWAY_MAP_MAX
  MaxTomb,         \* GATEWAY_MAP_TOMB_MAX
  SaveMayFail,     \* TRUE: save() may raise, or write less than it was given
  MaxNum,          \* bound: the largest number a label's counter reaches
  MaxGen           \* bound: how many times an empty map is started

ASSUME LabelsAssumption == CaseSensitive \subseteq Labels
ASSUME FoldAssumption ==
  /\ Fold \in [Values -> Values]
  /\ \A v \in Values : Fold[Fold[v]] = Fold[v]
ASSUME SizeAssumption == MaxEntities \in Nat \ {0} /\ MaxTomb \in Nat
ASSUME BoundAssumption == MaxNum \in Nat /\ MaxGen \in Nat

VARIABLES
  file,      \* "none", "intact" or "corrupt": what is at self.path
  disk,      \* the contents of an intact file
  open,      \* TRUE while a request holds an EntityMap
  mem,       \* that EntityMap
  gens,      \* number of empty maps started so far: time.time() for created
  returned,  \* what placeholder_for has returned to this request
  sent       \* the same, for every request that was forwarded upstream

vars == <<file, disk, open, mem, gens, returned, sent>>
-----------------------------------------------------------------------------
Placeholders == [label : Labels, num : Nat \ {0}]

Sensitive(ph) == ph.label \in CaseSensitive

\* Both the tombstone and its lookups key a value by the class of a label.
TombKey(v, l) == IF l \in CaseSensitive THEN v ELSE Fold[v]

Bind(f, k, v) == [x \in DOMAIN f \cup {k} |-> IF x = k THEN v ELSE f[x]]
Unbind(f, k)  == [x \in DOMAIN f \ {k} |-> f[x]]

EmptyMap(created) ==
  [v2p |-> <<>>, p2v |-> <<>>, cf |-> <<>>, tomb |-> <<>>,
   counters |-> [l \in Labels |-> 0], created |-> created, evicted |-> {}]

\* [mutant] The counters are not persisted: a load can only reconcile them.
ContentsUncounted(m) ==
  [v2p |-> m.v2p, p2v |-> m.p2v, tomb |-> m.tomb,
   counters |-> [l \in Labels |-> 0], created |-> m.created]

\* What save() writes.
Contents(m) ==
  [v2p |-> m.v2p, p2v |-> m.p2v, tomb |-> m.tomb,
   counters |-> m.counters, created |-> m.created]
-----------------------------------------------------------------------------
(* _load *)

\* Case-variant aliases of a case-sensitive placeholder are dropped.
KeptKeys(d) ==
  {e.key : e \in {i \in Items(d.v2p) :
      ~(/\ Sensitive(i.val)
        /\ i.val \in DOMAIN d.p2v
        /\ d.p2v[i.val] # i.key)}}

\* The casefold index of v2p: of two keys with one casefold, the later wins.
CasefoldIndex(v2p) ==
  LET Plain  == {i \in DOMAIN v2p : ~Sensitive(v2p[i].val)}
      FoldAt(i) == Fold[v2p[i].key]
      Latest == {i \in Plain : \A j \in Plain : FoldAt(j) = FoldAt(i) => j <= i}
  IN [f \in {FoldAt(i) : i \in Latest} |->
        v2p[CHOOSE i \in Latest : FoldAt(i) = f].val]

\* [mutant] The counters start again at zero on every load.
CountersRestart(d) == [l \in Labels |-> 0]

\* Counter high-water reconciliation.
Reconciled(d) ==
  LET Live == DOMAIN d.p2v \cup {e.val : e \in Items(d.tomb)}
      Above(l) == {p.num : p \in {q \in Live : q.label = l /\ q.num > d.counters[l]}}
  IN [l \in Labels |-> IF Above(l) = {} THEN d.counters[l]
                       ELSE CHOOSE n \in Above(l) : \A m \in Above(l) : m <= n]

\* No file, an expired file (it is removed), or a file the load fails on (it
\* stays): the request starts from an empty map, created now.
LoadEmpty ==
  /\ ~open
  /\ gens < MaxGen
  /\ gens' = gens + 1
  /\ mem' = EmptyMap(gens + 1)
  /\ file' \in (IF file = "intact" THEN {"none", "intact"} ELSE {file})
  /\ open' = TRUE
  /\ UNCHANGED <<disk, returned, sent>>

LoadFile ==
  /\ ~open
  /\ file = "intact"
  /\ \E kept \in Restrictions(disk.v2p, KeptKeys(disk)) :
       mem' = [v2p |-> kept, p2v |-> disk.p2v, cf |-> CasefoldIndex(kept),
               tomb |-> disk.tomb, counters |-> Reconciled(disk),
               created |-> disk.created, evicted |-> {}]
  /\ open' = TRUE
  /\ UNCHANGED <<file, disk, gens, returned, sent>>
-----------------------------------------------------------------------------
(* placeholder_for *)

\* The tombstone keeps the MaxTomb youngest bindings.
Trimmed(tomb) == IF Len(tomb) > MaxTomb THEN Tail(tomb) ELSE tomb

\* [mutant] The binding of an evicted value is discarded, not kept in tomb.
EvictAndForget(m) ==
  IF Len(m.v2p) < MaxEntities THEN m ELSE
  LET old == Head(m.v2p)
  IN [m EXCEPT !.v2p = Tail(m.v2p), !.p2v = Unbind(m.p2v, old.val),
               !.cf = IF Fold[old.key] \in DOMAIN m.cf
                      THEN Unbind(m.cf, Fold[old.key]) ELSE m.cf,
               !.evicted = m.evicted \cup {old.val}]

\* [mutant] What is evicted is not noted in evicted_this_load.
EvictUnreported(m) ==
  IF Len(m.v2p) < MaxEntities THEN m ELSE
  LET old  == Head(m.v2p)
      f    == Fold[old.key]
  IN [m EXCEPT
        !.v2p = Tail(m.v2p),
        !.p2v = Unbind(m.p2v, old.val),
        !.cf = IF f \in DOMAIN m.cf /\ m.cf[f] = old.val THEN Unbind(m.cf, f) ELSE m.cf,
        !.tomb = Trimmed(PopAndSet(m.tomb, TombKey(old.key, old.val.label), old.val))]

\* _evict_if_full.  Both of its while loops run at most once: at most
\* MaxEntities entries are ever stored (SizesBounded).
EvictIfFull(m) ==
  IF Len(m.v2p) < MaxEntities THEN m ELSE
  LET old  == Head(m.v2p)
      f    == Fold[old.key]
      tkey == TombKey(old.key, old.val.label)
  IN [m EXCEPT
        !.v2p = Tail(m.v2p),
        !.p2v = Unbind(m.p2v, old.val),
        !.cf = IF f \in DOMAIN m.cf /\ m.cf[f] = old.val THEN Unbind(m.cf, f) ELSE m.cf,
        !.tomb = Trimmed(PopAndSet(m.tomb, tkey, old.val)),
        !.evicted = m.evicted \cup {old.val}]

\* [mutant] The way back is kept only for a value that had none.
StoreForward(m, v, l, ph) ==
  [m EXCEPT
     !.v2p = Insert(m.v2p, v, ph),
     !.cf = IF l \in CaseSensitive THEN m.cf ELSE Bind(m.cf, Fold[v], ph)]

\* Store v <-> ph in a map that has room for it.
Store(m, v, l, ph) ==
  [m EXCEPT
     !.v2p = Insert(m.v2p, v, ph),
     !.p2v = Bind(m.p2v, ph, v),
     !.cf = IF l \in CaseSensitive THEN m.cf ELSE Bind(m.cf, Fold[v], ph)]

\* Bind another spelling of a known value for exact lookups, if there is room.
BindAlias(m, v, ph) ==
  IF Len(m.v2p) < MaxEntities THEN [m EXCEPT !.v2p = Insert(m.v2p, v, ph)] ELSE m

\* [mutant] The number is taken before the counter is advanced.
NumberBefore(m, l) == m.counters[l]

NextNumber(m, l) == m.counters[l] + 1

FoldHit(m, v, l) == l \notin CaseSensitive /\ Fold[v] \in DOMAIN m.cf

Return(v, l, ph) ==
  returned' = returned \cup {[value |-> v, label |-> l, ph |-> ph]}

\* v2p has the exact value, whatever label it is asked for under.
ReturnExact(v, l) ==
  /\ HasKey(mem.v2p, v)
  /\ Return(v, l, Lookup(mem.v2p, v))
  /\ UNCHANGED mem

\* A case variant of a known value: bound as an alias while there is room.
ReturnCaseVariant(v, l) ==
  /\ ~HasKey(mem.v2p, v)
  /\ FoldHit(mem, v, l)
  /\ LET ph == mem.cf[Fold[v]]
     IN /\ Return(v, l, ph)
        /\ mem' = BindAlias(mem, v, ph)

\* An evicted value comes back under its original placeholder.
Reactivate(v, l) ==
  /\ ~HasKey(mem.v2p, v)
  /\ ~FoldHit(mem, v, l)
  /\ HasKey(mem.tomb, TombKey(v, l))
  /\ LET ph   == Lookup(mem.tomb, TombKey(v, l))
         room == EvictIfFull(mem)
         back == Store(room, v, l, ph)
     IN /\ Return(v, l, ph)
        /\ mem' = [back EXCEPT !.tomb = Pop(room.tomb, TombKey(v, l)),
                               !.evicted = room.evicted \ {ph}]

Mint(v, l) ==
  /\ ~HasKey(mem.v2p, v)
  /\ ~FoldHit(mem, v, l)
  /\ ~HasKey(mem.tomb, TombKey(v, l))
  /\ mem.counters[l] < MaxNum
  /\ LET ph   == [label |-> l, num |-> NextNumber(mem, l)]
         room == EvictIfFull([mem EXCEPT !.counters[l] = @ + 1])
     IN /\ Return(v, l, ph)
        /\ mem' = Store(room, v, l, ph)

PlaceholderFor(v, l) ==
  /\ open
  /\ ReturnExact(v, l) \/ ReturnCaseVariant(v, l) \/ Reactivate(v, l) \/ Mint(v, l)
  /\ UNCHANGED <<file, disk, open, gens, sent>>
-----------------------------------------------------------------------------
(* save, and the end of a request in redact_body *)

Save ==
  \/ file' = "intact" /\ disk' = Contents(mem)
  \/ SaveMayFail /\ UNCHANGED <<file, disk>>                \* swallowed exception
  \/ SaveMayFail /\ file' = "corrupt" /\ UNCHANGED disk     \* short os.write

Close ==
  /\ open' = FALSE
  /\ mem' = EmptyMap(0)
  /\ returned' = {}
  /\ UNCHANGED gens

\* A request that redacted something saves the map; one that did not saves it
\* only to refresh the idle clock.  Then it is forwarded, or refused with 503.
EndRequest(forwarded) ==
  /\ open
  /\ Save \/ (returned = {} /\ UNCHANGED <<file, disk>>)
  /\ sent' = IF forwarded
             THEN sent \cup {[gen |-> mem.created, value |-> r.value,
                              label |-> r.label, ph |-> r.ph] : r \in returned}
             ELSE sent
  /\ Close

\* The process dies, or redaction raises, before the map is saved.
Abort ==
  /\ open
  /\ Close
  /\ UNCHANGED <<file, disk, sent>>

Init ==
  /\ file = "none"
  /\ disk = Contents(EmptyMap(0))
  /\ open = FALSE
  /\ mem = EmptyMap(0)
  /\ gens = 0
  /\ returned = {}
  /\ sent = {}

Next ==
  \/ LoadEmpty
  \/ LoadFile
  \/ \E v \in Values, l \in Labels : PlaceholderFor(v, l)
  \/ \E forwarded \in BOOLEAN : EndRequest(forwarded)
  \/ Abort

Spec == Init /\ [][Next]_vars
-----------------------------------------------------------------------------
(* What the map must guarantee *)

MapOK(m) ==
  /\ m.v2p \in Dict(Values, Placeholders)
  /\ DOMAIN m.p2v \subseteq Placeholders /\ m.p2v \in [DOMAIN m.p2v -> Values]
  /\ m.tomb \in Dict(Values, Placeholders)
  /\ m.counters \in [Labels -> Nat]
  /\ m.created \in Nat

InstanceOK(m) ==
  /\ DOMAIN m = DOMAIN EmptyMap(0)
  /\ MapOK(m)
  /\ DOMAIN m.cf \subseteq Values /\ m.cf \in [DOMAIN m.cf -> Placeholders]
  /\ m.evicted \subseteq Placeholders

\* The type invariant.
TypeOK ==
  /\ file \in {"none", "intact", "corrupt"}
  /\ DOMAIN disk = DOMAIN Contents(EmptyMap(0))
  /\ MapOK(disk)
  /\ open \in BOOLEAN
  /\ InstanceOK(mem)
  /\ gens \in Nat
  /\ returned \subseteq [value : Values, label : Labels, ph : Placeholders]
  /\ sent \subseteq [gen : Nat, value : Values, label : Labels, ph : Placeholders]

\* The memory bound MAX_ENTITIES / MAX_TOMB promise: no sequence of mints,
\* aliases, evictions, reactivations and reloads stores more than that.
SizesBounded ==
  \A m \in {disk, mem} : Len(m.v2p) <= MaxEntities /\ Len(m.tomb) <= MaxTomb

\* Everything a map says a placeholder stands for, up to case.
Claims(m) ==
  {[ph |-> e.val, fold |-> Fold[e.key]] : e \in Items(m.v2p) \cup Items(m.tomb)}
    \cup {[ph |-> p, fold |-> Fold[m.p2v[p]]] : p \in DOMAIN m.p2v}

Index(m) == {[ph |-> m.cf[f], fold |-> f] : f \in DOMAIN m.cf}

Told == {[ph |-> r.ph, fold |-> Fold[r.value]] : r \in returned}

Agree(C) == \A a, b \in C : a.ph = b.ph => a.fold = b.fold

\* A placeholder never stands for two values that differ by more than case,
\* in what is stored, in the casefold index and in what this request was told:
\* a response is never rehydrated to another person's value.
NeverWrongValue ==
  /\ Agree(Claims(disk))
  /\ Agree(Claims(mem) \cup Index(mem) \cup Told)

\* "so no number is ever reissued": within one life of the map, a placeholder
\* that went upstream for one value is not sent for another one by any later
\* request, whatever was evicted, forgotten, aborted or reloaded in between.
NeverReissued ==
  \A a, b \in sent : a.gen = b.gen /\ a.ph = b.ph => Fold[a.value] = Fold[b.value]

\* "a re-sent value reuses its ORIGINAL placeholder": a value detected under
\* the same label goes upstream under the same placeholder each time, for as
\* long as the tombstone had room for everything that was evicted.
SamePlaceholder ==
  \A a, b \in sent :
    a.gen = b.gen /\ a.value = b.value /\ a.label = b.label => a.ph = b.ph

\* Another spelling of v can be detected.
HasVariant(v) == \E w \in Values \ {v} : Fold[w] = Fold[v]

\* Entries whose placeholder no response can be rehydrated from.
Orphans(m) == {e \in Items(m.v2p) : e.val \notin DOMAIN m.p2v}

\* "the model may reference any entity": at every moment of a request, and so
\* when its map is saved, each placeholder it was given restores to the value it
\* was given for, up to case.  It may not when it was evicted meanwhile, which the
\* request reports (map_evicted_present), or when the stored map had lost it: an
\* alias bound to it had outlived the spelling it was minted for, or the reverse.
ReturnedIsRestored ==
  open => \A r \in returned :
    \/ r.ph \in DOMAIN mem.p2v /\ Fold[mem.p2v[r.ph]] = Fold[r.value]
    \/ r.ph \in mem.evicted
    \/ /\ mem.created = disk.created
       /\ \E e \in Orphans(disk) : e.val = r.ph /\ HasVariant(e.key)
-----------------------------------------------------------------------------
(* The inductive invariant behind NeverWrongValue and NeverReissued *)

\* What went upstream in the map's life g; nothing is remembered of it when a
\* save may fail, since the map on disk then lags what was sent.
Upstream(g) ==
  IF SaveMayFail THEN {}
  ELSE {[ph |-> s.ph, fold |-> Fold[s.value]] : s \in {t \in sent : t.gen = g}}

Numbered(C, counters) == \A c \in C : c.ph.num <= counters[c.ph.label]

KnownOnDisk == Claims(disk) \cup Upstream(disk.created)
KnownInMemory == Claims(mem) \cup Index(mem) \cup Told \cup Upstream(mem.created)

\* Every placeholder anyone may still know of has one meaning, and a number
\* the counter that mints the next one has already passed.
Fresh ==
  /\ ~open => returned = {} /\ mem = EmptyMap(0)
  /\ disk.created <= gens
  /\ mem.created <= gens
  /\ \A s \in sent : s.gen <= gens
  /\ Agree(KnownOnDisk) /\ Numbered(KnownOnDisk, disk.counters)
  /\ open => Agree(KnownInMemory) /\ Numbered(KnownInMemory, mem.counters)
-----------------------------------------------------------------------------
(* The inductive invariant behind ReturnedIsRestored *)

\* A value has one entry, and only one with another spelling can be an orphan.
Rooted(m) ==
  /\ OnePerKey(m.v2p)
  /\ \A e \in Orphans(m) : HasVariant(e.key)

\* The casefold index answers with the placeholder of a live spelling.
IndexRooted(m) ==
  \A f \in DOMAIN m.cf : \E e \in Items(m.v2p) : Fold[e.key] = f /\ e.val = m.cf[f]

\* What a response can be rehydrated from, or is accounted for.
Accounted ==
  DOMAIN mem.p2v \cup mem.evicted
    \cup (IF mem.created = disk.created THEN {e.val : e \in Orphans(disk)} ELSE {})

Restorable ==
  /\ Rooted(disk) /\ Rooted(mem)
  /\ IndexRooted(mem)
  /\ open => /\ \A e \in Items(mem.v2p) : e.val \in Accounted
             /\ \A r \in returned : r.ph \in Accounted
-----------------------------------------------------------------------------
(* The inductive invariant behind SamePlaceholder *)

\* No two values differ by case only, so that no alias ever comes about.
NoCaseVariants == \A v, w \in Values : Fold[v] = Fold[w] => v = w

Bindings(m) == Items(m.v2p) \cup Items(m.tomb)

\* A value is bound once, live or as a tombstone, and what is live can be
\* rehydrated.
BoundOnce(m) ==
  /\ OnePerKey(m.v2p) /\ OnePerKey(m.tomb)
  /\ \A e \in Items(m.v2p), t \in Items(m.tomb) : e.key # t.key
  /\ \A e \in Items(m.v2p) : e.val \in DOMAIN m.p2v /\ m.p2v[e.val] = e.key

\* The casefold index answers for live values only.
IndexLive(m) ==
  \A f \in DOMAIN m.cf : \E e \in Items(m.v2p) : e.key = f /\ e.val = m.cf[f]

\* A map still binds whatever went upstream, or was returned, in its life.
NothingForgotten ==
  /\ \A s \in sent : s.gen = disk.created =>
       [key |-> s.value, val |-> s.ph] \in Bindings(disk)
  /\ open => /\ \A s \in sent : s.gen = mem.created =>
                  [key |-> s.value, val |-> s.ph] \in Bindings(mem)
             /\ \A r \in returned : [key |-> r.value, val |-> r.ph] \in Bindings(mem)

Bound == BoundOnce(disk) /\ BoundOnce(mem) /\ IndexLive(mem)
=============================================================================
