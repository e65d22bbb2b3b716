--------------------------- MODULE MapLockProofs ---------------------------
(***************************************************************************)
(* Without the garbage collector, the lock of entity_map.py excludes, and  *)
(* makes the cycle of each request one atomic step on the map.             *)
(***************************************************************************)
EXTENDS MapLock, TLAPS

\* The locks each request holds at each step, while no one removes the .lock
\* file: its process's RLock, the file open, and then the flock on it.
LockInv ==
  /\ gc = "off"
  /\ \A w \in Workers :
       /\ pc[w] \notin {"idle", "waiting"} => rlock[ProcOf[w]] = w
       /\ pc[w] \in {"opened"} \cup InBlock => fd[w] = lock /\ lock # None
       /\ pc[w] \in InBlock => flock[fd[w]] = w

\* What a request has in its hands: a value from its arrival, a map from the
\* load to the save.
InHand ==
  \A w \in Workers :
    /\ pc[w] # "idle" => wants[w] \in Values
    /\ pc[w] \in {"loaded", "written", "saved"} => snap[w] \in Maps

LEMMA NewMapIsMap ==
  ASSUME NEW now \in Instants
  PROVE  NewMap(now) \in Maps
BY DEF NewMap, Maps

\* placeholder_for keeps the map's creation time, gives v a number, and leaves
\* every other value the number it had.
LEMMA MintedIsMap ==
  ASSUME NEW m \in Maps, NEW v \in Values
  PROVE  /\ Minted(m, v) \in Maps
         /\ Minted(m, v).created = m.created
         /\ Answer(m, v) \in Answers
         /\ Answer(m, v).num = Minted(m, v).ids[v]
         /\ Answer(m, v).created = m.created
         /\ Answer(m, v).value = v
         /\ \A x \in Values : x # v => Minted(m, v).ids[x] = m.ids[x]
         /\ m.ids[v] # 0 => Minted(m, v) = m
         /\ m.ids[v] = 0 => /\ Minted(m, v).ids[v] = m.count + 1
                            /\ Minted(m, v).count = m.count + 1
<1>1. CASE m.ids[v] # 0
  BY <1>1 DEF Minted, Maps, Answer, Answers
<1>2. CASE m.ids[v] = 0
  <2>1. Minted(m, v) = [created |-> m.created, count |-> m.count + 1,
                        ids |-> [m.ids EXCEPT ![v] = m.count + 1]]
    BY <1>2 DEF Minted, Maps
  <2> QED BY <1>2, <2>1 DEF Maps, Answer, Answers
<1> QED BY <1>1, <1>2

LEMMA TypeStep ==
  ASSUME TypeOK, InHand, [Next]_vars
  PROVE  TypeOK' /\ InHand'
<1> USE DEF TypeOK, InHand, Steps, InBlock, locks, files, Goto
<1>1. CASE UNCHANGED vars  BY <1>1 DEF vars
<1>2. ASSUME NEW w \in Workers, Arrive(w) PROVE TypeOK' /\ InHand'
  BY <1>2, ZenonT(60) DEF Arrive
<1>3. ASSUME NEW w \in Workers, TakeRLock(w) PROVE TypeOK' /\ InHand'
  BY <1>3 DEF TakeRLock
<1>4. ASSUME NEW w \in Workers, Flock(w) PROVE TypeOK' /\ InHand'
  BY <1>4 DEF Flock
<1>5. ASSUME NEW w \in Workers, OpenLock(w) PROVE TypeOK' /\ InHand'
  BY <1>5 DEF OpenLock, FreeInodes
<1>6. ASSUME NEW w \in Workers, LoadNew(w) \/ LoadUnread(w) PROVE TypeOK' /\ InHand'
  <2>1. PICK now \in Instants : snap' = [snap EXCEPT ![w] = NewMap(now)]
    BY <1>6 DEF LoadNew, LoadUnread, StartEmpty
  <2>2. NewMap(now) \in Maps
    BY NewMapIsMap
  <2>3. CASE LoadNew(w)     BY <2>1, <2>2, <2>3 DEF LoadNew
  <2>4. CASE LoadUnread(w)  BY <2>1, <2>2, <2>4 DEF LoadUnread
  <2> QED BY <1>6, <2>3, <2>4
<1>7. ASSUME NEW w \in Workers, LoadStored(w) PROVE TypeOK' /\ InHand'
  BY <1>7 DEF LoadStored
<1>8. ASSUME NEW w \in Workers, WriteTmp(w) PROVE TypeOK' /\ InHand'
  <2>1. Minted(snap[w], wants[w]) \in Maps
    BY <1>8, MintedIsMap DEF WriteTmp
  <2> QED BY <1>8, <2>1 DEF WriteTmp
<1>9. ASSUME NEW w \in Workers, Replace(w) PROVE TypeOK' /\ InHand'
  <2>1. Answer(snap[w], wants[w]) \in Answers
    BY <1>9, MintedIsMap DEF Replace
  <2> QED BY <1>9, <2>1, ZenonT(60) DEF Replace, Answered
<1>10. ASSUME NEW w \in Workers, SkipSave(w) PROVE TypeOK' /\ InHand'
  BY <1>10 DEF SkipSave
<1>11. ASSUME NEW w \in Workers, Release(w) PROVE TypeOK' /\ InHand'
  BY <1>11 DEF Release, Forget
<1>12. ASSUME NEW p \in Procs, Crash(p) PROVE TypeOK' /\ InHand'
  BY <1>12 DEF Crash, Forget
<1>13. CASE MapAges
  <2>1. /\ encAge' = encAge + 1 /\ encAge \in {0, 1, 2}
        /\ encAge < (IF GcEnabled THEN 2 ELSE 1)
    BY <1>13 DEF MapAges
  <2>2. encAge' \in {0, 1, 2}
    BY ONLY <2>1
  <2> QED BY <1>13, <2>2 DEF MapAges
<1>14. CASE LockAges
  BY <1>14 DEF LockAges
<1>15. CASE Gc
  <2>1. CASE GcScanMaps  BY <2>1 DEF GcScanMaps
  <2>2. CASE GcUnlinkMap  BY <2>2 DEF GcUnlinkMap
  <2>3. CASE GcScanLocks  BY <2>3 DEF GcScanLocks
  <2>4. CASE GcUnlinkLock  BY <2>4 DEF GcUnlinkLock
  <2> QED BY <1>15, <2>1, <2>2, <2>3, <2>4 DEF Gc
<1>16. ASSUME NEW w \in Workers, SaveFails(w) PROVE TypeOK' /\ InHand'
  <2>1. Answer(snap[w], wants[w]) \in Answers
    BY <1>16, MintedIsMap DEF SaveFails
  <2>2. told' \subseteq Answers
    BY <1>16, <2>1 DEF SaveFails, Answered
  <2>3. /\ pc' = [pc EXCEPT ![w] = "saved"] /\ pc[w] \in {"loaded", "written"}
        /\ tmp' \in {tmp, Garbled}
        /\ UNCHANGED <<wants, locks, enc, encAge, snap, gc>>
    BY <1>16 DEF SaveFails
  <2> QED BY <2>2, <2>3
<1> QED
  BY <1>1, <1>2, <1>3, <1>4, <1>5, <1>6, <1>7, <1>8, <1>9, <1>10, <1>11, <1>12,
     <1>13, <1>14, <1>15, <1>16 DEF Next, Proceed

LEMMA InitTyped ==
  ASSUME Init
  PROVE  TypeOK /\ InHand
<1>1. TypeOK  BY DEF Init, TypeOK, Steps
<1>2. InHand  BY DEF Init, InHand
<1> QED BY <1>1, <1>2

\* The type invariant, with or without garbage collection.
THEOREM TypeCorrect == Spec => []TypeOK
<1>1. Init => TypeOK /\ InHand
  BY InitTyped
<1>2. TypeOK /\ InHand /\ [Next]_vars => (TypeOK /\ InHand)'
  BY TypeStep
<1> QED BY <1>1, <1>2, PTL DEF Spec
-----------------------------------------------------------------------------
(* Mutual exclusion *)

LEMMA LocksExclude ==
  ASSUME TypeOK, LockInv
  PROVE  Mutex
<1> SUFFICES ASSUME NEW v \in Workers, NEW w \in Workers,
                    pc[v] \in InBlock, pc[w] \in InBlock
             PROVE  v = w
  BY DEF Mutex
<1>1. flock[fd[v]] = v /\ flock[fd[w]] = w /\ fd[v] = lock /\ fd[w] = lock
  BY DEF LockInv
<1> QED BY <1>1

LEMMA LockStep ==
  ASSUME TypeOK, LockInv, [Next]_vars, ~GcEnabled
  PROVE  LockInv'
<1> USE DEF TypeOK, LockInv, Steps, InBlock, locks, files, Goto
<1> USE ProcAssumption, NoneAssumption
<1>1. CASE UNCHANGED vars  BY <1>1 DEF vars
<1>2. ASSUME NEW w \in Workers, Arrive(w) PROVE LockInv'
  BY <1>2 DEF Arrive
<1>3. ASSUME NEW w \in Workers, TakeRLock(w) PROVE LockInv'
  BY <1>3 DEF TakeRLock
<1>4. ASSUME NEW w \in Workers, Flock(w) PROVE LockInv'
  BY <1>4 DEF Flock
<1>5. ASSUME NEW w \in Workers, OpenLock(w) PROVE LockInv'
  BY <1>5 DEF OpenLock, FreeInodes
<1>6. ASSUME NEW w \in Workers, LoadNew(w) \/ LoadUnread(w) PROVE LockInv'
  BY <1>6 DEF LoadNew, LoadUnread
<1>7. ASSUME NEW w \in Workers, LoadStored(w) PROVE LockInv'
  BY <1>7 DEF LoadStored
<1>8. ASSUME NEW w \in Workers, WriteTmp(w) PROVE LockInv'
  BY <1>8 DEF WriteTmp
<1>9. ASSUME NEW w \in Workers, Replace(w) PROVE LockInv'
  BY <1>9 DEF Replace
<1>10. ASSUME NEW w \in Workers, SkipSave(w) PROVE LockInv'
  BY <1>10 DEF SkipSave
<1>11. ASSUME NEW w \in Workers, Release(w) PROVE LockInv'
  BY <1>11 DEF Release, Forget
<1>12. ASSUME NEW p \in Procs, Crash(p) PROVE LockInv'
  BY <1>12 DEF Crash, Forget
<1>13. CASE MapAges
  BY <1>13 DEF MapAges
<1>14. CASE LockAges
  BY <1>14 DEF LockAges
<1>15. CASE Gc
  BY <1>15 DEF Gc, GcScanMaps, GcUnlinkMap, GcScanLocks, GcUnlinkLock
<1>16. ASSUME NEW w \in Workers, SaveFails(w) PROVE LockInv'
  BY <1>16 DEF SaveFails
<1> QED
  BY <1>1, <1>2, <1>3, <1>4, <1>5, <1>6, <1>7, <1>8, <1>9, <1>10, <1>11, <1>12,
     <1>13, <1>14, <1>15, <1>16 DEF Next, Proceed

\* "Exclusive host-local lock for a persisted map's load->mint->save cycle":
\* with garbage collection off, any number of requests in any number of
\* processes, which may die at any step, are in the block one at a time.
THEOREM LockIsExclusive ==
  ASSUME ~GcEnabled
  PROVE  Spec => []Mutex
<1> DEFINE I == TypeOK /\ InHand /\ LockInv
<1>1. Init => I
  BY InitTyped, ZenonT(60) DEF Init, LockInv, InBlock
<1>2. I /\ [Next]_vars => I'
  BY TypeStep, LockStep
<1>3. I => Mutex
  BY LocksExclude
<1> QED BY <1>1, <1>2, <1>3, PTL DEF Spec
-----------------------------------------------------------------------------
(* The cycle is atomic *)

\* A request in the block works on the stored map, or on a new one of a life
\* that has answered nobody; what it has written, if whole, is that map with its
\* value.
BlockInv ==
  \A w \in Workers :
    /\ pc[w] \in {"loaded", "written"} =>
         \/ enc = snap[w]
         \/ /\ snap[w] = NewMap(snap[w].created)
            /\ \A t \in told : t.created # snap[w].created
    /\ pc[w] = "written" =>
         tmp = Minted(snap[w], wants[w]) \/ (SaveMayFail /\ tmp = Garbled)

\* The abstract map is minted the way the stored one is.
LEMMA SameMinting ==
  ASSUME NEW m, NEW v
  PROVE  /\ Atomic!Minted(m, v) = Minted(m, v)
         /\ Atomic!Answer(m, v) = Answer(m, v)
         /\ Atomic!NewMap(m) = NewMap(m)
BY DEF Minted, Answer, NewMap, Atomic!Minted, Atomic!Answer, Atomic!NewMap

\* Whatever becomes of its file, a request's map is the stored one or a new one.
LEMMA BlockServes ==
  ASSUME TypeOK, InHand, BlockInv, NEW w \in Workers, pc[w] \in {"loaded", "written"},
         Atomic!ServeOn(snap[w], wants[w])
  PROVE  Atomic!Next
<1> DEFINE v == wants[w]
           m == snap[w]
<1>1. v \in Values /\ m \in Maps
  BY DEF InHand
<1>2. CASE enc = m
  <2>1. Atomic!ServeStored(v)
    BY <1>1, <1>2, NoneAssumption DEF Atomic!ServeStored
  <2> QED BY <1>1, <2>1 DEF Atomic!Next
<1>3. CASE enc # m
  <2>1. m = NewMap(m.created) /\ \A t \in told : t.created # m.created
    BY <1>3 DEF BlockInv
  <2>2. m.created \in Instants
    BY <1>1 DEF Maps
  <2>3. Atomic!ServeNew(v)
    BY <2>1, <2>2, SameMinting DEF Atomic!ServeNew
  <2> QED BY <1>1, <2>3 DEF Atomic!Next
<1> QED BY <1>2, <1>3

LEMMA ReplaceServes ==
  ASSUME TypeOK, InHand, BlockInv, NEW w \in Workers, Replace(w)
  PROVE  Atomic!Next
<1> DEFINE v == wants[w]
           m == snap[w]
<1>1. /\ v \in Values /\ m \in Maps /\ pc[w] = "written"
      /\ tmp = Minted(m, v) \/ (SaveMayFail /\ tmp = Garbled)
  BY DEF Replace, Goto, InHand, BlockInv
<1>2. tmp # None
  BY <1>1, MintedIsMap, NoneAssumption
<1>3. enc' = tmp /\ told' = told \cup {Answer(m, v)}
  BY <1>2 DEF Replace, Answered
<1>4. Atomic!ServeOn(m, v)
  BY <1>1, <1>3, SameMinting DEF Atomic!ServeOn
<1> QED BY <1>1, <1>4, BlockServes

\* A request whose save fails is answered as well.
LEMMA SaveFailsServes ==
  ASSUME TypeOK, InHand, BlockInv, NEW w \in Workers, SaveFails(w)
  PROVE  Atomic!Next
<1>1. /\ pc[w] \in {"loaded", "written"} /\ SaveMayFail
      /\ enc' = enc /\ told' = told \cup {Answer(snap[w], wants[w])}
  BY DEF SaveFails, Fails, Goto, Answered
<1>2. Atomic!ServeOn(snap[w], wants[w])
  BY <1>1, SameMinting DEF Atomic!ServeOn
<1> QED BY <1>1, <1>2, BlockServes

LEMMA BlockStep ==
  ASSUME TypeOK, InHand, Mutex, gc = "off", ~GcEnabled, BlockInv, [Next]_vars
  PROVE  BlockInv'
<1> USE DEF InBlock, locks, files, Goto
<1>0. TypeOK'
  BY TypeStep
<1>a. \A w \in Workers : pc[w] \in Steps /\ snap[w] \in Maps \cup {None}
  BY DEF TypeOK
\* An action of w inside the block leaves what the others hold alone.
<1>b. ASSUME NEW w \in Workers, pc[w] \in InBlock,
             NEW x \in Workers, x # w, pc'[x] = pc[x]
      PROVE  pc'[x] \notin InBlock
  BY <1>b DEF Mutex
<1>1. CASE UNCHANGED vars  BY <1>1 DEF vars, BlockInv
<1>2. ASSUME NEW w \in Workers, Arrive(w) PROVE BlockInv'
  BY <1>2 DEF Arrive, BlockInv, TypeOK
<1>3. ASSUME NEW w \in Workers, TakeRLock(w) PROVE BlockInv'
  BY <1>3 DEF TakeRLock, BlockInv, TypeOK
<1>4. ASSUME NEW w \in Workers, Flock(w) PROVE BlockInv'
  BY <1>4 DEF Flock, BlockInv, TypeOK
<1>5. ASSUME NEW w \in Workers, OpenLock(w) PROVE BlockInv'
  BY <1>5 DEF OpenLock, BlockInv, TypeOK
<1>6. ASSUME NEW w \in Workers, LoadNew(w) \/ LoadUnread(w) PROVE BlockInv'
  <2>1. PICK now \in Instants \ Past : snap' = [snap EXCEPT ![w] = NewMap(now)]
    BY <1>6 DEF LoadNew, LoadUnread, StartEmpty
  <2>2. snap'[w] = NewMap(now) /\ NewMap(now).created = now
    BY <2>1 DEF TypeOK, NewMap
  <2>3. \A t \in told : t.created # now
    BY <2>1 DEF Past, Lives
  <2>4. pc'[w] = "loaded" /\ pc[w] \in InBlock /\ told' = told
    BY <1>6 DEF LoadNew, LoadUnread, TypeOK
  <2>5. \A x \in Workers : x # w => pc'[x] = pc[x]
    BY <1>6 DEF LoadNew, LoadUnread, TypeOK
  <2>6. \A x \in Workers : x # w => pc'[x] \notin InBlock
    BY <2>4, <2>5, <1>b
  <2> QED BY <2>2, <2>3, <2>4, <2>6 DEF BlockInv
<1>7. ASSUME NEW w \in Workers, LoadStored(w) PROVE BlockInv'
  <2>1. pc'[w] = "loaded" /\ pc[w] \in InBlock /\ snap'[w] = enc /\ enc' = enc
    BY <1>7 DEF LoadStored, TypeOK
  <2>2. \A x \in Workers : x # w => pc'[x] = pc[x]
    BY <1>7 DEF LoadStored, TypeOK
  <2>3. \A x \in Workers : x # w => pc'[x] \notin InBlock
    BY <2>1, <2>2, <1>b
  <2> QED BY <2>1, <2>3 DEF BlockInv
<1>8. ASSUME NEW w \in Workers, WriteTmp(w) PROVE BlockInv'
  <2>1. /\ pc'[w] = "written" /\ pc[w] = "loaded"
        /\ tmp' = Minted(snap[w], wants[w]) \/ (SaveMayFail /\ tmp' = Garbled)
        /\ UNCHANGED <<snap, wants, enc, told>>
    BY <1>8 DEF WriteTmp, Fails, TypeOK
  <2>2. \A x \in Workers : x # w => pc'[x] = pc[x]
    BY <1>8 DEF WriteTmp, TypeOK
  <2>3. \A x \in Workers : x # w => pc'[x] \notin InBlock
    BY <2>1, <2>2, <1>b
  <2> QED BY <2>1, <2>3 DEF BlockInv
<1>9. ASSUME NEW w \in Workers, Replace(w) PROVE BlockInv'
  <2>1. pc'[w] = "saved" /\ pc[w] \in InBlock
    BY <1>9 DEF Replace, TypeOK
  <2>2. \A x \in Workers : x # w => pc'[x] = pc[x]
    BY <1>9 DEF Replace, TypeOK
  <2>3. \A x \in Workers : x # w => pc'[x] \notin InBlock
    BY <2>1, <2>2, <1>b
  <2> QED BY <2>1, <2>3 DEF BlockInv
<1>10. ASSUME NEW w \in Workers, SkipSave(w) PROVE BlockInv'
  BY <1>10 DEF SkipSave, BlockInv, TypeOK
<1>11. ASSUME NEW w \in Workers, Release(w) PROVE BlockInv'
  BY <1>11 DEF Release, Forget, BlockInv, TypeOK
<1>12. ASSUME NEW p \in Procs, Crash(p) PROVE BlockInv'
  BY <1>12 DEF Crash, Forget, BlockInv, TypeOK
<1>13. CASE MapAges
  BY <1>13 DEF MapAges, BlockInv
<1>14. CASE LockAges
  BY <1>14 DEF LockAges, BlockInv
<1>15. CASE Gc
  BY <1>15 DEF Gc, GcScanMaps, GcUnlinkMap, GcScanLocks, GcUnlinkLock
<1>16. ASSUME NEW w \in Workers, SaveFails(w) PROVE BlockInv'
  <2>1. pc'[w] = "saved" /\ pc[w] \in InBlock
    BY <1>16 DEF SaveFails, TypeOK
  <2>2. \A x \in Workers : x # w => pc'[x] = pc[x]
    BY <1>16 DEF SaveFails, TypeOK
  <2>3. \A x \in Workers : x # w => pc'[x] \notin InBlock
    BY <2>1, <2>2, <1>b
  <2> QED BY <2>1, <2>3 DEF BlockInv
<1> QED
  BY <1>1, <1>2, <1>3, <1>4, <1>5, <1>6, <1>7, <1>8, <1>9, <1>10, <1>11, <1>12,
     <1>13, <1>14, <1>15, <1>16 DEF Next, Proceed

\* Every step is one of the abstract map, or leaves it alone.
LEMMA StepRefines ==
  ASSUME TypeOK, InHand, BlockInv, gc = "off", ~GcEnabled, [Next]_vars
  PROVE  [Atomic!Next]_<<enc, told>>
<1> USE DEF locks, files
<1>1. ASSUME NEW w \in Workers, Replace(w) PROVE Atomic!Next
  BY <1>1, ReplaceServes
<1>2. ASSUME NEW w \in Workers, LoadNew(w) PROVE Atomic!Next
  BY <1>2 DEF LoadNew, Atomic!Next, Atomic!Expire
<1>3. CASE UNCHANGED vars  BY <1>3 DEF vars
<1>4. ASSUME NEW w \in Workers,
             Arrive(w) \/ TakeRLock(w) \/ Flock(w) \/ OpenLock(w) \/ LoadUnread(w)
               \/ LoadStored(w) \/ WriteTmp(w) \/ SkipSave(w) \/ Release(w)
      PROVE  UNCHANGED <<enc, told>>
  BY <1>4 DEF Arrive, TakeRLock, Flock, OpenLock, LoadUnread, LoadStored, WriteTmp,
              SkipSave, Release
<1>5. ASSUME NEW p \in Procs, Crash(p) PROVE UNCHANGED <<enc, told>>
  BY <1>5 DEF Crash
<1>6. CASE MapAges \/ LockAges
  BY <1>6 DEF MapAges, LockAges
<1>7. CASE Gc
  BY <1>7 DEF Gc, GcScanMaps, GcUnlinkMap, GcScanLocks, GcUnlinkLock
<1>8. ASSUME NEW w \in Workers, SaveFails(w) PROVE Atomic!Next
  BY <1>8, SaveFailsServes
<1> QED
  BY <1>1, <1>2, <1>3, <1>4, <1>5, <1>6, <1>7, <1>8 DEF Next, Proceed

\* The load -> mint -> save cycles of any number of requests and processes, with
\* crashes, expiry, and files that cannot be read or written, are atomic steps on
\* the session's map.
THEOREM RequestsAreAtomic ==
  ASSUME ~GcEnabled
  PROVE  Spec => AtomicSpec
<1> DEFINE I == TypeOK /\ InHand /\ LockInv /\ BlockInv
<1>1. Init => I /\ Atomic!Init
  <2> SUFFICES ASSUME Init PROVE I /\ Atomic!Init
    OBVIOUS
  <2>1. TypeOK /\ InHand  BY InitTyped
  <2>2. LockInv  BY DEF Init, LockInv, InBlock
  <2>3. BlockInv  BY DEF Init, BlockInv
  <2>4. Atomic!Init  BY DEF Init, Atomic!Init
  <2> QED BY <2>1, <2>2, <2>3, <2>4
<1>2. I /\ [Next]_vars => I'
  BY TypeStep, LockStep, LocksExclude, BlockStep DEF LockInv
<1>3. I /\ [Next]_vars => [Atomic!Next]_<<enc, told>>
  BY StepRefines DEF LockInv
<1> QED BY <1>1, <1>2, <1>3, PTL DEF Spec, AtomicSpec, Atomic!Spec

-----------------------------------------------------------------------------
(* Atomic requests never give one placeholder two meanings. *)

AtomicInv == Atomic!TypeOK /\ Atomic!OneMeaning /\ Atomic!Remembered

\* The maps and answers of the abstract requests are the same.
LEMMA SameMaps == Atomic!Maps = Maps /\ Atomic!Answers = Answers
BY DEF Maps, Answers, Atomic!Maps, Atomic!Answers

\* One request keeps the invariant, on a map that remembers its life's answers.
LEMMA ServeOnKeepsInv ==
  ASSUME ~SaveMayFail, Atomic!TypeOK, Atomic!OneMeaning, NEW m \in Maps, NEW v \in Values, Atomic!ServeOn(m, v),
         \A t \in told : t.created = m.created => t.num = m.ids[t.value] /\ t.num # 0,
         \A x \in Values : m.ids[x] <= m.count,
         \A x, y \in Values : m.ids[x] = m.ids[y] /\ m.ids[x] # 0 => x = y
  PROVE  AtomicInv'
<1> DEFINE n == Minted(m, v)
           ans == Answer(m, v)
<1>m. /\ n \in Maps /\ n.created = m.created
      /\ ans \in Answers /\ ans.created = m.created /\ ans.value = v
      /\ ans.num = n.ids[v]
      /\ \A x \in Values : x # v => n.ids[x] = m.ids[x]
      /\ m.ids[v] # 0 => n = m
      /\ m.ids[v] = 0 => n.ids[v] = m.count + 1 /\ n.count = m.count + 1
  BY MintedIsMap
<1>n. enc' = n /\ told' = told \cup {ans}
  BY SameMinting DEF Atomic!ServeOn
<1>a. n # None
  BY <1>m, NoneAssumption
<1>r. m \in Maps /\ \A x \in Values : m.ids[x] \in Nat /\ m.count \in Nat
  BY DEF Maps
<1> HIDE DEF n, ans
<1>1. Atomic!TypeOK'
  BY <1>m, <1>n, SameMaps DEF Atomic!TypeOK
<1>z. n.ids[v] # 0 /\ \A x \in Values : n.ids[x] \in Nat /\ n.count \in Nat
  <2>1. CASE m.ids[v] # 0  BY <2>1, <1>m, <1>r
  <2>2. CASE m.ids[v] = 0  BY <2>2, <1>m, <1>r DEF Maps
  <2> QED BY <2>1, <2>2
<1>b. \A x \in Values : n.ids[x] <= n.count
  <2>1. CASE m.ids[v] # 0  BY <2>1, <1>m
  <2>2. CASE m.ids[v] = 0
    <3> SUFFICES ASSUME NEW x \in Values PROVE n.ids[x] <= n.count
      OBVIOUS
    <3>1. CASE x = v  BY <3>1, <2>2, <1>m, <1>r
    <3>2. CASE x # v
      <4>1. n.ids[x] = m.ids[x] /\ n.count = m.count + 1  BY <3>2, <2>2, <1>m
      <4>2. m.ids[x] <= m.count  OBVIOUS
      <4> QED BY <4>1, <4>2, <1>r
    <3> QED BY <3>1, <3>2
  <2> QED BY <2>1, <2>2
<1>i. \A x, y \in Values : n.ids[x] = n.ids[y] /\ n.ids[x] # 0 => x = y
  <2>1. CASE m.ids[v] # 0  BY <2>1, <1>m
  <2>2. CASE m.ids[v] = 0
    <3>1. ASSUME NEW x \in Values PROVE m.ids[x] # m.count + 1
      <4>1. m.ids[x] <= m.count /\ m.ids[x] \in Nat /\ m.count \in Nat
        BY <1>r
      <4> QED BY <4>1
    <3> QED BY <2>2, <3>1, <1>m
  <2> QED BY <2>1, <2>2
<1>t. \A t \in told' : t.created = n.created => t.num = n.ids[t.value] /\ t.num # 0
  <2> SUFFICES ASSUME NEW t \in told', t.created = n.created
               PROVE  t.num = n.ids[t.value] /\ t.num # 0
    OBVIOUS
  <2>1. CASE t = ans  BY <2>1, <1>m, <1>z
  <2>2. CASE t # ans
    <3>1. t \in told /\ t.created = m.created /\ t.value \in Values
      BY <2>2, <1>n, <1>m, SameMaps DEF Atomic!TypeOK, Answers
    <3>2. t.num = m.ids[t.value] /\ t.num # 0
      BY <3>1
    <3>3. n.ids[t.value] = m.ids[t.value]
      BY <3>1, <3>2, <1>m
    <3> QED BY <3>2, <3>3
  <2> QED BY <2>1, <2>2
<1>2. Atomic!Remembered'
  BY <1>n, <1>t, <1>b, <1>i DEF Atomic!Remembered
<1>3. Atomic!OneMeaning'
  <2> SUFFICES ASSUME NEW s \in told', NEW t \in told', s.created = t.created
               PROVE  s.value = t.value <=> s.num = t.num
    BY DEF Atomic!OneMeaning
  <2>0. s.value \in Values /\ t.value \in Values
    BY <1>1, SameMaps DEF Atomic!TypeOK, Answers
  <2>1. CASE s.created = n.created
    BY <2>0, <2>1, <1>t, <1>i, ZenonT(60)
  <2>2. CASE s.created # n.created
    <3>1. s \in told /\ t \in told
      BY <2>2, <1>n, <1>m
    <3> QED BY <3>1 DEF Atomic!OneMeaning
  <2> QED BY <2>1, <2>2
<1> QED BY <1>1, <1>2, <1>3 DEF AtomicInv

\* Every step keeps the invariant.
LEMMA AtomicStep ==
  ASSUME ~SaveMayFail, AtomicInv, [Atomic!Next]_<<enc, told>>
  PROVE  AtomicInv'
<1>1. CASE UNCHANGED <<enc, told>>
  BY <1>1 DEF AtomicInv, Atomic!TypeOK, Atomic!OneMeaning, Atomic!Remembered
<1>2. CASE Atomic!Expire
  BY <1>2, SameMaps, NoneAssumption
     DEF AtomicInv, Atomic!TypeOK, Atomic!OneMeaning, Atomic!Remembered, Atomic!Expire
<1>3. ASSUME NEW v \in Values, Atomic!ServeStored(v) PROVE AtomicInv'
  <2>1. enc \in Maps /\ Atomic!ServeOn(enc, v)
    BY <1>3, SameMaps DEF AtomicInv, Atomic!TypeOK, Atomic!ServeStored
  <2>2. Atomic!Remembered /\ Atomic!TypeOK /\ Atomic!OneMeaning
    BY DEF AtomicInv
  <2> QED BY <2>1, <2>2, SameMaps, ServeOnKeepsInv DEF Atomic!Remembered
<1>4. ASSUME NEW v \in Values, Atomic!ServeNew(v) PROVE AtomicInv'
  <2>1. PICK now \in Instants : (\A t \in told : t.created # now) /\ Atomic!ServeOn(NewMap(now), v)
    BY <1>4 DEF Atomic!ServeNew, Atomic!NewMap, NewMap
  <2> DEFINE m == NewMap(now)
  <2>2. m \in Maps /\ m.created = now /\ m.count = 0 /\ \A x \in Values : m.ids[x] = 0
    BY DEF NewMap, Maps
  <2>3. Atomic!TypeOK /\ Atomic!OneMeaning
    BY DEF AtomicInv
  <2>4. Atomic!ServeOn(m, v) /\ \A t \in told : t.created # m.created
    BY <2>1, <2>2
  <2> HIDE DEF m
  <2> QED BY <2>2, <2>3, <2>4, ServeOnKeepsInv
<1> QED BY <1>1, <1>2, <1>3, <1>4 DEF Atomic!Next

\* "The same value gets one stable placeholder even under concurrency"
\* (ARCHITECTURE.md), and no two values share one, within a life of the map: it
\* is enough that requests are atomic, where the maps they write are kept.
THEOREM AtomicRequestsAgree ==
  ASSUME ~SaveMayFail
  PROVE  AtomicSpec => []OneMeaning
<1>1. Atomic!Init => AtomicInv
  BY SameMaps, NoneAssumption DEF Atomic!Init, AtomicInv, Atomic!TypeOK, Atomic!OneMeaning, Atomic!Remembered
<1>2. AtomicInv /\ [Atomic!Next]_<<enc, told>> => AtomicInv'
  BY AtomicStep
<1>3. AtomicInv => OneMeaning
  BY DEF AtomicInv, OneMeaning
<1> QED BY <1>1, <1>2, <1>3, PTL DEF AtomicSpec, Atomic!Spec

\* "The same value gets one stable placeholder even under concurrency", and no
\* other value gets it: what AtomicMap guarantees where saves succeed, its
\* implementation does.
THEOREM OnePlaceholderPerValue ==
  ASSUME ~GcEnabled, ~SaveMayFail
  PROVE  Spec => []OneMeaning
BY RequestsAreAtomic, AtomicRequestsAgree, PTL
-----------------------------------------------------------------------------
(* The threads of one process *)

\* A request past the in-process lock holds it.
RLockInv ==
  \A w \in Workers : pc[w] \notin {"idle", "waiting"} => rlock[ProcOf[w]] = w

LEMMA RLockStep ==
  ASSUME TypeOK, RLockInv, [Next]_vars
  PROVE  RLockInv'
<1>0. /\ pc \in [Workers -> Steps]
      /\ rlock \in [Procs -> Workers \cup {None}]
  BY DEF TypeOK
<1> USE <1>0, ProcAssumption, NoneAssumption DEF RLockInv, locks, files, Goto
<1>1. CASE UNCHANGED vars  BY <1>1 DEF vars
<1>2. ASSUME NEW w \in Workers, Arrive(w) \/ TakeRLock(w) PROVE RLockInv'
  <2>1. CASE Arrive(w)     BY <2>1 DEF Arrive
  <2>2. CASE TakeRLock(w)  BY <2>2 DEF TakeRLock
  <2> QED BY <1>2, <2>1, <2>2
<1>3. ASSUME NEW w \in Workers, OpenLock(w) \/ Flock(w) PROVE RLockInv'
  <2>1. CASE OpenLock(w)  BY <2>1 DEF OpenLock
  <2>2. CASE Flock(w)     BY <2>2 DEF Flock
  <2> QED BY <1>3, <2>1, <2>2
<1>4. ASSUME NEW w \in Workers, LoadNew(w) \/ LoadUnread(w) \/ LoadStored(w) PROVE RLockInv'
  <2>1. CASE LoadNew(w)     BY <2>1 DEF LoadNew
  <2>2. CASE LoadUnread(w)  BY <2>2 DEF LoadUnread
  <2>3. CASE LoadStored(w)  BY <2>3 DEF LoadStored
  <2> QED BY <1>4, <2>1, <2>2, <2>3
<1>5. ASSUME NEW w \in Workers, WriteTmp(w) \/ Replace(w) \/ SaveFails(w) \/ SkipSave(w)
      PROVE  RLockInv'
  <2>1. CASE WriteTmp(w)   BY <2>1 DEF WriteTmp
  <2>2. CASE Replace(w)    BY <2>2 DEF Replace
  <2>3. CASE SkipSave(w)   BY <2>3 DEF SkipSave
  <2>4. CASE SaveFails(w)  BY <2>4 DEF SaveFails
  <2> QED BY <1>5, <2>1, <2>2, <2>3, <2>4
<1>6. ASSUME NEW w \in Workers, Release(w) PROVE RLockInv'
  BY <1>6 DEF Release, Forget
<1>7. ASSUME NEW p \in Procs, Crash(p) PROVE RLockInv'
  BY <1>7 DEF Crash, Forget
<1>8. CASE MapAges \/ LockAges
  BY <1>8 DEF MapAges, LockAges
<1>9. CASE Gc
  BY <1>9 DEF Gc, GcScanMaps, GcUnlinkMap, GcScanLocks, GcUnlinkLock
<1> QED
  BY <1>1, <1>2, <1>3, <1>4, <1>5, <1>6, <1>7, <1>8, <1>9 DEF Next, Proceed

\* Whatever the garbage collector removes and whichever process dies, the
\* threads of one gateway process are in the block one at a time: the
\* in-process lock does not depend on the file.
THEOREM ThreadsAreExclusive == Spec => []ThreadsExclude
<1> DEFINE I == TypeOK /\ InHand /\ RLockInv
<1>1. Init => I
  BY InitTyped DEF Init, RLockInv
<1>2. I /\ [Next]_vars => I'
  BY TypeStep, RLockStep
<1>3. I => ThreadsExclude
  BY DEF RLockInv, ThreadsExclude, InBlock
<1> QED BY <1>1, <1>2, <1>3, PTL DEF Spec

\* So a single gateway process needs no lock file at all.
COROLLARY OneProcessIsExclusive ==
  ASSUME \A v, w \in Workers : ProcOf[v] = ProcOf[w]
  PROVE  Spec => []Mutex
<1>1. ThreadsExclude => Mutex
  BY DEF ThreadsExclude, Mutex
<1> QED BY <1>1, ThreadsAreExclusive, PTL
=============================================================================
