------------------------------ MODULE MapLock ------------------------------
(***************************************************************************)
(* Requests of several gateway processes that share one session's map file *)
(* (appliance/entity_map.py: map_file_lock, gc_maps, _load, save).  A      *)
(* request takes the in-process RLock of the path, opens the sidecar .lock *)
(* file, flocks it, loads the map, mints, writes the map to a temporary    *)
(* file, renames it and releases.  Processes may die at any step, a file   *)
(* may not be read or not be written whole, and the garbage collector,     *)
(* which takes no lock, may remove both files.                             *)
(*                                                                         *)
(* The file system keeps names and inodes apart: a flock is held on the    *)
(* inode that was opened, which need not be the one the name has now.      *)
(***************************************************************************)
EXTENDS MintedMap, FiniteSets

CONSTANTS
  Workers,    \* threads that serve requests of the session
  Procs,      \* gateway processes
  ProcOf,     \* the process of each worker
  Inodes,     \* inodes the .lock name can have
  GcEnabled,  \* FALSE: GATEWAY_MAPS_TTL_DAYS=0
  SaveMayFail, \* TRUE: save() may raise, or write less than it was given
  Garbled,    \* a file that was written short: it cannot be decrypted
  MaxLives,   \* bound: how many lives of the map answer requests
  None        \* no inode, no file, no holder, no map

ASSUME ProcAssumption == ProcOf \in [Workers -> Procs]
ASSUME NoneAssumption ==
  /\ None \notin Workers /\ None \notin Inodes /\ None \notin Values
  /\ None \notin Maps /\ Garbled \notin Maps /\ Garbled # None

VARIABLES
  pc,       \* what each worker does next
  wants,    \* the value each worker's request carries
  rlock,    \* holder of each process's RLock for the path
  fd,       \* inode each worker has the .lock file open as
  flock,    \* holder of the flock on each inode
  lock,     \* inode the name .lock has
  lockOld,  \* its mtime is more than an hour ago
  enc,      \* the map file
  encAge,   \* 0: in use; 1: expired; 2: past the garbage collector's TTL too
  tmp,      \* the temporary file
  snap,     \* the map each worker has in memory
  gc,       \* what the garbage collector does next
  told      \* the placeholders requests were given

locks == <<rlock, fd, flock, lock, lockOld>>
files == <<enc, encAge, tmp, snap, told>>
vars == <<pc, wants, locks, files, gc>>
-----------------------------------------------------------------------------
Goto(w, from, to) == pc[w] = from /\ pc' = [pc EXCEPT ![w] = to]

\* An inode nobody names and nobody has open can be allocated again.
FreeInodes == {i \in Inodes : i # lock /\ \A w \in Workers : fd[w] # i}

Arrive(w) ==
  /\ Goto(w, "idle", "waiting")
  /\ \E v \in Values : wants' = [wants EXCEPT ![w] = v]
  /\ UNCHANGED <<locks, files, gc>>

\* [mutant] The in-process lock lets everybody in.
TakeRLockAlways(w) ==
  /\ Goto(w, "waiting", "rlocked")
  /\ rlock' = [rlock EXCEPT ![ProcOf[w]] = w]
  /\ UNCHANGED <<wants, fd, flock, lock, lockOld, files, gc>>

TakeRLock(w) ==
  /\ Goto(w, "waiting", "rlocked")
  /\ rlock[ProcOf[w]] = None
  /\ rlock' = [rlock EXCEPT ![ProcOf[w]] = w]
  /\ UNCHANGED <<wants, fd, flock, lock, lockOld, files, gc>>

\* os.open(lock_path, O_RDWR | O_CREAT): only a new file has a new mtime.
OpenLock(w) ==
  /\ Goto(w, "rlocked", "opened")
  /\ IF lock # None
     THEN /\ fd' = [fd EXCEPT ![w] = lock]
          /\ UNCHANGED <<lock, lockOld>>
     ELSE \E i \in FreeInodes :
            /\ fd' = [fd EXCEPT ![w] = i]
            /\ lock' = i
            /\ lockOld' = FALSE
  /\ UNCHANGED <<wants, rlock, flock, files, gc>>

\* [mutant] A shared lock (LOCK_SH) instead of an exclusive one.
FlockShared(w) ==
  /\ Goto(w, "opened", "locked")
  /\ flock' = [flock EXCEPT ![fd[w]] = w]
  /\ UNCHANGED <<wants, rlock, fd, lock, lockOld, files, gc>>

\* [mutant] A lock that belongs to the process (fcntl.lockf), not to the file
\* that was opened.
FlockPerProcess(w) ==
  /\ Goto(w, "opened", "locked")
  /\ flock[fd[w]] \in {None, ProcOf[w]}
  /\ flock' = [flock EXCEPT ![fd[w]] = ProcOf[w]]
  /\ UNCHANGED <<wants, rlock, fd, lock, lockOld, files, gc>>

Flock(w) ==
  /\ Goto(w, "opened", "locked")
  /\ flock[fd[w]] = None
  /\ flock' = [flock EXCEPT ![fd[w]] = w]
  /\ UNCHANGED <<wants, rlock, fd, lock, lockOld, files, gc>>

\* The creation times of the maps that gave answers, and of those there are.
Lives == {t.created : t \in told}

Past ==
  Lives \cup {m.created : m \in ({enc, tmp} \cup {snap[w] : w \in Workers}) \ {None, Garbled}}

StartEmpty(w) == \E now \in Instants \ Past : snap' = [snap EXCEPT ![w] = NewMap(now)]

\* No file, or an expired one, which is removed: start an empty map.
LoadNew(w) ==
  /\ Goto(w, "locked", "loaded")
  /\ enc = None \/ (enc # Garbled /\ encAge > 0)
  /\ StartEmpty(w)
  /\ enc' = None /\ encAge' = 0
  /\ UNCHANGED <<wants, locks, tmp, gc, told>>

\* The file is garbled, or a whole one cannot be read now: _load swallows the
\* error, the map is empty and the file stays.
LoadUnread(w) ==
  /\ Goto(w, "locked", "loaded")
  /\ enc = Garbled \/ (enc # None /\ Cardinality(Lives) < MaxLives)
  /\ StartEmpty(w)
  /\ UNCHANGED <<wants, locks, enc, encAge, tmp, gc, told>>

LoadStored(w) ==
  /\ Goto(w, "locked", "loaded")
  /\ enc \notin {None, Garbled} /\ encAge = 0
  /\ snap' = [snap EXCEPT ![w] = enc]
  /\ UNCHANGED <<wants, locks, enc, encAge, tmp, gc, told>>

\* [mutant] The map is saved before the value is minted.
WriteTmpEarly(w) ==
  /\ Goto(w, "loaded", "written")
  /\ tmp' = snap[w]
  /\ UNCHANGED <<wants, locks, enc, encAge, snap, gc, told>>

\* A save of w's map may fail.  Bound: not in the last life, which would leave
\* the next request without one.
Fails(w) ==
  SaveMayFail /\ Cardinality(Lives \cup {snap[w].created}) < MaxLives

\* placeholder_for, then save() up to the rename: os.write may write less than
\* it was given.  The name of the temporary file is the same for everybody.
WriteTmp(w) ==
  /\ Goto(w, "loaded", "written")
  /\ tmp' = Minted(snap[w], wants[w]) \/ (Fails(w) /\ tmp' = Garbled)
  /\ UNCHANGED <<wants, locks, enc, encAge, snap, gc, told>>

\* The request has its placeholder, and goes on to be forwarded.
Answered(w) == told' = told \cup {Answer(snap[w], wants[w])}

\* os.replace; it fails, and save() swallows that, when the file has gone.
Replace(w) ==
  /\ Goto(w, "written", "saved")
  /\ IF tmp = None THEN UNCHANGED <<enc, encAge>> ELSE enc' = tmp /\ encAge' = 0
  /\ tmp' = None
  /\ Answered(w)
  /\ UNCHANGED <<wants, locks, snap, gc>>

\* save() raises and swallows it, with the temporary file not opened, or opened
\* and truncated, or written but not renamed.
SaveFails(w) ==
  /\ \/ Goto(w, "loaded", "saved") /\ tmp' \in {tmp, Garbled}
     \/ Goto(w, "written", "saved") /\ UNCHANGED tmp
  /\ Fails(w)
  /\ Answered(w)
  /\ UNCHANGED <<wants, locks, enc, encAge, snap, gc>>

\* A request with nothing to redact, or the has_known probe: no save.
SkipSave(w) ==
  /\ Goto(w, "loaded", "saved")
  /\ UNCHANGED <<wants, locks, files, gc>>

\* What the requests of W held in memory is gone.
Forget(W) ==
  /\ wants' = [w \in Workers |-> IF w \in W THEN None ELSE wants[w]]
  /\ snap' = [w \in Workers |-> IF w \in W THEN None ELSE snap[w]]

\* [mutant] The file is closed but the RLock is never given back.
ReleaseHalf(w) ==
  /\ Goto(w, "saved", "idle")
  /\ flock' = [flock EXCEPT ![fd[w]] = None]
  /\ fd' = [fd EXCEPT ![w] = None]
  /\ Forget({w})
  /\ UNCHANGED <<rlock, lock, lockOld, enc, encAge, tmp, told, gc>>

\* [mutant] Each request removes the .lock file when it is done.
ReleaseAndUnlink(w) ==
  /\ Goto(w, "saved", "idle")
  /\ flock' = [flock EXCEPT ![fd[w]] = None]
  /\ fd' = [fd EXCEPT ![w] = None]
  /\ rlock' = [rlock EXCEPT ![ProcOf[w]] = None]
  /\ lock' = None /\ lockOld' = FALSE
  /\ Forget({w})
  /\ UNCHANGED <<enc, encAge, tmp, told, gc>>

\* LOCK_UN, close, and the RLock: the exits of the two with blocks.
Release(w) ==
  /\ Goto(w, "saved", "idle")
  /\ flock' = [flock EXCEPT ![fd[w]] = None]
  /\ fd' = [fd EXCEPT ![w] = None]
  /\ rlock' = [rlock EXCEPT ![ProcOf[w]] = None]
  /\ Forget({w})
  /\ UNCHANGED <<lock, lockOld, enc, encAge, tmp, told, gc>>

\* A process dies: the kernel closes its files, which drops its flocks.
Crash(p) ==
  LET Dead == {w \in Workers : ProcOf[w] = p}
  IN /\ pc' = [w \in Workers |-> IF w \in Dead THEN "idle" ELSE pc[w]]
     /\ fd' = [w \in Workers |-> IF w \in Dead THEN None ELSE fd[w]]
     /\ flock' = [i \in Inodes |-> IF flock[i] \in Dead THEN None ELSE flock[i]]
     /\ rlock' = [rlock EXCEPT ![p] = None]
     /\ Forget(Dead)
     /\ UNCHANGED <<lock, lockOld, enc, encAge, tmp, told, gc>>
-----------------------------------------------------------------------------
(* Time, and gc_maps *)

\* Only the collector tells a map past its TTL from an expired one, and an old
\* lock from a new one.
MapAges ==
  /\ enc # None /\ encAge < (IF GcEnabled THEN 2 ELSE 1)
  /\ Cardinality(Lives) < MaxLives
  /\ encAge' = encAge + 1
  /\ UNCHANGED <<pc, wants, locks, enc, tmp, snap, gc, told>>

LockAges ==
  /\ GcEnabled /\ lock # None /\ ~lockOld
  /\ lockOld' = TRUE
  /\ UNCHANGED <<pc, wants, rlock, fd, flock, lock, files, gc>>

\* First pass: was the map last written longer ago than the TTL?
GcScanMaps ==
  /\ GcEnabled /\ gc = "off"
  /\ gc' = IF enc # None /\ encAge = 2 THEN "unlink map" ELSE "scan locks"
  /\ UNCHANGED <<pc, wants, locks, files>>

GcUnlinkMap ==
  /\ gc = "unlink map"
  /\ enc' = None /\ encAge' = 0
  /\ gc' = "unlink its lock"
  /\ UNCHANGED <<pc, wants, locks, tmp, snap, told>>

\* Second pass: is it a lock of more than an hour, with no map?
GcScanLocks ==
  /\ gc = "scan locks"
  /\ gc' = IF lock # None /\ enc = None /\ lockOld THEN "unlink orphan" ELSE "off"
  /\ UNCHANGED <<pc, wants, locks, files>>

GcUnlinkLock ==
  /\ gc \in {"unlink its lock", "unlink orphan"}
  /\ lock' = None /\ lockOld' = FALSE
  /\ gc' = IF gc = "unlink orphan" THEN "off" ELSE "scan locks"
  /\ UNCHANGED <<pc, wants, rlock, fd, flock, files>>

Gc == GcScanMaps \/ GcUnlinkMap \/ GcScanLocks \/ GcUnlinkLock
-----------------------------------------------------------------------------
Init ==
  /\ pc = [w \in Workers |-> "idle"]
  /\ wants = [w \in Workers |-> None]
  /\ rlock = [p \in Procs |-> None]
  /\ fd = [w \in Workers |-> None]
  /\ flock = [i \in Inodes |-> None]
  /\ lock = None /\ lockOld = FALSE
  /\ enc = None /\ encAge = 0
  /\ tmp = None
  /\ snap = [w \in Workers |-> None]
  /\ gc = "off"
  /\ told = {}

Proceed(w) ==
  \/ OpenLock(w) \/ LoadNew(w) \/ LoadUnread(w) \/ LoadStored(w)
  \/ WriteTmp(w) \/ Replace(w) \/ SaveFails(w) \/ SkipSave(w) \/ Release(w)

Next ==
  \/ \E w \in Workers : Arrive(w) \/ TakeRLock(w) \/ Flock(w) \/ Proceed(w)
  \/ \E p \in Procs : Crash(p)
  \/ MapAges \/ LockAges \/ Gc

Spec == Init /\ [][Next]_vars

\* A request that can go on does.  A process runs the block without awaiting,
\* and wakes its waiting requests in order; so does the kernel with flocks.
Fairness ==
  \A w \in Workers : WF_vars(Proceed(w)) /\ SF_vars(TakeRLock(w)) /\ SF_vars(Flock(w))

FairSpec == Spec /\ Fairness
-----------------------------------------------------------------------------
InBlock == {"locked", "loaded", "written", "saved"}
Steps == {"idle", "waiting", "rlocked", "opened"} \cup InBlock

\* The type invariant.
TypeOK ==
  /\ pc \in [Workers -> Steps]
  /\ wants \in [Workers -> Values \cup {None}]
  /\ rlock \in [Procs -> Workers \cup {None}]
  /\ fd \in [Workers -> Inodes \cup {None}]
  /\ flock \in [Inodes -> Workers \cup {None}]
  /\ lock \in Inodes \cup {None} /\ lockOld \in BOOLEAN
  /\ {enc, tmp} \subseteq Maps \cup {None, Garbled}
  /\ snap \in [Workers -> Maps \cup {None}]
  /\ encAge \in {0, 1, 2}
  /\ told \subseteq Answers
  /\ gc \in {"off", "unlink map", "unlink its lock", "scan locks", "unlink orphan"}

\* "Exclusive host-local lock for a persisted map's load->mint->save cycle":
\* no two requests are inside the block at once, in one process or in two.
Mutex == \A v, w \in Workers : pc[v] \in InBlock /\ pc[w] \in InBlock => v = w

\* The threads of one process exclude each other even where the garbage
\* collector removes the lock file under them.
ThreadsExclude ==
  \A v, w \in Workers :
    ProcOf[v] = ProcOf[w] /\ pc[v] \in InBlock /\ pc[w] \in InBlock => v = w

\* Every request gets through, or dies with its process.
Served == \A w \in Workers : pc[w] = "waiting" ~> pc[w] = "idle"

\* The load -> mint -> save cycle of each request is one atomic step on the
\* session's map, whatever processes die, whenever the map expires and whether
\* or not it can be read and written.
Atomic == INSTANCE AtomicMap WITH stored <- enc
AtomicSpec == Atomic!Spec

\* So, where saves succeed, "the same value gets one stable placeholder even
\* under concurrency", and never one that another value was given in the same life of the map.
OneMeaning == Atomic!OneMeaning
=============================================================================
