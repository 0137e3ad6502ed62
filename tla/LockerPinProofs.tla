---------------------------- MODULE LockerPinProofs ----------------------------
(* What an entry of the lockfile may say, for every value of the constants:  *)
(* its hash, its age and the tag shown beside it.  Each property is a        *)
(* conjunction over the entries, so the argument is the same three times:    *)
(* every way the invocation's copy can change keeps it, entry by entry, and  *)
(* the file only ever receives that copy.                                    *)
EXTENDS LockerGreenProofs, FiniteSetTheorems, WellFoundedInduction

-----------------------------------------------------------------------------
(* The ways one step may change the invocation's copy of the lockfile.       *)

Locked(k, sha, p) ==
    /\ sha \in Shas /\ k \in DOMAIN latest /\ latest[k] = sha
    /\ \E walk \in BOOLEAN, clear \in SUBSET aged : p \in Targets(k, sha, walk, clear)

LocksOne == /\ pc = "lock"
            /\ \E k \in Keys : \E sha, p : /\ Locked(k, sha, p)
                                           /\ mem' = Put(mem, k, NewEntry(k, p))

MovesOne == /\ pc = "apply"
            /\ \E k \in DOMAIN mem : \E sha, p : /\ Locked(k, sha, p)
                                                 /\ mem' = Put(mem, k, Moved(mem[k], p))

RecordsOne == \E k \in DOMAIN mem :
    mem' = Put(mem, k, [mem[k] EXCEPT !.integrity = Pristine(k, mem)])

(* What a step leaves of the copy and of the file.                           *)
MemStep == \/ mem' = mem \/ mem' = NoLocks \/ mem' = Refreshed(mem)
           \/ lockfile # Torn /\ mem' = lockfile
           \/ LocksOne \/ MovesOne \/ RecordsOne

FileStep == lockfile' \in {lockfile, Torn, NoLocks, mem}

(* A step of lock, update or vendor changes one entry or none.               *)
LEMMA KeyStep ==
    ASSUME TypeOK, NEW k \in Keys, Lock(k) \/ Update(k) \/ Vendor(k)
    PROVE  MemStep /\ lockfile' = lockfile
<1>1. CASE LockSkip(k) \/ LockResolve(k) \/ LockRefuse(k) \/ UpdateCheck(k)
             \/ UpdateKeep(k) \/ VendorSkip(k) \/ VendorFail(k) \/ VendorCopy(k)
             \/ VendorBreak(k)
  BY <1>1 DEF LockSkip, LockResolve, LockRefuse, UpdateCheck, UpdateKeep,
     VendorSkip, VendorFail, VendorCopy, VendorBreak, MemStep, repoVars
<1>2. CASE LockPin(k)
  <2>1. PICK walk \in BOOLEAN, clear \in SUBSET aged :
          \E p \in Targets(k, latest[k], walk, clear) :
            mem' = Put(mem, k, NewEntry(k, p))
    BY <1>2 DEF LockPin
  <2>2. PICK p \in Targets(k, latest[k], walk, clear) :
          mem' = Put(mem, k, NewEntry(k, p))
    BY <2>1
  <2>3. k \in DOMAIN latest /\ latest[k] \in Shas /\ pc = "lock"
    BY <1>2 DEF LockPin, TypeOK
  <2>4. Locked(k, latest[k], p)
    BY <2>2, <2>3 DEF Locked
  <2> QED
    BY <1>2, <2>2, <2>3, <2>4 DEF LockPin, LocksOne, MemStep, repoVars
<1>3. CASE UpdateMove(k)
  <2>1. PICK walk \in BOOLEAN, clear \in SUBSET aged :
          \E p \in Targets(k, latest[k], walk, clear) :
            mem' = Put(mem, k, Moved(mem[k], p))
    BY <1>3 DEF UpdateMove
  <2>2. PICK p \in Targets(k, latest[k], walk, clear) :
          mem' = Put(mem, k, Moved(mem[k], p))
    BY <2>1
  <2>3. k \in DOMAIN latest /\ k \in DOMAIN mem /\ pc = "apply"
    BY <1>3 DEF UpdateMove, First, TypeOK
  <2>4. latest[k] \in Shas
    BY <2>3 DEF TypeOK
  <2>5. Locked(k, latest[k], p)
    BY <2>2, <2>3, <2>4 DEF Locked
  <2> QED
    BY <1>3, <2>2, <2>3, <2>5 DEF UpdateMove, MovesOne, MemStep, repoVars
<1>4. CASE VendorRecord(k)
  <2>1. k \in DOMAIN mem
    BY <1>4 DEF VendorRecord, First, TypeOK
  <2>2. DirFor(k, mem) \in Dirs
    BY <2>1, PristineTyped DEF TypeOK
  <2>3. vendor'[DirFor(k, mem)] = Pristine(k, mem)
    BY <1>4, <2>2 DEF VendorRecord, TypeOK
  <2>4. mem' = Put(mem, k, [mem[k] EXCEPT !.integrity = Pristine(k, mem)])
    BY <1>4, <2>3 DEF VendorRecord
  <2> QED
    BY <1>4, <2>1, <2>4 DEF VendorRecord, RecordsOne, MemStep
<1> QED
  BY <1>1, <1>2, <1>3, <1>4 DEF Lock, Update, Vendor

(* And so does every step.                                                   *)
LEMMA EveryStep ==
    ASSUME TypeOK, [Next]_vars
    PROVE  MemStep /\ FileStep
<1>1. CASE Refuse \/ UNCHANGED vars
  BY <1>1 DEF Refuse, vars, repoVars, runVars, MemStep, FileStep
<1>2. CASE \E i \in Invocations : Begin(i)
  BY <1>2 DEF Begin, NothingToDo, StartLock, StartUpdate, StartVendor, Rewrite,
     Verify, Load, repoVars, MemStep, FileStep
<1>3. CASE \E k \in Keys : Lock(k) \/ Update(k) \/ Vendor(k)
  BY <1>3, KeyStep DEF FileStep
<1>4. CASE LockSave \/ UpdateApply \/ UpdateSave \/ VendorSave \/ Write
  BY <1>4 DEF LockSave, UpdateApply, UpdateSave, VendorSave, Write, Truncate,
     Ends, repoVars, MemStep, FileStep
<1>5. CASE Outside
  BY <1>5 DEF Outside, Crash, MoveTag, RetireTag, GrowOld, EditUse, EditVendor,
     RemoveTorn, Ends, repoVars, runVars, MemStep, FileStep
<1> QED
  BY <1>1, <1>2, <1>3, <1>4, <1>5 DEF Next, Step

-----------------------------------------------------------------------------
(* Recorded hashes.                                                          *)

(* Putting in an entry whose hash is of its own commit keeps hashes sound.   *)
LEMMA PutHashes ==
    ASSUME NEW m, HashesSound(m), NEW k, NEW e,
           e.integrity \in {None, <<Action(k), e.resolved>>}
    PROVE  HashesSound(Put(m, k, e))
<1> SUFFICES ASSUME NEW j \in DOMAIN Put(m, k, e)
             PROVE  Put(m, k, e)[j].integrity
                      \in {None, <<Action(j), Put(m, k, e)[j].resolved>>}
  BY Zenon DEF HashesSound, Pristine
<1>1. CASE j = k /\ Put(m, k, e)[j] = e
  BY <1>1
<1>2. CASE j \in DOMAIN m /\ Put(m, k, e)[j] = m[j]
  BY <1>2 DEF HashesSound, Pristine
<1> QED
  BY <1>1, <1>2, PutEntries

(* Every change of the copy keeps them so.                                   *)
LEMMA HashesStep ==
    ASSUME TypeOK, IntegritySound, MemStep
    PROVE  HashesSound(mem')
<1>0. HashesSound(mem) /\ IsLocks(mem)
  BY DEF IntegritySound, TypeOK
<1>1. CASE mem' = mem \/ (lockfile # Torn /\ mem' = lockfile)
  BY <1>1 DEF IntegritySound
<1>2. CASE mem' = NoLocks
  BY <1>2, NoLocksFacts DEF HashesSound
<1>3. CASE mem' = Refreshed(mem)
  BY <1>0, <1>3, RefreshedFacts DEF HashesSound, Pristine
<1>4. CASE LocksOne
  <2>1. PICK k, sha, p : k \in Keys /\ mem' = Put(mem, k, NewEntry(k, p))
    BY <1>4 DEF LocksOne
  <2>2. NewEntry(k, p).integrity \in {None, <<Action(k), p.sha>>}
    BY <1>0 DEF NewEntry, HashesSound, Pristine
  <2>3. NewEntry(k, p).resolved = p.sha
    BY DEF NewEntry
  <2> QED
    BY <1>0, <2>1, <2>2, <2>3, PutHashes
<1>5. CASE MovesOne
  <2>1. PICK k, sha, p : k \in DOMAIN mem /\ mem' = Put(mem, k, Moved(mem[k], p))
    BY <1>5 DEF MovesOne
  <2>2. Moved(mem[k], p).integrity = None
    BY <1>0 DEF Moved, IsLocks, Entry
  <2> QED
    BY <1>0, <2>1, <2>2, PutHashes
<1>6. CASE RecordsOne
  <2>1. PICK k \in DOMAIN mem :
          mem' = Put(mem, k, [mem[k] EXCEPT !.integrity = Pristine(k, mem)])
    BY <1>6 DEF RecordsOne
  <2> DEFINE e == [mem[k] EXCEPT !.integrity = Pristine(k, mem)]
  <2>2. e.integrity = Pristine(k, mem) /\ e.resolved = mem[k].resolved
    BY <1>0 DEF IsLocks, Entry
  <2> HIDE DEF e
  <2>3. mem' = Put(mem, k, e)
    BY <2>1 DEF e
  <2> QED
    BY <1>0, <2>2, <2>3, PutHashes DEF Pristine
<1> QED
  BY <1>1, <1>2, <1>3, <1>4, <1>5, <1>6 DEF MemStep

(* A recorded hash is always the hash of the commit the entry pins, whatever *)
(* lock, update and vendor do in whatever order and wherever they crash.     *)
THEOREM IntegrityCorrect == Spec => []IntegritySound
<1>1. Init => IntegritySound
  BY NoLocksFacts DEF Init, IntegritySound, HashesSound
<1>2. TypeOK /\ IntegritySound /\ [Next]_vars => IntegritySound'
  <2> SUFFICES ASSUME TypeOK, IntegritySound, [Next]_vars PROVE IntegritySound'
    OBVIOUS
  <2>1. HashesSound(mem')
    BY EveryStep, HashesStep
  <2>2. lockfile' # Torn => HashesSound(lockfile')
    BY EveryStep, NoLocksFacts DEF FileStep, IntegritySound, HashesSound
  <2> QED
    BY <2>1, <2>2 DEF IntegritySound, HashesSound, Pristine
<1> QED
  BY <1>1, <1>2, TypeCorrect, PTL DEF Spec

-----------------------------------------------------------------------------
(* The age floor.                                                            *)

(* Commits only get older, and what was published stays published.           *)
LEMMA WorldGrows ==
    ASSUME TypeOK, [Next]_vars
    PROVE  aged \subseteq aged' /\ published \subseteq published'
<1>1. CASE Refuse \/ UNCHANGED vars
  BY <1>1 DEF Refuse, vars, worldVars
<1>2. CASE \E i \in Invocations : Begin(i)
  BY <1>2 DEF Begin, NothingToDo, StartLock, StartUpdate, StartVendor, Rewrite,
     Verify, worldVars
<1>3. CASE \E k \in Keys : Lock(k) \/ Update(k) \/ Vendor(k)
  BY <1>3 DEF Lock, LockSkip, LockResolve, LockPin, LockRefuse, Update,
     UpdateCheck, UpdateMove, UpdateKeep, Vendor, VendorSkip, VendorFail,
     VendorCopy, VendorRecord, VendorBreak, worldVars
<1>4. CASE LockSave \/ UpdateApply \/ UpdateSave \/ VendorSave \/ Write
  BY <1>4 DEF LockSave, UpdateApply, UpdateSave, VendorSave, Write, worldVars
<1>5. CASE Outside
  BY <1>5 DEF Outside, Crash, MoveTag, RetireTag, GrowOld, EditUse, EditVendor,
     RemoveTorn, worldVars
<1> QED
  BY <1>1, <1>2, <1>3, <1>4, <1>5 DEF Next, Step

(* Putting in an entry that is aged or trusted keeps the floor.              *)
LEMMA PutFloor ==
    ASSUME NEW m, FloorKept(m), NEW k, NEW e,
           Action(k) \in Trusted \/ e.resolved \in aged
    PROVE  FloorKept(Put(m, k, e))
<1> SUFFICES ASSUME NEW j \in DOMAIN Put(m, k, e)
             PROVE  Action(j) \in Trusted \/ Put(m, k, e)[j].resolved \in aged
  BY Zenon DEF FloorKept
<1>1. CASE j = k /\ Put(m, k, e)[j] = e
  BY <1>1
<1>2. CASE j \in DOMAIN m /\ Put(m, k, e)[j] = m[j]
  BY <1>2 DEF FloorKept
<1> QED
  BY <1>1, <1>2, PutEntries

(* The quarantine's pick is aged or trusted when nothing was typed to waive it. *)
LEMMA LockedIsAged ==
    ASSUME TypeOK, pc # "idle", \A i \in Invocations : ~i.fresh,
           NEW k \in Keys, NEW sha, NEW p, Locked(k, sha, p)
    PROVE  Action(k) \in Trusted \/ p.sha \in aged
  BY TargetsSound DEF Locked, Exempt, TypeOK

(* Every change of the copy keeps the floor.                                 *)
LEMMA FloorStep ==
    ASSUME TypeOK, \A i \in Invocations : ~i.fresh, AgeFloor, MemStep
    PROVE  FloorKept(mem')
<1>0. FloorKept(mem) /\ IsLocks(mem)
  BY DEF AgeFloor, TypeOK
<1>1. CASE mem' = mem \/ (lockfile # Torn /\ mem' = lockfile)
  BY <1>1 DEF AgeFloor
<1>2. CASE mem' = NoLocks
  BY <1>2, NoLocksFacts DEF FloorKept
<1>3. CASE mem' = Refreshed(mem)
  BY <1>0, <1>3, RefreshedFacts DEF FloorKept
<1>4. CASE LocksOne
  <2>1. PICK k, sha, p : k \in Keys /\
          Locked(k, sha, p) /\ mem' = Put(mem, k, NewEntry(k, p))
    BY <1>4 DEF LocksOne
  <2>2. NewEntry(k, p).resolved = p.sha
    BY DEF NewEntry
  <2>3. Action(k) \in Trusted \/ p.sha \in aged
    BY <1>4, <2>1, LockedIsAged DEF LocksOne
  <2> QED
    BY <1>0, <2>1, <2>2, <2>3, PutFloor
<1>5. CASE MovesOne
  <2>1. PICK k, sha, p : k \in DOMAIN mem /\
          Locked(k, sha, p) /\ mem' = Put(mem, k, Moved(mem[k], p))
    BY <1>5 DEF MovesOne
  <2>2. k \in Keys /\ Moved(mem[k], p).resolved = p.sha
    BY <1>0, <2>1 DEF Moved, IsLocks, Entry
  <2>3. Action(k) \in Trusted \/ p.sha \in aged
    BY <1>5, <2>1, <2>2, LockedIsAged DEF MovesOne
  <2> QED
    BY <1>0, <2>1, <2>2, <2>3, PutFloor
<1>6. CASE RecordsOne
  <2>1. PICK k \in DOMAIN mem :
          mem' = Put(mem, k, [mem[k] EXCEPT !.integrity = Pristine(k, mem)])
    BY <1>6 DEF RecordsOne
  <2>2. [mem[k] EXCEPT !.integrity = Pristine(k, mem)].resolved = mem[k].resolved
    BY <1>0 DEF IsLocks, Entry
  <2>3. Action(k) \in Trusted \/ mem[k].resolved \in aged
    BY <1>0 DEF FloorKept
  <2> QED
    BY <1>0, <2>1, <2>2, <2>3, PutFloor
<1> QED
  BY <1>1, <1>2, <1>3, <1>4, <1>5, <1>6 DEF MemStep

(* Unless --allow-fresh is typed, no untrusted entry ever pins a commit that *)
(* has not cleared the floor: lock and update agree on it, and a tag that    *)
(* moves while they ask cannot slip a fresh commit past them.                *)
THEOREM AgeFloorHolds == Spec => []AgeFloor
<1>1. Init => AgeFloor
  BY NoLocksFacts DEF Init, AgeFloor, FloorKept
<1>2. TypeOK /\ AgeFloor /\ [Next]_vars => AgeFloor'
  <2> SUFFICES ASSUME TypeOK, AgeFloor, [Next]_vars,
                      \A i \in Invocations : ~i.fresh
               PROVE  FloorKept(mem)' /\ (lockfile # Torn => FloorKept(lockfile))'
    BY DEF AgeFloor
  <2>1. FloorKept(mem')
    BY EveryStep, FloorStep
  <2>2. lockfile' # Torn => FloorKept(lockfile')
    BY EveryStep, NoLocksFacts DEF FileStep, AgeFloor, FloorKept
  <2> QED
    BY <2>1, <2>2, WorldGrows DEF FloorKept
<1> QED
  BY <1>1, <1>2, TypeCorrect, PTL DEF Spec

-----------------------------------------------------------------------------
(* The tags shown beside the pins.  Strengthening: what upstream says now,   *)
(* and what a lookup has returned, was published.                            *)

UpstreamPublished ==
    \A t \in Repos \X Tags :
        upstream[t] # None => <<t[1], t[2], upstream[t]>> \in published

LatestPublished ==
    \A k \in DOMAIN latest :
        Ref(k) \in Tags => <<RepoOf[Action(k)], Ref(k), latest[k]>> \in published

TagsInv == UpstreamPublished /\ LatestPublished /\ SelectedTruthful

(* The ways one step may change the table of lookups.                        *)
Learnt(k, sha) == sha \in Resolved(k) \ {None} /\ latest' = Put(latest, k, sha)

LatestStep == \/ latest' = latest \/ latest' = NoLocks
              \/ \E k \in Keys : latest' = Drop(latest, k)
              \/ \E k \in Keys : \E sha : Learnt(k, sha)

(* Every step is one of these.                                               *)
LEMMA EveryLookup ==
    ASSUME TypeOK, [Next]_vars
    PROVE  LatestStep
<1>1. CASE Refuse \/ UNCHANGED vars
  BY <1>1 DEF Refuse, vars, runVars, LatestStep
<1>2. CASE \E i \in Invocations : Begin(i)
  BY <1>2 DEF Begin, NothingToDo, StartLock, StartUpdate, StartVendor, Rewrite,
     Verify, Load, LatestStep
<1>3. ASSUME NEW k \in Keys, Lock(k) \/ Update(k) \/ Vendor(k)
      PROVE  LatestStep
  <2>1. CASE LockResolve(k)
    <3>1. PICK sha \in Resolved(k) :
            IF sha = None THEN latest' = latest ELSE latest' = Put(latest, k, sha)
      BY <2>1 DEF LockResolve
    <3> QED
      BY <3>1 DEF Learnt, LatestStep
  <2>2. CASE UpdateCheck(k)
    <3>1. PICK sha \in Resolved(k) :
            latest' = IF sha \in {None, mem[k].resolved} THEN latest
                                                        ELSE Put(latest, k, sha)
      BY <2>2 DEF UpdateCheck
    <3> QED
      BY <3>1 DEF Learnt, LatestStep
  <2>3. CASE LockPin(k) \/ LockRefuse(k)
    BY <2>3 DEF LockPin, LockRefuse, LatestStep
  <2>4. CASE LockSkip(k) \/ UpdateMove(k) \/ UpdateKeep(k) \/ Vendor(k)
    BY <2>4 DEF LockSkip, UpdateMove, UpdateKeep, Vendor, VendorSkip,
       VendorFail, VendorCopy, VendorRecord, VendorBreak, LatestStep
  <2> QED
    BY <1>3, <2>1, <2>2, <2>3, <2>4 DEF Lock, Update
<1>4. CASE LockSave \/ UpdateApply \/ UpdateSave \/ VendorSave \/ Write
  BY <1>4 DEF LockSave, UpdateApply, UpdateSave, VendorSave, Write, Truncate,
     Ends, LatestStep
<1>5. CASE Outside
  BY <1>5 DEF Outside, Crash, MoveTag, RetireTag, GrowOld, EditUse, EditVendor,
     RemoveTorn, Ends, runVars, LatestStep
<1> QED
  BY <1>1, <1>2, <1>3, <1>4, <1>5 DEF Next, Step

(* What upstream says has been published.                                    *)
LEMMA UpstreamStep ==
    ASSUME TypeOK, UpstreamPublished, [Next]_vars
    PROVE  UpstreamPublished'
<1>1. CASE upstream' = upstream
  BY <1>1, WorldGrows DEF UpstreamPublished
<1>2. CASE MoveTag
  <2>1. PICK b \in Bindings :
          /\ upstream' = [upstream EXCEPT ![<<b[1], b[2]>>] = b[3]]
          /\ published' = published \cup {b}
    BY <1>2 DEF MoveTag
  <2>2. b = <<b[1], b[2], b[3]>>
    BY BoundsAssumption
  <2> QED
    BY <2>1, <2>2 DEF UpstreamPublished, TypeOK
<1>3. CASE RetireTag
  BY <1>3 DEF RetireTag, UpstreamPublished, TypeOK
<1>4. [Next]_vars => upstream' = upstream \/ MoveTag \/ RetireTag
  <2>1. CASE UNCHANGED worldVars \/ UNCHANGED vars
    BY <2>1 DEF worldVars, vars
  <2>2. CASE \E i \in Invocations : Begin(i)
    BY <2>2 DEF Begin, NothingToDo, StartLock, StartUpdate, StartVendor, Rewrite,
       Verify, worldVars
  <2>3. CASE \E k \in Keys : Lock(k) \/ Update(k) \/ Vendor(k)
    BY <2>3 DEF Lock, LockSkip, LockResolve, LockPin, LockRefuse, Update,
       UpdateCheck, UpdateMove, UpdateKeep, Vendor, VendorSkip, VendorFail,
       VendorCopy, VendorRecord, VendorBreak, worldVars
  <2>4. CASE LockSave \/ UpdateApply \/ UpdateSave \/ VendorSave \/ Write
    BY <2>4 DEF LockSave, UpdateApply, UpdateSave, VendorSave, Write, worldVars
  <2>5. CASE Outside
    BY <2>5 DEF Outside, Crash, MoveTag, RetireTag, GrowOld, EditUse, EditVendor,
       RemoveTorn, worldVars
  <2> QED
    BY <2>1, <2>2, <2>3, <2>4, <2>5 DEF Next, Step, Refuse
<1> QED
  BY <1>1, <1>2, <1>3, <1>4

(* What a lookup returned has been published.                                *)
LEMMA LatestStepPublished ==
    ASSUME TypeOK, UpstreamPublished, LatestPublished, [Next]_vars
    PROVE  LatestPublished'
<1>1. published \subseteq published'
  BY WorldGrows
<1>2. CASE latest' = latest
  BY <1>1, <1>2 DEF LatestPublished
<1>3. CASE latest' = NoLocks
  BY <1>3, NoLocksFacts DEF LatestPublished
<1>4. CASE \E k \in Keys : latest' = Drop(latest, k)
  <2>1. PICK k \in Keys : latest' = Drop(latest, k)
    BY <1>4
  <2>2. /\ DOMAIN latest' = DOMAIN latest \ {k}
        /\ \A j \in DOMAIN latest' : latest'[j] = latest[j]
    BY <2>1, DropFacts
  <2> QED
    BY <1>1, <2>2 DEF LatestPublished
<1>5. CASE \E k \in Keys : \E sha : Learnt(k, sha)
  <2>1. PICK k, sha : k \in Keys /\ Learnt(k, sha)
    BY <1>5
  <2>2. Ref(k) \in Tags => <<RepoOf[Action(k)], Ref(k), sha>> \in published
    <3> SUFFICES ASSUME Ref(k) \in Tags
                 PROVE  <<RepoOf[Action(k)], Ref(k), sha>> \in published
      OBVIOUS
    <3>1. sha = upstream[<<RepoOf[Action(k)], Ref(k)>>] /\ sha # None
      BY <2>1, NamesAssumption DEF Learnt, Resolved
    <3>2. <<RepoOf[Action(k)], Ref(k)>> \in Repos \X Tags
      BY <2>1, KeyFacts
    <3> QED
      BY <3>1, <3>2 DEF UpstreamPublished
  <2>3. ASSUME NEW j \in DOMAIN Put(latest, k, sha), Ref(j) \in Tags
        PROVE  <<RepoOf[Action(j)], Ref(j), Put(latest, k, sha)[j]>> \in published'
    <3>1. CASE j = k /\ Put(latest, k, sha)[j] = sha
      BY <1>1, <2>2, <2>3, <3>1
    <3>2. CASE j \in DOMAIN latest /\ Put(latest, k, sha)[j] = latest[j]
      BY <1>1, <2>3, <3>2 DEF LatestPublished
    <3> QED
      BY <3>1, <3>2, PutEntries
  <2>4. latest' = Put(latest, k, sha)
    BY <2>1 DEF Learnt
  <2>5. \A j \in DOMAIN latest' :
          Ref(j) \in Tags => <<RepoOf[Action(j)], Ref(j), latest'[j]>> \in published'
    BY <2>3, <2>4, Zenon
  <2> QED
    BY <2>5 DEF LatestPublished
<1> QED
  BY <1>2, <1>3, <1>4, <1>5, EveryLookup DEF LatestStep

-----------------------------------------------------------------------------
(* Putting in an entry whose tag named its commit keeps the tags truthful.   *)
LEMMA PutTags ==
    ASSUME NEW m, TagsTruthful(m), NEW k, NEW e,
           Ref(k) \in Tags =>
             <<RepoOf[Action(k)], IF e.selected = None THEN Ref(k) ELSE e.selected,
               e.resolved>> \in published
    PROVE  TagsTruthful(Put(m, k, e))
<1> SUFFICES ASSUME NEW j \in DOMAIN Put(m, k, e), Ref(j) \in Tags
             PROVE  <<RepoOf[Action(j)], Shown(j, Put(m, k, e)),
                      Put(m, k, e)[j].resolved>> \in published
  BY Zenon DEF TagsTruthful
<1>1. CASE j = k /\ Put(m, k, e)[j] = e
  BY <1>1 DEF Shown
<1>2. CASE j \in DOMAIN m /\ Put(m, k, e)[j] = m[j]
  BY <1>2 DEF TagsTruthful, Shown
<1> QED
  BY <1>1, <1>2, PutEntries

(* The quarantine's pick was published under the tag it is shown with.       *)
LEMMA LockedIsPublished ==
    ASSUME TypeOK, UpstreamPublished, LatestPublished,
           NEW k \in Keys, NEW sha, NEW p, Locked(k, sha, p), Ref(k) \in Tags
    PROVE  <<RepoOf[Action(k)], IF p.selected = None THEN Ref(k) ELSE p.selected,
             p.sha>> \in published
<1>1. /\ p.sha \in Shas /\ p.selected \in Tags \cup {None}
      /\ p.selected = None => p.sha = sha
      /\ p.selected # None => upstream[<<RepoOf[Action(k)], p.selected>>] = p.sha
  BY TargetsSound DEF Locked
<1>2. CASE p.selected = None
  BY <1>1, <1>2 DEF Locked, LatestPublished
<1>3. CASE p.selected # None
  <2>1. <<RepoOf[Action(k)], p.selected>> \in Repos \X Tags
    BY <1>1, <1>3, KeyFacts
  <2>2. p.sha # None
    BY <1>1, NamesAssumption
  <2> QED
    BY <1>1, <1>3, <2>1, <2>2 DEF UpstreamPublished
<1> QED
  BY <1>2, <1>3

(* Every change of the copy keeps the tags truthful.                         *)
LEMMA TagsStep ==
    ASSUME TypeOK, TagsInv, MemStep
    PROVE  TagsTruthful(mem')
<1>0. TagsTruthful(mem) /\ IsLocks(mem) /\ UpstreamPublished /\ LatestPublished
  BY DEF TagsInv, SelectedTruthful, TypeOK
<1>1. CASE mem' = mem \/ (lockfile # Torn /\ mem' = lockfile)
  BY <1>1 DEF TagsInv, SelectedTruthful
<1>2. CASE mem' = NoLocks
  BY <1>2, NoLocksFacts DEF TagsTruthful
<1>3. CASE mem' = Refreshed(mem)
  BY <1>0, <1>3, RefreshedFacts DEF TagsTruthful, Shown
<1>4. CASE LocksOne
  <2>1. PICK k, sha, p : k \in Keys /\
          Locked(k, sha, p) /\ mem' = Put(mem, k, NewEntry(k, p))
    BY <1>4 DEF LocksOne
  <2>2. NewEntry(k, p).resolved = p.sha /\ NewEntry(k, p).selected = p.selected
    BY DEF NewEntry
  <2>3. Ref(k) \in Tags =>
          <<RepoOf[Action(k)], IF p.selected = None THEN Ref(k) ELSE p.selected,
            p.sha>> \in published
    BY <1>0, <2>1, LockedIsPublished
  <2> QED
    BY <1>0, <2>1, <2>2, <2>3, PutTags
<1>5. CASE MovesOne
  <2>1. PICK k, sha, p : k \in DOMAIN mem /\
          Locked(k, sha, p) /\ mem' = Put(mem, k, Moved(mem[k], p))
    BY <1>5 DEF MovesOne
  <2>2. /\ k \in Keys
        /\ Moved(mem[k], p).resolved = p.sha
        /\ Moved(mem[k], p).selected = p.selected
    BY <1>0, <2>1 DEF Moved, IsLocks, Entry
  <2>3. Ref(k) \in Tags =>
          <<RepoOf[Action(k)], IF p.selected = None THEN Ref(k) ELSE p.selected,
            p.sha>> \in published
    BY <1>0, <2>1, <2>2, LockedIsPublished
  <2> QED
    BY <1>0, <2>1, <2>2, <2>3, PutTags
<1>6. CASE RecordsOne
  <2>1. PICK k \in DOMAIN mem :
          mem' = Put(mem, k, [mem[k] EXCEPT !.integrity = Pristine(k, mem)])
    BY <1>6 DEF RecordsOne
  <2> DEFINE e == [mem[k] EXCEPT !.integrity = Pristine(k, mem)]
  <2>2. e.resolved = mem[k].resolved /\ e.selected = mem[k].selected
    BY <1>0 DEF IsLocks, Entry
  <2> HIDE DEF e
  <2>3. mem' = Put(mem, k, e)
    BY <2>1 DEF e
  <2>4. Ref(k) \in Tags =>
          <<RepoOf[Action(k)], IF e.selected = None THEN Ref(k) ELSE e.selected,
            e.resolved>> \in published
    BY <1>0, <2>2 DEF TagsTruthful, Shown
  <2> QED
    BY <1>0, <2>3, <2>4, PutTags
<1> QED
  BY <1>1, <1>2, <1>3, <1>4, <1>5, <1>6 DEF MemStep

(* The tag rewrite shows beside a pin did name the pinned commit at some     *)
(* time, although tags move and vanish between every two lookups.            *)
THEOREM TagsTruthfulHolds == Spec => []SelectedTruthful
<1>1. Init => TagsInv
  BY NoLocksFacts DEF Init, TagsInv, UpstreamPublished, LatestPublished,
     SelectedTruthful, TagsTruthful
<1>2. TypeOK /\ TagsInv /\ [Next]_vars => TagsInv'
  <2> SUFFICES ASSUME TypeOK, TagsInv, [Next]_vars PROVE TagsInv'
    OBVIOUS
  <2>1. UpstreamPublished' /\ LatestPublished'
    BY UpstreamStep, LatestStepPublished DEF TagsInv
  <2>2. TagsTruthful(mem')
    BY EveryStep, TagsStep
  <2>3. lockfile' # Torn => TagsTruthful(lockfile')
    BY EveryStep, NoLocksFacts DEF FileStep, TagsInv, SelectedTruthful, TagsTruthful
  <2>4. SelectedTruthful'
    BY <2>2, <2>3, WorldGrows DEF SelectedTruthful, TagsTruthful, Shown
  <2> QED
    BY <2>1, <2>4 DEF TagsInv
<1>3. TagsInv => SelectedTruthful
  BY DEF TagsInv
<1> QED
  BY <1>1, <1>2, <1>3, TypeCorrect, PTL DEF Spec

-----------------------------------------------------------------------------
(* What verify compares.  known_dirs keeps the last entry of a directory, so *)
(* there has to be a last one: a lockfile has finitely many entries.         *)

FiniteLocks == /\ IsFiniteSet(DOMAIN mem)
               /\ lockfile # Torn => IsFiniteSet(DOMAIN lockfile)

LEMMA PutFinite ==
    ASSUME NEW m, IsFiniteSet(DOMAIN m), NEW k, NEW v
    PROVE  IsFiniteSet(DOMAIN Put(m, k, v))
  BY FS_AddElement DEF Put

LEMMA NextFinite ==
    ASSUME TypeOK, FiniteLocks, [Next]_vars
    PROVE  FiniteLocks'
<1>1. MemStep /\ FileStep
  BY EveryStep
<1>2. IsFiniteSet(DOMAIN NoLocks)
  BY NoLocksFacts, FS_EmptySet
<1>3. IsFiniteSet(DOMAIN mem')
  <2>1. CASE mem' = mem \/ mem' = NoLocks \/ (lockfile # Torn /\ mem' = lockfile)
    BY <1>2, <2>1 DEF FiniteLocks
  <2>2. CASE mem' = Refreshed(mem)
    BY <2>2 DEF FiniteLocks, Refreshed
  <2>3. CASE LocksOne \/ MovesOne \/ RecordsOne
    <3>1. \E k, e : mem' = Put(mem, k, e)
      BY <2>3 DEF LocksOne, MovesOne, RecordsOne
    <3>2. PICK k, e : mem' = Put(mem, k, e)
      BY <3>1
    <3>3. IsFiniteSet(DOMAIN Put(mem, k, e))
      BY PutFinite DEF FiniteLocks
    <3> QED BY <3>2, <3>3
  <2> QED BY <1>1, <2>1, <2>2, <2>3 DEF MemStep
<1>4. lockfile' # Torn => IsFiniteSet(DOMAIN lockfile')
  BY <1>1, <1>2 DEF FileStep, FiniteLocks
<1> QED BY <1>3, <1>4 DEF FiniteLocks

(* Of finitely many keys one comes last: the one with the fewest after it.   *)
LEMMA LastKey ==
    ASSUME NEW O, O \subseteq Keys, IsFiniteSet(O), O # {}
    PROVE  \E k \in O : \A j \in O : Rank[j] <= Rank[k]
<1> DEFINE After(k) == {j \in O : Rank[k] < Rank[j]}
           Counts == {Cardinality(After(k)) : k \in O}
<1>1. \A k \in O : Rank[k] \in Nat
  BY OrderAssumption
<1>2. \A k \in O : After(k) \in SUBSET O /\ IsFiniteSet(After(k)) /\ Cardinality(After(k)) \in Nat
  BY FS_Subset, FS_CardinalityType
<1>3. Counts \subseteq Nat /\ Counts # {}
  BY <1>2
<1>4. \E x \in Counts : \A y \in Counts : ~ (<<y, x>> \in OpToRel(<, Nat))
  BY <1>3, NatLessThanWellFounded, WFMin
<1>5. PICK k \in O : \A j \in O : ~ (Cardinality(After(j)) < Cardinality(After(k)))
  BY <1>2, <1>4 DEF OpToRel
<1>6. ASSUME NEW j \in O, Rank[k] < Rank[j] PROVE FALSE
  <2>1. After(j) \in SUBSET After(k)
    BY <1>1, <1>6
  <2>2. j \in After(k) /\ j \notin After(j)
    BY <1>1, <1>6
  <2>3. Cardinality(After(j)) # Cardinality(After(k))
    BY <1>2, <2>1, <2>2, FS_Subset
  <2>4. Cardinality(After(j)) <= Cardinality(After(k))
    BY <1>2, <2>1, FS_Subset
  <2>5. Cardinality(After(j)) \in Nat /\ Cardinality(After(k)) \in Nat
    BY <1>2, <1>6
  <2>6. ~ (Cardinality(After(j)) < Cardinality(After(k)))
    BY <1>5, <1>6
  <2> HIDE DEF After
  <2> QED BY <2>3, <2>4, <2>5, <2>6
<1> QED BY <1>1, <1>6

(* A vendor tree that verify accepts is what was recorded: a directory all   *)
(* of whose entries have a hash holds the commit that one of them pins.      *)
THEOREM AcceptedIsAuditedHolds == Spec => []AcceptedIsAudited
<1>1. Init => FiniteLocks
  BY NoLocksFacts, FS_EmptySet DEF Init, FiniteLocks
<1>2. TypeOK /\ FiniteLocks /\ [Next]_vars => FiniteLocks'
  BY NextFinite
<1>3. TypeOK /\ FiniteLocks /\ IntegritySound => AcceptedIsAudited
  <2> SUFFICES ASSUME TypeOK, FiniteLocks, IntegritySound,
                      lockfile # Torn, VendorVerifies(lockfile),
                      NEW d \in Dirs, vendor[d] # Absent,
                      \A k \in Owners(d, lockfile) : lockfile[k].integrity # None
               PROVE  \E k \in Owners(d, lockfile) : vendor[d] = Pristine(k, lockfile)
    BY DEF AcceptedIsAudited
  <2> DEFINE k == KnownAs(d, lockfile)
  <2>1. /\ Owners(d, lockfile) # {}
        /\ lockfile[k].integrity \in {None, vendor[d]}
    BY DEF VendorVerifies
  <2>2. Owners(d, lockfile) \subseteq Keys /\ IsFiniteSet(Owners(d, lockfile))
    BY FS_Subset DEF Owners, FiniteLocks, TypeOK, IsLocks
  <2>3. k \in Owners(d, lockfile)
    BY <2>1, <2>2, LastKey DEF KnownAs
  <2>4. lockfile[k].integrity = Pristine(k, lockfile)
    BY <2>3 DEF IntegritySound, HashesSound, Owners
  <2> QED BY <2>1, <2>3, <2>4
<1> QED
  BY <1>1, <1>2, <1>3, TypeCorrect, IntegrityCorrect, PTL DEF Spec

-----------------------------------------------------------------------------
(* The ledger.  While a command runs, what its copy makes of an entry is its *)
(* business, or it has left the entry alone; and it has left alone what it   *)
(* has not come to.                                                          *)
Justified(k) ==
    IF k \in DOMAIN lockfile
    THEN Book!Business(k, Record(lockfile[k]), Record(mem[k]))
    ELSE inv.cmd = "lock" /\ Book!Enter(k, Record(mem[k]))

ChangeInv == pc \notin {"idle", "save"} =>
    \A k \in DOMAIN mem : \/ k \in DOMAIN lockfile /\ mem[k] = lockfile[k]
                          \/ k \notin todo /\ Justified(k)

(* Every entry of the copy shows a tag that has named its commit, or is      *)
(* filed under it.                                                           *)
AllAttested == \A k \in DOMAIN mem : Book!Attested(k, Record(mem[k]))

RecordsKept == TypeOK /\ LedgerInv /\ UpdateInv /\ GreenInv /\ AllAttested

LEMMA RecordsAttested == TypeOK /\ GreenInv /\ SelectedTruthful => AllAttested
<1> SUFFICES ASSUME TypeOK, GreenInv, SelectedTruthful, NEW k \in DOMAIN mem
             PROVE  Book!Attested(k, Record(mem[k]))
  BY DEF AllAttested
<1>1. k \in Keys /\ Ref(k) \in Tags \cup Shas
  BY KeyFacts DEF TypeOK, IsLocks
<1>2. CASE Ref(k) \in Tags
  BY <1>2 DEF SelectedTruthful, TagsTruthful, Shown, Record, Book!Attested, Book!Shown,
              Action, Ref
<1>3. CASE Ref(k) \in Shas /\ Ref(k) \notin Tags
  BY <1>3 DEF GreenInv, CommitsPinned, SelfPinned, Record, Book!Attested, Ref
<1> QED BY <1>1, <1>2, <1>3

LEMMA RecordsKeptHolds == Spec => []RecordsKept
  BY TypeCorrect, LedgerInvHolds, UpdateInvHolds, GreenInvHolds, TagsTruthfulHolds,
     RecordsAttested, PTL DEF RecordsKept

(* What was justified stays so while tags move and commits grow old.         *)
LEMMA JustifiedStays ==
    ASSUME NEW k, Justified(k), UNCHANGED inv, lockfile' = lockfile, mem'[k] = mem[k],
           published \subseteq published', aged \subseteq aged'
    PROVE  Justified(k)'
  BY DEF Justified, Book!Business, Book!Renew, Book!Enter, Book!Move, Book!Vouch,
         Book!Attested, Book!Quarantined, Book!Shown, Record

(* A step that leaves the copy alone keeps the invariant.                    *)
LEMMA StillChanges ==
    ASSUME ChangeInv, UNCHANGED <<inv, mem, lockfile>>, todo' \subseteq todo,
           pc \in {"idle", "save"} => pc' \in {"idle", "save"},
           published \subseteq published', aged \subseteq aged'
    PROVE  ChangeInv'
  BY JustifiedStays DEF ChangeInv

(* One that changes a single entry has to justify that one.                  *)
LEMMA OneChanges ==
    ASSUME ChangeInv, pc \notin {"idle", "save"}, UNCHANGED <<inv, lockfile, published, aged>>,
           NEW k, NEW e, mem' = Put(mem, k, e), todo' = todo \ {k}, Justified(k)'
    PROVE  ChangeInv'
<1>1. /\ DOMAIN mem' = DOMAIN mem \cup {k}
      /\ \A j \in DOMAIN mem : j # k => mem'[j] = mem[j]
  BY DEF Put
<1>2. ASSUME NEW j \in DOMAIN mem', j # k
      PROVE  \/ j \in DOMAIN lockfile' /\ mem'[j] = lockfile'[j]
             \/ j \notin todo' /\ Justified(j)'
  <2>1. j \in DOMAIN mem /\ mem'[j] = mem[j]
    BY <1>1, <1>2
  <2>2. CASE j \in DOMAIN lockfile /\ mem[j] = lockfile[j]
    BY <2>1, <2>2
  <2>3. CASE j \notin todo /\ Justified(j)
    BY <2>1, <2>3, JustifiedStays
  <2> QED BY <2>1, <2>2, <2>3 DEF ChangeInv
<1> QED BY <1>2 DEF ChangeInv

(* lock enters a key, or renews it under --force.                            *)
LEMMA LockChanges ==
    ASSUME RecordsKept, RecordsKept', ChangeInv, NEW k \in Keys, LockPin(k)
    PROVE  ChangeInv'
<1>1. /\ pc = "lock" /\ inv.cmd = "lock" /\ k \in todo /\ k \in DOMAIN latest
      /\ todo' = todo \ {k} /\ UNCHANGED <<inv, lockfile, published, aged>>
  BY DEF LockPin, First, RecordsKept, LedgerInv, Commands, repoVars, worldVars
<1>2. PICK sha, p : Locked(k, sha, p) /\ mem' = Put(mem, k, NewEntry(k, p))
  BY <1>1 DEF LockPin, Locked, RecordsKept, TypeOK
<1> DEFINE e == NewEntry(k, p)
<1>3. /\ e.resolved = p.sha
      /\ e.integrity = IF k \in DOMAIN mem /\ mem[k].resolved = p.sha
                       THEN mem[k].integrity ELSE None
  BY DEF NewEntry
<1>4. Exempt(k) \/ p.sha \in aged
  BY <1>2, TargetsSound DEF Locked, RecordsKept
<1> HIDE DEF e
<1>5. k \in DOMAIN mem' /\ mem'[k] = e
  BY <1>2 DEF Put, e
<1>6. Book!Attested(k, Record(mem[k]))'
  BY <1>5 DEF RecordsKept, AllAttested
<1>7. Book!Quarantined(k, Record(mem[k]))'
  BY <1>1, <1>3, <1>4, <1>5 DEF Book!Quarantined, Record, Exempt, Action
<1>8. CASE k \in DOMAIN mem
  <2>1. k \in DOMAIN lockfile /\ mem[k] = lockfile[k]
    BY <1>1, <1>8 DEF ChangeInv
  <2>2. inv.force
    BY <1>1, <1>8 DEF RecordsKept, LedgerInv, AsksForNew
  <2>3. Justified(k)'
    BY <1>1, <1>3, <1>5, <1>6, <1>7, <1>8, <2>1, <2>2
    DEF Justified, Book!Business, Book!Renew, Record
  <2> QED BY <1>1, <1>2, <2>3, OneChanges DEF e
<1>9. CASE k \notin DOMAIN mem
  <2>1. k \notin DOMAIN lockfile
    BY <1>1, <1>9 DEF RecordsKept, LedgerInv, CopyFollowsFile
  <2>2. Justified(k)'
    BY <1>1, <1>3, <1>5, <1>6, <1>7, <1>9, <2>1 DEF Justified, Book!Enter, Record
  <2> QED BY <1>1, <1>2, <2>2, OneChanges DEF e
<1> QED BY <1>8, <1>9

(* update --apply moves a key of a tag.                                      *)
LEMMA MoveChanges ==
    ASSUME RecordsKept, RecordsKept', ChangeInv, NEW k \in Keys, UpdateMove(k)
    PROVE  ChangeInv'
<1>1. /\ pc = "apply" /\ inv.cmd = "update" /\ inv.apply /\ k \in todo
      /\ k \in DOMAIN latest /\ k \in DOMAIN mem
      /\ todo' = todo \ {k} /\ UNCHANGED <<inv, lockfile, published, aged>>
  BY DEF UpdateMove, First, RecordsKept, TypeOK, LedgerInv, Commands, repoVars, worldVars
<1>2. Ref(k) \in Tags
  BY <1>1, KeyFacts DEF RecordsKept, GreenInv, LooksUp
<1>3. PICK sha, p : /\ Locked(k, sha, p) /\ p.sha # mem[k].resolved
                    /\ mem' = Put(mem, k, Moved(mem[k], p))
  BY <1>1 DEF UpdateMove, Locked, RecordsKept, TypeOK
<1> DEFINE e == Moved(mem[k], p)
<1>4. e.resolved = p.sha /\ e.integrity = None
  BY <1>1 DEF Moved, RecordsKept, TypeOK, IsLocks, Entry
<1>5. Exempt(k) \/ p.sha \in aged
  BY <1>3, TargetsSound DEF Locked, RecordsKept
<1> HIDE DEF e
<1>6. k \in DOMAIN mem' /\ mem'[k] = e
  BY <1>3 DEF Put, e
<1>7. Book!Attested(k, Record(mem[k]))'
  BY <1>6 DEF RecordsKept, AllAttested
<1>8. Book!Quarantined(k, Record(mem[k]))'
  BY <1>1, <1>4, <1>5, <1>6 DEF Book!Quarantined, Record, Exempt, Action
<1>9. k \in DOMAIN lockfile /\ mem[k] = lockfile[k]
  BY <1>1 DEF ChangeInv
<1>10. Justified(k)'
  BY <1>1, <1>2, <1>3, <1>4, <1>6, <1>7, <1>8, <1>9
  DEF Justified, Book!Business, Book!Move, Book!Enter, Record, Ref
<1> QED BY <1>1, <1>3, <1>10, OneChanges DEF e

(* vendor records the tree of the commit a key is pinned to.                 *)
LEMMA RecordChanges ==
    ASSUME RecordsKept, ChangeInv, NEW k \in Keys, VendorRecord(k)
    PROVE  ChangeInv'
<1>1. /\ pc = "copy" /\ inv.cmd = "vendor" /\ k \in todo /\ k \in DOMAIN mem
      /\ todo' = todo \ {k} /\ UNCHANGED <<inv, lockfile, published, aged>>
  BY DEF VendorRecord, First, RecordsKept, TypeOK, LedgerInv, Commands, worldVars
<1>2. vendor'[DirFor(k, mem)] = Pristine(k, mem)
  BY <1>1, PristineTyped DEF VendorRecord, RecordsKept, TypeOK
<1> DEFINE e == [mem[k] EXCEPT !.integrity = Pristine(k, mem)]
<1>3. mem' = Put(mem, k, e)
  BY <1>2 DEF VendorRecord
<1>4. Record(e) = [Record(mem[k]) EXCEPT !.integrity = <<k[1], mem[k].resolved>>]
  BY <1>1 DEF RecordsKept, TypeOK, IsLocks, Entry, Record, Pristine, Action
<1> HIDE DEF e
<1>5. k \in DOMAIN mem' /\ mem'[k] = e
  BY <1>3 DEF Put
<1>6. k \in DOMAIN lockfile /\ mem[k] = lockfile[k]
  BY <1>1 DEF ChangeInv
<1>7. Record(lockfile[k]).resolved = mem[k].resolved
  BY <1>6 DEF Record
<1>8. Justified(k)'
  BY <1>1, <1>4, <1>5, <1>6, <1>7 DEF Justified, Book!Business, Book!Vouch
<1> QED BY <1>1, <1>3, <1>8, OneChanges

(* Every step keeps the invariant.                                           *)
LEMMA NextChanges ==
    ASSUME RecordsKept, RecordsKept', ChangeInv, [Next]_vars
    PROVE  ChangeInv'
<1>0. published \subseteq published' /\ aged \subseteq aged'
  BY WorldGrows DEF RecordsKept
<1>1. CASE Refuse \/ UNCHANGED vars
  BY <1>0, <1>1, StillChanges DEF Refuse, vars, repoVars, runVars
<1>2. CASE \E i \in Invocations : Begin(i)
  <2>1. PICK i \in Invocations : Begin(i)
    BY <1>2
  <2>2. CASE NothingToDo(i) \/ Rewrite(i) \/ Verify(i)
    BY <1>0, <2>2, StillChanges DEF NothingToDo, Rewrite, Verify, repoVars
  <2>3. CASE StartLock(i) \/ StartUpdate(i) \/ StartVendor(i)
    BY <2>3 DEF StartLock, StartUpdate, StartVendor, Load, repoVars, ChangeInv
  <2> QED BY <2>1, <2>2, <2>3 DEF Begin
<1>3. ASSUME NEW k \in Keys, Lock(k) \/ Update(k) \/ Vendor(k)
      PROVE  ChangeInv'
  <2>1. CASE LockPin(k) \/ UpdateMove(k) \/ VendorRecord(k)
    BY <2>1, LockChanges, MoveChanges, RecordChanges
  <2>2. CASE \/ LockSkip(k) \/ LockResolve(k) \/ LockRefuse(k) \/ UpdateCheck(k)
             \/ UpdateKeep(k) \/ VendorSkip(k) \/ VendorFail(k) \/ VendorCopy(k)
             \/ VendorBreak(k)
    <3>1. /\ UNCHANGED <<inv, mem, lockfile>> /\ todo' \subseteq todo
          /\ pc \notin {"idle", "save"}
      BY <2>2 DEF LockSkip, LockResolve, LockRefuse, UpdateCheck, UpdateKeep, VendorSkip,
         VendorFail, VendorCopy, VendorBreak, repoVars
    <3> QED BY <1>0, <3>1, StillChanges
  <2> QED BY <1>3, <2>1, <2>2 DEF Lock, Update, Vendor
<1>4. CASE LockSave \/ UpdateSave \/ VendorSave \/ Write \/ Crash
  BY <1>4 DEF LockSave, UpdateSave, VendorSave, Write, Crash, Truncate, Ends, ChangeInv
<1>5. CASE UpdateApply
  <2>1. CASE inv.apply /\ latest # NoLocks
    <3>1. /\ pc = "check" /\ pc' = "apply" /\ todo = {}
          /\ UNCHANGED <<inv, mem, lockfile>>
      BY <1>5, <2>1 DEF UpdateApply, repoVars
    <3>2. \A k \in DOMAIN mem : k \in DOMAIN lockfile /\ mem[k] = lockfile[k]
      BY <3>1 DEF RecordsKept, UpdateInv
    <3> QED BY <3>1, <3>2 DEF ChangeInv
  <2>2. CASE ~(inv.apply /\ latest # NoLocks)
    BY <1>5, <2>2 DEF UpdateApply, Ends, ChangeInv
  <2> QED BY <2>1, <2>2
<1>6. CASE RemoveTorn
  BY <1>6 DEF RemoveTorn, runVars, ChangeInv
<1>7. CASE MoveTag \/ RetireTag \/ GrowOld \/ EditUse \/ EditVendor
  BY <1>0, <1>7, StillChanges
  DEF MoveTag, RetireTag, GrowOld, EditUse, EditVendor, repoVars, runVars
<1> QED
  BY <1>1, <1>2, <1>3, <1>4, <1>5, <1>6, <1>7 DEF Next, Step, Outside

LEMMA ChangeInvHolds == Spec => []ChangeInv
<1>1. Init => ChangeInv
  BY DEF Init, ChangeInv
<1>2. RecordsKept /\ RecordsKept' /\ ChangeInv /\ [Next]_vars => ChangeInv'
  BY NextChanges
<1> QED
  BY <1>1, <1>2, RecordsKeptHolds, PTL DEF Spec

(* A step of the run that leaves the file, the world and the command alone,  *)
(* and is not the one to open the file, leaves the ledger.                   *)
Unread == <<lockfile, inv, published, aged>>

LEMMA LedgerStutters ==
    ASSUME UNCHANGED Unread, Phase' = Phase, pc = "save" => mem' = mem
    PROVE  UNCHANGED Book!vars
<1>1. (pc' = "save") <=> (pc = "save")
  BY DEF Phase
<1>2. ReadBack' = ReadBack
  BY <1>1 DEF ReadBack, Records, Record, Unread
<1> QED BY <1>2 DEF Book!vars, Unread

(* What the command writes is justified key by key.                          *)
LEMMA OpensSaves ==
    ASSUME RecordsKept, ChangeInv, Opens, UNCHANGED <<published, aged>>
    PROVE  Book!Save
<1>1. PICK m \in {mem, Refreshed(mem)} :
        pc \in {"lock", "apply", "vendor"} /\ Truncate(m)
  BY DEF Opens
<1>2. lockfile # Torn /\ DOMAIN lockfile \subseteq DOMAIN mem
  BY <1>1 DEF RecordsKept, LedgerInv, CopyFollowsFile
<1>3. DOMAIN m = DOMAIN mem /\ DOMAIN mem \subseteq Keys
  BY <1>1, RefreshedFacts DEF RecordsKept, TypeOK, IsLocks
<1>4. \A k \in DOMAIN mem : Record(m[k]) = Record(mem[k])
  BY <1>1, RefreshedFacts DEF RecordsKept, TypeOK, Record
<1>5. ReadBack = Records(lockfile) /\ ReadBack' = Records(m)
  BY <1>1, <1>2 DEF ReadBack, Truncate
<1>6. /\ DOMAIN ReadBack = DOMAIN lockfile
      /\ \A k \in DOMAIN lockfile : ReadBack[k] = Record(lockfile[k])
      /\ DOMAIN ReadBack' = DOMAIN mem
      /\ \A k \in DOMAIN mem : ReadBack'[k] = Record(mem[k])
  BY <1>3, <1>4, <1>5 DEF Records
<1>7. Phase = "running" /\ Phase' = "saved" /\ inv' = inv
  BY <1>1 DEF Phase, Truncate
<1>8. ASSUME NEW k \in DOMAIN mem
      PROVE  IF k \in DOMAIN ReadBack
             THEN \/ ReadBack'[k] = ReadBack[k]
                  \/ Book!Business(k, ReadBack[k], ReadBack'[k])
             ELSE inv.cmd = "lock" /\ Book!Enter(k, ReadBack'[k])
  <2>1. CASE k \in DOMAIN lockfile /\ mem[k] = lockfile[k]
    BY <1>6, <2>1
  <2>2. CASE Justified(k)
    BY <1>6, <2>2 DEF Justified
  <2> QED BY <1>1, <2>1, <2>2 DEF ChangeInv
<1> QED BY <1>2, <1>3, <1>6, <1>7, <1>8 DEF Book!Save, Book!Keys, Keys

(* A run that ends leaves the file, has written it, or loses it.             *)
LEMMA EndsBook ==
    ASSUME TypeOK, LedgerInv, pc # "idle", pc' = "idle", inv' = None,
           UNCHANGED <<published, aged>>,
           lockfile' = lockfile \/ (pc = "save" /\ lockfile' = mem)
    PROVE  Book!End
<1>1. Phase # "idle" /\ Phase' = "idle" /\ (Phase = "saved" <=> pc = "save")
  BY DEF Phase
<1>2. CASE pc = "save" /\ lockfile' = mem
  <2>1. lockfile = Torn /\ mem # Torn
    BY <1>2, TornIsNoLockfile DEF LedgerInv, TypeOK
  <2>2. ReadBack' = ReadBack
    BY <1>2, <2>1 DEF ReadBack
  <2> QED BY <1>1, <2>2 DEF Book!End
<1>3. CASE pc = "save" /\ lockfile' = lockfile
  <2>1. ReadBack' = Book!Blank
    BY <1>3 DEF ReadBack, LedgerInv, NoLocks, Book!Blank
  <2> QED BY <1>1, <1>3, <2>1 DEF Book!End
<1>4. CASE pc # "save" /\ lockfile' = lockfile
  <2>1. ReadBack' = ReadBack
    BY <1>4 DEF ReadBack
  <2> QED BY <1>1, <2>1 DEF Book!End
<1> QED BY <1>2, <1>3, <1>4

(* Every step is one of the ledger's, or does not show.                      *)
LEMMA NextBook ==
    ASSUME RecordsKept, ChangeInv, [Next]_vars
    PROVE  Book!Next \/ UNCHANGED Book!vars
<1>0. TypeOK /\ LedgerInv
  BY DEF RecordsKept
<1>1. CASE Refuse \/ EditUse \/ EditVendor \/ UNCHANGED vars
  <2>1. UNCHANGED <<Unread, pc, mem>>
    BY <1>1 DEF Refuse, EditUse, EditVendor, vars, repoVars, runVars, worldVars, Unread
  <2> QED BY <2>1, LedgerStutters DEF Phase
<1>2. ASSUME NEW i \in Invocations, Begin(i)
      PROVE  Book!Next \/ UNCHANGED Book!vars
  <2>1. CASE NothingToDo(i) \/ Rewrite(i) \/ Verify(i)
    <3>1. UNCHANGED <<Unread, pc, mem>>
      BY <2>1 DEF NothingToDo, Rewrite, Verify, repoVars, worldVars, Unread
    <3> QED BY <3>1, LedgerStutters DEF Phase
  <2>2. CASE StartLock(i) \/ StartUpdate(i) \/ StartVendor(i)
    <3>1. /\ pc = "idle" /\ pc' \in {"lock", "check", "vendor"} /\ inv' = i
          /\ lockfile # Torn /\ UNCHANGED <<lockfile, published, aged>>
      BY <2>2 DEF StartLock, StartUpdate, StartVendor, Load, repoVars, worldVars
    <3>2. Phase = "idle" /\ Phase' = "running" /\ ReadBack' = ReadBack
      BY <3>1 DEF Phase, ReadBack
    <3> QED BY <3>1, <3>2 DEF Book!Begin, Book!Next
  <2> QED BY <1>2, <2>1, <2>2 DEF Begin
<1>3. ASSUME NEW k \in Keys, Lock(k) \/ Update(k) \/ Vendor(k)
      PROVE  UNCHANGED Book!vars
  <2>1. /\ UNCHANGED Unread /\ pc \notin {"idle", "save"} /\ pc' \notin {"idle", "save"}
    BY <1>3 DEF Lock, LockSkip, LockResolve, LockPin, LockRefuse, Update, UpdateCheck,
       UpdateMove, UpdateKeep, Vendor, VendorSkip, VendorFail, VendorCopy, VendorRecord,
       VendorBreak, repoVars, worldVars, Unread
  <2> QED BY <2>1, LedgerStutters DEF Phase
<1>4. CASE LockSave \/ UpdateSave \/ VendorSave
  <2>1. UNCHANGED <<published, aged>>
    BY <1>4 DEF LockSave, UpdateSave, VendorSave, worldVars
  <2>2. CASE Opens
    BY <2>1, <2>2, OpensSaves DEF Book!Next
  <2>3. CASE ~Opens
    <3>1. pc # "idle" /\ pc' = "idle" /\ inv' = None /\ lockfile' = lockfile
      BY <1>4, <2>3 DEF LockSave, UpdateSave, VendorSave, Ends, Opens, repoVars
    <3> QED BY <1>0, <2>1, <3>1, EndsBook DEF Book!Next
  <2> QED BY <2>2, <2>3
<1>5. CASE Write \/ Crash
  <2>1. /\ pc # "idle" /\ pc' = "idle" /\ inv' = None /\ UNCHANGED <<published, aged>>
        /\ lockfile' = lockfile \/ (pc = "save" /\ lockfile' = mem)
    BY <1>5 DEF Write, Crash, Ends, repoVars, worldVars
  <2> QED BY <1>0, <2>1, EndsBook DEF Book!Next
<1>6. CASE UpdateApply
  <2>1. pc = "check" /\ UNCHANGED <<lockfile, published, aged>>
    BY <1>6 DEF UpdateApply, repoVars, worldVars
  <2>2. CASE inv.apply /\ latest # NoLocks
    <3>1. pc' = "apply" /\ inv' = inv
      BY <1>6, <2>2 DEF UpdateApply
    <3> QED BY <2>1, <3>1, LedgerStutters DEF Phase, Unread
  <2>3. CASE ~(inv.apply /\ latest # NoLocks)
    <3>1. pc' = "idle" /\ inv' = None
      BY <1>6, <2>3 DEF UpdateApply, Ends
    <3> QED BY <1>0, <2>1, <3>1, EndsBook DEF Book!Next
  <2> QED BY <2>2, <2>3
<1>7. CASE RemoveTorn
  <2>1. /\ pc = "idle" /\ pc' = "idle" /\ lockfile = Torn /\ lockfile' = NoLocks
        /\ UNCHANGED <<inv, published, aged>>
    BY <1>7 DEF RemoveTorn, runVars, worldVars
  <2>2. Records(NoLocks) = NoLocks
    BY DEF Records, NoLocks
  <2>3. ReadBack' = ReadBack /\ Phase' = Phase
    BY <2>1, <2>2 DEF ReadBack, Phase
  <2> QED BY <2>1, <2>3 DEF Book!vars
<1>8. CASE MoveTag \/ RetireTag \/ GrowOld
  <2>1. UNCHANGED <<lockfile, inv, pc, mem>>
    BY <1>8 DEF MoveTag, RetireTag, GrowOld, repoVars, runVars
  <2>2. ReadBack' = ReadBack /\ Phase' = Phase
    BY <2>1 DEF ReadBack, Phase
  <2> QED BY <1>0, <2>1, <2>2, WorldGrows DEF Book!Pass, Book!Next
<1> QED
  BY <1>1, <1>2, <1>3, <1>4, <1>5, <1>6, <1>7, <1>8 DEF Next, Step, Outside

(* The lockfile is the ledger of PinLedger: however the steps of a command   *)
(* fall among upstream's, wherever it fails or dies, each command changes    *)
(* the pins and hashes at most once, as a whole, and only in its own way.    *)
THEOREM LedgerKeptHolds == Spec => LedgerKept
<1>1. Init => Book!Init
  <2> SUFFICES ASSUME Init PROVE Book!Init
    OBVIOUS
  <2>1. Records(NoLocks) = NoLocks
    BY DEF Records, NoLocks
  <2>2. ReadBack = Book!Blank /\ Phase = "idle"
    BY <2>1 DEF Init, ReadBack, Phase, NoLocks, Book!Blank
  <2>3. published \subseteq Repos \X Tags \X Shas
    BY BoundsAssumption DEF Init
  <2> QED BY <2>2, <2>3 DEF Init, Book!Init
<1>2. RecordsKept /\ ChangeInv /\ [Next]_vars => [Book!Next]_(Book!vars)
  BY NextBook
<1> QED
  BY <1>1, <1>2, RecordsKeptHolds, ChangeInvHolds, PTL DEF Spec, LedgerKept, Book!Spec

-----------------------------------------------------------------------------
(* Every step of a command brings it nearer to its end.  The bound counts    *)
(* keys, so there have to be finitely many: the workflows' uses are, and so  *)
(* is whatever is read from them or from the lockfile.                       *)
FiniteWork == FiniteLocks /\ IsFiniteSet(todo) /\ IsFiniteSet(DOMAIN latest)

(* The workflows use finitely many refs.                                     *)
LEMMA UsedKeysFinite == IsFiniteSet(UsedKeys)
<1> DEFINE f == [s \in Slots |-> uses[s]]
           U == {uses[s] : s \in Slots}
<1>1. f \in Surjection(Slots, U)
  BY DEF Surjection
<1>2. IsFiniteSet(U)
  BY <1>1, FiniteWorkflows, FS_Surjection
<1> QED BY <1>2, FS_Subset DEF UsedKeys

(* What is left to do is part of what was, or is read anew.                  *)
LEMMA TodoStep ==
    ASSUME [Next]_vars
    PROVE  \/ todo' \subseteq todo
           \/ todo' \in {UsedKeys, DOMAIN latest}
           \/ lockfile # Torn /\ todo' \subseteq DOMAIN lockfile
<1>1. CASE Refuse \/ UNCHANGED vars
  BY <1>1 DEF Refuse, vars, runVars
<1>2. CASE \E i \in Invocations : Begin(i)
  BY <1>2 DEF Begin, NothingToDo, StartLock, StartUpdate, StartVendor, Rewrite, Verify, Load
<1>3. CASE \E k \in Keys : Lock(k) \/ Update(k) \/ Vendor(k)
  BY <1>3 DEF Lock, LockSkip, LockResolve, LockPin, LockRefuse, Update,
     UpdateCheck, UpdateMove, UpdateKeep, Vendor, VendorSkip, VendorFail,
     VendorCopy, VendorRecord, VendorBreak
<1>4. CASE LockSave \/ UpdateApply \/ UpdateSave \/ VendorSave \/ Write
  BY <1>4 DEF LockSave, UpdateApply, UpdateSave, VendorSave, Write, Truncate, Ends
<1>5. CASE Outside
  BY <1>5 DEF Outside, Crash, MoveTag, RetireTag, GrowOld, EditUse, EditVendor,
     RemoveTorn, Ends, runVars
<1> QED BY <1>1, <1>2, <1>3, <1>4, <1>5 DEF Next, Step

(* No step makes the work infinite.                                          *)
LEMMA NextFiniteWork ==
    ASSUME TypeOK, FiniteWork, [Next]_vars
    PROVE  FiniteWork'
<1>1. FiniteLocks'
  BY NextFinite DEF FiniteWork
<1>2. IsFiniteSet(todo')
  BY TodoStep, UsedKeysFinite, FS_Subset DEF FiniteWork, FiniteLocks
<1>3. IsFiniteSet(DOMAIN latest')
  <2>1. CASE latest' = latest \/ latest' = NoLocks
    BY <2>1, NoLocksFacts, FS_EmptySet DEF FiniteWork
  <2>2. ASSUME NEW k \in Keys, latest' = Drop(latest, k) PROVE IsFiniteSet(DOMAIN latest')
    BY <2>2, FS_Subset DEF FiniteWork, Drop
  <2>3. ASSUME NEW k \in Keys, NEW sha, latest' = Put(latest, k, sha)
        PROVE  IsFiniteSet(DOMAIN latest')
    BY <2>3, PutFinite DEF FiniteWork
  <2> QED BY <2>1, <2>2, <2>3, EveryLookup DEF LatestStep, Learnt
<1> QED BY <1>1, <1>2, <1>3 DEF FiniteWork

(* The bound, phase by phase, before a step and after it.                    *)
LEMMA CommandPhases ==
    /\ pc = "idle"   => Remaining = 0
    /\ pc = "save"   => Remaining = 1
    /\ pc = "lock"   => Remaining = Cardinality(todo) + Cardinality(todo \ DOMAIN latest) + 2
    /\ pc = "check"  => Remaining = 2 * Cardinality(todo) + Cardinality(DOMAIN latest) + 3
    /\ pc = "apply"  => Remaining = Cardinality(todo) + 2
    /\ pc = "vendor" => Remaining = 2 * Cardinality(todo) + 2
    /\ pc = "copy"   => Remaining = 2 * Cardinality(todo) + 1
    /\ pc' = "idle"   => Remaining' = 0
    /\ pc' = "save"   => Remaining' = 1
    /\ pc' = "lock"   => Remaining' = Cardinality(todo') + Cardinality(todo' \ DOMAIN latest') + 2
    /\ pc' = "check"  => Remaining' = 2 * Cardinality(todo') + Cardinality(DOMAIN latest') + 3
    /\ pc' = "apply"  => Remaining' = Cardinality(todo') + 2
    /\ pc' = "vendor" => Remaining' = 2 * Cardinality(todo') + 2
    /\ pc' = "copy"   => Remaining' = 2 * Cardinality(todo') + 1
  BY DEF Remaining

(* The numbers the bound is made of, and what taking up a key does to them.  *)
LEMMA WorkFacts ==
    ASSUME FiniteWork
    PROVE  /\ IsFiniteSet(todo) /\ Cardinality(todo) \in Nat
           /\ IsFiniteSet(DOMAIN latest) /\ Cardinality(DOMAIN latest) \in Nat
           /\ IsFiniteSet(todo \ DOMAIN latest) /\ Cardinality(todo \ DOMAIN latest) \in Nat
           /\ \A k \in todo : Cardinality(todo \ {k}) = Cardinality(todo) - 1
<1>1. IsFiniteSet(todo) /\ IsFiniteSet(DOMAIN latest)
  BY DEF FiniteWork
<1>2. IsFiniteSet(todo \ DOMAIN latest)
  BY <1>1, FS_Subset
<1>3. \A k \in todo : Cardinality(todo \ {k}) = Cardinality(todo) - 1
  BY <1>1, FS_RemoveElement
<1> QED BY <1>1, <1>2, <1>3, FS_CardinalityType

(* The bound is a number, and only an idle command has nothing left.         *)
LEMMA CommandBoundIsNat ==
    ASSUME TypeOK, FiniteWork
    PROVE  Remaining \in Nat /\ (pc # "idle" => Remaining > 0)
<1>1. CASE pc \in {"idle", "save", "apply", "vendor", "copy"}
  BY <1>1, CommandPhases, WorkFacts
<1>2. CASE pc = "lock"
  BY <1>2, CommandPhases, WorkFacts
<1>3. CASE pc = "check"
  BY <1>3, CommandPhases, WorkFacts
<1> QED BY <1>1, <1>2, <1>3 DEF TypeOK

(* A key comes nearer by being resolved, then by being left behind.          *)
LEMMA LockAdvances ==
    ASSUME FiniteWork, NEW k \in Keys, Lock(k)
    PROVE  Remaining' < Remaining
<1>1. pc = "lock" /\ pc' = "lock" /\ k \in todo
  BY DEF Lock, LockSkip, LockResolve, LockPin, LockRefuse, First
<1>2. /\ Remaining  = Cardinality(todo) + Cardinality(todo \ DOMAIN latest) + 2
      /\ Remaining' = Cardinality(todo') + Cardinality(todo' \ DOMAIN latest') + 2
  BY <1>1, CommandPhases
<1>3. /\ Cardinality(todo) \in Nat /\ Cardinality(todo \ DOMAIN latest) \in Nat
      /\ Cardinality(todo \ {k}) = Cardinality(todo) - 1
  BY <1>1, WorkFacts
<1>4. k \notin DOMAIN latest => Cardinality((todo \ DOMAIN latest) \ {k})
                                  = Cardinality(todo \ DOMAIN latest) - 1
  BY <1>1, WorkFacts, FS_RemoveElement
<1>5. CASE k \notin DOMAIN latest /\ todo' = todo \ {k} /\ latest' = latest
  <2>1. todo' \ DOMAIN latest' = (todo \ DOMAIN latest) \ {k}
    BY <1>5
  <2> QED BY <1>2, <1>3, <1>4, <1>5, <2>1
<1>6. CASE LockResolve(k) /\ todo' = todo
  <2>1. k \notin DOMAIN latest /\ \E sha : latest' = Put(latest, k, sha)
    BY <1>1, <1>6 DEF LockResolve
  <2>2. todo' \ DOMAIN latest' = (todo \ DOMAIN latest) \ {k}
    BY <1>6, <2>1 DEF Put
  <2> QED BY <1>2, <1>3, <1>4, <1>6, <2>1, <2>2
<1>7. CASE LockPin(k) \/ LockRefuse(k)
  <2>1. k \in DOMAIN latest /\ todo' = todo \ {k} /\ latest' = Drop(latest, k)
    BY <1>7 DEF LockPin, LockRefuse
  <2>2. todo' \ DOMAIN latest' = todo \ DOMAIN latest
    BY <2>1 DEF Drop
  <2>3. /\ Cardinality(todo') = Cardinality(todo) - 1
        /\ Cardinality(todo' \ DOMAIN latest') = Cardinality(todo \ DOMAIN latest)
    BY <1>3, <2>1, <2>2
  <2> QED BY <1>2, <1>3, <2>3
<1>8. LockSkip(k) => k \notin DOMAIN latest /\ todo' = todo \ {k} /\ latest' = latest
  BY DEF LockSkip
<1>9. LockResolve(k) => \/ k \notin DOMAIN latest /\ todo' = todo \ {k} /\ latest' = latest
                        \/ todo' = todo
  BY DEF LockResolve
<1> QED BY <1>5, <1>6, <1>7, <1>8, <1>9 DEF Lock

(* A key asked about may come back once, to be applied.                      *)
LEMMA UpdateAdvances ==
    ASSUME FiniteWork, NEW k \in Keys, Update(k)
    PROVE  Remaining' < Remaining
<1>1. CASE UpdateCheck(k)
  <2>1. /\ pc = "check" /\ pc' = "check" /\ k \in todo /\ todo' = todo \ {k}
        /\ latest' = latest \/ \E sha : latest' = Put(latest, k, sha)
    BY <1>1 DEF UpdateCheck, First
  <2>2. /\ Remaining  = 2 * Cardinality(todo) + Cardinality(DOMAIN latest) + 3
        /\ Remaining' = 2 * Cardinality(todo') + Cardinality(DOMAIN latest') + 3
    BY <2>1, CommandPhases
  <2>3. Cardinality(DOMAIN latest') \in {Cardinality(DOMAIN latest), Cardinality(DOMAIN latest) + 1}
    <3>1. latest' = latest \/ DOMAIN latest' = DOMAIN latest \cup {k}
      BY <2>1 DEF Put
    <3>2. IsFiniteSet(DOMAIN latest)
      BY WorkFacts
    <3>3. Cardinality(DOMAIN latest \cup {k})
            \in {Cardinality(DOMAIN latest), Cardinality(DOMAIN latest) + 1}
      BY <3>2, FS_AddElement
    <3> QED BY <3>1, <3>3
  <2> QED BY <2>1, <2>2, <2>3, WorkFacts
<1>2. CASE UpdateMove(k) \/ UpdateKeep(k)
  <2>1. pc = "apply" /\ pc' = "apply" /\ k \in todo /\ todo' = todo \ {k}
    BY <1>2 DEF UpdateMove, UpdateKeep, First
  <2>2. Remaining = Cardinality(todo) + 2 /\ Remaining' = Cardinality(todo') + 2
    BY <2>1, CommandPhases
  <2> QED BY <2>1, <2>2, WorkFacts
<1> QED BY <1>1, <1>2 DEF Update

(* A copy that ends, well or badly, leaves its key behind.                   *)
LEMMA VendorAdvances ==
    ASSUME FiniteWork, NEW k \in Keys, Vendor(k)
    PROVE  Remaining' < Remaining
<1>1. CASE VendorSkip(k) \/ VendorFail(k)
  <2>1. pc = "vendor" /\ pc' = "vendor" /\ k \in todo /\ todo' = todo \ {k}
    BY <1>1 DEF VendorSkip, VendorFail, First
  <2>2. Remaining = 2 * Cardinality(todo) + 2 /\ Remaining' = 2 * Cardinality(todo') + 2
    BY <2>1, CommandPhases
  <2> QED BY <2>1, <2>2, WorkFacts
<1>2. CASE VendorCopy(k)
  <2>1. pc = "vendor" /\ pc' = "copy" /\ todo' = todo
    BY <1>2 DEF VendorCopy
  <2>2. Remaining = 2 * Cardinality(todo) + 2 /\ Remaining' = 2 * Cardinality(todo') + 1
    BY <2>1, CommandPhases
  <2> QED BY <2>1, <2>2, WorkFacts
<1>3. CASE VendorRecord(k) \/ VendorBreak(k)
  <2>1. pc = "copy" /\ pc' = "vendor" /\ k \in todo /\ todo' = todo \ {k}
    BY <1>3 DEF VendorRecord, VendorBreak, First
  <2>2. Remaining = 2 * Cardinality(todo) + 1 /\ Remaining' = 2 * Cardinality(todo') + 2
    BY <2>1, CommandPhases
  <2> QED BY <2>1, <2>2, WorkFacts
<1> QED BY <1>1, <1>2, <1>3 DEF Vendor

(* The steps that close a command.                                           *)
LEMMA CloseAdvances ==
    ASSUME FiniteWork, LockSave \/ UpdateApply \/ UpdateSave \/ VendorSave \/ Write \/ Crash,
           Remaining \in Nat, Remaining > 0
    PROVE  Remaining' < Remaining
<1>1. CASE pc' = "idle"
  <2>1. Remaining' = 0
    BY <1>1, CommandPhases
  <2> QED BY <2>1
<1>2. CASE pc' = "save" /\ pc \in {"lock", "apply", "vendor"} /\ todo = {}
  <2>1. Remaining' = 1
    BY <1>2, CommandPhases
  <2>2. Remaining > 1
    BY <1>2, CommandPhases, FS_EmptySet
  <2> QED BY <2>1, <2>2
<1>3. CASE pc = "check" /\ pc' = "apply" /\ todo = {} /\ todo' = DOMAIN latest
  <2>1. /\ Remaining  = 2 * Cardinality(todo) + Cardinality(DOMAIN latest) + 3
        /\ Remaining' = Cardinality(todo') + 2
    BY <1>3, CommandPhases
  <2>2. Cardinality(todo) = 0 /\ Cardinality(DOMAIN latest) \in Nat
    BY <1>3, FS_EmptySet, WorkFacts
  <2> QED BY <1>3, <2>1, <2>2
<1> QED BY <1>1, <1>2, <1>3
        DEF LockSave, UpdateApply, UpdateSave, VendorSave, Write, Crash, Truncate, Ends

(* However many keys there are, and whatever fails, a command takes a        *)
(* bounded number of steps: none is taken that does not bring it nearer to   *)
(* its end, and nothing upstream does in between takes it back.              *)
THEOREM CommandBoundHolds == Spec => CommandIsBounded /\ [](Remaining \in Nat)
<1>1. Init => FiniteWork
  BY NoLocksFacts, FS_EmptySet DEF Init, FiniteWork, FiniteLocks
<1>2. TypeOK /\ FiniteWork /\ [Next]_vars => FiniteWork'
  BY NextFiniteWork
<1>3. TypeOK /\ FiniteWork => Remaining \in Nat
  BY CommandBoundIsNat
<1>4. TypeOK /\ FiniteWork /\ [Next]_vars
      => [pc # "idle" => IF UNCHANGED runVars THEN Remaining' = Remaining
                                              ELSE Remaining' < Remaining]_vars
  <2> SUFFICES ASSUME TypeOK, FiniteWork, Next, pc # "idle"
               PROVE  IF UNCHANGED runVars THEN Remaining' = Remaining
                                           ELSE Remaining' < Remaining
    OBVIOUS
  <2>1. UNCHANGED runVars => Remaining' = Remaining
    BY DEF runVars, Remaining
  <2>2. Remaining \in Nat /\ Remaining > 0
    BY CommandBoundIsNat
  <2>3. CASE Step \/ Crash
    <3>1. Remaining' < Remaining
      BY <2>2, <2>3, LockAdvances, UpdateAdvances, VendorAdvances, CloseAdvances DEF Step
    <3> QED BY <2>1, <2>2, <3>1
  <2>4. CASE MoveTag \/ RetireTag \/ GrowOld
    <3>1. UNCHANGED runVars
      BY <2>4 DEF MoveTag, RetireTag, GrowOld
    <3> QED BY <2>1, <3>1
  <2>5. pc # "idle" => ~(Refuse \/ (\E i \in Invocations : Begin(i))
                           \/ EditUse \/ EditVendor \/ RemoveTorn)
    BY DEF Refuse, Begin, NothingToDo, StartLock, StartUpdate, StartVendor, Rewrite, Verify,
           EditUse, EditVendor, RemoveTorn
  <2> QED BY <2>3, <2>4, <2>5 DEF Next, Outside
<1> QED BY <1>1, <1>2, <1>3, <1>4, TypeCorrect, PTL DEF Spec, CommandIsBounded
===============================================================================
