----------------------------- MODULE LockerProofs -----------------------------
(* Proofs about Locker, for every value of its constants.                    *)
EXTENDS Locker, TLAPS

-----------------------------------------------------------------------------
(* Facts about partial functions.                                            *)

(* Put changes one key and leaves the others.                                *)
LEMMA PutFacts ==
    ASSUME NEW m, NEW k, NEW v
    PROVE  /\ DOMAIN Put(m, k, v) = DOMAIN m \cup {k}
           /\ Put(m, k, v)[k] = v
           /\ \A j \in DOMAIN m : j # k => Put(m, k, v)[j] = m[j]
  BY DEF Put

(* Each of its entries is the new one or an old one.                         *)
LEMMA PutEntries ==
    ASSUME NEW m, NEW k, NEW v, NEW j \in DOMAIN Put(m, k, v)
    PROVE  \/ j = k /\ Put(m, k, v)[j] = v
           \/ j \in DOMAIN m /\ Put(m, k, v)[j] = m[j]
  BY DEF Put

(* Drop removes one key and leaves the others.                               *)
LEMMA DropFacts ==
    ASSUME NEW m, NEW k
    PROVE  /\ DOMAIN Drop(m, k) = DOMAIN m \ {k}
           /\ \A j \in DOMAIN m \ {k} : Drop(m, k)[j] = m[j]
  BY DEF Drop

(* The empty lockfile is a lockfile.                                         *)
LEMMA NoLocksFacts == IsLocks(NoLocks) /\ DOMAIN NoLocks = {}
  BY DEF IsLocks, NoLocks

(* A lockfile with an entry put in is a lockfile.                            *)
LEMMA PutIsLocks ==
    ASSUME NEW m, IsLocks(m), NEW k \in Keys, NEW v \in Entry
    PROVE  IsLocks(Put(m, k, v))
  BY DEF IsLocks, Put

(* A table of commits with one put in or taken out still is one.             *)
IsShaTable(t) == DOMAIN t \subseteq Keys /\ t \in [DOMAIN t -> Shas]

(* Putting in and dropping keep the table well formed.                       *)
LEMMA TableFacts ==
    ASSUME NEW t, IsShaTable(t), NEW k \in Keys, NEW sha \in Shas
    PROVE  IsShaTable(Put(t, k, sha)) /\ IsShaTable(Drop(t, k))
  BY DEF IsShaTable, Put, Drop

(* The parts of a key.                                                       *)
LEMMA KeyFacts ==
    ASSUME NEW k \in Keys
    PROVE  /\ Action(k) \in Actions
           /\ Ref(k) \in Tags \cup Shas
           /\ RepoOf[Action(k)] \in Repos
           /\ k = <<Action(k), Ref(k)>>
  BY NamesAssumption DEF Keys, Action, Ref

-----------------------------------------------------------------------------
(* What the quarantine returns: a commit, of a series tag if one is named,   *)
(* and one whose age clears the floor unless the action is exempt.           *)
LEMMA TargetsSound ==
    ASSUME TypeOK, NEW k \in Keys, NEW sha \in Shas, NEW walk \in BOOLEAN,
           NEW clear \in SUBSET aged, NEW p \in Targets(k, sha, walk, clear)
    PROVE  /\ p.sha \in Shas
           /\ p.selected \in Tags \cup {None}
           /\ Exempt(k) \/ p.sha \in aged
           /\ p.selected = None => p.sha = sha
           /\ p.selected # None =>
                /\ Ref(k) \in Tags
                /\ upstream[<<RepoOf[Action(k)], p.selected>>] = p.sha
<1>1. CASE Exempt(k)
  BY <1>1 DEF Targets
<1>2. CASE ~Exempt(k) /\ sha \in clear
  BY <1>2 DEF Targets, Aged
<1>3. CASE ~Exempt(k) /\ sha \notin clear
  <2>1. p \in Aged(k, sha, walk, clear)
    BY <1>3 DEF Targets
  <2>2. PICK i : /\ walk /\ Ref(k) \in Tags
                 /\ i \in Fallbacks(k, sha)
                 /\ SeriesSha(k, i) \in clear
                 /\ p = [sha |-> SeriesSha(k, i), selected |-> Series[Ref(k)][i]]
    BY <1>3, <2>1 DEF Aged
  <2>3. i \in DOMAIN Series[Ref(k)]
    BY <2>2 DEF Fallbacks
  <2>4. Series[Ref(k)][i] \in Tags
    BY <2>2, <2>3, QuarantineAssumption
  <2>5. Series[Ref(k)][i] # None
    BY <2>4, NamesAssumption
  <2>6. SeriesSha(k, i) \in Shas /\ SeriesSha(k, i) \in aged
    BY <2>2 DEF TypeOK
  <2> QED
    BY <2>2, <2>4, <2>5, <2>6 DEF SeriesSha
<1> QED
  BY <1>1, <1>2, <1>3

(* An ended invocation leaves its variables typed.                           *)
LEMMA EndsTyped ==
    ASSUME NEW code \in {0, 1}, Ends(code)
    PROVE  /\ pc' = "idle" /\ inv' = None
           /\ IsLocks(mem)' /\ mem' = NoLocks
           /\ todo' = {}
           /\ IsShaTable(latest)' /\ DOMAIN latest' = {}
           /\ failed' \in BOOLEAN /\ dirty' \in BOOLEAN
           /\ exit' \in {None, 0, 1}
<1>1. IsLocks(NoLocks) /\ DOMAIN NoLocks = {}
  BY NoLocksFacts
<1>2. IsShaTable(NoLocks)
  BY DEF IsShaTable, NoLocks
<1> QED
  BY <1>1, <1>2 DEF Ends, IsLocks, IsShaTable

(* So does a loaded one.                                                     *)
LEMMA LoadTyped ==
    ASSUME TypeOK, lockfile # Torn, NEW i \in Invocations, NEW phase,
           NEW keys \in SUBSET Keys, Load(i, phase, keys)
    PROVE  /\ pc' = phase /\ inv' \in Invocations
           /\ IsLocks(mem)' /\ mem' = lockfile
           /\ todo' = keys
           /\ IsShaTable(latest)' /\ DOMAIN latest' = {}
           /\ failed' \in BOOLEAN /\ dirty' \in BOOLEAN
           /\ exit' \in {None, 0, 1}
<1>1. IsShaTable(NoLocks) /\ DOMAIN NoLocks = {}
  BY DEF IsShaTable, NoLocks
<1>2. IsLocks(lockfile)
  BY DEF TypeOK
<1> QED
  BY <1>1, <1>2 DEF Load, IsLocks, IsShaTable

(* The keys used by the workflows are keys.                                  *)
LEMMA UsedKeysTyped == TypeOK => UsedKeys \subseteq Keys
  BY DEF TypeOK, UsedKeys

(* A new entry and a moved entry are entries.                                *)
LEMMA EntriesTyped ==
    ASSUME TypeOK, NEW k \in Keys, NEW p, p.sha \in Shas,
           p.selected \in Tags \cup {None}
    PROVE  /\ NewEntry(k, p) \in Entry
           /\ k \in DOMAIN mem => Moved(mem[k], p) \in Entry
<1>1. k \in DOMAIN mem => mem[k] \in Entry
  BY DEF TypeOK, IsLocks
<1>2. NewEntry(k, p) \in Entry
  <2>1. (IF k \in DOMAIN mem /\ mem[k].resolved = p.sha
         THEN mem[k].integrity ELSE None) \in Content \cup {None}
    BY <1>1 DEF Entry
  <2> QED
    BY <2>1 DEF NewEntry, Entry
<1>3. k \in DOMAIN mem => Moved(mem[k], p) \in Entry
  BY <1>1 DEF Moved, Entry
<1> QED
  BY <1>2, <1>3

-----------------------------------------------------------------------------
(* Type correctness.                                                         *)

(* The initial states are typed.                                             *)
LEMMA InitTyped == Init => TypeOK
<1> SUFFICES ASSUME Init PROVE TypeOK
  OBVIOUS
<1>1. IsLocks(NoLocks) /\ DOMAIN NoLocks = {}
  BY NoLocksFacts
<1>2. NoLocks \in [DOMAIN NoLocks -> Shas]
  BY DEF NoLocks
<1>3. uses \in [Slots -> Keys \cup {NoUse}]
  BY BoundsAssumption DEF Init
<1>4. published \subseteq Repos \X Tags \X Shas
  BY BoundsAssumption DEF Init
<1>5. vendor \in [Dirs -> Content \cup {Absent}]
  BY DEF Init
<1> QED
  BY <1>1, <1>2, <1>3, <1>4, <1>5 DEF Init, TypeOK

(* lock keeps the types.                                                     *)
LEMMA LockTyped ==
    ASSUME TypeOK, NEW k \in Keys, Lock(k) PROVE TypeOK'
<1>1. CASE LockSkip(k)
  BY <1>1 DEF LockSkip, TypeOK, IsLocks, repoVars, worldVars
<1>2. CASE LockResolve(k)
  <2>1. PICK sha \in Resolved(k) :
          IF sha = None
          THEN todo' = todo \ {k} /\ failed' = TRUE /\ latest' = latest
          ELSE latest' = Put(latest, k, sha) /\ todo' = todo /\ failed' = failed
    BY <1>2 DEF LockResolve
  <2>2. sha \in Shas \cup {None}
    BY KeyFacts DEF Resolved, TypeOK
  <2>3. IsShaTable(latest)'
    BY <2>1, <2>2, TableFacts DEF TypeOK, IsShaTable
  <2>4. pc = "lock" /\ pc' = pc /\ failed' \in BOOLEAN /\ todo' \subseteq Keys
    BY <1>2, <2>1 DEF LockResolve, TypeOK
  <2> QED
    BY <1>2, <2>3, <2>4
    DEF LockResolve, TypeOK, IsLocks, IsShaTable, repoVars, worldVars
<1>3. CASE LockPin(k)
  <2>1. PICK walk \in BOOLEAN, clear \in SUBSET aged :
          \E p \in Targets(k, latest[k], walk, clear) :
            mem' = Put(mem, k, NewEntry(k, p))
    BY <1>3 DEF LockPin
  <2>2. PICK p \in Targets(k, latest[k], walk, clear) :
          mem' = Put(mem, k, NewEntry(k, p))
    BY <2>1
  <2>3. latest[k] \in Shas /\ IsShaTable(latest)
    BY <1>3 DEF LockPin, TypeOK, IsShaTable
  <2>4. p.sha \in Shas /\ p.selected \in Tags \cup {None}
    BY <2>3, TargetsSound
  <2>5. IsLocks(mem')
    BY <2>2, <2>4, EntriesTyped, PutIsLocks DEF TypeOK
  <2>6. IsShaTable(latest')
    BY <1>3, <2>3, TableFacts DEF LockPin
  <2> QED
    BY <1>3, <2>5, <2>6
    DEF LockPin, TypeOK, IsLocks, IsShaTable, repoVars, worldVars
<1>4. CASE LockRefuse(k)
  <2>1. latest[k] \in Shas /\ IsShaTable(latest)
    BY <1>4 DEF LockRefuse, TypeOK, IsShaTable
  <2>2. IsShaTable(latest')
    BY <1>4, <2>1, TableFacts DEF LockRefuse
  <2> QED
    BY <1>4, <2>2
    DEF LockRefuse, TypeOK, IsLocks, IsShaTable, repoVars, worldVars
<1> QED
  BY <1>1, <1>2, <1>3, <1>4 DEF Lock

(* update keeps the types.                                                   *)
LEMMA UpdateTyped ==
    ASSUME TypeOK, NEW k \in Keys, Update(k) PROVE TypeOK'
<1>1. CASE UpdateCheck(k)
  <2>1. PICK sha \in Resolved(k) :
          latest' = IF sha \in {None, mem[k].resolved} THEN latest
                                                      ELSE Put(latest, k, sha)
    BY <1>1 DEF UpdateCheck
  <2>2. sha \in Shas \cup {None}
    BY KeyFacts DEF Resolved, TypeOK
  <2>3. IsShaTable(latest)'
    BY <2>1, <2>2, TableFacts DEF TypeOK, IsShaTable
  <2>4. k \in DOMAIN mem /\ mem' = mem /\ pc' = "check" /\ todo' \subseteq todo
    BY <1>1 DEF UpdateCheck, First, TypeOK
  <2>5. latest' = latest \/ DOMAIN latest' = DOMAIN latest \cup {k}
    BY <2>1, PutFacts, Zenon
  <2>6. DOMAIN latest' \subseteq DOMAIN mem' /\ todo' \subseteq DOMAIN mem'
    BY <1>1, <2>4, <2>5 DEF UpdateCheck, TypeOK
  <2> QED
    BY <1>1, <2>3, <2>4, <2>6
    DEF UpdateCheck, TypeOK, IsLocks, IsShaTable, repoVars, worldVars
<1>2. CASE UpdateMove(k)
  <2>1. PICK walk \in BOOLEAN, clear \in SUBSET aged :
          \E p \in Targets(k, latest[k], walk, clear) :
            mem' = Put(mem, k, Moved(mem[k], p))
    BY <1>2 DEF UpdateMove
  <2>2. PICK p \in Targets(k, latest[k], walk, clear) :
          mem' = Put(mem, k, Moved(mem[k], p))
    BY <2>1
  <2>3. k \in DOMAIN mem /\ k \in DOMAIN latest
    BY <1>2 DEF UpdateMove, First, TypeOK
  <2>4. latest[k] \in Shas
    BY <1>2, <2>3 DEF UpdateMove, TypeOK
  <2>5. p.sha \in Shas /\ p.selected \in Tags \cup {None}
    BY <2>4, TargetsSound
  <2>6. IsLocks(mem')
    BY <2>2, <2>3, <2>5, EntriesTyped, PutIsLocks DEF TypeOK
  <2>7. DOMAIN mem' = DOMAIN mem \cup {k}
    BY <2>2, PutFacts
  <2>8. DOMAIN mem' = DOMAIN mem
    BY <2>3, <2>7
  <2> QED
    BY <1>2, <2>6, <2>8
    DEF UpdateMove, TypeOK, IsLocks, repoVars, worldVars
<1>3. CASE UpdateKeep(k)
  BY <1>3 DEF UpdateKeep, TypeOK, IsLocks, repoVars, worldVars
<1> QED
  BY <1>1, <1>2, <1>3 DEF Update

(* An entry's directory and content are there to be named.                   *)
LEMMA PristineTyped ==
    ASSUME NEW m, IsLocks(m), NEW k \in DOMAIN m
    PROVE  /\ m[k] \in Entry
           /\ Pristine(k, m) \in Actions \X Shas
           /\ DirFor(k, m) \in Dirs
<1>1. k \in Keys /\ m[k] \in Entry
  BY DEF IsLocks
<1>2. m[k].resolved \in Shas /\ Action(k) \in Actions
  BY <1>1, KeyFacts DEF Entry
<1> QED
  BY <1>1, <1>2, TreeAssumption DEF Pristine, DirFor

(* vendor keeps the types.                                                   *)
LEMMA VendorTyped ==
    ASSUME TypeOK, NEW k \in Keys, Vendor(k) PROVE TypeOK'
<1>1. CASE VendorSkip(k)
  BY <1>1 DEF VendorSkip, TypeOK, IsLocks, repoVars, worldVars
<1>2. CASE VendorFail(k)
  BY <1>2 DEF VendorFail, TypeOK, IsLocks, repoVars, worldVars
<1>3. CASE VendorCopy(k)
  <2>1. vendor' \in [Dirs -> Content \cup {Absent}]
    BY <1>3 DEF VendorCopy, TypeOK, Content
  <2> QED
    BY <1>3, <2>1 DEF VendorCopy, TypeOK, IsLocks, worldVars
<1>4. CASE VendorRecord(k)
  <2>1. k \in DOMAIN mem
    BY <1>4 DEF VendorRecord, First, TypeOK
  <2>2. mem[k] \in Entry /\ Pristine(k, mem) \in Content /\ DirFor(k, mem) \in Dirs
    BY <2>1, PristineTyped DEF TypeOK, Content
  <2>3. vendor' = [vendor EXCEPT ![DirFor(k, mem)] = Pristine(k, mem)]
    BY <1>4 DEF VendorRecord
  <2>4. /\ vendor' \in [Dirs -> Content \cup {Absent}]
        /\ vendor'[DirFor(k, mem)] = Pristine(k, mem)
    BY <2>2, <2>3 DEF TypeOK
  <2>5. [mem[k] EXCEPT !.integrity = vendor'[DirFor(k, mem)]] \in Entry
    BY <2>2, <2>4 DEF Entry
  <2>6. IsLocks(mem')
    BY <1>4, <2>5, PutIsLocks DEF VendorRecord, TypeOK
  <2>7. DOMAIN mem' = DOMAIN mem \cup {k}
    BY <1>4, PutFacts DEF VendorRecord
  <2>8. DOMAIN mem' = DOMAIN mem
    BY <2>1, <2>7
  <2> QED
    BY <1>4, <2>4, <2>6, <2>8 DEF VendorRecord, TypeOK, IsLocks, worldVars
<1>5. CASE VendorBreak(k)
  <2>1. k \in DOMAIN mem
    BY <1>5 DEF VendorBreak, First, TypeOK
  <2>2. Pristine(k, mem) \in Content
    BY <2>1, PristineTyped DEF TypeOK, Content
  <2>3. vendor' \in [Dirs -> Content \cup {Absent}]
    BY <1>5, <2>2 DEF VendorBreak, TypeOK, Content
  <2> QED
    BY <1>5, <2>3 DEF VendorBreak, TypeOK, IsLocks, worldVars
<1> QED
  BY <1>1, <1>2, <1>3, <1>4, <1>5 DEF Vendor

(* Refreshing the locations keeps every key and all else of its entry.       *)
LEMMA RefreshedFacts ==
    ASSUME NEW m, IsLocks(m)
    PROVE  /\ IsLocks(Refreshed(m))
           /\ DOMAIN Refreshed(m) = DOMAIN m
           /\ \A k \in DOMAIN m :
                /\ Refreshed(m)[k].resolved = m[k].resolved
                /\ Refreshed(m)[k].selected = m[k].selected
                /\ Refreshed(m)[k].integrity = m[k].integrity
<1>1. DOMAIN Refreshed(m) = DOMAIN m
  BY DEF Refreshed
<1>2. ASSUME NEW k \in DOMAIN m
      PROVE  /\ Refreshed(m)[k] \in Entry
             /\ Refreshed(m)[k].resolved = m[k].resolved
             /\ Refreshed(m)[k].selected = m[k].selected
             /\ Refreshed(m)[k].integrity = m[k].integrity
  <2>1. m[k] \in Entry
    BY DEF IsLocks
  <2>2. Occurrences(k, m) \subseteq Slots
    BY DEF Occurrences
  <2>3. CASE Occurrences(k, m) = {}
    <3>1. Refreshed(m)[k] = m[k]
      BY <2>3 DEF Refreshed
    <3> QED
      BY <2>1, <3>1
  <2>4. CASE Occurrences(k, m) # {}
    <3>1. Refreshed(m)[k] = [m[k] EXCEPT !.at = Occurrences(k, m)]
      BY <2>4 DEF Refreshed
    <3> QED
      BY <2>1, <2>2, <3>1 DEF Entry
  <2> QED
    BY <2>3, <2>4
<1>3. IsLocks(Refreshed(m))
  <2>1. Refreshed(m) = [k \in DOMAIN m |-> Refreshed(m)[k]]
    BY DEF Refreshed
  <2> QED
    BY <1>1, <1>2, <2>1 DEF IsLocks
<1> QED
  BY <1>1, <1>2, <1>3

(* Opening the file for writing keeps the types.                             *)
LEMMA TruncateTyped ==
    ASSUME TypeOK, pc # "idle", NEW m, IsLocks(m), Truncate(m),
           UNCHANGED <<worldVars, stage>>
    PROVE  TypeOK'
<1>1. IsLocks(mem') /\ pc' = "save" /\ lockfile' = Torn
  BY DEF Truncate
<1> QED
  BY <1>1 DEF Truncate, TypeOK, IsLocks, worldVars

(* An invocation that ends and changes nothing keeps the types.              *)
LEMMA QuietEndTyped ==
    ASSUME TypeOK, NEW code \in {0, 1}, Ends(code),
           UNCHANGED <<repoVars, worldVars, stage>>
    PROVE  TypeOK'
  BY EndsTyped DEF TypeOK, IsLocks, IsShaTable, repoVars, worldVars

(* The end of a loop and the save keep the types.                            *)
LEMMA SaveTyped ==
    ASSUME TypeOK, LockSave \/ UpdateApply \/ UpdateSave \/ VendorSave \/ Write
    PROVE  TypeOK'
<1>0. IsLocks(mem) /\ failed \in BOOLEAN
  BY DEF TypeOK
<1>1. CASE LockSave
  <2>1. IsLocks(Refreshed(mem))
    BY <1>0, RefreshedFacts
  <2> QED
    BY <1>1, <2>1, TruncateTyped DEF LockSave
<1>2. CASE UpdateApply
  <2>1. CASE inv.apply /\ latest # NoLocks
    BY <1>2, <2>1 DEF UpdateApply, TypeOK, IsLocks, repoVars, worldVars
  <2>2. CASE ~(inv.apply /\ latest # NoLocks)
    BY <1>2, <2>2, QuietEndTyped DEF UpdateApply
  <2> QED
    BY <2>1, <2>2
<1>3. CASE UpdateSave
  <2>1. CASE dirty
    BY <1>0, <1>3, <2>1, TruncateTyped DEF UpdateSave
  <2>2. CASE ~dirty
    BY <1>3, <2>2, QuietEndTyped DEF UpdateSave
  <2> QED
    BY <2>1, <2>2
<1>4. CASE VendorSave
  <2>1. CASE dirty
    BY <1>0, <1>4, <2>1, TruncateTyped DEF VendorSave
  <2>2. CASE ~dirty
    BY <1>4, <2>2, QuietEndTyped DEF VendorSave
  <2> QED
    BY <2>1, <2>2
<1>5. CASE Write
  <2>1. Ends(IF failed THEN 1 ELSE 0)
    BY <1>5 DEF Write
  <2>2. stage' \in {"edited", "locked", "pinned"}
    BY <1>5 DEF Write, TypeOK
  <2>3. IsLocks(lockfile')
    BY <1>0, <1>5 DEF Write
  <2>4. UNCHANGED <<uses, vendor, worldVars>>
    BY <1>5 DEF Write
  <2>5. /\ pc' = "idle" /\ inv' = None /\ IsLocks(mem)' /\ todo' = {}
        /\ IsShaTable(latest)' /\ DOMAIN latest' = {}
        /\ failed' \in BOOLEAN /\ dirty' \in BOOLEAN /\ exit' \in {None, 0, 1}
    BY <2>1, EndsTyped
  <2> QED
    BY <2>2, <2>3, <2>4, <2>5 DEF TypeOK, IsLocks, IsShaTable, worldVars
<1> QED
  BY <1>1, <1>2, <1>3, <1>4, <1>5

(* What an invocation pins a use to is a key.                                *)
LEMMA PinnedTyped ==
    ASSUME TypeOK, lockfile # Torn, NEW k \in Keys
    PROVE  Pinned(k) \in Keys
<1>1. CASE k \in DOMAIN lockfile
  <2>1. lockfile[k].resolved \in Shas
    BY <1>1 DEF TypeOK, IsLocks, Entry
  <2> QED
    BY <2>1, KeyFacts DEF Pinned, Keys
<1>2. CASE k \notin DOMAIN lockfile
  BY <1>2 DEF Pinned
<1> QED
  BY <1>1, <1>2

(* Starting a command keeps the types.                                       *)
LEMMA BeginTyped ==
    ASSUME TypeOK, NEW i \in Invocations, Begin(i) PROVE TypeOK'
<1>1. CASE NothingToDo(i)
  BY <1>1 DEF NothingToDo, TypeOK, IsLocks, repoVars, worldVars
<1>2. CASE StartLock(i)
  <2>1. Load(i, "lock", UsedKeys) /\ UsedKeys \in SUBSET Keys /\ lockfile # Torn
    BY <1>2, UsedKeysTyped DEF StartLock
  <2> QED
    BY <1>2, <2>1, LoadTyped
    DEF StartLock, TypeOK, IsLocks, IsShaTable, repoVars, worldVars
<1>3. CASE StartUpdate(i)
  <2> DEFINE keys == {k \in DOMAIN lockfile : Ref(k) \in Tags}
  <2>1. Load(i, "check", keys) /\ lockfile # Torn
    BY <1>3 DEF StartUpdate
  <2>2. keys \in SUBSET Keys /\ keys \subseteq DOMAIN lockfile
    BY <2>1 DEF TypeOK, IsLocks
  <2> HIDE DEF keys
  <2> QED
    BY <1>3, <2>1, <2>2, LoadTyped
    DEF StartUpdate, TypeOK, IsLocks, IsShaTable, repoVars, worldVars
<1>4. CASE StartVendor(i)
  <2>1. Load(i, "vendor", DOMAIN lockfile) /\ lockfile # Torn
    BY <1>4 DEF StartVendor
  <2>2. DOMAIN lockfile \in SUBSET Keys
    BY <2>1 DEF TypeOK, IsLocks
  <2> QED
    BY <1>4, <2>1, <2>2, LoadTyped
    DEF StartVendor, TypeOK, IsLocks, IsShaTable, repoVars, worldVars
<1>5. CASE Rewrite(i)
  <2>1. PICK changed \in SUBSET Affected :
          /\ uses' = [s \in Slots |-> IF FileOf[s] \in changed
                                      THEN Pinned(uses[s]) ELSE uses[s]]
          /\ exit' \in IF changed = Affected THEN {0, 1} ELSE {1}
    BY <1>5 DEF Rewrite
  <2>2. lockfile # Torn
    BY <1>5 DEF Rewrite
  <2>3. Pinned(NoUse) \in Keys \cup {NoUse}
    <3>1. NoUse \notin DOMAIN lockfile
      BY <2>2, NamesAssumption DEF TypeOK, IsLocks
    <3> QED
      BY <3>1 DEF Pinned
  <2>4. uses' \in [Slots -> Keys \cup {NoUse}]
    BY <2>1, <2>2, <2>3, PinnedTyped DEF TypeOK
  <2>5. stage' \in {"edited", "locked", "pinned"} /\ exit' \in {None, 0, 1}
    BY <1>5, <2>1 DEF Rewrite, TypeOK
  <2> QED
    BY <1>5, <2>4, <2>5 DEF Rewrite, TypeOK, IsLocks, worldVars
<1>6. CASE Verify(i)
  BY <1>6 DEF Verify, TypeOK, IsLocks, repoVars, worldVars
<1> QED
  BY <1>1, <1>2, <1>3, <1>4, <1>5, <1>6 DEF Begin

(* What the program does not control keeps the types.                        *)
LEMMA OutsideTyped ==
    ASSUME TypeOK, Refuse \/ Outside PROVE TypeOK'
<1>0. CASE Refuse
  BY <1>0 DEF Refuse, TypeOK, IsLocks, repoVars, worldVars
<1>1. CASE Crash
  BY <1>1, QuietEndTyped DEF Crash
<1>2. CASE MoveTag
  <2>1. PICK b \in Bindings :
          /\ upstream' = [upstream EXCEPT ![<<b[1], b[2]>>] = b[3]]
          /\ published' = published \cup {b}
    BY <1>2 DEF MoveTag
  <2>2. b \in Repos \X Tags \X Shas /\ b[3] \in Shas
    BY BoundsAssumption
  <2>3. upstream' \in [Repos \X Tags -> Shas \cup {None}]
    BY <2>1, <2>2 DEF TypeOK
  <2> QED
    BY <1>2, <2>1, <2>2, <2>3 DEF MoveTag, TypeOK, IsLocks, repoVars, runVars
<1>3. CASE RetireTag
  BY <1>3 DEF RetireTag, TypeOK, IsLocks, repoVars, runVars
<1>4. CASE GrowOld
  BY <1>4 DEF GrowOld, TypeOK, IsLocks, repoVars, runVars
<1>5. CASE EditUse
  BY <1>5, BoundsAssumption DEF EditUse, TypeOK, IsLocks, runVars, worldVars
<1>6. CASE EditVendor
  BY <1>6 DEF EditVendor, TypeOK, IsLocks, Content, runVars, worldVars
<1>7. CASE RemoveTorn
  BY <1>7, NoLocksFacts DEF RemoveTorn, TypeOK, IsLocks, runVars, worldVars
<1> QED
  BY <1>0, <1>1, <1>2, <1>3, <1>4, <1>5, <1>6, <1>7 DEF Outside

(* Every step keeps the types.                                               *)
LEMMA NextTyped == TypeOK /\ [Next]_vars => TypeOK'
<1> SUFFICES ASSUME TypeOK, [Next]_vars PROVE TypeOK'
  OBVIOUS
<1>1. CASE Refuse \/ Outside
  BY <1>1, OutsideTyped
<1>2. CASE \E i \in Invocations : Begin(i)
  BY <1>2, BeginTyped
<1>3. CASE \E k \in Keys : Lock(k) \/ Update(k) \/ Vendor(k)
  BY <1>3, LockTyped, UpdateTyped, VendorTyped
<1>4. CASE LockSave \/ UpdateApply \/ UpdateSave \/ VendorSave \/ Write
  BY <1>4, SaveTyped
<1>5. CASE UNCHANGED vars
  BY <1>5 DEF vars, repoVars, worldVars, runVars, TypeOK, IsLocks
<1> QED
  BY <1>1, <1>2, <1>3, <1>4, <1>5 DEF Next, Step

(* Every variable always holds a value of its kind: whatever fails, crashes  *)
(* or moves upstream, a readable lockfile is a table of well-formed entries. *)
THEOREM TypeCorrect == Spec => []TypeOK
  BY InitTyped, NextTyped, PTL DEF Spec

=============================================================================
