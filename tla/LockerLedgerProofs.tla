--------------------------- MODULE LockerLedgerProofs ---------------------------
(* How the pins may change from one state to the next, for every value of    *)
(* the constants.  The file is written from the invocation's copy, so the    *)
(* argument is about that copy: while it is open it has an entry for every   *)
(* key of the file, and, unless the command may move pins, the same pins.    *)
EXTENDS LockerProofs

(* A phase belongs to one command.                                           *)
Commands == /\ pc = "lock" => inv.cmd = "lock"
            /\ pc \in {"check", "apply"} => inv.cmd = "update"
            /\ pc = "apply" => inv.apply
            /\ pc \in {"vendor", "copy"} => inv.cmd = "vendor"

MayMove == \/ inv.cmd = "update" /\ inv.apply
           \/ inv.cmd = "lock" /\ inv.force

SamePins == \A k \in DOMAIN lockfile : mem[k].resolved = lockfile[k].resolved

CopyFollowsFile == pc \notin {"idle", "save"} =>
    /\ lockfile # Torn
    /\ DOMAIN lockfile \subseteq DOMAIN mem
    /\ MayMove \/ SamePins

(* An unforced lock asks only about keys it has no entry for.                *)
AsksForNew == pc = "lock" /\ ~inv.force => DOMAIN latest \cap DOMAIN mem = {}

LedgerInv == /\ Commands
             /\ pc = "save" => lockfile = Torn
             /\ CopyFollowsFile
             /\ AsksForNew

-----------------------------------------------------------------------------
(* Steps that leave the invocation and the file alone keep the invariant.    *)
LEMMA StillLedger ==
    ASSUME LedgerInv, UNCHANGED <<pc, inv, mem, latest, lockfile>>
    PROVE  LedgerInv'
  BY DEF LedgerInv, Commands, MayMove, SamePins, CopyFollowsFile, AsksForNew

(* A step that ends the invocation keeps the invariant.                      *)
LEMMA IdleLedger == ASSUME pc' = "idle" PROVE LedgerInv'
  BY DEF LedgerInv, Commands, CopyFollowsFile, AsksForNew

(* So does one that opens the file for writing.                              *)
LEMMA SavingLedger == ASSUME pc' = "save", lockfile' = Torn PROVE LedgerInv'
  BY DEF LedgerInv, Commands, CopyFollowsFile, AsksForNew

(* lock adds entries, and replaces them only under --force.                  *)
LEMMA LockLedger ==
    ASSUME TypeOK, LedgerInv, NEW k \in Keys, Lock(k)
    PROVE  LedgerInv'
<1>0. pc = "lock" /\ UNCHANGED <<pc, inv, lockfile>>
  BY DEF Lock, LockSkip, LockResolve, LockPin, LockRefuse, repoVars
<1>1. CASE LockSkip(k)
  BY <1>1, StillLedger DEF LockSkip, repoVars
<1>2. CASE LockResolve(k)
  <2>1. PICK sha \in Resolved(k) :
          latest' = latest \/ latest' = Put(latest, k, sha)
    BY <1>2 DEF LockResolve
  <2>2. mem' = mem /\ (~inv.force => k \notin DOMAIN mem)
    BY <1>2 DEF LockResolve, LockSkips
  <2>3. DOMAIN latest' \subseteq DOMAIN latest \cup {k}
    BY <2>1 DEF Put
  <2> QED
    BY <1>0, <2>2, <2>3
    DEF LedgerInv, Commands, MayMove, SamePins, CopyFollowsFile, AsksForNew
<1>3. CASE LockPin(k)
  <2>1. PICK e : mem' = Put(mem, k, e)
    BY <1>3 DEF LockPin
  <2>2. k \in DOMAIN latest /\ latest' = Drop(latest, k)
    BY <1>3 DEF LockPin
  <2>3. /\ DOMAIN mem' = DOMAIN mem \cup {k}
        /\ \A j \in DOMAIN mem : j # k => mem'[j] = mem[j]
    BY <2>1 DEF Put
  <2>4. DOMAIN latest' = DOMAIN latest \ {k}
    BY <2>2, DropFacts
  <2>5. ~inv.force => k \notin DOMAIN mem
    BY <1>0, <2>2 DEF LedgerInv, AsksForNew
  <2>6. AsksForNew'
    BY <1>0, <2>3, <2>4 DEF LedgerInv, AsksForNew
  <2>7. CopyFollowsFile'
    BY <1>0, <2>3, <2>5
    DEF LedgerInv, Commands, CopyFollowsFile, MayMove, SamePins
  <2> QED
    BY <1>0, <2>6, <2>7 DEF LedgerInv, Commands
<1>4. CASE LockRefuse(k)
  <2>1. mem' = mem /\ DOMAIN latest' = DOMAIN latest \ {k}
    BY <1>4, DropFacts DEF LockRefuse
  <2> QED
    BY <1>0, <2>1
    DEF LedgerInv, Commands, MayMove, SamePins, CopyFollowsFile, AsksForNew
<1> QED
  BY <1>1, <1>2, <1>3, <1>4 DEF Lock

(* update replaces entries only under --apply.                               *)
LEMMA UpdateLedger ==
    ASSUME TypeOK, LedgerInv, NEW k \in Keys, Update(k)
    PROVE  LedgerInv'
<1>0. pc \in {"check", "apply"} /\ UNCHANGED <<pc, inv, lockfile>>
  BY DEF Update, UpdateCheck, UpdateMove, UpdateKeep, repoVars
<1>1. CASE UpdateCheck(k) \/ UpdateKeep(k)
  <2>1. mem' = mem
    BY <1>1 DEF UpdateCheck, UpdateKeep
  <2> QED
    BY <1>0, <2>1
    DEF LedgerInv, Commands, MayMove, SamePins, CopyFollowsFile, AsksForNew
<1>2. CASE UpdateMove(k)
  <2>1. PICK e : mem' = Put(mem, k, e)
    BY <1>2 DEF UpdateMove
  <2>2. DOMAIN mem' = DOMAIN mem \cup {k}
    BY <2>1 DEF Put
  <2>3. MayMove
    BY <1>2 DEF UpdateMove, LedgerInv, Commands, MayMove
  <2> QED
    BY <1>0, <2>2, <2>3
    DEF LedgerInv, Commands, MayMove, CopyFollowsFile, AsksForNew
<1> QED
  BY <1>1, <1>2 DEF Update

(* vendor changes the hash of an entry and keeps its pin.                    *)
LEMMA VendorLedger ==
    ASSUME TypeOK, LedgerInv, NEW k \in Keys, Vendor(k)
    PROVE  LedgerInv'
<1>0. /\ pc \in {"vendor", "copy"} /\ pc' \in {"vendor", "copy"}
      /\ UNCHANGED <<inv, lockfile>>
  BY DEF Vendor, VendorSkip, VendorFail, VendorCopy, VendorRecord, VendorBreak,
     repoVars
<1>1. CASE mem' = mem
  BY <1>0, <1>1
  DEF LedgerInv, Commands, MayMove, SamePins, CopyFollowsFile, AsksForNew
<1>2. CASE VendorRecord(k)
  <2>1. k \in DOMAIN mem /\ mem[k] \in Entry
    BY <1>2 DEF VendorRecord, First, TypeOK, IsLocks
  <2>2. PICK h : mem' = Put(mem, k, [mem[k] EXCEPT !.integrity = h])
    BY <1>2 DEF VendorRecord
  <2> DEFINE e == [mem[k] EXCEPT !.integrity = h]
  <2>3. e.resolved = mem[k].resolved
    BY <2>1 DEF Entry
  <2> HIDE DEF e
  <2>4. mem' = Put(mem, k, e)
    BY <2>2 DEF e
  <2>5. /\ DOMAIN mem' = DOMAIN mem \cup {k}
        /\ mem'[k] = e
        /\ \A j \in DOMAIN mem : j # k => mem'[j] = mem[j]
    BY <2>4 DEF Put
  <2>6. \A j \in DOMAIN mem : mem'[j].resolved = mem[j].resolved
    BY <2>3, <2>5
  <2> QED
    BY <1>0, <2>5, <2>6
    DEF LedgerInv, Commands, MayMove, SamePins, CopyFollowsFile, AsksForNew
<1> QED
  BY <1>1, <1>2 DEF Vendor, VendorSkip, VendorFail, VendorCopy, VendorBreak

(* A command starts from a copy of the file.                                 *)
LEMMA BeginLedger ==
    ASSUME TypeOK, LedgerInv, NEW i \in Invocations, Begin(i)
    PROVE  LedgerInv'
<1>1. CASE NothingToDo(i) \/ Rewrite(i) \/ Verify(i)
  BY <1>1, StillLedger DEF NothingToDo, Rewrite, Verify, repoVars
<1>2. CASE StartLock(i) \/ StartUpdate(i) \/ StartVendor(i)
  <2>1. /\ mem' = lockfile /\ latest' = NoLocks /\ inv' = i
        /\ lockfile' = lockfile /\ lockfile # Torn
        /\ \/ pc' = "lock" /\ i.cmd = "lock"
           \/ pc' = "check" /\ i.cmd = "update"
           \/ pc' = "vendor" /\ i.cmd = "vendor"
    BY <1>2 DEF StartLock, StartUpdate, StartVendor, Load, repoVars
  <2> QED
    BY <2>1, NoLocksFacts
    DEF LedgerInv, Commands, MayMove, SamePins, CopyFollowsFile, AsksForNew
<1> QED
  BY <1>1, <1>2 DEF Begin

(* Every step keeps the invariant.                                           *)
LEMMA NextLedger ==
    ASSUME TypeOK, LedgerInv, [Next]_vars
    PROVE  LedgerInv'
<1>1. CASE Refuse \/ UNCHANGED vars
  BY <1>1, StillLedger DEF Refuse, vars, repoVars, runVars
<1>2. CASE \E i \in Invocations : Begin(i)
  BY <1>2, BeginLedger
<1>3. CASE \E k \in Keys : Lock(k) \/ Update(k) \/ Vendor(k)
  BY <1>3, LockLedger, UpdateLedger, VendorLedger
<1>4. CASE LockSave \/ UpdateSave \/ VendorSave \/ Write
  <2>1. pc' = "idle" \/ (pc' = "save" /\ lockfile' = Torn)
    BY <1>4 DEF LockSave, UpdateSave, VendorSave, Write, Truncate, Ends
  <2> QED
    BY <2>1, IdleLedger, SavingLedger
<1>5. CASE UpdateApply
  <2>1. CASE inv.apply /\ latest # NoLocks
    <3>1. pc = "check" /\ pc' = "apply" /\ UNCHANGED <<inv, mem, latest, lockfile>>
      BY <1>5, <2>1 DEF UpdateApply, repoVars
    <3> QED
      BY <2>1, <3>1
      DEF LedgerInv, Commands, MayMove, SamePins, CopyFollowsFile, AsksForNew
  <2>2. CASE ~(inv.apply /\ latest # NoLocks)
    BY <1>5, <2>2, IdleLedger DEF UpdateApply, Ends
  <2> QED
    BY <2>1, <2>2
<1>6. CASE Crash \/ RemoveTorn
  BY <1>6, IdleLedger DEF Crash, RemoveTorn, Ends, runVars
<1>7. CASE MoveTag \/ RetireTag \/ GrowOld \/ EditUse \/ EditVendor
  BY <1>7, StillLedger
  DEF MoveTag, RetireTag, GrowOld, EditUse, EditVendor, repoVars, runVars
<1> QED
  BY <1>1, <1>2, <1>3, <1>4, <1>5, <1>6, <1>7 DEF Next, Step, Outside

(* While an invocation runs its copy has every key of the file, and the same *)
(* pins unless the command may move them.                                    *)
THEOREM LedgerInvHolds == Spec => []LedgerInv
<1>1. Init => LedgerInv
  BY IdleLedger DEF Init, LedgerInv, Commands, CopyFollowsFile, AsksForNew
<1>2. TypeOK /\ LedgerInv /\ [Next]_vars => LedgerInv'
  BY NextLedger
<1> QED
  BY <1>1, <1>2, TypeCorrect, PTL DEF Spec

-----------------------------------------------------------------------------
(* What one step does to the file: nothing, or it opens it for writing,      *)
(* writes it, dies while writing it, or a developer clears its remains away. *)

Opens == \E m \in {mem, Refreshed(mem)} :
            pc \in {"lock", "apply", "vendor"} /\ Truncate(m)

LeavesFile == /\ lockfile' = lockfile
              /\ pc' = "save" <=> pc = "save"
              /\ pc = "save" => mem' = mem

(* Every step is one of these.                                               *)
LEMMA FileSteps ==
    ASSUME TypeOK, [Next]_vars
    PROVE  LeavesFile \/ Opens \/ Write \/ Crash \/ RemoveTorn
<1>1. CASE Refuse \/ UNCHANGED vars
  BY <1>1 DEF Refuse, vars, repoVars, runVars, LeavesFile
<1>2. CASE \E i \in Invocations : Begin(i)
  BY <1>2 DEF Begin, NothingToDo, StartLock, StartUpdate, StartVendor, Rewrite,
     Verify, Load, repoVars, LeavesFile
<1>3. CASE \E k \in Keys : Lock(k) \/ Update(k) \/ Vendor(k)
  BY <1>3 DEF Lock, LockSkip, LockResolve, LockPin, LockRefuse, Update,
     UpdateCheck, UpdateMove, UpdateKeep, Vendor, VendorSkip, VendorFail,
     VendorCopy, VendorRecord, VendorBreak, repoVars, LeavesFile
<1>4. CASE LockSave \/ UpdateApply \/ UpdateSave \/ VendorSave \/ Write
  BY <1>4 DEF LockSave, UpdateApply, UpdateSave, VendorSave, Ends, repoVars,
     LeavesFile, Opens
<1>5. CASE Outside
  BY <1>5 DEF Outside, MoveTag, RetireTag, GrowOld, EditUse, EditVendor,
     repoVars, runVars, LeavesFile
<1> QED
  BY <1>1, <1>2, <1>3, <1>4, <1>5 DEF Next, Step

(* What the copy pins is what will be read back.                             *)
LEMMA PinsFacts ==
    ASSUME NEW m
    PROVE  /\ DOMAIN PinsOf(m) = DOMAIN m
           /\ \A k \in DOMAIN m : PinsOf(m)[k] = m[k].resolved
  BY DEF PinsOf

(* Opening the file changes the pins only as the command may, and drops none.*)
LEMMA OpensLedger ==
    ASSUME TypeOK, LedgerInv, Opens
    PROVE  /\ DOMAIN Ledger \subseteq DOMAIN Ledger'
           /\ MayMove \/ \A k \in DOMAIN Ledger : Ledger'[k] = Ledger[k]
<1>1. PICK m \in {mem, Refreshed(mem)} :
        pc \in {"lock", "apply", "vendor"} /\ Truncate(m)
  BY DEF Opens
<1>2. /\ lockfile # Torn
      /\ DOMAIN lockfile \subseteq DOMAIN mem
      /\ MayMove \/ SamePins
  BY <1>1 DEF LedgerInv, CopyFollowsFile
<1>3. DOMAIN m = DOMAIN mem /\ \A k \in DOMAIN mem : m[k].resolved = mem[k].resolved
  BY <1>1, RefreshedFacts DEF TypeOK
<1>4. Ledger = PinsOf(lockfile)
  BY <1>2 DEF Ledger
<1>5. Ledger' = PinsOf(m)
  BY <1>1 DEF Ledger, Truncate
<1>6. DOMAIN Ledger = DOMAIN lockfile /\ DOMAIN Ledger' = DOMAIN mem
  BY <1>3, <1>4, <1>5, PinsFacts
<1>7. ASSUME SamePins, NEW k \in DOMAIN lockfile
      PROVE  Ledger'[k] = Ledger[k]
  <2>1. k \in DOMAIN m /\ m[k].resolved = lockfile[k].resolved
    BY <1>2, <1>3, <1>7 DEF SamePins
  <2>2. PinsOf(m)[k] = m[k].resolved /\ PinsOf(lockfile)[k] = lockfile[k].resolved
    BY <2>1, PinsFacts
  <2> QED
    BY <1>4, <1>5, <2>1, <2>2
<1> QED
  BY <1>2, <1>6, <1>7

(* A lockfile that was written whole is not a torn one.                      *)
LEMMA TornIsNoLockfile == ASSUME NEW m, IsLocks(m) PROVE m # Torn
<1>1. DOMAIN m \in SUBSET Keys /\ m \in [DOMAIN m -> Entry]
  BY DEF IsLocks
<1> QED
  BY <1>1, NamesAssumption

(* Every other step leaves the pins, or drops them with the file.            *)
LEMMA OthersLedger ==
    ASSUME TypeOK, LedgerInv, LeavesFile \/ Write \/ Crash \/ RemoveTorn
    PROVE  Ledger' = Ledger \/ (pc = "save" /\ lockfile' = Torn /\ Ledger' = NoLocks)
<1>1. CASE LeavesFile
  BY <1>1 DEF LeavesFile, Ledger
<1>2. CASE Write
  <2>1. pc = "save" /\ lockfile = Torn /\ lockfile' = mem /\ lockfile' # Torn
    BY <1>2, TornIsNoLockfile DEF Write, LedgerInv, TypeOK
  <2> QED
    BY <2>1 DEF Ledger
<1>3. CASE Crash
  <2>1. pc' = "idle" /\ lockfile' = lockfile
    BY <1>3 DEF Crash, Ends, repoVars
  <2>2. CASE pc = "save"
    BY <2>1, <2>2 DEF Ledger, LedgerInv
  <2>3. CASE pc # "save"
    BY <2>1, <2>3 DEF Ledger
  <2> QED
    BY <2>2, <2>3
<1>4. CASE RemoveTorn
  <2>1. PinsOf(NoLocks) = NoLocks
    BY DEF PinsOf, NoLocks
  <2>2. Ledger = NoLocks
    BY <1>4 DEF RemoveTorn, Ledger
  <2>3. Ledger' \in {NoLocks, PinsOf(NoLocks)}
    BY <1>4 DEF RemoveTorn, Ledger, runVars
  <2> QED
    BY <2>1, <2>2, <2>3
<1> QED
  BY <1>1, <1>2, <1>3, <1>4

(* A pin moves only under update --apply or lock --force: a re-lock, a       *)
(* vendor, a plain update and a crash never move one.                        *)
THEOREM NoSilentDriftHolds == Spec => NoSilentDrift
<1> DEFINE Moves == \A k \in DOMAIN Ledger \cap DOMAIN Ledger' :
                      Ledger'[k] # Ledger[k] => MayMove
<1>1. TypeOK /\ LedgerInv /\ [Next]_vars => Moves
  <2> SUFFICES ASSUME TypeOK, LedgerInv, [Next]_vars PROVE Moves
    OBVIOUS
  <2>1. CASE Opens
    BY <2>1, OpensLedger
  <2>2. CASE LeavesFile \/ Write \/ Crash \/ RemoveTorn
    BY <2>2, OthersLedger, NoLocksFacts
  <2> QED
    BY <2>1, <2>2, FileSteps
<1>2. Moves => \A k \in DOMAIN Ledger \cap DOMAIN Ledger' :
                  Ledger'[k] # Ledger[k] =>
                     \/ inv.cmd = "update" /\ inv.apply
                     \/ inv.cmd = "lock" /\ inv.force
  BY DEF MayMove
<1> HIDE DEF Moves
<1> QED
  BY <1>1, <1>2, TypeCorrect, LedgerInvHolds, PTL DEF Spec, NoSilentDrift

(* A pin is dropped only when the process dies between truncating the file   *)
(* and writing it, and then all of them are.                                 *)
THEOREM NoPinDroppedHolds == Spec => NoPinDropped
<1>1. TypeOK /\ LedgerInv /\ [Next]_vars =>
        \/ DOMAIN Ledger \subseteq DOMAIN Ledger'
        \/ pc = "save" /\ lockfile' = Torn
  <2> SUFFICES ASSUME TypeOK, LedgerInv, [Next]_vars
               PROVE  \/ DOMAIN Ledger \subseteq DOMAIN Ledger'
                      \/ pc = "save" /\ lockfile' = Torn
    OBVIOUS
  <2>1. CASE Opens
    BY <2>1, OpensLedger
  <2>2. CASE LeavesFile \/ Write \/ Crash \/ RemoveTorn
    BY <2>2, OthersLedger
  <2> QED
    BY <2>1, <2>2, FileSteps
<1> QED
  BY <1>1, TypeCorrect, LedgerInvHolds, PTL DEF Spec, NoPinDropped

-----------------------------------------------------------------------------
(* What update leaves alone.  While it asks, its copy is the file; while it  *)
(* applies, an entry it has not come to is still that of the file, so none   *)
(* moves twice and none comes back without its hash.                         *)

KeptOrForgotten(k) == IF mem[k].resolved = lockfile[k].resolved
                      THEN mem[k] = lockfile[k]
                      ELSE mem[k].integrity = None

UpdateInv ==
    /\ pc = "check" => mem = lockfile
    /\ pc = "apply" => /\ DOMAIN mem = DOMAIN lockfile
                       /\ \A k \in todo : mem[k] = lockfile[k]
                       /\ \A k \in DOMAIN mem : KeptOrForgotten(k)

LEMMA OtherPhases == ASSUME pc' \notin {"check", "apply"} PROVE UpdateInv'
  BY DEF UpdateInv

LEMMA StillUpdating ==
    ASSUME UpdateInv, UNCHANGED <<pc, mem, todo, lockfile>>
    PROVE  UpdateInv'
  BY DEF UpdateInv, KeptOrForgotten

(* The one step that changes the copy of an update.                          *)
LEMMA MoveForgets ==
    ASSUME TypeOK, UpdateInv, NEW k \in Keys, UpdateMove(k)
    PROVE  UpdateInv'
<1>1. /\ pc = "apply" /\ pc' = "apply" /\ lockfile' = lockfile
      /\ todo' = todo \ {k} /\ k \in todo
  BY DEF UpdateMove, First, repoVars
<1>2. PICK p : p.sha # mem[k].resolved /\ mem' = Put(mem, k, Moved(mem[k], p))
  BY DEF UpdateMove
<1>3. k \in DOMAIN mem /\ mem[k] \in Entry /\ mem[k] = lockfile[k]
  BY <1>1 DEF TypeOK, IsLocks, UpdateInv
<1>4. Moved(mem[k], p).resolved = p.sha /\ Moved(mem[k], p).integrity = None
  BY <1>3 DEF Moved, Entry
<1>5. /\ DOMAIN mem' = DOMAIN mem
      /\ mem'[k].resolved = p.sha /\ mem'[k].integrity = None
      /\ \A j \in DOMAIN mem : j # k => mem'[j] = mem[j]
  <2> DEFINE e == Moved(mem[k], p)
  <2> HIDE DEF e
  <2>1. /\ DOMAIN Put(mem, k, e) = DOMAIN mem \cup {k}
        /\ Put(mem, k, e)[k] = e
        /\ \A j \in DOMAIN mem : j # k => Put(mem, k, e)[j] = mem[j]
    BY DEF Put
  <2> QED BY <1>2, <1>3, <1>4, <2>1 DEF e
<1>6. todo \subseteq DOMAIN mem
  BY <1>1 DEF TypeOK
<1> QED BY <1>1, <1>2, <1>3, <1>5, <1>6 DEF UpdateInv, KeptOrForgotten

LEMMA NextUpdating ==
    ASSUME TypeOK, UpdateInv, [Next]_vars
    PROVE  UpdateInv'
<1>1. CASE Refuse \/ UNCHANGED vars
  BY <1>1, StillUpdating DEF Refuse, vars, repoVars, runVars
<1>2. CASE \E i \in Invocations : Begin(i)
  <2>1. PICK i \in Invocations : Begin(i)
    BY <1>2
  <2>2. CASE NothingToDo(i) \/ Rewrite(i) \/ Verify(i)
    BY <2>2, StillUpdating DEF NothingToDo, Rewrite, Verify, repoVars
  <2>3. CASE StartUpdate(i)
    BY <2>3 DEF StartUpdate, Load, repoVars, UpdateInv
  <2>4. CASE StartLock(i) \/ StartVendor(i)
    BY <2>4, OtherPhases DEF StartLock, StartVendor, Load
  <2> QED BY <2>1, <2>2, <2>3, <2>4 DEF Begin
<1>3. CASE \E k \in Keys : Lock(k) \/ Vendor(k)
  <2>1. pc' \in {"lock", "vendor", "copy"}
    BY <1>3 DEF Lock, LockSkip, LockResolve, LockPin, LockRefuse, Vendor, VendorSkip,
       VendorFail, VendorCopy, VendorRecord, VendorBreak
  <2> QED BY <2>1, OtherPhases
<1>4. CASE \E k \in Keys : Update(k)
  <2>1. PICK k \in Keys : Update(k)
    BY <1>4
  <2>2. CASE UpdateCheck(k) \/ UpdateKeep(k)
    BY <2>2 DEF UpdateCheck, UpdateKeep, repoVars, UpdateInv, KeptOrForgotten
  <2> QED BY <2>1, <2>2, MoveForgets DEF Update
<1>5. CASE LockSave \/ UpdateSave \/ VendorSave \/ Write \/ Crash
  <2>1. pc' \in {"idle", "save"}
    BY <1>5 DEF LockSave, UpdateSave, VendorSave, Write, Crash, Truncate, Ends
  <2> QED BY <2>1, OtherPhases
<1>6. CASE UpdateApply
  <2>1. CASE inv.apply /\ latest # NoLocks
    BY <1>6, <2>1 DEF UpdateApply, repoVars, UpdateInv, KeptOrForgotten, TypeOK
  <2>2. CASE ~(inv.apply /\ latest # NoLocks)
    BY <1>6, <2>2, OtherPhases DEF UpdateApply, Ends
  <2> QED BY <2>1, <2>2
<1>7. CASE RemoveTorn
  BY <1>7, OtherPhases DEF RemoveTorn, runVars
<1>8. CASE MoveTag \/ RetireTag \/ GrowOld \/ EditUse \/ EditVendor
  BY <1>8, StillUpdating
  DEF MoveTag, RetireTag, GrowOld, EditUse, EditVendor, repoVars, runVars
<1> QED
  BY <1>1, <1>2, <1>3, <1>4, <1>5, <1>6, <1>7, <1>8 DEF Next, Step, Outside

LEMMA UpdateInvHolds == Spec => []UpdateInv
<1>1. Init => UpdateInv
  BY DEF Init, UpdateInv
<1>2. TypeOK /\ UpdateInv /\ [Next]_vars => UpdateInv'
  BY NextUpdating
<1> QED
  BY <1>1, <1>2, TypeCorrect, PTL DEF Spec

(* update --apply forgets the hash of what it moves, and leaves every other  *)
(* entry as it was.                                                          *)
THEOREM UpdateTouchesOnlyMovedHolds == Spec => []UpdateTouchesOnlyMoved
<1>1. UpdateInv => UpdateTouchesOnlyMoved
  BY DEF UpdateInv, UpdateTouchesOnlyMoved, KeptOrForgotten
<1> QED
  BY <1>1, UpdateInvHolds, PTL
===============================================================================
