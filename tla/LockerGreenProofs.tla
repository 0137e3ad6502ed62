--------------------------- MODULE LockerGreenProofs ---------------------------
(* What a clean lock and a clean rewrite achieve, for every value of the     *)
(* constants.  The file says nothing while it is torn and the run is what    *)
(* writes it, so the invariant follows the invocation's copy: a lock has     *)
(* settled every use it has passed unless it counted a failure, an unforced  *)
(* lock and a vendor only ever extend what they loaded, and an entry filed   *)
(* under a commit pins that commit.                                          *)
EXTENDS LockerLedgerProofs

SelfPinned(m) == \A k \in DOMAIN m : Ref(k) \in Shas => m[k].resolved = Ref(k)

CommitsPinned == /\ SelfPinned(mem)
                 /\ lockfile # Torn => SelfPinned(lockfile)

(* A lookup of a commit is that commit; update looks up only tags.           *)
LooksUp ==
    /\ pc = "lock" => \A k \in DOMAIN latest : Ref(k) \in Shas => latest[k] = Ref(k)
    /\ pc \in {"check", "apply"} => \A k \in todo \cup DOMAIN latest : Ref(k) \notin Shas

(* The commands that leave the pins they find.                               *)
Keeping == pc # "idle" /\ \/ inv.cmd = "vendor"
                          \/ inv.cmd = "lock" /\ ~inv.force

LockSettles ==
    pc \in {"lock", "save"} /\ inv.cmd = "lock" /\ ~inv.force /\ ~failed =>
        \A k \in UsedKeys \ todo : Settled(k, mem)

CopyStaysGreen == Keeping => /\ stage # "edited" => Covers(mem)
                             /\ stage = "pinned" => RefsVerify(mem)

GreenInv == /\ CommitsPinned
            /\ LooksUp
            /\ LockSettles
            /\ pc = "save" => todo = {}
            /\ CopyStaysGreen
            /\ GreenAfterRewrite

-----------------------------------------------------------------------------
(* Extending a lockfile, with every pin kept, keeps what it settles.         *)
Extends(m, n) == /\ DOMAIN m \subseteq DOMAIN n
                 /\ \A k \in DOMAIN m : n[k].resolved = m[k].resolved

(* What one lockfile settles, its extension settles, for the same workflows. *)
LEMMA ExtendsSettles ==
    ASSUME NEW m, NEW n, Extends(m, n)
    PROVE  /\ \A k : Settled(k, m) => Settled(k, n)
           /\ Covers(m) => Covers(n)
           /\ RefsVerify(m) => RefsVerify(n)
<1>1. ASSUME NEW k, Pins(m, k) PROVE Pins(n, k)
  BY <1>1 DEF Pins, Extends
<1>2. \A k : Settled(k, m) => Settled(k, n)
  BY <1>1 DEF Settled, Extends
<1> QED
  BY <1>1, <1>2 DEF Covers, RefsVerify

(* So the parts that speak of the copy survive its extension.                *)
LEMMA ExtendsGreen ==
    ASSUME Extends(mem, mem'), UNCHANGED <<uses, stage>>
    PROVE  /\ \A k \in UsedKeys : Settled(k, mem) => Settled(k, mem')
           /\ Covers(mem) => Covers(mem)'
           /\ RefsVerify(mem) => RefsVerify(mem)'
<1>1. UsedKeys' = UsedKeys
  BY DEF UsedKeys
<1>2. /\ \A k : Settled(k, mem) => Settled(k, mem')
      /\ Covers(mem) => Covers(mem')
      /\ RefsVerify(mem) => RefsVerify(mem')
  BY ExtendsSettles
<1> QED
  BY <1>1, <1>2 DEF Covers, RefsVerify, Settled, Pins

(* Putting in a new key, or the same pin again, extends.                     *)
LEMMA PutExtends ==
    ASSUME NEW m, NEW k, NEW e, k \in DOMAIN m => e.resolved = m[k].resolved
    PROVE  Extends(m, Put(m, k, e))
  BY DEF Extends, Put

(* Putting in an entry that pins its own commit keeps commits pinned.        *)
LEMMA PutSelfPinned ==
    ASSUME NEW m, SelfPinned(m), NEW k, NEW e, Ref(k) \in Shas => e.resolved = Ref(k)
    PROVE  SelfPinned(Put(m, k, e))
<1> SUFFICES ASSUME NEW j \in DOMAIN Put(m, k, e), Ref(j) \in Shas
             PROVE  Put(m, k, e)[j].resolved = Ref(j)
  BY Zenon DEF SelfPinned
<1>1. CASE j = k /\ Put(m, k, e)[j] = e
  BY <1>1
<1>2. CASE j \in DOMAIN m /\ Put(m, k, e)[j] = m[j]
  BY <1>2 DEF SelfPinned
<1> QED
  BY <1>1, <1>2, PutEntries

(* Refreshing locations extends a lockfile and keeps its commits pinned.     *)
LEMMA RefreshedGreen ==
    ASSUME NEW m, IsLocks(m)
    PROVE  Extends(m, Refreshed(m)) /\ (SelfPinned(m) => SelfPinned(Refreshed(m)))
  BY RefreshedFacts DEF Extends, SelfPinned

(* A step the invariant does not see keeps it.                               *)
LEMMA StillGreen ==
    ASSUME GreenInv, UNCHANGED <<uses, lockfile, pc, inv, mem, todo, latest, failed, stage>>
    PROVE  GreenInv'
<1>1. CommitsPinned' /\ LooksUp' /\ (pc = "save" => todo = {})'
  BY DEF GreenInv, CommitsPinned, LooksUp, SelfPinned
<1>2. LockSettles' /\ CopyStaysGreen' /\ GreenAfterRewrite'
  BY DEF GreenInv, LockSettles, CopyStaysGreen, Keeping, GreenAfterRewrite,
     Covers, RefsVerify, Settled, Pins, UsedKeys
<1> QED
  BY <1>1, <1>2 DEF GreenInv

(* What the file settles is untouched by a step that keeps the file, the     *)
(* workflows and the stage.                                                  *)
LEMMA FileStaysGreen ==
    ASSUME GreenInv, UNCHANGED <<uses, lockfile, stage>>
    PROVE  GreenAfterRewrite' /\ (lockfile # Torn => SelfPinned(lockfile))'
  BY DEF GreenInv, CommitsPinned, SelfPinned, GreenAfterRewrite, Covers,
     RefsVerify, Settled, Pins, UsedKeys

-----------------------------------------------------------------------------
(* A key a lock passes over is settled, and so is one it pins.               *)
LEMMA SkippedSettled ==
    ASSUME GreenInv, NEW k \in Keys, LockSkips(k), ~inv.force
    PROVE  Settled(k, mem)
<1>1. CASE Ref(k) \in Shas /\ k \in DOMAIN mem
  BY <1>1 DEF GreenInv, CommitsPinned, SelfPinned, Settled, Pins
<1>2. CASE Ref(k) \in Shas /\ Covered(k)
  BY <1>2 DEF Covered, Settled, Pins
<1>3. CASE Ref(k) \notin Shas
  BY <1>3 DEF LockSkips, Settled
<1> QED
  BY <1>1, <1>2, <1>3 DEF LockSkips

(* A key is settled by an entry of its own.                                  *)
LEMMA PutSettles ==
    ASSUME NEW m, NEW k, NEW e, Ref(k) \in Shas => e.resolved = Ref(k)
    PROVE  Settled(k, Put(m, k, e))
<1>1. k \in DOMAIN Put(m, k, e) /\ Put(m, k, e)[k] = e
  BY DEF Put
<1> QED
  BY <1>1 DEF Settled, Pins

(* The quarantine never replaces a commit a workflow names outright.         *)
LEMMA CommitsStay ==
    ASSUME TypeOK, NEW k \in Keys, Ref(k) \in Shas, NEW sha \in Shas,
           NEW walk \in BOOLEAN, NEW clear \in SUBSET aged,
           NEW p \in Targets(k, sha, walk, clear)
    PROVE  p.sha = sha
<1>1. Ref(k) \notin Tags
  BY NamesAssumption
<1> QED
  BY <1>1 DEF Targets, Aged

(* Pinning a key settles it and keeps what was settled.                      *)
LEMMA PinnedGreen ==
    ASSUME TypeOK, LedgerInv, GreenInv, NEW k \in Keys, LockPin(k)
    PROVE  GreenInv'
<1>0. /\ pc = "lock" /\ pc' = "lock" /\ inv.cmd = "lock"
      /\ UNCHANGED <<uses, lockfile, inv, stage, failed>>
      /\ todo' = todo \ {k} /\ k \in DOMAIN latest /\ latest' = Drop(latest, k)
  BY DEF LockPin, repoVars, LedgerInv, Commands
<1>1. GreenAfterRewrite' /\ (lockfile # Torn => SelfPinned(lockfile))'
  BY <1>0, FileStaysGreen
<1>2. PICK walk \in BOOLEAN, clear \in SUBSET aged :
        \E p \in Targets(k, latest[k], walk, clear) : mem' = Put(mem, k, NewEntry(k, p))
  BY DEF LockPin
<1>3. PICK p \in Targets(k, latest[k], walk, clear) : mem' = Put(mem, k, NewEntry(k, p))
  BY <1>2
<1> DEFINE e == NewEntry(k, p)
<1>4. Ref(k) \in Shas => e.resolved = Ref(k)
  <2>1. latest[k] \in Shas
    BY <1>0 DEF TypeOK
  <2>2. Ref(k) \in Shas => latest[k] = Ref(k)
    BY <1>0 DEF GreenInv, LooksUp
  <2>3. e.resolved = p.sha
    BY DEF NewEntry
  <2> QED
    BY <2>1, <2>2, <2>3, CommitsStay
<1> HIDE DEF e
<1>5. mem' = Put(mem, k, e)
  BY <1>3 DEF e
<1>6. SelfPinned(mem')
  BY <1>4, <1>5, PutSelfPinned DEF GreenInv, CommitsPinned
<1>7. LooksUp'
  <2>1. /\ DOMAIN latest' = DOMAIN latest \ {k}
        /\ \A j \in DOMAIN latest' : latest'[j] = latest[j]
    BY <1>0, DropFacts
  <2> QED
    BY <1>0, <2>1 DEF GreenInv, LooksUp
<1>8. ~inv.force => Extends(mem, mem')
  <2>1. ~inv.force => k \notin DOMAIN mem
    BY <1>0 DEF LedgerInv, AsksForNew
  <2> QED
    BY <1>5, <2>1, PutExtends
<1>9. CopyStaysGreen'
  BY <1>0, <1>8, ExtendsGreen DEF GreenInv, CopyStaysGreen, Keeping
<1>10. LockSettles'
  <2> SUFFICES ASSUME ~inv.force, ~failed, NEW j \in UsedKeys \ (todo \ {k})
               PROVE  Settled(j, mem')
    BY <1>0 DEF LockSettles, UsedKeys, Settled, Pins
  <2>1. CASE j = k
    BY <1>4, <1>5, <2>1, PutSettles
  <2>2. CASE j # k
    <3>1. Settled(j, mem)
      BY <1>0, <2>2 DEF GreenInv, LockSettles
    <3> QED
      BY <1>0, <1>8, <3>1, ExtendsSettles
  <2> QED
    BY <2>1, <2>2
<1> QED
  BY <1>0, <1>1, <1>6, <1>7, <1>9, <1>10 DEF GreenInv, CommitsPinned, SelfPinned

(* A step of lock keeps the invariant.                                       *)
LEMMA LockGreen ==
    ASSUME TypeOK, LedgerInv, GreenInv, NEW k \in Keys, Lock(k)
    PROVE  GreenInv'
<1>0. /\ pc = "lock" /\ pc' = "lock" /\ inv.cmd = "lock"
      /\ UNCHANGED <<uses, lockfile, inv, stage>>
  BY DEF Lock, LockSkip, LockResolve, LockPin, LockRefuse, repoVars, LedgerInv,
     Commands
<1>1. GreenAfterRewrite' /\ (lockfile # Torn => SelfPinned(lockfile))'
  BY <1>0, FileStaysGreen
<1>2. UsedKeys' = UsedKeys
  BY <1>0 DEF UsedKeys
<1>3. CASE mem' = mem
  <2>1. CommitsPinned' /\ CopyStaysGreen'
    BY <1>0, <1>1, <1>2, <1>3
    DEF GreenInv, CommitsPinned, SelfPinned, CopyStaysGreen, Keeping, Covers,
        RefsVerify, Settled, Pins
  <2>2. CASE LockSkip(k)
    <3>1. todo' = todo \ {k} /\ failed' = failed /\ latest' = latest
      BY <2>2 DEF LockSkip
    <3>2. ~inv.force => Settled(k, mem)
      BY <2>2, SkippedSettled DEF LockSkip
    <3>3. LockSettles'
      BY <1>0, <1>2, <1>3, <3>1, <3>2 DEF GreenInv, LockSettles, Settled, Pins
    <3> QED
      BY <1>0, <1>1, <2>1, <3>1, <3>3 DEF GreenInv, LooksUp
  <2>3. CASE LockResolve(k)
    <3>1. PICK sha \in Resolved(k) :
            IF sha = None
            THEN todo' = todo \ {k} /\ failed' = TRUE /\ latest' = latest
            ELSE latest' = Put(latest, k, sha) /\ todo' = todo /\ failed' = failed
      BY <2>3 DEF LockResolve
    <3>2. LockSettles'
      BY <1>0, <1>2, <1>3, <3>1 DEF GreenInv, LockSettles, Settled, Pins
    <3>3. LooksUp'
      <4>1. CASE latest' = latest
        BY <1>0, <4>1 DEF GreenInv, LooksUp
      <4>2. CASE latest' = Put(latest, k, sha)
        <5>1. Ref(k) \in Shas => sha = Ref(k)
          BY DEF Resolved
        <5>2. ASSUME NEW j \in DOMAIN Put(latest, k, sha), Ref(j) \in Shas
              PROVE  Put(latest, k, sha)[j] = Ref(j)
          BY <1>0, <5>1, <5>2, PutEntries DEF GreenInv, LooksUp
        <5>3. \A j \in DOMAIN latest' : Ref(j) \in Shas => latest'[j] = Ref(j)
          BY <4>2, <5>2, Zenon
        <5> QED
          BY <1>0, <5>3 DEF LooksUp
      <4> QED
        BY <3>1, <4>1, <4>2
    <3> QED
      BY <1>0, <1>1, <2>1, <3>2, <3>3 DEF GreenInv
  <2>4. CASE LockRefuse(k)
    <3>1. failed' = TRUE /\ latest' = Drop(latest, k)
      BY <2>4 DEF LockRefuse
    <3>2. LooksUp'
      <4>1. /\ DOMAIN latest' = DOMAIN latest \ {k}
            /\ \A j \in DOMAIN latest' : latest'[j] = latest[j]
        BY <3>1, DropFacts
      <4> QED
        BY <1>0, <4>1 DEF GreenInv, LooksUp
    <3> QED
      BY <1>0, <1>1, <2>1, <3>1, <3>2 DEF GreenInv, LockSettles
  <2>5. CASE LockPin(k)
    BY <2>5, PinnedGreen
  <2> QED
    BY <2>2, <2>3, <2>4, <2>5 DEF Lock
<1>4. CASE LockPin(k)
  BY <1>4, PinnedGreen
<1> QED
  BY <1>3, <1>4 DEF Lock, LockSkip, LockResolve, LockRefuse

-----------------------------------------------------------------------------
(* update moves entries of tags only, and promises nothing else.             *)
LEMMA UpdateGreen ==
    ASSUME TypeOK, LedgerInv, GreenInv, NEW k \in Keys, Update(k)
    PROVE  GreenInv'
<1>0. /\ pc \in {"check", "apply"} /\ pc' = pc /\ inv.cmd = "update"
      /\ UNCHANGED <<uses, lockfile, inv, stage>>
      /\ k \in todo /\ todo' = todo \ {k}
  BY DEF Update, UpdateCheck, UpdateMove, UpdateKeep, First, repoVars, LedgerInv,
     Commands
<1>1. GreenAfterRewrite' /\ (lockfile # Torn => SelfPinned(lockfile))'
  BY <1>0, FileStaysGreen
<1>2. LockSettles' /\ CopyStaysGreen' /\ (pc = "save" => todo = {})'
  BY <1>0 DEF LockSettles, CopyStaysGreen, Keeping
<1>3. Ref(k) \notin Shas
  BY <1>0 DEF GreenInv, LooksUp
<1>4. LooksUp'
  <2>1. DOMAIN latest' \subseteq DOMAIN latest \cup {k}
    BY DEF Update, UpdateCheck, UpdateMove, UpdateKeep, Put
  <2> QED
    BY <1>0, <1>3, <2>1 DEF GreenInv, LooksUp
<1>5. SelfPinned(mem')
  <2>1. CASE mem' = mem
    BY <2>1 DEF GreenInv, CommitsPinned
  <2>2. CASE UpdateMove(k)
    <3>1. PICK e : mem' = Put(mem, k, e)
      BY <2>2 DEF UpdateMove
    <3> QED
      BY <1>3, <3>1, PutSelfPinned DEF GreenInv, CommitsPinned
  <2> QED
    BY <2>1, <2>2 DEF Update, UpdateCheck, UpdateKeep
<1> QED
  BY <1>1, <1>2, <1>4, <1>5 DEF GreenInv, CommitsPinned, SelfPinned

(* vendor changes hashes, never pins.                                        *)
LEMMA VendorGreen ==
    ASSUME TypeOK, LedgerInv, GreenInv, NEW k \in Keys, Vendor(k)
    PROVE  GreenInv'
<1>0. /\ pc \in {"vendor", "copy"} /\ pc' \in {"vendor", "copy"}
      /\ inv.cmd = "vendor"
      /\ UNCHANGED <<uses, lockfile, inv, stage>>
  BY DEF Vendor, VendorSkip, VendorFail, VendorCopy, VendorRecord, VendorBreak,
     repoVars, LedgerInv, Commands
<1>1. GreenAfterRewrite' /\ (lockfile # Torn => SelfPinned(lockfile))'
  BY <1>0, FileStaysGreen
<1>2. LooksUp' /\ LockSettles' /\ (pc = "save" => todo = {})'
  BY <1>0 DEF LooksUp, LockSettles
<1>3. Extends(mem, mem') /\ SelfPinned(mem')
  <2>1. CASE mem' = mem
    BY <2>1 DEF Extends, GreenInv, CommitsPinned
  <2>2. CASE VendorRecord(k)
    <3>1. k \in DOMAIN mem /\ mem[k] \in Entry
      BY <2>2 DEF VendorRecord, First, TypeOK, IsLocks
    <3>2. PICK h : mem' = Put(mem, k, [mem[k] EXCEPT !.integrity = h])
      BY <2>2 DEF VendorRecord
    <3> DEFINE e == [mem[k] EXCEPT !.integrity = h]
    <3>3. e.resolved = mem[k].resolved
      BY <3>1 DEF Entry
    <3> HIDE DEF e
    <3>4. mem' = Put(mem, k, e)
      BY <3>2 DEF e
    <3>5. Ref(k) \in Shas => e.resolved = Ref(k)
      BY <3>1, <3>3 DEF GreenInv, CommitsPinned, SelfPinned
    <3> QED
      BY <3>3, <3>4, <3>5, PutExtends, PutSelfPinned DEF GreenInv, CommitsPinned
  <2> QED
    BY <2>1, <2>2 DEF Vendor, VendorSkip, VendorFail, VendorCopy, VendorBreak
<1>4. CopyStaysGreen'
  BY <1>0, <1>3, ExtendsGreen DEF GreenInv, CopyStaysGreen, Keeping
<1> QED
  BY <1>1, <1>2, <1>3, <1>4 DEF GreenInv, CommitsPinned, SelfPinned

(* An invocation that ends without a word leaves what the file settles.      *)
LEMMA EndsGreen ==
    ASSUME GreenInv, NEW code, Ends(code), UNCHANGED <<uses, lockfile, stage>>
    PROVE  GreenInv'
<1>1. GreenAfterRewrite' /\ (lockfile # Torn => SelfPinned(lockfile))'
  BY FileStaysGreen
<1>2. SelfPinned(mem)'
  BY NoLocksFacts DEF Ends, SelfPinned
<1> QED
  BY <1>1, <1>2 DEF Ends, GreenInv, CommitsPinned, LooksUp, LockSettles,
     CopyStaysGreen, Keeping

(* Opening the file for writing: the copy must be ready for it.              *)
LEMMA TruncateGreen ==
    ASSUME TypeOK, GreenInv, NEW m, Extends(mem, m), SelfPinned(m), todo = {},
           pc = "lock" \/ ~Keeping \/ inv.cmd = "vendor", pc # "idle",
           inv.cmd = "lock" => pc = "lock",
           Truncate(m), UNCHANGED stage
    PROVE  GreenInv'
<1>0. /\ lockfile' = Torn /\ mem' = m /\ pc' = "save"
      /\ UNCHANGED <<uses, inv, todo, latest, failed, stage>>
  BY DEF Truncate
<1>1. CommitsPinned' /\ LooksUp' /\ (pc = "save" => todo = {})' /\ GreenAfterRewrite'
  BY <1>0 DEF CommitsPinned, SelfPinned, LooksUp, GreenAfterRewrite
<1>2. Extends(mem, mem')
  BY <1>0
<1>3. CopyStaysGreen'
  BY <1>0, <1>2, ExtendsGreen DEF GreenInv, CopyStaysGreen, Keeping
<1>4. LockSettles'
  <2>1. UsedKeys' = UsedKeys
    BY <1>0 DEF UsedKeys
  <2> SUFFICES ASSUME inv.cmd = "lock", ~inv.force, ~failed, NEW k \in UsedKeys
               PROVE  Settled(k, mem')
    BY <1>0, <2>1 DEF LockSettles, Settled, Pins
  <2>2. Settled(k, mem)
    BY DEF GreenInv, LockSettles
  <2> QED
    BY <1>2, <2>2, ExtendsSettles
<1> QED
  BY <1>1, <1>3, <1>4 DEF GreenInv

(* Writing the file: what the copy settles, the file settles.                *)
LEMMA WriteGreen ==
    ASSUME TypeOK, GreenInv, Write
    PROVE  GreenInv'
<1>0. /\ pc = "save" /\ pc' = "idle" /\ todo = {}
      /\ lockfile' = mem /\ mem' = NoLocks /\ UNCHANGED uses
  BY DEF Write, Ends, GreenInv
<1>1. UsedKeys' = UsedKeys
  BY <1>0 DEF UsedKeys
<1>2. SelfPinned(mem)' /\ SelfPinned(lockfile)'
  BY <1>0, NoLocksFacts DEF GreenInv, CommitsPinned, SelfPinned
<1>3. /\ stage' # "edited" => Covers(mem)
      /\ stage' = "pinned" => RefsVerify(mem)
  <2>1. CASE Keeping /\ stage' = stage
    BY <2>1 DEF GreenInv, CopyStaysGreen
  <2>2. CASE inv.cmd = "lock" /\ ~inv.force /\ ~failed /\ stage' = "locked"
    BY <1>0, <2>2 DEF GreenInv, LockSettles, Covers
  <2>3. CASE stage' = "edited"
    BY <2>3
  <2> QED
    BY <1>0, <2>1, <2>2, <2>3 DEF Write, Keeping
<1>4. GreenAfterRewrite'
  BY <1>0, <1>1, <1>3 DEF GreenAfterRewrite, Covers, RefsVerify, Settled, Pins
<1> QED
  BY <1>0, <1>2, <1>4 DEF GreenInv, CommitsPinned, LooksUp, LockSettles,
     CopyStaysGreen, Keeping

(* The end of a loop, with the copy saved or not, keeps the invariant.       *)
LEMMA SaveGreen ==
    ASSUME TypeOK, LedgerInv, GreenInv,
           LockSave \/ UpdateApply \/ UpdateSave \/ VendorSave
    PROVE  GreenInv'
<1>0. IsLocks(mem) /\ SelfPinned(mem) /\ Extends(mem, mem)
  BY DEF TypeOK, GreenInv, CommitsPinned, Extends
<1>1. CASE LockSave
  <2>1. Extends(mem, Refreshed(mem)) /\ SelfPinned(Refreshed(mem))
    BY <1>0, RefreshedGreen
  <2>2. pc = "lock" /\ todo = {} /\ Truncate(Refreshed(mem)) /\ UNCHANGED stage
    BY <1>1 DEF LockSave
  <2> QED
    BY <2>1, <2>2, TruncateGreen
<1>2. CASE UpdateApply
  <2>1. CASE inv.apply /\ latest # NoLocks
    <3>1. /\ pc = "check" /\ pc' = "apply" /\ todo' = DOMAIN latest
          /\ inv.cmd = "update"
          /\ UNCHANGED <<uses, lockfile, inv, mem, latest, stage>>
      BY <1>2, <2>1 DEF UpdateApply, repoVars, LedgerInv, Commands
    <3>2. GreenAfterRewrite' /\ (lockfile # Torn => SelfPinned(lockfile))'
      BY <3>1, FileStaysGreen
    <3> QED
      BY <3>1, <3>2 DEF GreenInv, CommitsPinned, SelfPinned, LooksUp, LockSettles,
         CopyStaysGreen, Keeping
  <2>2. CASE ~(inv.apply /\ latest # NoLocks)
    BY <1>2, <2>2, EndsGreen DEF UpdateApply, repoVars
  <2> QED
    BY <2>1, <2>2
<1>3. CASE UpdateSave
  <2>0. pc = "apply" /\ todo = {} /\ inv.cmd = "update" /\ UNCHANGED stage
    BY <1>3 DEF UpdateSave, LedgerInv, Commands
  <2>1. CASE dirty
    <3>1. Truncate(mem)
      BY <1>3, <2>1 DEF UpdateSave
    <3> QED
      BY <1>0, <2>0, <3>1, TruncateGreen DEF Keeping
  <2>2. CASE ~dirty
    BY <1>3, <2>0, <2>2, EndsGreen DEF UpdateSave, repoVars
  <2> QED
    BY <2>1, <2>2
<1>4. CASE VendorSave
  <2>0. pc = "vendor" /\ todo = {} /\ inv.cmd = "vendor" /\ UNCHANGED stage
    BY <1>4 DEF VendorSave, LedgerInv, Commands
  <2>1. CASE dirty
    <3>1. Truncate(mem)
      BY <1>4, <2>1 DEF VendorSave
    <3> QED
      BY <1>0, <2>0, <3>1, TruncateGreen
  <2>2. CASE ~dirty
    BY <1>4, <2>0, <2>2, EndsGreen DEF VendorSave, repoVars
  <2> QED
    BY <2>1, <2>2
<1> QED
  BY <1>1, <1>2, <1>3, <1>4

-----------------------------------------------------------------------------
(* rewrite: a use it pins is pinned to the entry it had, and a complete      *)
(* rewrite leaves no mutable use that has an entry.                          *)
LEMMA PinnedFacts ==
    ASSUME TypeOK, lockfile # Torn, NEW k \in Keys
    PROVE  /\ Settled(k, lockfile) => Settled(Pinned(k), lockfile)
           /\ Settled(k, lockfile) =>
                Ref(Pinned(k)) \in Shas /\ Pins(lockfile, Pinned(k))
           /\ Pinned(k) = k \/ (Ref(Pinned(k)) \in Shas /\ Pins(lockfile, Pinned(k)))
<1>1. CASE k \in DOMAIN lockfile /\ Ref(k) \in Tags
  <2>1. Pinned(k) = <<Action(k), lockfile[k].resolved>>
    BY <1>1 DEF Pinned
  <2>2. lockfile[k].resolved \in Shas
    BY <1>1 DEF TypeOK, IsLocks, Entry
  <2>3. Ref(Pinned(k)) \in Shas /\ Pins(lockfile, Pinned(k))
    BY <1>1, <2>1, <2>2 DEF Ref, Action, Pins
  <2> QED
    BY <2>3 DEF Settled
<1>2. CASE ~(k \in DOMAIN lockfile /\ Ref(k) \in Tags)
  <2>1. Pinned(k) = k
    BY <1>2 DEF Pinned
  <2>2. Ref(k) \notin Shas => Ref(k) \in Tags
    BY KeyFacts
  <2> QED
    BY <1>2, <2>1, <2>2 DEF Settled
<1> QED
  BY <1>1, <1>2

(* rewrite keeps the invariant, and earns the stage it claims.               *)
LEMMA RewriteGreen ==
    ASSUME TypeOK, GreenInv, NEW i \in Invocations, Rewrite(i)
    PROVE  GreenInv'
<1>0. /\ pc = "idle" /\ lockfile # Torn
      /\ UNCHANGED <<lockfile, pc, inv, mem, todo, latest, failed>>
  BY DEF Rewrite
<1>1. PICK changed \in SUBSET Affected :
        /\ uses' = [s \in Slots |-> IF FileOf[s] \in changed
                                    THEN Pinned(uses[s]) ELSE uses[s]]
        /\ exit' \in IF changed = Affected THEN {0, 1} ELSE {1}
  BY DEF Rewrite
<1>2. Pinned(NoUse) = NoUse
  <2>1. NoUse \notin DOMAIN lockfile
    BY <1>0, NamesAssumption DEF TypeOK, IsLocks
  <2> QED
    BY <2>1 DEF Pinned
<1>3. ASSUME NEW k \in UsedKeys'
      PROVE  \E j \in UsedKeys : /\ k \in {j, Pinned(j)}
                                 /\ changed = Affected => k = Pinned(j)
  <2>1. PICK s \in Slots : k = uses'[s] /\ k # NoUse
    BY <1>3 DEF UsedKeys
  <2>2. k \in {uses[s], Pinned(uses[s])}
    BY <1>1, <2>1
  <2>3. uses[s] \in UsedKeys
    BY <1>2, <2>1, <2>2 DEF UsedKeys
  <2>4. changed = Affected => k = Pinned(uses[s])
    BY <1>1, <2>1 DEF Affected
  <2> QED
    BY <2>2, <2>3, <2>4
<1>4. UsedKeys \subseteq Keys
  BY UsedKeysTyped
<1>5. stage # "edited" => Covers(lockfile)'
  <2> SUFFICES ASSUME stage # "edited", NEW k \in UsedKeys'
               PROVE  Settled(k, lockfile)
    BY <1>0 DEF Covers, Settled, Pins
  <2>1. PICK j \in UsedKeys : k \in {j, Pinned(j)}
    BY <1>3
  <2>2. Settled(j, lockfile)
    BY <1>0 DEF GreenInv, GreenAfterRewrite, Covers
  <2> QED
    BY <1>0, <1>4, <2>1, <2>2, PinnedFacts
<1>6. stage' = "pinned" => RefsVerify(lockfile)'
  <2> SUFFICES ASSUME stage' = "pinned", NEW k \in UsedKeys'
               PROVE  IF Ref(k) \in Shas THEN Pins(lockfile, k)
                                         ELSE Action(k) \in Trusted
    BY <1>0 DEF RefsVerify, Pins
  <2>1. PICK j \in UsedKeys : /\ k \in {j, Pinned(j)}
                              /\ changed = Affected => k = Pinned(j)
    BY <1>3
  <2>2. CASE stage = "pinned"
    <3>1. IF Ref(j) \in Shas THEN Pins(lockfile, j) ELSE Action(j) \in Trusted
      BY <1>0, <2>2 DEF GreenInv, GreenAfterRewrite, RefsVerify
    <3> QED
      BY <1>0, <1>4, <2>1, <3>1, PinnedFacts
  <2>3. CASE stage = "locked" /\ exit' = 0
    <3>1. changed = Affected
      BY <1>1, <2>3
    <3>2. Settled(j, lockfile)
      BY <1>0, <2>3 DEF GreenInv, GreenAfterRewrite, Covers
    <3> QED
      BY <1>0, <1>4, <2>1, <3>1, <3>2, PinnedFacts
  <2> QED
    BY <2>2, <2>3 DEF Rewrite
<1>7. stage' # "edited" => stage # "edited"
  BY DEF Rewrite
<1>8. GreenAfterRewrite'
  BY <1>0, <1>5, <1>6, <1>7 DEF GreenAfterRewrite
<1> QED
  BY <1>0, <1>8 DEF GreenInv, CommitsPinned, SelfPinned, LooksUp, LockSettles,
     CopyStaysGreen, Keeping

(* A command starts from the file, of which it knows what the file settles.  *)
LEMMA BeginGreen ==
    ASSUME TypeOK, GreenInv, NEW i \in Invocations, Begin(i)
    PROVE  GreenInv'
<1>1. CASE NothingToDo(i) \/ Verify(i)
  BY <1>1, StillGreen DEF NothingToDo, Verify, repoVars
<1>2. CASE Rewrite(i)
  BY <1>2, RewriteGreen
<1>3. CASE StartLock(i) \/ StartUpdate(i) \/ StartVendor(i)
  <2>1. /\ mem' = lockfile /\ latest' = NoLocks /\ inv' = i
        /\ UNCHANGED <<uses, lockfile, stage>> /\ lockfile # Torn
        /\ \/ pc' = "lock" /\ i.cmd = "lock" /\ todo' = UsedKeys
           \/ /\ pc' = "check" /\ i.cmd = "update"
              /\ todo' = {k \in DOMAIN lockfile : Ref(k) \in Tags}
           \/ pc' = "vendor" /\ i.cmd = "vendor"
    BY <1>3 DEF StartLock, StartUpdate, StartVendor, Load, repoVars
  <2>2. GreenAfterRewrite' /\ (lockfile # Torn => SelfPinned(lockfile))'
    BY <2>1, FileStaysGreen
  <2>3. CommitsPinned'
    BY <2>1, <2>2 DEF CommitsPinned, SelfPinned
  <2>4. LooksUp'
    BY <2>1, NoLocksFacts, NamesAssumption DEF LooksUp
  <2>5. LockSettles'
    BY <2>1 DEF LockSettles, UsedKeys
  <2>6. CopyStaysGreen'
    BY <2>1, <2>2 DEF CopyStaysGreen, GreenAfterRewrite, Covers, RefsVerify,
       Settled, Pins
  <2> QED
    BY <2>1, <2>2, <2>3, <2>4, <2>5, <2>6 DEF GreenInv
<1> QED
  BY <1>1, <1>2, <1>3 DEF Begin

(* An edit forgets what was settled.                                         *)
LEMMA OutsideGreen ==
    ASSUME TypeOK, GreenInv, Outside
    PROVE  GreenInv'
<1>1. CASE Crash
  BY <1>1, EndsGreen DEF Crash, repoVars
<1>2. CASE MoveTag \/ RetireTag \/ GrowOld \/ EditVendor
  BY <1>2, StillGreen
  DEF MoveTag, RetireTag, GrowOld, EditVendor, repoVars, runVars
<1>3. CASE EditUse \/ RemoveTorn
  <2>1. /\ pc' = "idle" /\ stage' = "edited" /\ mem' = mem
        /\ lockfile' \in {lockfile, NoLocks}
    BY <1>3 DEF EditUse, RemoveTorn, runVars
  <2>2. CommitsPinned'
    BY <2>1, NoLocksFacts DEF GreenInv, CommitsPinned, SelfPinned
  <2> QED
    BY <2>1, <2>2 DEF GreenInv, LooksUp, LockSettles, CopyStaysGreen, Keeping,
       GreenAfterRewrite
<1> QED
  BY <1>1, <1>2, <1>3 DEF Outside

(* Every step keeps the invariant.                                           *)
THEOREM GreenInvHolds == Spec => []GreenInv
<1>1. Init => GreenInv
  <2> SUFFICES ASSUME Init PROVE GreenInv
    OBVIOUS
  <2>1. SelfPinned(NoLocks)
    BY NoLocksFacts DEF SelfPinned
  <2> QED
    BY <2>1 DEF Init, GreenInv, CommitsPinned, LooksUp, LockSettles,
       CopyStaysGreen, Keeping, GreenAfterRewrite
<1>2. TypeOK /\ LedgerInv /\ GreenInv /\ [Next]_vars => GreenInv'
  <2> SUFFICES ASSUME TypeOK, LedgerInv, GreenInv, [Next]_vars PROVE GreenInv'
    OBVIOUS
  <2>1. CASE Refuse \/ UNCHANGED vars
    BY <2>1, StillGreen DEF Refuse, vars, repoVars, runVars
  <2>2. CASE \E i \in Invocations : Begin(i)
    BY <2>2, BeginGreen
  <2>3. CASE \E k \in Keys : Lock(k) \/ Update(k) \/ Vendor(k)
    BY <2>3, LockGreen, UpdateGreen, VendorGreen
  <2>4. CASE LockSave \/ UpdateApply \/ UpdateSave \/ VendorSave
    BY <2>4, SaveGreen
  <2>5. CASE Write
    BY <2>5, WriteGreen
  <2>6. CASE Outside
    BY <2>6, OutsideGreen
  <2> QED
    BY <2>1, <2>2, <2>3, <2>4, <2>5, <2>6 DEF Next, Step
<1> QED
  BY <1>1, <1>2, TypeCorrect, LedgerInvHolds, PTL DEF Spec

(* After a clean unforced lock every use has an entry, and after a clean     *)
(* rewrite verify accepts every use: crashes, failed locks, vendoring and    *)
(* re-locking in between take neither away.                                  *)
THEOREM GreenAfterRewriteHolds == Spec => []GreenAfterRewrite
<1>1. GreenInv => GreenAfterRewrite
  BY DEF GreenInv
<1> QED
  BY <1>1, GreenInvHolds, PTL

-----------------------------------------------------------------------------
(* Where an entry is used.  The copy a clean lock saves was refreshed when   *)
(* it opened the file, after its last look at a use, and no use changes      *)
(* before it is written.                                                     *)

ListedIn(m, s) == \E k \in DOMAIN m : Action(k) = Action(uses[s]) /\ s \in m[k].at
Listed(m) == \A s \in Slots : uses[s] # NoUse => ListedIn(m, s)

CleanLock == pc = "save" /\ inv.cmd = "lock" /\ ~inv.force /\ ~failed
NoExitYet == pc # "idle" => exit = None
ListedInv == NoExitYet /\ (CleanLock => Listed(mem))

(* A use that is settled is an occurrence of the entry that settles it.      *)
LEMMA RefreshedLists ==
    ASSUME TypeOK, Covers(mem)
    PROVE  Listed(Refreshed(mem))
<1> SUFFICES ASSUME NEW s \in Slots, uses[s] # NoUse
             PROVE  ListedIn(Refreshed(mem), s)
  BY DEF Listed
<1>1. uses[s] \in UsedKeys
  BY DEF UsedKeys
<1>2. PICK k \in DOMAIN mem : /\ Action(k) = Action(uses[s])
                              /\ Ref(uses[s]) \in {Ref(k), mem[k].resolved}
  BY <1>1 DEF Covers, Settled, Pins
<1>3. s \in Occurrences(k, mem)
  BY <1>2 DEF Occurrences
<1>4. mem[k] \in Entry
  BY DEF TypeOK, IsLocks
<1>5. Refreshed(mem)[k].at = Occurrences(k, mem) /\ k \in DOMAIN Refreshed(mem)
  BY <1>2, <1>3, <1>4 DEF Refreshed, Entry
<1> QED BY <1>2, <1>3, <1>5 DEF ListedIn

(* An exit status is there when the process is not.                          *)
LEMMA ExitsLast ==
    ASSUME NoExitYet, [Next]_vars
    PROVE  NoExitYet'
<1>1. CASE Refuse \/ UNCHANGED vars
  BY <1>1 DEF Refuse, vars, runVars, NoExitYet
<1>2. CASE \E i \in Invocations : Begin(i)
  BY <1>2 DEF Begin, NothingToDo, StartLock, StartUpdate, StartVendor, Rewrite, Verify, Load,
     NoExitYet
<1>3. CASE \E k \in Keys : Lock(k) \/ Update(k) \/ Vendor(k)
  BY <1>3 DEF Lock, LockSkip, LockResolve, LockPin, LockRefuse, Update, UpdateCheck, UpdateMove,
     UpdateKeep, Vendor, VendorSkip, VendorFail, VendorCopy, VendorRecord, VendorBreak, NoExitYet
<1>4. CASE LockSave \/ UpdateApply \/ UpdateSave \/ VendorSave \/ Write
  BY <1>4 DEF LockSave, UpdateApply, UpdateSave, VendorSave, Write, Truncate, Ends, NoExitYet
<1>5. CASE Outside
  BY <1>5 DEF Outside, Crash, MoveTag, RetireTag, GrowOld, EditUse, EditVendor, RemoveTorn,
     Ends, runVars, NoExitYet
<1> QED BY <1>1, <1>2, <1>3, <1>4, <1>5 DEF Next, Step

(* Nothing a save works with changes until it writes or dies.                *)
LEMMA SavesOnly ==
    ASSUME [Next]_vars, pc = "save"
    PROVE  UNCHANGED <<uses, mem, inv, failed, pc, exit>> \/ Write \/ Crash
<1>1. CASE UNCHANGED vars \/ MoveTag \/ RetireTag \/ GrowOld
  BY <1>1 DEF vars, MoveTag, RetireTag, GrowOld, repoVars, runVars
<1>2. ~ (Refuse \/ \E i \in Invocations : Begin(i)) /\ ~ (EditUse \/ EditVendor \/ RemoveTorn)
  BY DEF Refuse, Begin, NothingToDo, StartLock, StartUpdate, StartVendor, Rewrite, Verify,
         EditUse, EditVendor, RemoveTorn
<1>3. ~ \E k \in Keys : Lock(k) \/ Update(k) \/ Vendor(k)
  BY DEF Lock, LockSkip, LockResolve, LockPin, LockRefuse, Update, UpdateCheck, UpdateMove,
         UpdateKeep, Vendor, VendorSkip, VendorFail, VendorCopy, VendorRecord, VendorBreak
<1>4. ~ (LockSave \/ UpdateApply \/ UpdateSave \/ VendorSave)
  BY DEF LockSave, UpdateApply, UpdateSave, VendorSave
<1> QED BY <1>1, <1>2, <1>3, <1>4 DEF Next, Step, Outside

(* A save is begun by opening the file, and by lock after it refreshed.      *)
LEMMA BeginsSave ==
    ASSUME LedgerInv, [Next]_vars, pc # "save", pc' = "save"
    PROVE  /\ inv' = inv /\ failed' = failed /\ uses' = uses
           /\ inv.cmd = "lock" => LockSave
<1>1. ~ (UNCHANGED vars \/ Refuse \/ Outside \/ Write \/ UpdateApply)
  BY DEF vars, runVars, Refuse, Outside, Crash, MoveTag, RetireTag, GrowOld, EditUse,
         EditVendor, RemoveTorn, Write, UpdateApply, Ends
<1>2. ~ \E i \in Invocations : Begin(i)
  BY DEF Begin, NothingToDo, StartLock, StartUpdate, StartVendor, Rewrite, Verify, Load
<1>3. ~ \E k \in Keys : Lock(k) \/ Update(k) \/ Vendor(k)
  BY DEF Lock, LockSkip, LockResolve, LockPin, LockRefuse, Update, UpdateCheck, UpdateMove,
         UpdateKeep, Vendor, VendorSkip, VendorFail, VendorCopy, VendorRecord, VendorBreak
<1>4. LockSave \/ UpdateSave \/ VendorSave
  BY <1>1, <1>2, <1>3 DEF Next, Step
<1>5. inv' = inv /\ failed' = failed /\ uses' = uses
  BY <1>4 DEF LockSave, UpdateSave, VendorSave, Truncate, Ends
<1>6. inv.cmd = "lock" => LockSave
  BY <1>4 DEF UpdateSave, VendorSave, LedgerInv, Commands
<1> QED BY <1>5, <1>6

LEMMA NextListed ==
    ASSUME TypeOK, LedgerInv, GreenInv, ListedInv, [Next]_vars
    PROVE  ListedInv'
<1> SUFFICES ASSUME CleanLock' PROVE Listed(mem)'
  BY ExitsLast DEF ListedInv
<1>1. CASE pc = "save"
  <2>1. UNCHANGED <<uses, mem, inv, failed>>
    BY <1>1, SavesOnly DEF CleanLock, Write, Crash, Ends
  <2> QED BY <1>1, <2>1 DEF ListedInv, CleanLock, Listed, ListedIn
<1>2. CASE pc # "save"
  <2>1. LockSave /\ uses' = uses /\ ~inv.force /\ ~failed
    BY <1>2, BeginsSave DEF CleanLock
  <2>2. inv.cmd = "lock" /\ mem' = Refreshed(mem) /\ todo = {}
    BY <2>1 DEF LockSave, Truncate, LedgerInv, Commands
  <2>3. Covers(mem)
    BY <2>1, <2>2 DEF LockSave, GreenInv, LockSettles, Covers
  <2>4. Listed(Refreshed(mem))
    BY <2>3, RefreshedLists
  <2> QED BY <2>1, <2>2, <2>4 DEF Listed, ListedIn
<1> QED BY <1>1, <1>2

(* An exit code of 0 that was not there before is a save's, of a run that    *)
(* failed nothing.                                                           *)
LEMMA CleanWrite ==
    ASSUME NoExitYet, pc = "save", exit' = 0, [Next]_vars
    PROVE  Write /\ ~failed
<1>1. exit # 0
  BY NamesAssumption DEF NoExitYet
<1>2. exit' # exit
  BY <1>1
<1>3. ~ Crash
  BY DEF Crash, Ends
<1>4. Write
  BY <1>2, <1>3, SavesOnly
<1>5. exit' = IF failed THEN 1 ELSE 0
  BY <1>4 DEF Write, Ends
<1> QED BY <1>4, <1>5

(* In every state a clean lock about to save lists every use it was given.   *)
LEMMA ListedInvHolds == Spec => []ListedInv
<1>1. Init => ListedInv
  BY DEF Init, ListedInv, CleanLock, NoExitYet
<1>2. TypeOK /\ LedgerInv /\ GreenInv /\ ListedInv /\ [Next]_vars => ListedInv'
  BY NextListed
<1> QED BY <1>1, <1>2, TypeCorrect, LedgerInvHolds, GreenInvHolds, PTL DEF Spec

(* A lock that exits 0 without --force lists every use under some entry.     *)
THEOREM EveryUseIsListedHolds == Spec => EveryUseIsListed
<1> DEFINE Lists == pc = "save" /\ inv.cmd = "lock" /\ ~inv.force /\ exit' = 0 =>
                      \A s \in Slots : uses[s] # NoUse =>
                         \E k \in DOMAIN lockfile' : /\ Action(k) = Action(uses[s])
                                                     /\ s \in lockfile'[k].at
<1>1. ListedInv /\ [Next]_vars => Lists
  <2> SUFFICES ASSUME ListedInv, [Next]_vars, pc = "save", inv.cmd = "lock",
                      ~inv.force, exit' = 0, NEW s \in Slots, uses[s] # NoUse
               PROVE  \E k \in DOMAIN lockfile' : /\ Action(k) = Action(uses[s])
                                                  /\ s \in lockfile'[k].at
    OBVIOUS
  <2>1. Write /\ ~failed
    BY CleanWrite DEF ListedInv
  <2>2. ListedIn(mem, s) /\ lockfile' = mem
    BY <2>1 DEF ListedInv, CleanLock, Listed, Write
  <2> QED BY <2>2 DEF ListedIn
<1> HIDE DEF Lists
<1> QED
  BY <1>1, ListedInvHolds, PTL DEF Spec, EveryUseIsListed, Lists

(* A vendor --force that has refused nothing so far, at work or about to     *)
(* save.                                                                     *)
ForcedCopies == /\ pc \in {"vendor", "copy", "save"}
                /\ inv.cmd = "vendor" /\ inv.force /\ ~failed

(* The directory being copied is unfinished for every entry it belongs to.   *)
Unfinished(k) == pc = "copy" /\ \E j \in todo : First(j) /\ DirFor(j, mem) = DirFor(k, mem)

(* Every entry it is done with carries the hash of its own tree, and its     *)
(* directory holds that tree, but for what the copy at work has taken away.  *)
VendorInv ==
    ForcedCopies =>
        /\ pc = "save" => todo = {}
        /\ \A k \in DOMAIN mem \ todo :
              /\ mem[k].integrity = Pristine(k, mem)
              /\ vendor[DirFor(k, mem)] = Pristine(k, mem) \/ Unfinished(k)

(* No directory stands for two actions or two commits. vendor_dir_name does  *)
(* not ensure it: it writes "/" as "--" and keeps ten characters of the sha, *)
(* so a/b and a--b in one repository have the same directory.                *)
DirsApart == \A p, q \in Actions \X Shas : DirOf[p] = DirOf[q] => p = q

(* Entries that share a directory pin the same commit.                       *)
LEMMA SharedDir ==
    ASSUME DirsApart, IsLocks(mem), NEW j \in DOMAIN mem, NEW k \in DOMAIN mem,
           DirFor(j, mem) = DirFor(k, mem)
    PROVE  Pristine(j, mem) = Pristine(k, mem)
  BY PristineTyped DEF DirsApart, DirFor, Pristine

(* Copying takes the directory away, for every entry that has it.            *)
LEMMA CopyVendored ==
    ASSUME TypeOK, VendorInv, ForcedCopies, NEW k \in Keys, VendorCopy(k)
    PROVE  VendorInv'
<1>1. /\ pc = "vendor" /\ k \in todo /\ First(k) /\ UNCHANGED <<mem, todo>> /\ pc' = "copy"
      /\ vendor' = [vendor EXCEPT ![DirFor(k, mem)] = Partial]
  BY DEF VendorCopy, First
<1>2. ASSUME NEW j \in DOMAIN mem, j \notin todo
      PROVE  /\ mem'[j].integrity = Pristine(j, mem')
             /\ vendor'[DirFor(j, mem')] = Pristine(j, mem') \/ Unfinished(j)'
  <2>1. mem[j].integrity = Pristine(j, mem) /\ vendor[DirFor(j, mem)] = Pristine(j, mem)
    BY <1>1, <1>2 DEF VendorInv, Unfinished
  <2>2. CASE DirFor(j, mem) = DirFor(k, mem)
    BY <1>1, <2>1, <2>2 DEF Unfinished, First
  <2>3. CASE DirFor(j, mem) # DirFor(k, mem)
    <3>1. vendor'[DirFor(j, mem)] = vendor[DirFor(j, mem)]
      BY <1>1, <1>2, <2>3, PristineTyped DEF TypeOK
    <3> QED BY <1>1, <2>1, <3>1
  <2> QED BY <2>2, <2>3
<1> QED BY <1>1, <1>2 DEF VendorInv

(* A copy that completes restores it, for all of them.                       *)
LEMMA RecordVendored ==
    ASSUME DirsApart, TypeOK, VendorInv, ForcedCopies, NEW k \in Keys, VendorRecord(k)
    PROVE  VendorInv'
<1> DEFINE d == DirFor(k, mem)
<1>1. /\ pc = "copy" /\ k \in todo /\ First(k) /\ todo' = todo \ {k} /\ pc' = "vendor"
      /\ vendor' = [vendor EXCEPT ![d] = Pristine(k, mem)]
      /\ mem' = Put(mem, k, [mem[k] EXCEPT !.integrity = vendor'[d]])
  BY DEF VendorRecord, First
<1>2. IsLocks(mem) /\ k \in DOMAIN mem
  BY <1>1 DEF TypeOK
<1>3. vendor'[d] = Pristine(k, mem) /\ \A e \in Dirs : e # d => vendor'[e] = vendor[e]
  BY <1>1, <1>2, PristineTyped DEF TypeOK
<1>4. /\ DOMAIN mem' = DOMAIN mem
      /\ mem'[k] = [mem[k] EXCEPT !.integrity = Pristine(k, mem)]
      /\ \A j \in DOMAIN mem : j # k => mem'[j] = mem[j]
  <2>1. mem' = Put(mem, k, [mem[k] EXCEPT !.integrity = Pristine(k, mem)])
    BY <1>1, <1>3
  <2> DEFINE e == [mem[k] EXCEPT !.integrity = Pristine(k, mem)]
  <2> HIDE DEF e
  <2>2. /\ DOMAIN Put(mem, k, e) = DOMAIN mem \cup {k}
        /\ Put(mem, k, e)[k] = e
        /\ \A j \in DOMAIN mem : j # k => Put(mem, k, e)[j] = mem[j]
    BY DEF Put
  <2>3. DOMAIN mem \cup {k} = DOMAIN mem
    BY <1>2
  <2>4. mem' = Put(mem, k, e)
    BY <2>1 DEF e
  <2>5. DOMAIN mem' = DOMAIN mem /\ mem'[k] = e /\ \A j \in DOMAIN mem : j # k => mem'[j] = mem[j]
    BY <2>2, <2>3, <2>4
  <2> QED BY <2>5 DEF e
<1>5. mem'[k].integrity = Pristine(k, mem) /\ mem'[k].resolved = mem[k].resolved
  BY <1>2, <1>4, PristineTyped DEF Entry
<1>6. \A j \in DOMAIN mem : Pristine(j, mem') = Pristine(j, mem) /\ DirFor(j, mem') = DirFor(j, mem)
  BY <1>4, <1>5 DEF Pristine, DirFor
<1>7. ASSUME NEW j \in DOMAIN mem, j \notin todo
      PROVE  mem[j].integrity = Pristine(j, mem) /\ vendor'[DirFor(j, mem)] = Pristine(j, mem)
  <2>1. CASE DirFor(j, mem) = d
    BY <1>2, <1>3, <1>7, <2>1, SharedDir DEF VendorInv
  <2>2. CASE DirFor(j, mem) # d
    <3>1. ~ Unfinished(j)
      <4> SUFFICES ASSUME NEW i \in todo, First(i), DirFor(i, mem) = DirFor(j, mem) PROVE FALSE
        BY DEF Unfinished
      <4>1. i \in Keys /\ Rank[i] <= Rank[k] /\ Rank[k] <= Rank[i]
        BY <1>1 DEF First, TypeOK
      <4>2. i = k
        BY <4>1, OrderAssumption
      <4> QED BY <2>2, <4>2
    <3>2. DirFor(j, mem) \in Dirs
      BY <1>2, PristineTyped
    <3> QED BY <1>3, <1>7, <2>2, <3>1, <3>2 DEF VendorInv
  <2> QED BY <2>1, <2>2
<1>8. ASSUME NEW j \in DOMAIN mem', j \notin todo'
      PROVE  mem'[j].integrity = Pristine(j, mem') /\ vendor'[DirFor(j, mem')] = Pristine(j, mem')
  <2>1. CASE j = k
    BY <1>2, <1>3, <1>5, <1>6, <2>1
  <2>2. CASE j # k
    <3>1. j \in DOMAIN mem /\ j \notin todo
      BY <1>1, <1>4, <1>8, <2>2
    <3> QED BY <1>4, <1>6, <1>7, <2>2, <3>1
  <2> QED BY <2>1, <2>2
<1> QED BY <1>1, <1>8 DEF VendorInv

LEMMA NextVendored ==
    ASSUME DirsApart, TypeOK, LedgerInv, VendorInv, [Next]_vars
    PROVE  VendorInv'
<1> SUFFICES ASSUME ForcedCopies' PROVE VendorInv'
  BY DEF VendorInv
<1>1. CASE UNCHANGED vars \/ MoveTag \/ RetireTag \/ GrowOld
  <2>1. UNCHANGED <<pc, inv, mem, todo, failed, vendor>>
    BY <1>1 DEF vars, MoveTag, RetireTag, GrowOld, repoVars, runVars
  <2> QED BY <2>1 DEF VendorInv, ForcedCopies, Unfinished, First
<1>2. ~ (Refuse \/ Crash \/ Write \/ UpdateApply \/ EditUse \/ EditVendor \/ RemoveTorn)
  BY DEF ForcedCopies, Refuse, Crash, Write, UpdateApply, Ends, EditUse, EditVendor, RemoveTorn,
         runVars
<1>3. ~ (LockSave \/ UpdateSave)
  BY DEF ForcedCopies, LockSave, UpdateSave, Truncate, Ends, LedgerInv, Commands
<1>4. ~ \E k \in Keys : Lock(k) \/ Update(k) \/ VendorSkip(k) \/ VendorFail(k) \/ VendorBreak(k)
  BY DEF ForcedCopies, Lock, LockSkip, LockResolve, LockPin, LockRefuse, Update, UpdateCheck,
         UpdateMove, UpdateKeep, VendorSkip, VendorFail, VendorBreak
<1>5. CASE \E i \in Invocations : Begin(i)
  <2>1. PICK i \in Invocations : StartVendor(i)
    BY <1>5 DEF Begin, NothingToDo, StartLock, StartUpdate, Rewrite, Verify, Load, ForcedCopies
  <2> QED BY <2>1 DEF StartVendor, Load, VendorInv
<1>6. ASSUME NEW k \in Keys, VendorCopy(k) \/ VendorRecord(k)
      PROVE  VendorInv'
  <2>1. ForcedCopies
    BY <1>6 DEF ForcedCopies, VendorCopy, VendorRecord, TypeOK
  <2> QED BY <1>6, <2>1, CopyVendored, RecordVendored
<1>7. CASE VendorSave
  <2>1. /\ pc = "vendor" /\ todo = {} /\ pc' = "save"
        /\ UNCHANGED <<mem, todo, vendor, inv, failed>>
    BY <1>7 DEF VendorSave, Truncate, Ends, ForcedCopies
  <2> QED BY <2>1 DEF VendorInv, ForcedCopies, Unfinished, Pristine, DirFor
<1> QED BY <1>1, <1>2, <1>3, <1>4, <1>5, <1>6, <1>7 DEF Next, Step, Outside, Vendor

(* Where no two commits share a directory, a forced vendor that exits 0 has  *)
(* recorded a hash of every entry, and every entry's directory is whole.     *)
THEOREM ForcedVendorCompleteHolds ==
    ASSUME DirsApart
    PROVE  Spec => ForcedVendorComplete
<1> DEFINE Complete == pc = "save" /\ inv.cmd = "vendor" /\ inv.force /\ exit' = 0
                         => VendorComplete(lockfile')
<1>1. Init => VendorInv
  BY DEF Init, VendorInv, ForcedCopies
<1>2. TypeOK /\ LedgerInv /\ VendorInv /\ [Next]_vars => VendorInv'
  BY NextVendored
<1>3. TypeOK /\ ListedInv /\ VendorInv /\ [Next]_vars => Complete
  <2> SUFFICES ASSUME TypeOK, ListedInv, VendorInv, [Next]_vars,
                      pc = "save", inv.cmd = "vendor", inv.force, exit' = 0
               PROVE  VendorComplete(lockfile')
    OBVIOUS
  <2>1. Write /\ ~failed
    BY CleanWrite DEF ListedInv
  <2>2. lockfile' = mem /\ vendor' = vendor
    BY <2>1 DEF Write
  <2>3. ASSUME NEW k \in DOMAIN mem
        PROVE  mem[k].integrity = Pristine(k, mem) /\ vendor[DirFor(k, mem)] = Pristine(k, mem)
    BY <2>1 DEF VendorInv, ForcedCopies, Unfinished
  <2> QED BY <2>2, <2>3 DEF VendorComplete, Pristine, DirFor
<1> QED
  BY <1>1, <1>2, <1>3, TypeCorrect, LedgerInvHolds, ListedInvHolds, PTL
  DEF Spec, ForcedVendorComplete, Complete

===============================================================================
