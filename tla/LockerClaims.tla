----------------------------- MODULE LockerClaims -----------------------------
(* What the documentation promises of the command line and the code does not *)
(* keep.  Each claim is violated by a run of its own.                        *)
EXTENDS Locker

(* README: "Every vendored copy must match its recorded `integrity` hash".   *)
(* verify looks a directory up by name and keeps one entry per name, so a    *)
(* hash recorded under another entry of the same commit is never compared.   *)
RecordedHashIsEnforced ==
    lockfile # Torn /\ VendorVerifies(lockfile) =>
        \A k \in DOMAIN lockfile :
            lockfile[k].integrity # None /\ vendor[DirFor(k, lockfile)] # Absent
              => vendor[DirFor(k, lockfile)] = lockfile[k].integrity

(* cmd_lock: "A partial lock must not look like success in CI."  With        *)
(* --force a pinned use is passed over as covered by an entry the same run   *)
(* then moves away from it.                                                  *)
CleanLockCovers ==
    [][pc = "save" /\ inv.cmd = "lock" /\ exit' = 0 => Covers(lockfile')]_vars

(* README: "`update` slides the window forward as releases age past it".     *)
(* When the age of the pinned release cannot be looked up this once, update  *)
(* walks on to an older one and moves the pin back to it.                    *)
Place(t, k) == CHOOSE i \in DOMAIN Series[Ref(k)] : Series[Ref(k)][i] = t

UpdateMovesForward ==
    [][pc = "apply" /\ pc' = "apply" =>
         \A k \in DOMAIN mem :
            mem[k].selected # None /\ mem'[k].selected # None
              => Place(mem'[k].selected, k) <= Place(mem[k].selected, k)]_vars
=============================================================================
