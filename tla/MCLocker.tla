------------------------------- MODULE MCLocker -------------------------------
(* Small instances of Locker for TLC.                                        *)
EXTENDS LockerClaims

CONSTANTS a, r, v4, v41, v42, s1, s2, s3, f1, f2, d1, d2

(* Command lines, named by their flags.                                      *)
Run(cmd, force, fresh, apply) ==
    [cmd |-> cmd, force |-> force, fresh |-> fresh, apply |-> apply]

LockRun    == Run("lock", FALSE, FALSE, FALSE)
ForceRun   == Run("lock", TRUE, FALSE, FALSE)
CheckRun   == Run("update", FALSE, FALSE, FALSE)
ApplyRun   == Run("update", FALSE, FALSE, TRUE)
RewriteRun == Run("rewrite", FALSE, FALSE, FALSE)
VendorRun  == Run("vendor", FALSE, FALSE, FALSE)
RevendorRun == Run("vendor", TRUE, FALSE, FALSE)
VerifyRun  == Run("verify", FALSE, FALSE, FALSE)

(* One action with a channel v4, a release v41 of its series and two commits.*)
(* v4 starts at s1 or s2 and may move between them; v41 stays at s1.         *)
OneAction == {a}
OneRepoOf == [x \in {a} |-> r]
TwoSlots  == {1, 2}
TwoFileOf == [s \in TwoSlots |-> IF s = 1 THEN f1 ELSE f2]
OneSlot   == {1}
OneFileOf == [s \in OneSlot |-> f1]

(* Hexadecimal digits sort before "v".                                       *)
Order(ref) == CASE ref = s1 -> 1 [] ref = s2 -> 2 [] ref = s3 -> 3
                [] ref = v4 -> 4 [] ref = v41 -> 5 [] ref = v42 -> 6
OneRank   == [k \in {a} \X {s1, s2, v4, v41} |-> Order(k[2])]
OneSeries == [t \in {v4, v41} |-> IF t = v4 THEN <<v41, v4>> ELSE <<v41>>]
OneBindings == {<<r, v4, s1>>, <<r, v4, s2>>, <<r, v41, s1>>}
OneDirOf  == [p \in {a} \X {s1, s2} |-> IF p[2] = s1 THEN d1 ELSE d2]

CycleRuns   == {LockRun, ForceRun, ApplyRun, RewriteRun, VerifyRun}
CycleTyped  == {<<a, v4>>, <<a, s1>>}
CycleRetirable == {<<r, v41>>}

(* One slot, one tag without a series: the vendor tree does the rest.        *)
VendorRank     == [k \in {a} \X {s1, s2, v4} |-> Order(k[2])]
VendorSeries   == [t \in {v4} |-> <<v4>>]
VendorBindings == {<<r, v4, s1>>, <<r, v4, s2>>}
VendorRuns     == {LockRun, ForceRun, CheckRun, ApplyRun, VendorRun, RevendorRun,
                    VerifyRun}

(* A series with two releases below the channel.                             *)
DeepRank     == [k \in {a} \X {s1, s2, s3, v4, v41, v42} |-> Order(k[2])]
DeepSeries   == [t \in {v4, v41, v42} |-> IF t = v4 THEN <<v42, v41, v4>> ELSE <<t>>]
DeepBindings == {<<r, v4, s3>>, <<r, v41, s1>>, <<r, v42, s2>>}
DeepDirOf    == [p \in {a} \X {s1, s2, s3} |-> d1]
DeepRuns     == {LockRun, ApplyRun}

AliasRuns    == {LockRun, RevendorRun, VendorRun}
AliasTyped   == {<<a, v4>>, <<a, v41>>}
OnlyChannel  == {<<a, v4>>}
=============================================================================
