-------------------------------- MODULE Policy --------------------------------
(***************************************************************************)
(* The policy block of the lockfile: normalize_policy validates it,        *)
(* effective_policy reads off what is in force for one action.  A block    *)
(* and its overrides are functions from the keys that were written to      *)
(* their values; an action and a prefix are the sequences of their path    *)
(* segments, so that a prefix matches at segment boundaries only.          *)
(***************************************************************************)
EXTENDS Naturals, Sequences, SequencesExt, FiniteSets

CONSTANTS
    MinCommitAge,   \* MIN_COMMIT_AGE_DAYS
    BadValue        \* a value of the wrong type, or a negative age

Settings == {"min_age_days", "require_trusted_age", "fallback"}
Default == [min_age_days |-> MinCommitAge, require_trusted_age |-> FALSE,
            fallback |-> TRUE]

(* check_keys, check_age and check_flag: what is wrong in one object.        *)
WrongIn(obj) == {k \in DOMAIN obj : k \notin Settings \/ obj[k] = BadValue}
(* An override needs a prefix with a slash in it; a bare owner has none.     *)
Bare(o) == ~o.slash /\ Len(o.prefix) < 2

(* The overrides are a list, each with a prefix.                             *)
IsBlock(raw) ==
    /\ Len(raw.overrides) \in Nat /\ DOMAIN raw.overrides = 1..Len(raw.overrides)
    /\ \A j \in DOMAIN raw.overrides : Len(raw.overrides[j].prefix) \in Nat

Errors(raw) == \/ WrongIn(raw.fields) # {}
               \/ \E j \in DOMAIN raw.overrides :
                     Bare(raw.overrides[j]) \/ WrongIn(raw.overrides[j].fields) # {}

(* Mutation: the order of the file.                                          *)
BeforeInFile(raw, j, k) == j < k
(* The longest prefix first, whatever the order in the file; the sort is     *)
(* stable.                                                                   *)
Before(raw, j, k) ==
    LET length(x) == Len(raw.overrides[x].prefix)
    IN  length(j) > length(k) \/ (length(j) = length(k) /\ j < k)
Place(raw, j) ==
    1 + Cardinality({k \in DOMAIN raw.overrides : Before(raw, k, j)})
Overrides(raw) ==
    LET at(p) == CHOOSE j \in DOMAIN raw.overrides : Place(raw, j) = p
    IN  [p \in DOMAIN raw.overrides |-> raw.overrides[at(p)]]

(* Keys that are set replace the others' values.                             *)
Over(obj, others) == [k \in DOMAIN obj \cup DOMAIN others |->
                         IF k \in DOMAIN obj THEN obj[k] ELSE others[k]]

Normalized(raw) == [fields |-> Over(raw.fields, Default), overrides |-> Overrides(raw)]

(* The first override whose prefix matches, over the block's own settings.   *)
Effective(action, policy) ==
    LET matching == {j \in DOMAIN policy.overrides :
                        IsPrefix(policy.overrides[j].prefix, action)}
        first    == CHOOSE j \in matching : \A k \in matching : j <= k
    IN  IF matching = {} THEN policy.fields
        ELSE Over(policy.overrides[first].fields, policy.fields)

(* is_trusted over the entries normalize_trusted_prefixes keeps.             *)
TrustedBy(action, prefixes) == \E p \in prefixes : ~Bare(p) /\ IsPrefix(p.prefix, action)
=============================================================================
