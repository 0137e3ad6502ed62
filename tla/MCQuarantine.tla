----------------------------- MODULE MCQuarantine -----------------------------
(* Small instances of Quarantine for TLC.                                    *)
EXTENDS QuarantineClaims

CONSTANTS c1, c2, c3, o2

Tag(v) == [dir |-> <<>>, v |-> v, dash |-> {}]
v4 == Tag(<<4>>)
v41 == Tag(<<4, 1>>)
v42 == Tag(<<4, 2>>)
v43 == Tag(<<4, 3>>)
main == Tag(<<1000>>)
(* v4.3-rc, v4.3-rc.1 and a/v4.1; a chunk of letters sorts above a number.     *)
rc == [Tag(<<4, 3, 1001>>) EXCEPT !.dash = {3}]
rc1 == [Tag(<<4, 3, 1001, 1>>) EXCEPT !.dash = {3}]
a41 == [v41 EXCEPT !.dir = <<"a">>]

(* c1 is old, c2 old enough, c3 new; c3's committer claims it is old.  The   *)
(* tag v42 may be annotated: o2 is its tag object.  A branch has the name of *)
(* the tag v41, and the tag a41 ends in it; v41 alone has an old release.    *)
FewNames == {v4, v41, v42, v43, rc, rc1, a41}
FewBranches == {main, v41}
FewLines == [n \in FewNames \cup FewBranches |->
                CASE n = a41 -> 1 [] n = main -> 2 [] n = v4 -> 3 [] n = v41 -> 4
                  [] n = v42 -> 5 [] n = v43 -> 6 [] n = rc -> 7 [] n = rc1 -> 8]
FewHeads == {[b \in FewBranches |-> c] : c \in {c1, c3}}
Peels == [c \in {c1, c2, c3, o2} |-> IF c = o2 THEN c2 ELSE c]
Public == [c \in {c1, c2, c3} |-> CASE c = c1 -> 9 [] c = c2 -> 6 [] c = c3 -> 1]
Merged == [c \in {c1, c2, c3} |-> IF c = c2 THEN 6 ELSE IF c = c3 THEN 1 ELSE None]
Committed == [c \in {c1, c2, c3} |-> 9]
TagStates == {[n \in FewNames |-> CASE n = v4 -> x [] n = v41 -> c1 [] n = v42 -> y
                                    [] n \in {v43, rc, a41} -> c3
                                    [] n = rc1 -> c2] :
                 x \in {c2, c3, o2}, y \in {c2, o2}}
ReleaseStates ==
    {[n \in FewNames |-> IF n = v41 THEN [age |-> 8, immutable |-> TRUE]
                         ELSE IF n = v4 THEN r ELSE None] :
        r \in {None, [age |-> 7, immutable |-> FALSE]}}

Block(fields, overrides, trusted) ==
    [fields |-> fields, overrides |-> overrides, trusted |-> trusted]
Override(prefix, fields) == [prefix |-> prefix, slash |-> TRUE, fields |-> fields]
Action == <<"o", "r">>
Hot == [min_age_days |-> 7]
Strict == [require_trusted_age |-> TRUE]
FewPolicies ==
    {Block(<<>>, <<>>, {}),
     Block(Strict, <<>>, {}),
     Block(<<>>, <<Override(<<"o">>, [min_age_days |-> 2]), Override(Action, Hot)>>, {}),
     Block([fallback |-> FALSE], <<>>, {}),
     Block([min_age_dayz |-> 2], <<>>, {}),
     Block(<<>>, <<>>, {[prefix |-> <<"o">>, slash |-> TRUE],
                        [prefix |-> <<"o">>, slash |-> FALSE]})}

(* A busy series: nine new releases above an old one.                        *)
BusyNames == {v4} \cup {Tag(<<4, k>>) : k \in 1..9}
BusyCommits == {[commit |-> k] : k \in 1..9}
BusyLines == [n \in BusyNames \cup {main} |->
                CASE n = main -> 0 [] n = v4 -> 1 [] OTHER -> 1 + n.v[2]]
BusyBranches == {main}
BusyHeads == {[b \in BusyBranches |-> [commit |-> 9]]}
BusyTags == {[n \in BusyNames |-> [commit |-> IF n = v4 THEN 9 ELSE n.v[2]]]}
BusyReleases == {[n \in BusyNames |-> None]}
BusyPeels == [c \in BusyCommits |-> c]
BusyPublic == [c \in BusyCommits |-> IF c.commit = 1 THEN 9 ELSE 1]
BusyMerged == [c \in BusyCommits |-> None]
PlainPolicies == {Block(<<>>, <<>>, {})}
=============================================================================
