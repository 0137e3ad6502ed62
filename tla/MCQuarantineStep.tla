-------------------------- MODULE MCQuarantineStep --------------------------
(* A small instance of QuarantineStep for TLC: that of MCQuarantine, with    *)
(* the order of its series.                                                  *)
EXTENDS MCQuarantine, QuarantineStep

FewInOrder == [r \in FewNames \cup FewBranches |->
                 CASE r = v4 -> <<v43, v42, v41, v4>>
                   [] r = rc -> <<rc1, rc>>
                   [] r = main -> <<>>
                   [] OTHER -> <<r>>]
=============================================================================
