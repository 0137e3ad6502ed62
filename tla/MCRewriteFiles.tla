---------------------------- MODULE MCRewriteFiles ----------------------------
(* Small instances of RewriteFiles for TLC.                                  *)
EXTENDS RewriteClaims, RewriteCommand

CONSTANTS p, q, act, v4, pin, main

(* v4 is mutable and in the lockfile, pin is the commit it resolved to and   *)
(* has an entry of its own, and main is mutable and not locked.              *)
At(ref) == <<act, ref>>
AllTargets == {At(ref) : ref \in {v4, main, pin}}
Lockfile == [k \in {At(v4), At(pin)} |-> [resolved |-> pin]]
Pins == [t \in {At(v4)} |-> At(pin)]

(* Texts of two places: uses of paths p and q in either order, an alias of a *)
(* use, and a step used twice whose use is an alias of an anchor, which may  *)
(* have been renamed or removed.                                             *)
Own(path, ref, place) == <<{path}, At(ref), place>>
Anchor(ref)           == <<{}, At(ref), 2>>
Text(first, second)   == [l \in {1, 2} |-> IF l = 1 THEN first ELSE second]

OneUse   == Text(Own(p, v4, 1), Other)
Plain    == Text(Own(p, main, 1), Other)
Swapped  == Text(Own(q, v4, 1), Own(p, v4, 2))
Crossed  == Text(Own(q, v4, 1), Own(p, main, 2))
Anchored == Text(Own(q, v4, 1), Own(p, v4, 1))
Aliased  == Text(<<{p, q}, At(v4), 2>>, Anchor(v4))
Renamed  == Text(<<{p, q}, At(main), 2>>, Anchor(main))
Dangling == Text(<<{p, q}, Nowhere, Nowhere>>, Other)

EditedTexts  == {Swapped, Crossed, Anchored, Aliased, Renamed, Dangling, Broken, Gone}
CreatedTexts == {OneUse, Plain, Gone}
=============================================================================
