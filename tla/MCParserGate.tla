----------------------------- MODULE MCParserGate -----------------------------
(* A small instance of ParserGate for TLC.                                   *)
EXTENDS ParserGate

Use(target) == [path |-> "job", target |-> target]
Found(refs) == [refs |-> refs, codes |-> {}]
Rejected == [refs |-> {}, codes |-> {"E"}]
FewResults ==
    LET here == Found({Use("x@1")})
    IN  {[stable |-> here, lab |-> here], [stable |-> Rejected, lab |-> Rejected],
         [stable |-> here, lab |-> Rejected], [stable |-> Rejected, lab |-> here],
         [stable |-> here, lab |-> Found({Use("y@2")})],
         [stable |-> Found({Use("x")}), lab |-> Found({Use("x")})]}
=============================================================================
