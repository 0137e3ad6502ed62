---------------------------- MODULE RewriteClaims ----------------------------
(* What the documentation promises of rewrite and the code does not keep.    *)
EXTENDS RewriteFiles

(* README: rewrite "rewrites your workflow files to use the pinned SHAs".    *)
(* The files are listed twice, and a file created in between shifts the      *)
(* parse results against the files they are zipped with: a file nobody       *)
(* touched is passed over, and the command exits 0.                          *)
UntouchedIsPinned ==
    [][pc = "commit" /\ exit' = 0 =>
         \A f \in Files \ touched :
            before[f] # Gone => text'[f] = PinText(before[f])]_vars

=============================================================================
