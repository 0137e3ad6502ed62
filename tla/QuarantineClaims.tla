--------------------------- MODULE QuarantineClaims ---------------------------
(* What the documents say of the quarantine and the code does not keep.      *)
EXTENDS Quarantine

(* README.md: REFUSED "now means nothing in that series has aged past the    *)
(* floor".  Stated for a run in which the series was listed and the age of   *)
(* every candidate was found.                                                *)
RefusedMeansNoneAged ==
    (result.reason = "fresh" /\ ~unknown /\ Len(candidates) > 1) =>
        \A n \in Names : (tagged[n] # None /\ InSeries(n, ref)) =>
            PublicFor[Peeled(n)] < floor.min_age_days
=============================================================================
