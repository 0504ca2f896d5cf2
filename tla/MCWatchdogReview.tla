-------------------------- MODULE MCWatchdogReview --------------------------
(* Small instances of WatchdogReview.                                       *)
EXTENDS WatchdogReview

CONSTANTS w1, w2

=============================================================================
