----------------------------- MODULE MCLiveFeed -----------------------------
(***************************************************************************)
(* Instances of LiveFeed for TLC.                                          *)
(***************************************************************************)
EXTENDS LiveFeed

CONSTANT w1

\* Idle signals only.
RuleOff == -1

OneEach == [s \in Sessions |-> 1]
=============================================================================
