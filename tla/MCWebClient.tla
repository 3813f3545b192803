---------------------------- MODULE MCWebClient ----------------------------
(* Instances of WebClient for TLC. *)
EXTENDS WebClient

CONSTANTS a1, a2, t1, t2

MCAssetRevisions == {2}
=============================================================================
