---------------------------- MODULE MCBenchRunner ----------------------------
(* A small instance of BenchRunner: two cases, each with an image of its own. *)
EXTENDS BenchRunner, TLC

CONSTANTS case1, case2, image1, image2

MCProfile == case1 :> image1 @@ case2 :> image2
=============================================================================
