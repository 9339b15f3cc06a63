------------------------------ MODULE MCPipeline ------------------------------
(* Pipeline for TLC. *)
EXTENDS Pipeline

CONSTANTS r1, r2, r3, c1, c2, c3

MCReview == <<r1, r2, r3>>
MCCleanup == <<c1, c2, c3>>
=============================================================================
