----------------------------- MODULE MCBatchJob -----------------------------
(* An instance of BatchJob for TLC: two videos, one of which may be written  *)
(* again while a job runs, a blob that is no video, and two output files.    *)
EXTENDS BatchJob

CONSTANTS quiet, busy, other, ply, splat

=============================================================================
