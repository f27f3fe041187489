--------------------------- MODULE MCWatchService ---------------------------
(* Instances of WatchService for TLC, with up to three folder names and a    *)
(* queue of one or two places, so that the watcher meets a full queue.       *)
EXTENDS WatchService, TLC

CONSTANTS l, m, n

Symmetry == Permutations(Names)

=============================================================================
