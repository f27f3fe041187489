---------------------------- MODULE FolderLedger ----------------------------
(***************************************************************************)
(* What the watch mode promises about the folders, without its loops, its  *)
(* queue and its restarts: a folder that users have uploaded is taken into *)
(* hand, at most once at a time, and is either put back as it is or filed, *)
(* in one step, under its own name in processed/ or in error/.  It is not  *)
(* filed while a folder of its name is filed already.                      *)
(*                                                                         *)
(* WatchService implements this module.                                    *)
(***************************************************************************)
EXTENDS Naturals

CONSTANTS
  Names,        \* folder names
  MaxVersions   \* bound on the versions of one folder

VARIABLES
  input,      \* input[n]: version of folder n in the input directory
  versions,   \* versions[n]: versions of folder n so far
  processed,  \* processed[n]: version in processed/n
  failed,     \* failed[n]: version in error/n
  hand        \* the folders that are being dealt with

lvars == <<input, versions, processed, failed, hand>>

Init ==
  /\ input = [n \in Names |-> 0]
  /\ versions = [n \in Names |-> 0]
  /\ processed = [n \in Names |-> 0]
  /\ failed = [n \in Names |-> 0]
  /\ hand = {}

\* Users create a folder, or change one.
Upload(n) ==
  /\ versions[n] < MaxVersions
  /\ versions' = [versions EXCEPT ![n] = @ + 1]
  /\ input' = [input EXCEPT ![n] = versions[n] + 1]
  /\ UNCHANGED <<processed, failed, hand>>

\* A folder is found.
Take(n) ==
  /\ n \notin hand
  /\ input[n] # 0
  /\ hand' = hand \union {n}
  /\ UNCHANGED <<input, versions, processed, failed>>

\* Folders are put back: duplicates, unstable ones, ones that cannot be moved,
\* and all that a process which stops has in hand.
PutBack ==
  /\ hand' \in SUBSET hand
  /\ UNCHANGED <<input, versions, processed, failed>>

IsFiled(n) == processed[n] # 0 \/ failed[n] # 0

\* A folder is filed.
File(n) ==
  /\ n \in hand
  /\ input[n] # 0
  /\ ~ IsFiled(n)
  /\ \/ processed' = [processed EXCEPT ![n] = input[n]] /\ failed' = failed
     \/ failed' = [failed EXCEPT ![n] = input[n]] /\ processed' = processed
  /\ input' = [input EXCEPT ![n] = 0]
  /\ hand' = hand \ {n}
  /\ UNCHANGED versions

\* A filed folder is deleted when it is old.
Expire(n) ==
  /\ \/ processed' = [processed EXCEPT ![n] = 0] /\ failed' = failed
     \/ failed' = [failed EXCEPT ![n] = 0] /\ processed' = processed
  /\ UNCHANGED <<input, versions, hand>>

Next == PutBack \/ \E n \in Names : Upload(n) \/ Take(n) \/ File(n) \/ Expire(n)

Spec == Init /\ [][Next]_lvars

-----------------------------------------------------------------------------
(* Properties. *)

\* No version of a folder is in two places: what is filed under a name is filed
\* in one place, and is not what lies in the input directory under that name.
OnePlace ==
  \A n \in Names :
    /\ processed[n] = 0 \/ failed[n] = 0
    /\ input[n] # 0 => input[n] \notin {processed[n], failed[n]}
=============================================================================
