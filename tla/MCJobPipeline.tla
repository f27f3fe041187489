--------------------------- MODULE MCJobPipeline ---------------------------
(* Instances of JobPipeline for TLC: two jobs, one of which has more frames  *)
(* than the other, with the folder layouts of the two modes of the program.  *)
EXTENDS JobPipeline, TLC

CONSTANTS a, b, out1, out2, tmp1, tmp2, img1, img2

\* Watch mode (main.rs): one output and one working folder for all jobs.
SharedOutput == [j \in {a, b} |-> out1]
SharedTemp   == [j \in {a, b} |-> tmp1]

\* Batch mode (batch.rs): a process runs one job, in an output folder of its own
\* and, in a container of its own, a working folder of its own.
OwnOutput == (a :> out1) @@ (b :> out2)
OwnTemp   == (a :> tmp1) @@ (b :> tmp2)

\* Job a is the longer video.
Frames == (a :> {img1, img2}) @@ (b :> {img1})

=============================================================================
