---------------------------- MODULE MCExtraction ----------------------------
(* An instance of Extraction for TLC: two videos, each with any of a few     *)
(* reports of ffprobe.                                                       *)
EXTENDS Extraction

CONSTANTS left, right

Stream(width, height, frameRate, average, degrees) ==
  [video |-> TRUE, width |-> width, height |-> height, rate |-> frameRate, avg |-> average,
   rotate |-> degrees, matrix |-> None]

Sound == [video |-> FALSE, width |-> None, height |-> None, rate |-> None, avg |-> None,
          rotate |-> None, matrix |-> None]

Report(streams, make, model, focal, focal35) ==
  [format |-> "mp4", streams |-> streams, duration |-> Whole(2),
   dated |-> FALSE, names |-> <<None, make, model, None>>,
   focal |-> <<None, focal, None>>, focal35 |-> <<focal35, None>>]

Wide == Stream(6, 4, <<30, 1>>, <<30, 1>>, None)

\* A phone that tells both focal lengths, the second upright; a camera without
\* a real frame rate; a drone; no camera at all; a focal length of zero, a 35 mm
\* equivalent of zero, and a focal length that is not a number; too small; not a
\* video.
MCProbes ==
  { Report(<<Wide>>, None, "iphone", <<4, 1>>, <<26, 1>>),
    Report(<<Sound, Stream(4, 6, <<30, 1>>, None, 90)>>, "Apple", "iphone", <<4, 1>>, <<26, 1>>),
    Report(<<Stream(6, 4, <<0, 0>>, <<24, 1>>, None)>>, None, None, <<4, 1>>, None),
    Report(<<Wide>>, "dji", None, <<9, 2>>, None),
    Report(<<Wide>>, None, None, None, None),
    Report(<<Wide>>, None, None, <<0, 1>>, <<26, 1>>),
    Report(<<Wide>>, None, None, <<4, 1>>, <<0, 1>>),
    Report(<<Wide>>, None, "pixel", <<4, 0>>, <<26, 1>>),
    Report(<<Stream(1, 1, <<30, 1>>, None, None)>>, None, None, None, None),
    Report(<<Sound>>, None, None, None, None) }

MCMinima == [width |-> 2, height |-> 2, frames |-> 30, duration |-> Whole(1)]

MCRates == {None, Whole(1)}

=============================================================================
