--------------------------- MODULE VideoMetadata ---------------------------
(***************************************************************************)
(* What the program makes of the numbers ffprobe reports on a video        *)
(* (extractors/metadata.rs), which videos it accepts (validation/video.rs) *)
(* and which camera intrinsics it derives (manifest/intrinsics.rs).        *)
(*                                                                         *)
(* Numbers are fractions <<n, d>>.  The floating point numbers of the code *)
(* know infinity and NaN: these are the fractions with d = 0.              *)
(*                                                                         *)
(* A probe is a record with the fields                                     *)
(*   format     file extension                                             *)
(*   streams    sequence of [video |-> BOOLEAN, width, height, rate, avg,  *)
(*              rotate, matrix]                                            *)
(*   duration   in seconds                                                 *)
(*   dated      there is a time or a place of the recording                *)
(*   names, focal, focal35   each the tags of the format that may say so,  *)
(*              in the order in which they are looked at                   *)
(* where what is missing or cannot be parsed is None.                      *)
(***************************************************************************)
EXTENDS Integers, Sequences, FiniteSets

CONSTANT None

Num(x) == x[1]
Den(x) == x[2]
Times(x, y) == <<Num(x) * Num(y), Den(x) * Den(y)>>
Over(x, y) == <<Num(x) * Den(y), Den(x) * Num(y)>>
Whole(n) == <<n, 1>>
Less(x, y) == Num(x) * Den(y) < Num(y) * Den(x)
Same(x, y) == Num(x) * Den(y) = Num(y) * Den(x)
Positive(x) == Num(x) > 0 /\ Den(x) > 0

\* f64::round of a number that is not negative.
Rounded(x) == (2 * Num(x) + Den(x)) \div (2 * Den(x))

FirstOf(S, default) == IF S = {} THEN default ELSE CHOOSE i \in S : \A k \in S : i <= k

\* The first of some tags that is there.
FirstTag(tags) ==
  LET i == FirstOf({ k \in DOMAIN tags : tags[k] # None }, 0)
  IN  IF i = 0 THEN None ELSE tags[i]

-----------------------------------------------------------------------------
(* extract_metadata. *)

\* find_video_stream: its number, or 0.
VideoStream(p) == FirstOf({ i \in DOMAIN p.streams : p.streams[i].video }, 0)

\* parse_rational: "n/d" unless d is zero.
ParseRational(x) == IF x # None /\ Den(x) # 0 THEN x ELSE None

\* parse_frame_rate: the real frame rate, or else the average, or None.
FrameRate(s) ==
  LET usable(x) == ParseRational(x) # None /\ Num(x) > 0
  IN  IF usable(s.rate) THEN s.rate ELSE IF usable(s.avg) THEN s.avg ELSE None

\* extract_focal_length and parse_exif_rational, extract_focal_length_35mm.
FocalLength(p) == FirstTag([k \in DOMAIN p.focal |-> ParseRational(p.focal[k])])
FocalLength35(p) == FirstTag(p.focal35)

\* The camera model of extract_camera_info.
CameraModel(p) == FirstTag(p.names)

\* lookup_sensor_size: the width in millimetres of the sensors of known cameras.
LookupWidth(model) ==
  CASE model = "iphone" -> <<76, 10>>
    [] model \in {"pixel", "galaxy", "oneplus"} -> <<64, 10>>
    [] model \in {"gopro", "dji"} -> <<617, 100>>
    [] OTHER -> None

\* Variant of SensorWidth: the crop factor upside down.
SensorWidthInverted(p) ==
  LET focal == FocalLength(p)
      focal35 == FocalLength35(p)
  IN  IF focal # None /\ focal35 # None /\ Num(focal) > 0 /\ Num(focal35) > 0
      THEN Over(Whole(36), Over(focal, focal35))
      ELSE None

\* estimate_sensor_size: from the ratio of the focal lengths, or by the camera
\* model, which is the make whenever there is one.
SensorWidth(p) ==
  LET focal == FocalLength(p)
      focal35 == FocalLength35(p)
  IN  IF focal # None /\ focal35 # None /\ Num(focal) > 0 /\ Num(focal35) > 0
      THEN Over(Whole(36), Over(focal35, focal))
      ELSE LookupWidth(CameraModel(p))

\* extract_orientation and Orientation::from_rotation.
Orientation(s) ==
  LET degrees == FirstTag(<<s.rotate, s.matrix>>)
  IN  CASE degrees = None -> None
        [] degrees = 0 -> "Landscape"
        [] degrees = 90 -> "Portrait"
        [] degrees = 180 -> "LandscapeUpsideDown"
        [] degrees = 270 -> "PortraitUpsideDown"
        [] OTHER -> "Unknown"

\* CameraInfo::has_data.
HasCameraInfo(p) ==
  \/ p.dated
  \/ CameraModel(p) # None
  \/ Orientation(p.streams[VideoStream(p)]) # None
  \/ FocalLength(p) # None \/ FocalLength35(p) # None

\* extract_camera_info, or None when there is none of it.
CameraInfo(p) ==
  IF HasCameraInfo(p)
  THEN [focal |-> FocalLength(p), focal35 |-> FocalLength35(p), sensor |-> SensorWidth(p)]
  ELSE None

\* extract_metadata_sync, or None when it fails.
Metadata(p) ==
  LET s == p.streams[VideoStream(p)] IN
  IF VideoStream(p) = 0 \/ p.duration = None THEN None
  ELSE IF s.width = None \/ s.height = None \/ FrameRate(s) = None THEN None
  ELSE [width |-> s.width, height |-> s.height,
        fps |-> FrameRate(s), duration |-> p.duration,
        frames |-> Rounded(Times(p.duration, FrameRate(s))),
        camera |-> CameraInfo(p)]

-----------------------------------------------------------------------------
(* VideoValidator. *)

Supported == {"mp4", "mov", "avi", "mkv", "webm"}

\* discover_videos looks for fewer.
Discovered == Supported \ {"webm"}

\* validate, with the minima of a ValidationConfig.
Valid(p, minima) ==
  /\ p.format \in Supported
  /\ Metadata(p) # None
  /\ Metadata(p).width >= minima.width
  /\ Metadata(p).height >= minima.height
  /\ Metadata(p).frames >= minima.frames
  /\ ~ Less(Metadata(p).duration, minima.duration)

-----------------------------------------------------------------------------
(* compute_camera_intrinsics without an override file; fx of the result. *)

\* compute_from_exif.
FromExif(focal, sensor, width) == Times(Over(focal, sensor), Whole(width))

\* The sensor of the first video: known, estimated or that of a smartphone.
SensorOf(camera) ==
  CASE camera.sensor # None -> camera.sensor
    [] camera.sensor = None /\ camera.focal35 # None ->
         Over(Whole(36), Over(camera.focal35, camera.focal))
    [] OTHER -> <<576, 100>>

\* Variant of Intrinsics: the resolutions are not compared.
IntrinsicsOfFirst(metas) ==
  IF metas[1].camera = None \/ metas[1].camera.focal = None THEN None
  ELSE [width |-> metas[1].width, height |-> metas[1].height,
        fx |-> FromExif(metas[1].camera.focal, SensorOf(metas[1].camera), metas[1].width)]

Intrinsics(metas) ==
  LET first == metas[1]
      consistent == \A i \in DOMAIN metas :
                      metas[i].width = first.width /\ metas[i].height = first.height
  IN  IF ~ consistent \/ first.camera = None THEN None
      ELSE IF first.camera.focal = None THEN None
      ELSE [width |-> first.width, height |-> first.height,
            fx |-> FromExif(first.camera.focal, SensorOf(first.camera), first.width)]

=============================================================================
