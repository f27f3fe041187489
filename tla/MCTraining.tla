----------------------------- MODULE MCTraining -----------------------------
(* Processes for Training: every backend with its tool writing where it looks *)
(* first, where it looks second, and where it does not look, and with models  *)
(* of earlier jobs there or at all other places.                              *)
EXTENDS Training

NoPlugins == [p \in {Places[i] : i \in DOMAIN Places} |-> "no library"]

Base ==
  [program |-> TRUE, BACKEND |-> "gsplat", forced |-> FALSE, probes |-> {"nvidia-smi"},
   libs |-> NoPlugins, named |-> "plugin", recon |-> "colmap", cameras |-> FALSE,
   sparse |-> "none", writes |-> "point_cloud.ply",
   converts |-> TRUE, earlier |-> FALSE, left |-> {}]

Plugin(first) ==
  [Base EXCEPT !.BACKEND = "plugin",
               !.libs = [NoPlugins EXCEPT !["executable"] = first, !["system"] = "good"]]

Tools ==
  UNION {{[Base EXCEPT !.BACKEND = b, !.writes = w, !.converts = c,
                       !.earlier = (l # {}), !.left = l] : l \in {{}, {w}, Spots \ {w}}} :
           b \in {"none", "gsplat", "3dgs-cpp"}, w \in Spots, c \in BOOLEAN}

Selections ==
  {[Base EXCEPT !.BACKEND = "mock"], [Base EXCEPT !.BACKEND = "auto"],
   Plugin("no library"), Plugin("broken"),
   [Base EXCEPT !.program = FALSE, !.BACKEND = "none", !.probes = {"rocm-smi"},
                !.writes = "point_cloud/iteration_30000/point_cloud.ply"],
   [Base EXCEPT !.program = FALSE, !.BACKEND = "none", !.forced = TRUE],
   [Base EXCEPT !.program = FALSE, !.BACKEND = "none", !.probes = {}],
   [Base EXCEPT !.sparse = "COLMAP_SPARSE_DIR"],
   [Base EXCEPT !.recon = "nerfstudio", !.cameras = TRUE, !.sparse = "TEMP_PATH"],
   [Base EXCEPT !.recon = "precalibrated", !.cameras = TRUE],
   [Base EXCEPT !.recon = "nerfstudio"]}

MCEnvironments ==
  Tools \union Selections
  \union {[e EXCEPT !.earlier = TRUE, !.left = {e.writes, "own"}] : e \in Selections}
=============================================================================
