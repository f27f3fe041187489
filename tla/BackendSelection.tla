-------------------------- MODULE BackendSelection --------------------------
(***************************************************************************)
(* Which training backend a job gets: the name (main.rs and batch.rs pass  *)
(* the one of the configuration, other callers of execute_job leave it to  *)
(* BackendRegistry::resolve_backend_name), the GPU detection behind the    *)
(* automatic choice, and the search for a plugin library.                  *)
(*                                                                         *)
(* The environment of a process is a record e:                             *)
(*   e.program  the job comes from main.rs or batch.rs                     *)
(*   e.BACKEND  the variable BACKEND, "none" when it is not set            *)
(*   e.forced   FORCE_CPU_BACKEND is set                                   *)
(*   e.probes   the probes that answer that there is a usable GPU          *)
(*   e.libs     e.libs[p]: what search path p holds for the plugin e.named *)
(*   e.named    the name the plugin library goes by                        *)
(***************************************************************************)
EXTENDS Naturals, Sequences, FiniteSetsExt

\* register_defaults: the backends compiled in.
Builtin == {"gaussian-splatting", "gsplat", "3dgs-cpp", "mock"}

-----------------------------------------------------------------------------
(* GPU detection. *)

\* The order in which detect_gpu asks: CUDA by nvidia-smi and then by PyTorch,
\* Metal (the probe exists on macOS only), ROCm.
Detectors == <<[probe |-> "nvidia-smi", platform |-> "Cuda"],
               [probe |-> "pytorch",    platform |-> "Cuda"],
               [probe |-> "sysctl",     platform |-> "Metal"],
               [probe |-> "rocm-smi",   platform |-> "Rocm"]>>

\* detect_gpu: the platform of the first detector that answers.
DetectGpu(e) ==
  LET answers == {i \in DOMAIN Detectors : Detectors[i].probe \in e.probes}
  IN IF answers = {} THEN "None" ELSE Detectors[Min(answers)].platform

\* Variant of RecommendBackend: ROCm is not thought of.
RecommendWithoutRocm(platform) ==
  CASE platform = "Cuda"  -> "gsplat"
    [] platform = "Metal" -> "gaussian-splatting"
    [] OTHER              -> "mock"

\* GpuInfo::recommend_backend.
RecommendBackend(platform) ==
  CASE platform = "Cuda"             -> "gsplat"
    [] platform \in {"Metal", "Rocm"} -> "gaussian-splatting"
    [] OTHER                         -> "mock"

AutoSelectBackend(e) ==
  IF e.forced THEN "mock" ELSE RecommendBackend(DetectGpu(e))

-----------------------------------------------------------------------------
(* The name. *)

\* EnvConfig: BACKEND as it stands, or the reference implementation.
ConfigBackend(e) == IF e.BACKEND = "none" THEN "gaussian-splatting" ELSE e.BACKEND

\* resolve_backend_name(None), the only way it is called: the variable wins,
\* and its value is not looked at.
ResolveBackendName(e) ==
  IF e.BACKEND # "none" THEN e.BACKEND ELSE AutoSelectBackend(e)

\* params.backend_name, which the program always fills in.
Selected(e) == IF e.program THEN ConfigBackend(e) ELSE ResolveBackendName(e)

-----------------------------------------------------------------------------
(* Plugins. *)

\* PluginLoader::new: the search paths, in order.
Places == <<"PLUGIN_PATH", "executable", "system", "working directory">>

Library == {"no directory", "no library", "broken", "good"}

\* find_plugin: the first search path with a library of that name in it.
FindPlugin(e, name) ==
  LET hits == {i \in DOMAIN Places :
                 name = e.named /\ e.libs[Places[i]] \in {"broken", "good"}}
  IN IF hits = {} THEN "no library" ELSE e.libs[Places[Min(hits)]]

\* get_backend of a new registry finds something to call: a backend compiled
\* in, or a library that loads and exports create_backend.  A library that
\* does not is not passed over for one further down the search paths.
Loads(e, name) == name \in Builtin \/ FindPlugin(e, name) = "good"
=============================================================================
