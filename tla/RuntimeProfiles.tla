--------------------------- MODULE RuntimeProfiles ---------------------------
(***************************************************************************)
(* The runtime profile of a site package and what the service makes of it: *)
(* validation when a profile is loaded or saved, the acquisition mode, the *)
(* capabilities left in that mode (app/service/src/runtime_profile.rs) and *)
(* the weaker availability check of the package that holds it              *)
(* (app/service/src/site_config.rs).  A document is a record; the parts a  *)
(* test only accepts or refuses (a path, a digest, a range) are the words  *)
(* "ok" and "bad".                                                         *)
(***************************************************************************)
EXTENDS Naturals

\* A document without capture.json beside it.
NoCapture == [expected |-> 0]

\* resolved_acquisition_mode: the mode of a document that names none follows
\* from its provider and its connection.
ResolvedMode(d) ==
  CASE d.mode # "absent" -> d.mode
    [] d.provider = "simulated" \/ d.connection = "simulated" -> "simulation"
    [] d.provider = "bkv" \/ d.connection = "none" -> "offline"
    [] OTHER -> "online"

\* resolved_capture.
ResolvedCapture(d) ==
  IF d.capture = "absent"
  THEN [enabled |-> d.connection = "headless-cpp", autostart |-> d.connection = "headless-cpp"]
  ELSE [enabled |-> d.capture \in {"on", "auto"}, autostart |-> d.capture \in {"auto", "auto-off"}]

\* The camera loop of validate_profile: as many cameras as the count says,
\* numbered in order, each with a source of its own.
CamerasValid(d) == d.count > 0 /\ d.count = d.cameras /\ d.order = "ok"

\* The connection decides which capabilities may and must be there.
ConnectionValid(d) ==
  \/ /\ d.connection = "none"
     /\ ~d.direct /\ ~d.manage /\ ~d.recon
     /\ d.provider = "bkv" /\ ResolvedCapture(d) = [enabled |-> FALSE, autostart |-> FALSE]
  \/ /\ d.connection = "headless-cpp"
     /\ d.direct /\ d.manage /\ ResolvedCapture(d).enabled

\* The conditions on the mode; validate_simulation_source_directory and the
\* ranges of speed and gap are d.simulation.
ModeValid(d) ==
  /\ ResolvedMode(d) = "online" => d.provider \notin {"bkv", "simulated"}
  /\ ResolvedMode(d) = "simulation" =>
       /\ d.count = 6 /\ d.provider = "external-api" /\ d.connection = "headless-cpp"
       /\ ResolvedCapture(d).enabled /\ d.manage /\ d.simulation = "ok"

\* validate_loopback_origin.
LoopbackOrigin(d) == d.origin = "ok"

\* Storage paths, with what a local converter needs.
StorageValid(d) ==
  /\ d.paths # "bad"
  /\ d.data = "converted-local" => d.paths = "all" /\ LoopbackOrigin(d)

\* The algorithm part.
AlgorithmValid(d) == d.algorithm # "bad"

\* validate_profile.
ValidProfile(d) ==
  /\ d.identity = "ok" /\ CamerasValid(d)
  /\ ResolvedCapture(d).autostart => ResolvedCapture(d).enabled
  /\ ConnectionValid(d) /\ ModeValid(d) /\ StorageValid(d) /\ AlgorithmValid(d)

\* validate_capture_profile: the cameras that are enabled are the runtime's.
CaptureMatches(d, c) ==
  /\ ResolvedMode(d) = "simulation" => c.expected = 6
  /\ c.expected = d.count /\ c.enabled = d.count

\* validate_online_capture_hardware, with effective_sick_cti_path and the
\* digest of the file: the producer is the one the package names.
HardwareVerified(d, c) == ResolvedMode(d) = "online" => c.hardware = "ok"

\* validate_simulation_path_isolation with the helpers that compare paths.
SourceIsolated(d, c) == ResolvedMode(d) = "simulation" => ~c.overlap

\* load_internal: the document and its capture file.
Loadable(d) ==
  /\ ValidProfile(d)
  /\ IF d.file = NoCapture THEN d.connection # "headless-cpp"
     ELSE CaptureMatches(d, d.file) /\ HardwareVerified(d, d.file) /\ SourceIsolated(d, d.file)

\* effective_for_mode: the capabilities a mode leaves.
Effective(d) ==
  CASE ResolvedMode(d) = "online" ->
         [direct |-> d.direct, manage |-> d.manage, recon |-> d.recon, replay |-> d.replay]
    [] ResolvedMode(d) = "offline" ->
         [direct |-> FALSE, manage |-> FALSE, recon |-> FALSE, replay |-> d.replay]
    [] OTHER -> [direct |-> FALSE, manage |-> d.manage, recon |-> d.recon, replay |-> TRUE]

\* RuntimeProfile::allows.
Allows(d, capability) == Effective(d)[capability]

-----------------------------------------------------------------------------
(* The availability check of a package.                                    *)

\* check_direct_configuration: the counts of runtime.json and capture.json.
CountsAgree(d) ==
  d.count > 0 /\ d.count = d.cameras /\ d.file # NoCapture
  /\ d.file.expected = d.count /\ d.file.listed = d.count

\* check_bkv_configuration: a source of data which is not the online database.
BkvSourceNamed(d) == d.data \notin {"", "bkv-online-mysql"}

\* check_package on a package whose five files are there.
Unblocked(d) ==
  ~d.deprecated /\ IF d.site = "bkv" THEN BkvSourceNamed(d) ELSE CountsAgree(d)

\* runtime_template with capture_template, for the two kinds of site.
BkvTemplate(id) ==
  [id |-> id, site |-> "bkv", deprecated |-> FALSE, identity |-> "ok", mode |-> "offline",
   provider |-> "bkv", data |-> "converted-local", connection |-> "none", count |-> 6,
   cameras |-> 6, order |-> "ok", capture |-> "off", direct |-> FALSE, manage |-> FALSE,
   recon |-> FALSE, replay |-> TRUE, simulation |-> "absent", paths |-> "all",
   origin |-> "ok", algorithm |-> "off", file |-> NoCapture]

DirectTemplate(id) ==
  [BkvTemplate(id) EXCEPT
     !.site = "direct-camera", !.mode = "online", !.provider = "headless-cpp",
     !.data = "online-production", !.connection = "headless-cpp", !.count = 8,
     !.cameras = 8, !.capture = "on", !.direct = TRUE, !.manage = TRUE, !.recon = TRUE,
     !.replay = FALSE, !.paths = "none", !.origin = "bad",
     !.file = [expected |-> 8, listed |-> 8, enabled |-> 8, hardware |-> "bad", overlap |-> FALSE]]

=============================================================================
