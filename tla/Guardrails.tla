----------------------------- MODULE Guardrails -----------------------------
(***************************************************************************)
(* crates/installer-engine/src/guardrails.rs: the scan of a bundle's       *)
(* compose file, made before any `docker` command.  A compose file is what *)
(* the scan reads of it: one record per service, with the keys it looks    *)
(* at.  Below the rules: what docker gives to the containers of a file,    *)
(* which is what the rules are for.                                        *)
(***************************************************************************)
EXTENDS Integers, Sequences, SequencesExt

CONSTANT BundleDir  \* the parts of the path of the unpacked bundle

ASSUME BundleDirAssumption == BundleDir \in Seq(STRING)

-----------------------------------------------------------------------------
(* A path as written: what it begins with, and its parts between slashes.   *)
Text   == [lead : {"/", ".", "~", "name"}, parts : Seq(STRING)]
NoText == [none |-> TRUE]

(* The source of a volume: a chain of interpolations around a path, the     *)
(* outermost first: ${V:-...} has a default, ${V:?...} demands a value and  *)
(* ${V} offers nothing to check.                                            *)
Source == [wraps : Seq({"default", "required", "bare"}), text : Text]

Port   == [form : {"short", "long", "number", "other"}, fields : 1..4, host : STRING]
Volume == [type : {"short", "bind", "volume", "other"}, source : Source \union {NoText}]
Build  == [form : {"none", "string", "mapping", "other"}, context : Text \union {NoText},
           network : STRING]
Image  == [form : {"none", "string", "other"}, named : BOOLEAN, digest : {"none", "sha256", "malformed"}]

(* `keys` are the keys whose presence, or whose value true, is what counts; *)
(* capabilities and security options are read without regard to case.       *)
Keys == {"privileged", "userns_mode", "read_only", "deploy_memory"}

NamespaceModes == {"network_mode", "pid", "ipc"}

Services ==
  [ports : SUBSET Port, volumes : SUBSET Volume, env_file : SUBSET (Text \union {NoText}),
   build : Build, image : Image, keys : SUBSET Keys, modes : [NamespaceModes -> STRING],
   cap_add : SUBSET STRING, cap_drop : SUBSET STRING, security_opt : SUBSET STRING,
   pids_limit : Int, mem_limit : {"none", "size", "other"}]

(* A file that cannot be read or parsed, or has no `services:`, is rejected *)
(* whatever it says.                                                        *)
ComposeFiles == [read : {"ok", "missing", "unparsable"}, services : SUBSET Services]

When(rule, violated) == {r \in {rule} : violated}

-----------------------------------------------------------------------------
(* F.1: every published port names a loopback address. *)
LoopbackHosts == {"127.0.0.1", "localhost", "::1"}

LoopbackOnly(port) ==
  /\ \/ port.form = "short" /\ port.fields = 3  \* host:published:target
     \/ port.form = "long"                      \* host_ip
  /\ port.host \in LoopbackHosts

CheckPorts(svc) ==
  When("F.1-non-loopback-port", \E port \in svc.ports : ~LoopbackOnly(port))

(* F.2: nothing of the host's privileges and namespaces. *)
CheckDangerousFlags(svc) ==
  When("F.2-privileged", "privileged" \in svc.keys)
  \union When("F.2-cap-add", svc.cap_add # {})
  \union When("F.2-host-namespace", \E key \in NamespaceModes : svc.modes[key] = "host")
  \union When("F.2-userns-mode", "userns_mode" \in svc.keys)
  \union When("F.2-seccomp-unconfined",
              \E opt \in svc.security_opt : opt \in {"seccomp:unconfined", "apparmor:unconfined"})

(* Lexical: ".." leaves the last directory, "." stays, the root has no      *)
(* parent.  An absolute path replaces the directory it is joined to.        *)
Enter(dir, part) ==
  CASE part = ".." -> SubSeq(dir, 1, Len(dir) - 1)
    [] part = "."  -> dir
    [] OTHER       -> Append(dir, part)

Normalize(parts) == FoldLeft(Enter, <<>>, parts)

Join(text) == IF text.lead = "/" THEN text.parts ELSE BundleDir \o text.parts

InsideBundle(text) == IsPrefix(Normalize(BundleDir), Normalize(Join(text)))

IsPath(text) == text.lead \in {"/", "."}

(* F.3: a default is checked in place of the variable, as deep as defaults  *)
(* go; a source that does not begin as a path is taken for a named volume,  *)
(* whatever the type of its entry.                                          *)
DockerSocket == <<"var", "run", "docker.sock">>

CheckOneSource(source) ==
  CASE \E i \in DOMAIN source.wraps : source.wraps[i] # "default" ->
         {"F.3-volume-unresolvable-interpolation"}
    [] source.text.lead = "~" -> {"F.3-volume-unresolvable-tilde"}
    [] source.text.lead = "/" /\ source.text.parts = DockerSocket -> {"F.3-docker-socket-mount"}
    [] OTHER -> When("F.3-host-path-escapes-bundle", IsPath(source.text) /\ ~InsideBundle(source.text))

(* The short syntax is taken for a bind mount, the long one says so. *)
Mounts(svc) == {v.source : v \in {w \in svc.volumes : w.type \in {"short", "bind"} /\ w.source # NoText}}

CheckVolumes(svc) == UNION {CheckOneSource(source) : source \in Mounts(svc)}

CheckBuild(svc) ==
  CASE svc.build.form = "none" -> {}
    [] svc.build.form = "other" \/ svc.build.context = NoText -> {"F.3-build-context-unrecognized"}
    [] ~IsPath(svc.build.context) -> {"F.3-build-context-not-local"}
    [] OTHER -> When("F.3-build-context-escapes-bundle", ~InsideBundle(svc.build.context))

CheckEnvFile(svc) ==
  When("F.3-env-file-unrecognized", NoText \in svc.env_file)
  \union When("F.3-env-file-escapes-bundle",
              \E text \in svc.env_file \ {NoText} : ~InsideBundle(text))

(* F.8: a build has no network. *)
CheckBuildNetwork(svc) ==
  When("F.8-build-network-not-none",
       svc.build.form # "none" /\ ~(svc.build.form = "mapping" /\ svc.build.network = "none"))

(* F.15: an image is named by its digest. *)
ImageIsDigestPinned(image) == image.form = "string" /\ image.named /\ image.digest = "sha256"

CheckImageDigest(svc) ==
  When("F.15-image-not-digest-pinned", svc.image.form # "none" /\ ~ImageIsDigestPinned(svc.image))

(* F.16: the hardening every service must declare. *)
NoNewPrivileges == {"no-new-privileges", "no-new-privileges:true", "no-new-privileges=true"}

CheckRuntimeHardening(svc) ==
  When("F.16-missing-read-only", "read_only" \notin svc.keys)
  \union When("F.16-missing-cap-drop-all", "ALL" \notin svc.cap_drop)
  \union When("F.16-missing-no-new-privileges", svc.security_opt \cap NoNewPrivileges = {})
  \union When("F.16-missing-pids-limit", svc.pids_limit <= 0)
  \union When("F.16-missing-mem-limit", svc.mem_limit # "size" /\ "deploy_memory" \notin svc.keys)

Violations(svc) ==
  UNION {CheckPorts(svc), CheckDangerousFlags(svc), CheckVolumes(svc), CheckBuild(svc),
         CheckEnvFile(svc), CheckBuildNetwork(svc), CheckImageDigest(svc),
         CheckRuntimeHardening(svc)}

(* scan_compose under the strict policy, as step 7 uses it. *)
Clean(compose) ==
  compose.read = "ok" /\ \A svc \in compose.services : Violations(svc) = {}

-----------------------------------------------------------------------------
(* What docker makes of a service.  An unqualified port is published on     *)
(* every interface; a variable may hold any path unless it has a default,   *)
(* and is taken to be unset; env_file and build context are literal paths.  *)
PublishedOn(port) ==
  IF port.form \in {"short", "long"} /\ (port.form = "short" => port.fields = 3)
    THEN port.host ELSE "0.0.0.0"

(* In the short syntax a source that is a name is a named volume; in the    *)
(* long one `type: bind` binds whatever the source says, and a name is a    *)
(* path below the project directory, which is the bundle's.                 *)
Binds(svc) ==
  {v.source : v \in {w \in svc.volumes :
     /\ w.source # NoText
     /\ w.type = "bind" \/ (w.type = "short" /\ w.source.text.lead # "name")}}

ReadsFromHost(svc) ==
  {source.text : source \in Binds(svc)}
  \union (svc.env_file \ {NoText})
  \union {text \in {svc.build.context} : svc.build.form \in {"string", "mapping"}}

(* What the scan lets through without asking where it leads: a bind mount   *)
(* it takes for a named volume, and a `~` of env_file that it takes for a   *)
(* directory of that name.                                                  *)
Overlooked(svc) ==
  {source.text : source \in {s \in Binds(svc) : s.text.lead = "name"}}
  \union {text \in svc.env_file \ {NoText} : text.lead = "~"}

Capabilities(svc) ==
  IF "privileged" \in svc.keys THEN {"ALL"}
  ELSE svc.cap_add \union (IF "ALL" \in svc.cap_drop THEN {} ELSE {"DEFAULT"})

Confined(svc) ==
  /\ \A port \in svc.ports : PublishedOn(port) \in LoopbackHosts
  /\ \A source \in Mounts(svc) : \A i \in DOMAIN source.wraps : source.wraps[i] = "default"
  /\ \A text \in ReadsFromHost(svc) \ Overlooked(svc) : text # NoText /\ InsideBundle(text)
  /\ Capabilities(svc) = {}
  /\ \A key \in NamespaceModes : svc.modes[key] # "host"
  /\ svc.build.form # "none" => svc.build.network = "none"
  /\ svc.image.form # "none" => svc.image.digest = "sha256"
  /\ svc.pids_limit > 0

(* A container of the file reaches nothing of the host but the bundle and   *)
(* what the scan has overlooked.                                            *)
Contained(compose) == \A svc \in compose.services : Confined(svc)
=============================================================================
