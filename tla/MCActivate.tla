----------------------------- MODULE MCActivate -----------------------------
(* A small host for Activate: one operator call per manifest defect and per *)
(* host condition the pipeline distinguishes, beside a second call that     *)
(* brings up a Compose project nested under the first one's name.           *)
EXTENDS Activate

CONSTANTS p1, p2

Now == 2

(* Compose files: a hardened service of a pinned image, and one built from  *)
(* the bundle; then one defect at a time.                                    *)
MCBundleDir == <<"scratch", "bundle">>

Path(lead, parts)  == [lead |-> lead, parts |-> parts]
Short(wraps, text) == [type |-> "short", source |-> [wraps |-> wraps, text |-> text]]

Hardened ==
  [ports |-> {[form |-> "short", fields |-> 3, host |-> "127.0.0.1"]},
   volumes |-> {Short(<<>>, Path(".", <<".", "data">>)), Short(<<>>, Path("name", <<"named">>)),
                Short(<<"default">>, Path("/", <<"scratch", "bundle", "certs">>))},
   env_file |-> {Path(".", <<".", "local.env">>)},
   build |-> [form |-> "none", context |-> NoText, network |-> ""],
   image |-> [form |-> "string", named |-> TRUE, digest |-> "sha256"],
   keys |-> {"read_only"}, modes |-> [key \in NamespaceModes |-> ""],
   cap_add |-> {}, cap_drop |-> {"ALL"}, security_opt |-> {"no-new-privileges:true"},
   pids_limit |-> 64, mem_limit |-> "size"]

BuildFrom(form, context, network) ==
  [Hardened EXCEPT !.image.form = "none",
                   !.build = [form |-> form, context |-> context, network |-> network]]

Built == BuildFrom("mapping", Path(".", <<".", "web", "..", "app">>), "none")

Mounting(v)   == [Hardened EXCEPT !.volumes = @ \union {v}]
Publishing(p) == [Hardened EXCEPT !.ports = @ \union {p}]

(* One service per test of the scan, beside the one rule it must break.     *)
Etc == Path("/", <<"etc">>)

Defects ==
  {<<svc, "F.1-non-loopback-port">> : svc \in
     {Publishing([form |-> "short", fields |-> 2, host |-> "8080"]),
      Publishing([form |-> "short", fields |-> 3, host |-> "0.0.0.0"]),
      Publishing([form |-> "number", fields |-> 1, host |-> ""]),
      Publishing([form |-> "long", fields |-> 1, host |-> ""])}}
  \union {<<[Hardened EXCEPT !.keys = @ \union {"privileged"}], "F.2-privileged">>,
          <<[Hardened EXCEPT !.cap_add = {"NET_ADMIN"}], "F.2-cap-add">>,
          <<[Hardened EXCEPT !.modes["pid"] = "host"], "F.2-host-namespace">>,
          <<[Hardened EXCEPT !.keys = @ \union {"userns_mode"}], "F.2-userns-mode">>,
          <<[Hardened EXCEPT !.security_opt = @ \union {"seccomp:unconfined"}], "F.2-seccomp-unconfined">>}
  \union {<<Mounting(v), "F.3-host-path-escapes-bundle">> : v \in
     {Short(<<>>, Etc), Short(<<>>, Path(".", <<"..", "..", "etc">>)),
      Short(<<"default", "default">>, Etc), [Short(<<>>, Etc) EXCEPT !.type = "bind"]}}
  \union {<<Mounting(v), "F.3-volume-unresolvable-interpolation">> : v \in
     {Short(<<"bare">>, Etc), Short(<<"default", "required">>, Etc)}}
  \union {<<Mounting(Short(<<>>, Path("~", <<"~", "data">>))), "F.3-volume-unresolvable-tilde">>,
          <<Mounting(Short(<<>>, Path("/", DockerSocket))), "F.3-docker-socket-mount">>,
          <<BuildFrom("mapping", NoText, "none"), "F.3-build-context-unrecognized">>,
          <<BuildFrom("mapping", Path("name", <<"https:">>), "none"), "F.3-build-context-not-local">>,
          <<BuildFrom("mapping", Path(".", <<"..">>), "none"), "F.3-build-context-escapes-bundle">>,
          <<[Hardened EXCEPT !.env_file = {NoText}], "F.3-env-file-unrecognized">>,
          <<[Hardened EXCEPT !.env_file = {Path(".", <<"..", "other.env">>)}], "F.3-env-file-escapes-bundle">>,
          <<BuildFrom("string", Path(".", <<".">>), ""), "F.8-build-network-not-none">>,
          <<BuildFrom("mapping", Path(".", <<".">>), "host"), "F.8-build-network-not-none">>,
          <<[Hardened EXCEPT !.image.digest = "none"], "F.15-image-not-digest-pinned">>,
          <<[Hardened EXCEPT !.keys = {}], "F.16-missing-read-only">>,
          <<[Hardened EXCEPT !.cap_drop = {"NET_RAW"}], "F.16-missing-cap-drop-all">>,
          <<[Hardened EXCEPT !.security_opt = {}], "F.16-missing-no-new-privileges">>,
          <<[Hardened EXCEPT !.pids_limit = 0], "F.16-missing-pids-limit">>,
          <<[Hardened EXCEPT !.mem_limit = "none"], "F.16-missing-mem-limit">>}

Compose(services) == [read |-> "ok", services |-> services]

(* A bind mount that names its source like a volume: it breaks no rule and  *)
(* leaves the bundle.                                                       *)
Beside == Path("name", <<"data", "..", "..", "shared">>)
BindingBeside == Mounting([Short(<<>>, Beside) EXCEPT !.type = "bind"])

ASSUME TheScanNamesEachDefect ==
  /\ Clean(Compose({Hardened, Built})) /\ Contained(Compose({Hardened, Built}))
  /\ \A d \in Defects : d[1] \in Services /\ Violations(d[1]) = {d[2]}

ASSUME TheScanOverlooksABind ==
  /\ BindingBeside \in Services /\ Clean(Compose({BindingBeside}))
  /\ Beside \in ReadsFromHost(BindingBeside) /\ ~InsideBundle(Beside)
  /\ Beside \notin ReadsFromHost(Mounting(Short(<<>>, Beside)))

(* A Wasm installation with a preopen below its work dir; and every path of *)
(* up to three parts that a preopen may name leads into the work dir.       *)
Limits == [max_memory |-> 64, timeout_ms |-> 10000, fuel |-> <<>>]
EnvName(n) == [name |-> n, wellformed |-> TRUE]
Host(labels) == [lowercase |-> TRUE, labels |-> labels]

GuestSpec ==
  WasmSpec(Path("name", <<"app.wasm">>),
           <<Preopen(Path("/", <<"work">>), NoText),
             Preopen(Path("/", <<"data">>), Path("name", <<"data", ".", "in">>))>>,
           <<Host(<<"word", "word">>)>>, <<EnvName("KEY")>>, Limits)

ASSUME PreopensLeadInside ==
  \A lead \in {"name", ".", "~", "/"}, parts \in BoundedSeq({"..", ".", "a", ""}, 3) :
    LET w == [GuestSpec EXCEPT !.preopens[2].host_subdir = Path(lead, parts)]
    IN ValidWasmSpec(w) => PreopensStayInside(w)

BadSpecs ==
  {[GuestSpec EXCEPT !.world = "wasi:http/proxy"],
   [GuestSpec EXCEPT !.component_path = Path("name", <<"..", "app.wasm">>)],
   [GuestSpec EXCEPT !.preopens[2].host_subdir = Path("/", <<"etc">>)],
   [GuestSpec EXCEPT !.preopens[2].guest_path = Path("/", <<"work">>)],
   [GuestSpec EXCEPT !.allowed_http_hosts = <<Host(<<"word">>)>>],
   [GuestSpec EXCEPT !.allowed_http_hosts = <<Host(<<"digits", "digits", "digits", "digits">>)>>],
   [GuestSpec EXCEPT !.env = <<[name |-> "1X", wellformed |-> FALSE]>>],
   [GuestSpec EXCEPT !.limits.max_memory = MaxWasmMemory + 1],
   [GuestSpec EXCEPT !.limits.timeout_ms = 0],
   [GuestSpec EXCEPT !.limits.fuel = <<0>>]}

BadContracts ==
  {[DefaultContract EXCEPT !.schema = 2],
   [DefaultContract EXCEPT !.resources.cpu_cores = "nan"],
   [DefaultContract EXCEPT !.hooks.verify = ""],
   [DefaultContract EXCEPT !.sandbox_min_tier["macos"] = ""],
   [DefaultContract EXCEPT !.network.host_loopback_ports = {[port |-> 0, justification |-> "x"]}],
   [DefaultContract EXCEPT !.network.mode = "host_loopback"],
   [DefaultContract EXCEPT !.network.egress = {[host |-> "h", port |-> 443, justification |-> "x"]}]}

ASSUME BlocksAreJudged ==
  /\ ValidWasmSpec(GuestSpec) /\ ContractAccepted(DefaultContract) /\ ContractAccepted(NoBlock)
  /\ \A w \in BadSpecs : ~ValidWasmSpec(w)
  /\ \A e \in BadContracts : ~ContractAccepted(e)

-----------------------------------------------------------------------------
Good == [id |-> "good", publisher |-> "trusted", signed |-> TRUE, expires_at |-> 3,
         kind |-> "Compose", wasm |-> NoBlock, env |-> NoBlock, path |-> "inside",
         digest |-> "clean", template |-> {"KEY", "OTHER"}, required |-> {"KEY"}]
GoodBinary == [Good EXCEPT !.id = "binary", !.kind = "Binary"]
GoodWasm   == [Good EXCEPT !.id = "wasm", !.kind = "Wasm", !.wasm = GuestSpec]

MCManifests ==
  {Good, GoodBinary, GoodWasm}
  \union {[Good EXCEPT !.id = "unsigned", !.signed = FALSE],
          [Good EXCEPT !.id = "expired", !.expires_at = Now],
          [Good EXCEPT !.id = "stranger", !.publisher = "stranger"],
          [Good EXCEPT !.id = "k8s", !.kind = "K8s"],
          [Good EXCEPT !.id = "stray_wasm", !.wasm = GuestSpec],
          [Good EXCEPT !.id = "egress", !.env = CHOOSE e \in BadContracts : e.network.egress # {}],
          [Good EXCEPT !.id = "outside", !.path = "outside"],
          [Good EXCEPT !.id = "needy", !.required = {"KEY", "OTHER"}],
          [Good EXCEPT !.id = "violating", !.digest = "violating"],
          [GoodBinary EXCEPT !.id = "unsafe", !.digest = "unsafe"],
          [GoodWasm EXCEPT !.id = "undeclared", !.wasm.env = <<EnvName("SECRET")>>]}

Bundle(d, entries, compose) ==
  [digest |-> d, entries |-> entries, compose |-> compose, creates |-> {"container", "network"}]

Plain == [Hardened EXCEPT !.volumes = {Short(<<>>, Path(".", <<"data">>))}, !.env_file = {}]

MCBundles ==
  {Bundle("clean", "safe", Compose({Plain, [Plain EXCEPT !.volumes = BindingBeside.volumes]})),
   Bundle("violating", "safe", Compose({[Plain EXCEPT !.volumes = {Short(<<"default">>, Etc)}]})),
   Bundle("unsafe", "unsafe", [read |-> "missing", services |-> {}])}

Options(project, os, require, policy, location) ==
  [project |-> project, os |-> os, require_binary_sandbox |-> require, policy |-> policy,
   location |-> location, allowlist |-> {"trusted"}, env_values |-> {"KEY"}, now |-> Now]

MCProcs == {p1, p2}

MCRequests ==
  [p \in MCProcs |->
     IF p = p1
       THEN {Options(<<"a">>, os, r, "default", MCManifests) : os \in {"linux"}, r \in BOOLEAN}
            \union {Options(<<"a">>, os, r, pol, {GoodBinary}) :
                     os \in {"windows", "android", "macos"}, r \in BOOLEAN, pol \in {"default", "extended"}}
            \union {Options(<<"kali", "a">>, "linux", TRUE, "default", {Good})}
       ELSE {Options(<<"a", "0">>, "linux", TRUE, "default", {Good})}]

MCProtected == {"kali"}

MCForeign == {[class |-> "container", project |-> <<"kali", "desktop">>]}
=============================================================================
