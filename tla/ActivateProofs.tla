--------------------------- MODULE ActivateProofs ---------------------------
(***************************************************************************)
(* Safety of Activate for any number of concurrent calls, any manifests,   *)
(* bundles, requests and any docker host.                                  *)
(***************************************************************************)
EXTENDS Activate, TLAPS

-----------------------------------------------------------------------------
(* What the rules of the compose scan are worth: rule by rule, a service    *)
(* without a violation gets nothing that Confined forbids.                  *)
LEMMA WhenEmpty ==
  ASSUME NEW rule, NEW violated, When(rule, violated) = {}
  PROVE  ~violated
  BY DEF When

LEMMA PortsConfined ==
  ASSUME NEW svc, CheckPorts(svc) = {}
  PROVE  \A port \in svc.ports : PublishedOn(port) \in LoopbackHosts
<1>1. \A port \in svc.ports : LoopbackOnly(port)
  BY WhenEmpty DEF CheckPorts
<1>2. QED
  BY <1>1 DEF LoopbackOnly, PublishedOn

LEMMA VolumesConfined ==
  ASSUME NEW svc, CheckVolumes(svc) = {}, NEW source \in Mounts(svc)
  PROVE  /\ \A i \in DOMAIN source.wraps : source.wraps[i] = "default"
         /\ source.text.lead # "~"
         /\ IsPath(source.text) => InsideBundle(source.text)
<1>1. CheckOneSource(source) = {}
  BY DEF CheckVolumes
<1>2. ~\E i \in DOMAIN source.wraps : source.wraps[i] # "default"
  BY <1>1 DEF CheckOneSource
<1>3. source.text.lead # "~" /\ ~(source.text.lead = "/" /\ source.text.parts = DockerSocket)
  BY <1>1, <1>2 DEF CheckOneSource
<1>4. When("F.3-host-path-escapes-bundle", IsPath(source.text) /\ ~InsideBundle(source.text)) = {}
  BY <1>1, <1>2, <1>3 DEF CheckOneSource
<1>5. QED
  BY <1>2, <1>3, <1>4, WhenEmpty

LEMMA FlagsConfined ==
  ASSUME NEW svc, CheckDangerousFlags(svc) = {}, CheckRuntimeHardening(svc) = {}
  PROVE  /\ Capabilities(svc) = {}
         /\ \A key \in NamespaceModes : svc.modes[key] # "host"
         /\ ~(svc.pids_limit <= 0)
<1>1. /\ When("F.2-privileged", "privileged" \in svc.keys) = {}
      /\ When("F.2-cap-add", svc.cap_add # {}) = {}
      /\ When("F.2-host-namespace", \E key \in NamespaceModes : svc.modes[key] = "host") = {}
  BY DEF CheckDangerousFlags
<1>2. /\ When("F.16-missing-cap-drop-all", "ALL" \notin svc.cap_drop) = {}
      /\ When("F.16-missing-pids-limit", svc.pids_limit <= 0) = {}
  BY DEF CheckRuntimeHardening
<1>3. "privileged" \notin svc.keys /\ svc.cap_add = {} /\ "ALL" \in svc.cap_drop
  BY <1>1, <1>2, WhenEmpty
<1>4. ~\E key \in NamespaceModes : svc.modes[key] = "host"
  BY <1>1, WhenEmpty
<1>5. ~(svc.pids_limit <= 0)
  BY <1>2, WhenEmpty
<1>6. QED
  BY <1>3, <1>4, <1>5 DEF Capabilities

LEMMA BuildConfined ==
  ASSUME NEW svc \in Services, CheckBuild(svc) = {}, CheckBuildNetwork(svc) = {}
  PROVE  /\ svc.build.form # "none" => svc.build.network = "none"
         /\ svc.build.form \in {"string", "mapping"}
              => svc.build.context # NoText /\ InsideBundle(svc.build.context)
<1>1. svc.build.form # "none" => svc.build.network = "none"
  BY WhenEmpty DEF CheckBuildNetwork
<1>2. ASSUME svc.build.form \in {"string", "mapping"}
      PROVE  svc.build.context # NoText /\ InsideBundle(svc.build.context)
  <2>1. svc.build.context # NoText /\ IsPath(svc.build.context)
    BY <1>2 DEF CheckBuild
  <2>2. When("F.3-build-context-escapes-bundle", ~InsideBundle(svc.build.context)) = {}
    BY <1>2, <2>1 DEF CheckBuild
  <2>3. QED
    BY <2>1, <2>2, WhenEmpty
<1>3. QED
  BY <1>1, <1>2

LEMMA EnvFileConfined ==
  ASSUME NEW svc, CheckEnvFile(svc) = {}, NEW text \in svc.env_file \ {NoText}
  PROVE  InsideBundle(text)
<1>1. When("F.3-env-file-escapes-bundle",
           \E t \in svc.env_file \ {NoText} : ~InsideBundle(t)) = {}
  BY DEF CheckEnvFile
<1>2. QED
  BY <1>1, WhenEmpty

LEMMA ImagePinned ==
  ASSUME NEW svc, CheckImageDigest(svc) = {}, svc.image.form # "none"
  PROVE  svc.image.digest = "sha256"
<1>1. ~(svc.image.form # "none" /\ ~ImageIsDigestPinned(svc.image))
  BY WhenEmpty DEF CheckImageDigest
<1>2. QED
  BY <1>1 DEF ImageIsDigestPinned

(* A volume that docker mounts is of the types the scan knows. *)
LEMMA MountsTyped ==
  ASSUME NEW svc \in Services, NEW source \in Mounts(svc)
  PROVE  source \in Source /\ source.text \in Text
<1>1. PICK v \in svc.volumes : v.source = source /\ v.source # NoText
  BY DEF Mounts
<1>2. v \in Volume
  BY DEF Services
<1>3. source \in Source
  BY <1>1, <1>2 DEF Volume
<1>4. QED
  BY <1>3 DEF Source

LEMMA ScannedServiceConfined ==
  ASSUME NEW svc \in Services, Violations(svc) = {}
  PROVE  Confined(svc)
<1>1. /\ CheckPorts(svc) = {} /\ CheckDangerousFlags(svc) = {} /\ CheckVolumes(svc) = {}
      /\ CheckBuild(svc) = {} /\ CheckEnvFile(svc) = {} /\ CheckBuildNetwork(svc) = {}
      /\ CheckImageDigest(svc) = {} /\ CheckRuntimeHardening(svc) = {}
  BY DEF Violations
<1>2. \A source \in Mounts(svc) : \A i \in DOMAIN source.wraps : source.wraps[i] = "default"
  BY <1>1, VolumesConfined
<1>3. ASSUME NEW text \in ReadsFromHost(svc) \ Overlooked(svc)
      PROVE  text # NoText /\ InsideBundle(text)
  <2>1. CASE \E source \in Binds(svc) : source.text = text
    <3>0. PICK source \in Binds(svc) : source.text = text
      BY <2>1
    <3>1. source \in Mounts(svc) /\ source.text = text /\ source.text.lead # "name"
      BY <1>3, <3>0 DEF Binds, Mounts, Overlooked
    <3>2. text \in Text /\ text.lead # "~"
      BY <1>1, <3>1, VolumesConfined, MountsTyped
    <3>3. IsPath(text) /\ text # NoText
      BY <3>1, <3>2 DEF Text, IsPath, NoText
    <3>4. QED
      BY <1>1, <3>1, <3>3, VolumesConfined
  <2>2. CASE text \in svc.env_file \ {NoText}
    BY <1>1, <2>2, EnvFileConfined
  <2>3. CASE svc.build.form \in {"string", "mapping"} /\ text = svc.build.context
    BY <1>1, <2>3, BuildConfined
  <2>4. QED
    BY <1>3, <2>1, <2>2, <2>3 DEF ReadsFromHost
<1>4. svc.pids_limit > 0
  <2>1. svc.pids_limit \in Int
    BY DEF Services
  <2>2. QED
    BY <1>1, <2>1, FlagsConfined
<1>5. Capabilities(svc) = {} /\ \A key \in NamespaceModes : svc.modes[key] # "host"
  BY <1>1, FlagsConfined
<1>6. svc.build.form # "none" => svc.build.network = "none"
  BY <1>1, BuildConfined
<1>7. svc.image.form # "none" => svc.image.digest = "sha256"
  BY <1>1, ImagePinned
<1>8. \A port \in svc.ports : PublishedOn(port) \in LoopbackHosts
  BY <1>1, PortsConfined
<1>9. QED
  BY <1>2, <1>3, <1>4, <1>5, <1>6, <1>7, <1>8 DEF Confined

(* What the scan is worth: containers of a compose file without a violation *)
(* get nothing of the host beyond the bundle and the loopback addresses,    *)
(* but for a bind mount whose source does not begin as a path, which        *)
(* check_one_source takes for a named volume, and a `~` of env_file.        *)
THEOREM ScanContains ==
  ASSUME NEW compose \in ComposeFiles, Clean(compose)
  PROVE  Contained(compose)
<1>1. \A svc \in compose.services : svc \in Services /\ Violations(svc) = {}
  BY DEF ComposeFiles, Clean
<1>2. QED
  BY <1>1, ScannedServiceConfined DEF Contained

LEMMA ScannedContained ==
  ASSUME NEW m, NEW b \in Bundles, ScanOk(m, b), m.kind = "Compose"
  PROVE  Contained(b.compose)
<1>1. b.compose \in ComposeFiles
  BY BundlesAssumption
<1>2. QED
  BY <1>1, ScanContains DEF ScanOk

-----------------------------------------------------------------------------
(* The steps of activate_inner from a given one on. *)
RunPcs      == {"compose", "chmod", "binary", "wasm", "verify"}
ScannedPcs  == {"env"} \union RunPcs
UnpackedPcs == {"scan"} \union ScannedPcs
BundlePcs   == {"unpack"} \union UnpackedPcs
AdmittedPcs == {"ps", "volumes", "networks", "fetch_bundle"} \union BundlePcs

(* What the pipeline has established by the time a call is at a step. *)
Vetted(p) ==
  /\ pc[p] \notin {"idle", "done"} => opts[p] \in Requests[p] /\ report[p] = NoReport
  /\ pc[p] = "static" => man[p] \in Manifests
  /\ pc[p] \in AdmittedPcs => man[p] \in Manifests /\ Admissible(man[p], opts[p])
  /\ pc[p] \in BundlePcs => bun[p] \in Bundles /\ DigestOk(man[p], bun[p])
  /\ pc[p] \in UnpackedPcs => files[p] = "unpacked" /\ bun[p].entries = "safe" /\ man[p].path = "inside"
  /\ pc[p] \in ScannedPcs => ScanOk(man[p], bun[p])
  /\ pc[p] \in RunPcs => EnvOk(man[p], opts[p])

(* The kind decides the branch. *)
OnBranch(p) ==
  /\ pc[p] = "compose" => man[p].kind = "Compose"
  /\ pc[p] \in {"chmod", "binary"} => man[p].kind = "Binary"
  /\ pc[p] = "wasm" => man[p].kind = "Wasm"
  /\ pc[p] = "verify" => man[p].kind \in {"Compose", "Binary"}

(* Children exist in the run steps only, and leave traces only there; what  *)
(* a call brings up belongs to its project, and only Compose brings up any. *)
ChildInPlace(p) ==
  /\ running[p] # NoProcess => pc[p] \in RunPcs \ {"chmod"} /\ running[p].code = pc[p]
  /\ pc[p] # "done" /\ pc[p] \notin RunPcs => ran[p] = {} /\ ~envfile[p]
  /\ pc[p] \notin {"idle", "done"} /\ pc[p] \notin RunPcs => created[p] = {}
  /\ pc[p] \in {"compose", "chmod", "binary", "wasm"} /\ running[p] = NoProcess =>
       ran[p] = {} /\ created[p] = {}
  /\ pc[p] \in {"chmod", "binary", "wasm"} => created[p] = {}
  /\ pc[p] = "verify" /\ man[p].kind = "Binary" => created[p] = {}
  /\ pc[p] # "idle" => \A r \in created[p] : r.project = opts[p].project

(* The backend is chosen once, in step 9, and it accepts the policy. *)
BackendChosen(p) ==
  /\ pc[p] \notin {"binary", "verify", "done"} => sandbox[p] = "none"
  /\ pc[p] = "binary" /\ running[p] = NoProcess => sandbox[p] = "none"
  /\ pc[p] \in {"binary", "verify"} /\ sandbox[p] # "none" => WrapOk(opts[p], sandbox[p])
  /\ (pc[p] = "binary" /\ running[p] # NoProcess) \/ (pc[p] = "verify" /\ man[p].kind = "Binary")
       => (sandbox[p] = "none" => MayRunUnsandboxed(opts[p]))
  /\ running[p] # NoProcess /\ pc[p] \in {"binary", "verify"} => running[p].sandbox = sandbox[p]

(* What a Rejected and what an Ok report stand for. *)
ReportSound(p) ==
  /\ report[p].status = "rejected" => ran[p] = {} /\ created[p] = {}
  /\ report[p].status = "ok" =>
       /\ opts[p] \in Requests[p] /\ man[p] \in Manifests
       /\ man[p].kind \in {"Compose", "Binary", "Wasm"}
       /\ man[p].kind # "Compose" => created[p] = {}

(* The invariant SecretsOnlyForVetted, of one call. *)
SecretsVetted(p) ==
  envfile[p] =>
    /\ man[p].publisher \in opts[p].allowlist /\ man[p].signed
    /\ bun[p].digest = man[p].digest
    /\ man[p].kind \in {"Compose", "Binary"}
    /\ man[p].kind = "Compose" => Contained(bun[p].compose)

CallInv(p) ==
  /\ Vetted(p) /\ OnBranch(p) /\ ChildInPlace(p) /\ BackendChosen(p)
  /\ ReportSound(p) /\ SecretsVetted(p)

(* TypeOK, but for created[p] \subseteq docker: that part holds only as long  *)
(* as nobody takes a resource down, so it is proved apart (CreatedStands).   *)
Typed ==
  /\ pc \in [Procs -> Steps]
  /\ opts \in [Procs -> (UNION {Requests[q] : q \in Procs}) \union {Nothing}]
  /\ \A p \in Procs : opts[p] \in Requests[p] \union {Nothing}
  /\ man \in [Procs -> Manifests \union {Nothing}]
  /\ bun \in [Procs -> Bundles \union {Nothing}]
  /\ docker \subseteq Resource
  /\ seen \in [Procs -> SUBSET Resource]
  /\ created \in [Procs -> SUBSET Resource]
  /\ files \in [Procs -> {"empty", "partial", "unpacked"}]
  /\ envfile \in [Procs -> BOOLEAN]
  /\ sandbox \in [Procs -> Backends \union {"none"}]
  /\ running \in [Procs -> Children]
  /\ ran \in [Procs -> SUBSET Codes]
  /\ report \in [Procs -> Reports]

CreatedStands == \A p \in Procs : created[p] \subseteq docker

IInv == Typed /\ \A p \in Procs : CallInv(p)

-----------------------------------------------------------------------------
(* A step of one call leaves the other calls as they are. *)

SameAt(q) ==
  /\ pc'[q] = pc[q] /\ opts'[q] = opts[q] /\ man'[q] = man[q] /\ bun'[q] = bun[q]
  /\ files'[q] = files[q] /\ envfile'[q] = envfile[q] /\ sandbox'[q] = sandbox[q]
  /\ running'[q] = running[q] /\ report'[q] = report[q] /\ created'[q] = created[q] /\ ran'[q] = ran[q]

(* CallInv speaks of one call only. *)
LEMMA SameKeeps ==
  ASSUME NEW q \in Procs, CallInv(q), SameAt(q)
  PROVE  CallInv(q)'
  BY DEF CallInv, SameAt, Vetted, OnBranch, ChildInPlace, BackendChosen, ReportSound,
         SecretsVetted

(* How Return, Reject, Goto and Spawn change the state of the call. *)
LEMMA ReturnTyped ==
  ASSUME Typed, NEW p \in Procs, NEW st \in {"ok", "rejected", "failed"},
         NEW step \in Steps \union {"none", "compose_up", "binary_chmod", "binary_run", "wasm_run"},
         Return(p, st, step)
  PROVE  /\ pc' = [pc EXCEPT ![p] = "done"]
         /\ report' \in [Procs -> Reports]
         /\ report'[p].status = st
         /\ \A q \in Procs : q # p => report'[q] = report[q]
<1>1. [status |-> st, step |-> step] \in Reports
  BY DEF Reports
<1>2. QED
  BY <1>1 DEF Typed, Return

LEMMA RejectTyped ==
  ASSUME Typed, NEW p \in Procs, Reject(p)
  PROVE  /\ pc' = [pc EXCEPT ![p] = "done"]
         /\ report' \in [Procs -> Reports]
         /\ report'[p].status = "rejected"
         /\ \A q \in Procs : q # p => report'[q] = report[q]
<1>1. pc[p] \in Steps
  BY DEF Typed
<1>2. QED
  BY <1>1, ReturnTyped DEF Reject

LEMMA GotoTyped ==
  ASSUME Typed, NEW p \in Procs, NEW step \in Steps, Goto(p, step)
  PROVE  pc' \in [Procs -> Steps] /\ report' \in [Procs -> Reports]
  BY DEF Typed, Goto

LEMMA EndTyped ==
  ASSUME Typed, NEW p \in Procs, pc' = [pc EXCEPT ![p] = "done"]
  PROVE  pc' \in [Procs -> Steps]
  BY DEF Typed, Steps

(* A child of the call is never mistaken for no child. *)
LEMMA ChildIsProcess ==
  ASSUME NEW c \in Codes, NEW sb \in Backends \union {"none", "wasmtime"}
  PROVE  /\ [code |-> c, sandbox |-> sb] # NoProcess
         /\ [code |-> c, sandbox |-> sb] \in [code : Codes, sandbox : Backends \union {"none", "wasmtime"}]
         /\ [code |-> c, sandbox |-> sb].code = c
         /\ [code |-> c, sandbox |-> sb].sandbox = sb
  BY DEF Codes, NoProcess

LEMMA SpawnTyped ==
  ASSUME Typed, NEW p \in Procs, NEW c \in Codes, NEW sb \in Backends \union {"none", "wasmtime"},
         Spawn(p, c, sb)
  PROVE  /\ running' \in [Procs -> Children] /\ ran' \in [Procs -> SUBSET Codes]
         /\ running'[p] # NoProcess /\ running'[p].code = c /\ running'[p].sandbox = sb
         /\ pc' = pc /\ report' = report
<1> DEFINE process == [code |-> c, sandbox |-> sb]
<1>1. process # NoProcess /\ process \in Children /\ process.code = c /\ process.sandbox = sb
  BY ChildIsProcess DEF Children
<1>2. running' = [running EXCEPT ![p] = process] /\ running \in [Procs -> Children]
  BY DEF Spawn, Typed
<1>3. ran' \in [Procs -> SUBSET Codes] /\ pc' = pc /\ report' = report
  BY DEF Spawn, Typed
<1> HIDE DEF process
<1>4. QED
  BY <1>1, <1>2, <1>3

LEMMA EndedKeeps ==
  ASSUME NEW p \in Procs, pc'[p] = "done", running'[p] = NoProcess,
         ReportSound(p)', SecretsVetted(p)',
         \A r \in created'[p] : r.project = opts'[p].project
  PROVE  CallInv(p)'
  BY DEF CallInv, Vetted, OnBranch, ChildInPlace, BackendChosen, RunPcs, AdmittedPcs,
         BundlePcs, UnpackedPcs, ScannedPcs

(* A fresh call. *)
LEMMA StartKeeps ==
  ASSUME IInv, NEW p \in Procs, Start(p)
  PROVE  IInv'
<1>1. PICK o \in Requests[p] : Call(p, o)
  BY DEF Start
<1>2. Typed'
  <2>1. opts' \in [Procs -> (UNION {Requests[q] : q \in Procs}) \union {Nothing}]
    <3>1. o \in (UNION {Requests[q] : q \in Procs}) \union {Nothing}
      BY Zenon
    <3>2. QED
      BY <1>1, <3>1 DEF IInv, Typed, Call
  <2>2. \A q \in Procs : opts'[q] \in Requests[q] \union {Nothing}
    BY <1>1 DEF IInv, Typed, Call
  <2>3. report' \in [Procs -> Reports]
    <3>1. NoReport \in Reports
      BY DEF NoReport, Reports, Steps
    <3>2. QED
      BY <1>1, <3>1 DEF IInv, Typed, Call
  <2>4. created' \in [Procs -> SUBSET Resource]
    BY <1>1 DEF IInv, Typed, Call
  <2>5. running' = running /\ docker' = docker
    BY <1>1 DEF Call
  <2>6. QED
    BY <1>1, <2>1, <2>2, <2>3, <2>4, <2>5 DEF IInv, Typed, Call, Steps
<1>3. ASSUME NEW q \in Procs, q # p PROVE SameAt(q)
  BY <1>1, <1>3 DEF IInv, Typed, Call, SameAt
<1>4. CallInv(p)'
  BY <1>1
     DEF IInv, Typed, Call, Start, CallInv, Vetted, OnBranch, ChildInPlace, BackendChosen,
         ReportSound, SecretsVetted, RunPcs, AdmittedPcs, BundlePcs, UnpackedPcs,
         ScannedPcs, NoReport, Steps
<1>5. QED
  BY <1>2, <1>3, <1>4, SameKeeps DEF IInv

(* Step 1. *)
LEMMA FetchManifestKeeps ==
  ASSUME IInv, NEW p \in Procs, FetchManifest(p)
  PROVE  IInv'
<1>0. Typed /\ CallInv(p)
  BY DEF IInv
<1>1. pc' \in [Procs -> Steps] /\ report' \in [Procs -> Reports]
  BY <1>0, GotoTyped, EndTyped, RejectTyped DEF Steps, FetchManifest
<1>2. Typed'
  <2>1. man' \in [Procs -> Manifests \union {Nothing}]
    <3>1. opts[p].location \subseteq Manifests
      BY <1>0, RequestsAssumption DEF CallInv, Vetted, FetchManifest
    <3>2. QED
      BY <1>0, <3>1 DEF Typed, FetchManifest
  <2>2. QED
    BY <1>0, <1>1, <2>1 DEF Typed, FetchManifest, work, child, host
<1>3. ASSUME NEW q \in Procs, q # p PROVE SameAt(q)
  BY <1>3 DEF IInv, Typed, SameAt, FetchManifest, Goto, Reject, Return, calls, work, child, host
<1>4. CallInv(p)'
  <2>1. created[p] = {} /\ running[p] = NoProcess /\ UNCHANGED <<opts, bun, running, created, ran>>
    BY <1>0 DEF FetchManifest, CallInv, ChildInPlace, RunPcs, child, host
  <2>2. CASE Reject(p) /\ UNCHANGED man
    <3>1. pc'[p] = "done" /\ ReportSound(p)' /\ SecretsVetted(p)'
      BY <1>0, <2>1, <2>2
         DEF Typed, FetchManifest, Reject, Return, CallInv, ChildInPlace, ReportSound,
             SecretsVetted, RunPcs, work
    <3>2. QED
      BY <2>1, <3>1, EndedKeeps
  <2>3. ASSUME NEW m \in opts[p].location, man' = [man EXCEPT ![p] = m], Goto(p, "static")
        PROVE  CallInv(p)'
    BY <1>0, <2>1, <2>3, RequestsAssumption
       DEF Typed, FetchManifest, Goto, NoReport, work, child, CallInv, Vetted, OnBranch,
           ChildInPlace, BackendChosen, ReportSound, SecretsVetted, RunPcs, AdmittedPcs,
           BundlePcs, UnpackedPcs, ScannedPcs
  <2>4. QED
    BY <2>2, <2>3 DEF FetchManifest
<1>5. QED
  BY <1>2, <1>3, <1>4, SameKeeps DEF IInv

(* Steps 2 to 4b and the name check of step 5. *)
LEMMA CheckManifestKeeps ==
  ASSUME IInv, NEW p \in Procs, CheckManifest(p)
  PROVE  IInv'
<1>0. Typed /\ CallInv(p)
  BY DEF IInv
<1>1. pc' \in [Procs -> Steps] /\ report' \in [Procs -> Reports]
  BY <1>0, GotoTyped, EndTyped, RejectTyped DEF Steps, CheckManifest
<1>2. Typed'
  BY <1>0, <1>1 DEF Typed, CheckManifest, calls, work, child, host
<1>3. ASSUME NEW q \in Procs, q # p PROVE SameAt(q)
  BY <1>3 DEF IInv, Typed, SameAt, CheckManifest, Goto, Reject, Return, calls, work, child, host
<1>4. CallInv(p)'
  BY <1>0
     DEF Typed, CheckManifest, Goto, Reject, Return, calls, work, child, host, CallInv,
         Vetted, OnBranch, ChildInPlace, BackendChosen, ReportSound, SecretsVetted, RunPcs,
         AdmittedPcs, BundlePcs, UnpackedPcs, ScannedPcs
<1>5. QED
  BY <1>2, <1>3, <1>4, SameKeeps DEF IInv

(* Step 5: the listings. *)
LEMMA ListDockerKeeps ==
  ASSUME IInv, NEW p \in Procs, ListDocker(p)
  PROVE  IInv'
<1>0. Typed /\ CallInv(p)
  BY DEF IInv
<1>1. pc' \in [Procs -> Steps] /\ report' \in [Procs -> Reports]
  BY <1>0, GotoTyped, EndTyped, RejectTyped DEF Steps, ListDocker
<1>2. Typed'
  BY <1>0, <1>1 DEF Typed, ListDocker, calls, work, child, host
<1>3. ASSUME NEW q \in Procs, q # p PROVE SameAt(q)
  BY <1>3
     DEF IInv, Typed, SameAt, ListDocker, Listing, Goto, Reject, Return, calls, work, child,
         host
<1>4. CallInv(p)'
  BY <1>0
     DEF Typed, ListDocker, Listing, Goto, Reject, Return, calls, work, child, host, CallInv,
         Vetted, OnBranch, ChildInPlace, BackendChosen, ReportSound, SecretsVetted, RunPcs,
         AdmittedPcs, BundlePcs, UnpackedPcs, ScannedPcs
<1>5. QED
  BY <1>2, <1>3, <1>4, SameKeeps DEF IInv

(* Step 6: download and digest. *)
LEMMA FetchBundleKeeps ==
  ASSUME IInv, NEW p \in Procs, FetchBundle(p)
  PROVE  IInv'
<1>0. Typed /\ CallInv(p)
  BY DEF IInv
<1>1. pc' \in [Procs -> Steps] /\ report' \in [Procs -> Reports]
  BY <1>0, GotoTyped, EndTyped, RejectTyped DEF Steps, FetchBundle
<1>2. Typed'
  BY <1>0, <1>1 DEF Typed, FetchBundle, calls, work, child, host
<1>3. ASSUME NEW q \in Procs, q # p PROVE SameAt(q)
  BY <1>3 DEF IInv, Typed, SameAt, FetchBundle, Goto, Reject, Return, calls, work, child, host
<1>4. CallInv(p)'
  BY <1>0
     DEF Typed, FetchBundle, Goto, Reject, Return, calls, work, child, host, CallInv, Vetted,
         OnBranch, ChildInPlace, BackendChosen, ReportSound, SecretsVetted, RunPcs,
         AdmittedPcs, BundlePcs, UnpackedPcs, ScannedPcs
<1>5. QED
  BY <1>2, <1>3, <1>4, SameKeeps DEF IInv

(* Steps 6 and 6b: unpacking and the path check. *)
LEMMA UnpackKeeps ==
  ASSUME IInv, NEW p \in Procs, Unpack(p)
  PROVE  IInv'
<1>0. Typed /\ CallInv(p)
  BY DEF IInv
<1>1. pc' \in [Procs -> Steps] /\ report' \in [Procs -> Reports]
  BY <1>0, GotoTyped, EndTyped, RejectTyped DEF Steps, Unpack
<1>2. Typed'
  BY <1>0, <1>1 DEF Typed, Unpack, calls, work, child, host
<1>3. ASSUME NEW q \in Procs, q # p PROVE SameAt(q)
  BY <1>3 DEF IInv, Typed, SameAt, Unpack, Goto, Reject, Return, calls, work, child, host
<1>4. CallInv(p)'
  BY <1>0
     DEF ScanOk, Typed, Unpack, Goto, Reject, Return, calls, work, child, host, CallInv,
         Vetted, OnBranch, ChildInPlace, BackendChosen, ReportSound, SecretsVetted, RunPcs,
         AdmittedPcs, BundlePcs, UnpackedPcs, ScannedPcs
<1>5. QED
  BY <1>2, <1>3, <1>4, SameKeeps DEF IInv

(* Step 7. *)
LEMMA ScanKeeps ==
  ASSUME IInv, NEW p \in Procs, Scan(p)
  PROVE  IInv'
<1>0. Typed /\ CallInv(p)
  BY DEF IInv
<1>1. pc' \in [Procs -> Steps] /\ report' \in [Procs -> Reports]
  BY <1>0, GotoTyped, EndTyped, RejectTyped DEF Steps, Scan
<1>2. Typed'
  BY <1>0, <1>1 DEF Typed, Scan, calls, work, child, host
<1>3. ASSUME NEW q \in Procs, q # p PROVE SameAt(q)
  BY <1>3 DEF IInv, Typed, SameAt, Scan, Goto, Reject, Return, calls, work, child, host
<1>4. CallInv(p)'
  BY <1>0
     DEF Typed, Scan, Goto, Reject, Return, calls, work, child, host, CallInv, Vetted,
         OnBranch, ChildInPlace, BackendChosen, ReportSound, SecretsVetted, RunPcs,
         AdmittedPcs, BundlePcs, UnpackedPcs, ScannedPcs
<1>5. QED
  BY <1>2, <1>3, <1>4, SameKeeps DEF IInv

(* Step 8: the one step that writes secrets. *)
LEMMA ResolveEnvKeeps ==
  ASSUME IInv, NEW p \in Procs, ResolveEnv(p)
  PROVE  IInv'
<1>0. Typed /\ CallInv(p)
  BY DEF IInv
<1>1. pc' \in [Procs -> Steps] /\ report' \in [Procs -> Reports]
  <2>1. man[p].kind \in {"Compose", "Binary", "Wasm"}
    BY <1>0, ManifestsAssumption
       DEF CallInv, Vetted, AdmittedPcs, BundlePcs, UnpackedPcs, ScannedPcs, Admissible,
           Kinds, ResolveEnv
  <2>2. RunStep[man[p].kind] \in Steps
    BY <2>1 DEF RunStep, Steps
  <2>3. QED
    BY <1>0, <2>2, GotoTyped, EndTyped, RejectTyped DEF ResolveEnv
<1>2. Typed'
  BY <1>0, <1>1 DEF Typed, ResolveEnv, calls, work, child, host
<1>3. ASSUME NEW q \in Procs, q # p PROVE SameAt(q)
  BY <1>3
     DEF IInv, Typed, SameAt, ResolveEnv, RunStep, Goto, Reject, Return, calls, work, child,
         host
<1>4. CallInv(p)'
  <2>1. man[p].kind \in {"Compose", "Binary", "Wasm"} /\ pc[p] = "env"
    BY <1>0, ManifestsAssumption
       DEF CallInv, Vetted, AdmittedPcs, BundlePcs, UnpackedPcs, ScannedPcs, Admissible,
           Kinds, ResolveEnv
  <2>2. UNCHANGED <<opts, man, bun, files, sandbox, running, ran, created>>
    BY DEF ResolveEnv, child, host
  <2>3. /\ running[p] = NoProcess /\ ran[p] = {} /\ created[p] = {} /\ sandbox[p] = "none" /\ ~envfile[p]
        /\ opts[p] \in Requests[p] /\ report[p] = NoReport
    BY <1>0, <2>1 DEF CallInv, Vetted, ChildInPlace, BackendChosen, RunPcs
  <2>4. /\ man[p].publisher \in opts[p].allowlist /\ man[p].signed
        /\ bun[p].digest = man[p].digest
        /\ man[p].kind = "Compose" => Contained(bun[p].compose)
    <3>1. /\ Admissible(man[p], opts[p]) /\ bun[p] \in Bundles /\ DigestOk(man[p], bun[p])
          /\ ScanOk(man[p], bun[p])
      BY <1>0, <2>1 DEF CallInv, Vetted, AdmittedPcs, BundlePcs, UnpackedPcs, ScannedPcs
    <3>2. QED
      BY <3>1, ScannedContained DEF Admissible, Trusted, IsValid, DigestOk
  <2>5. ASSUME Reject(p), envfile'[p] => man[p].kind # "Wasm" PROVE CallInv(p)'
    <3>1. pc'[p] = "done" /\ ReportSound(p)' /\ SecretsVetted(p)'
      BY <1>0, <2>1, <2>2, <2>3, <2>4, <2>5 DEF Typed, Reject, Return, ReportSound, SecretsVetted
    <3>2. QED
      BY <2>2, <2>3, <3>1, EndedKeeps
  <2>6. CASE /\ EnvOk(man[p], opts[p])
             /\ envfile' = [envfile EXCEPT ![p] = man[p].kind # "Wasm"]
             /\ Goto(p, RunStep[man[p].kind])
    <3>1. /\ pc'[p] = RunStep[man[p].kind] /\ report'[p] = NoReport
          /\ envfile'[p] => man[p].kind # "Wasm"
      BY <1>0, <2>3, <2>6 DEF Typed, Goto
    <3>2. /\ pc'[p] \in {"compose", "chmod", "wasm"}
          /\ pc'[p] = "compose" => man[p].kind = "Compose"
          /\ pc'[p] = "chmod" => man[p].kind = "Binary"
          /\ pc'[p] = "wasm" => man[p].kind = "Wasm"
      BY <2>1, <3>1 DEF RunStep
    <3>3. Vetted(p)'
      BY <1>0, <2>1, <2>2, <2>3, <2>6, <3>1, <3>2
         DEF CallInv, Vetted, AdmittedPcs, BundlePcs, UnpackedPcs, ScannedPcs, RunPcs
    <3>4. OnBranch(p)' /\ ChildInPlace(p)' /\ BackendChosen(p)'
      BY <2>2, <2>3, <3>2 DEF OnBranch, ChildInPlace, BackendChosen, RunPcs
    <3>5. ReportSound(p)' /\ SecretsVetted(p)'
      BY <2>1, <2>2, <2>3, <2>4, <3>1 DEF ReportSound, SecretsVetted, NoReport
    <3>6. QED
      BY <3>3, <3>4, <3>5 DEF CallInv
  <2>7. CASE Reject(p) /\ UNCHANGED envfile
    BY <2>3, <2>5, <2>7
  <2>8. CASE /\ envfile' = [envfile EXCEPT ![p] = man[p].kind # "Wasm"]
             /\ Reject(p)
    BY <1>0, <2>5, <2>8 DEF Typed
  <2>9. QED
    BY <2>6, <2>7, <2>8 DEF ResolveEnv
<1>5. QED
  BY <1>2, <1>3, <1>4, SameKeeps DEF IInv

-----------------------------------------------------------------------------
(* Starting a child, not starting one, and its end. *)

(* A spawned child, in the run step of its code. *)
LEMMA SpawnKeeps ==
  ASSUME IInv, NEW p \in Procs, NEW c \in Codes, NEW sb \in Backends \union {"none", "wasmtime"},
         Spawn(p, c, sb), pc[p] = c,
         UNCHANGED <<opts, man, bun, seen, files, envfile, docker, created>>,
         sandbox' \in [Procs -> Backends \union {"none"}],
         \A q \in Procs : q # p => sandbox'[q] = sandbox[q],
         BackendChosen(p)'
  PROVE  IInv'
<1>0. Typed /\ CallInv(p)
  BY DEF IInv
<1>1. /\ running' \in [Procs -> Children] /\ ran' \in [Procs -> SUBSET Codes]
      /\ running'[p] # NoProcess /\ running'[p].code = c /\ pc' = pc /\ report' = report
  BY <1>0, SpawnTyped
<1>2. Typed'
  BY <1>0, <1>1 DEF Typed
<1>3. ASSUME NEW q \in Procs, q # p PROVE SameAt(q)
  <2>1. running'[q] = running[q] /\ ran'[q] = ran[q]
    BY <1>0, <1>3 DEF Typed, Spawn
  <2>2. QED
    BY <1>1, <1>3, <2>1 DEF SameAt
<1>4. Vetted(p)' /\ OnBranch(p)'
  BY <1>0, <1>1 DEF CallInv, Vetted, OnBranch
<1>5. pc[p] \in RunPcs \ {"chmod"} /\ report[p].status = "none"
  BY <1>0 DEF CallInv, Vetted, Codes, RunPcs, NoReport
<1>6. ChildInPlace(p)'
  BY <1>0, <1>1, <1>5 DEF CallInv, ChildInPlace
<1>7. ReportSound(p)' /\ SecretsVetted(p)'
  BY <1>0, <1>1, <1>5 DEF CallInv, ReportSound, SecretsVetted
<1>8. QED
  BY <1>2, <1>3, <1>4, <1>6, <1>7, SameKeeps DEF IInv, CallInv

(* A call that reports ends its obligations; a Rejected one has run nothing. *)
LEMMA StopKeeps ==
  ASSUME IInv, NEW p \in Procs, running'[p] = NoProcess, running' \in [Procs -> Children],
         \A q \in Procs : q # p => running'[q] = running[q],
         NEW status \in {"ok", "rejected", "failed"},
         NEW step \in Steps \union {"none", "compose_up", "binary_chmod", "binary_run", "wasm_run"},
         Return(p, status, step),
         status = "rejected" => ran[p] = {} /\ created[p] = {},
         pc[p] \in RunPcs, status = "ok" => pc[p] \in {"wasm", "verify"},
         UNCHANGED <<opts, man, bun, seen, files, envfile, ran, docker, created>>,
         sandbox' \in [Procs -> Backends \union {"none"}],
         \A q \in Procs : q # p => sandbox'[q] = sandbox[q]
  PROVE  IInv'
<1>0. Typed /\ CallInv(p)
  BY DEF IInv
<1>1. /\ pc' = [pc EXCEPT ![p] = "done"] /\ report' \in [Procs -> Reports]
      /\ report'[p].status = status /\ \A q \in Procs : q # p => report'[q] = report[q]
  BY <1>0, ReturnTyped
<1>2. Typed'
  BY <1>0, <1>1, EndTyped DEF Typed
<1>3. ASSUME NEW q \in Procs, q # p PROVE SameAt(q)
  BY <1>0, <1>1, <1>3 DEF Typed, SameAt
<1>4. pc'[p] = "done" /\ SecretsVetted(p)'
  BY <1>0, <1>1 DEF Typed, CallInv, SecretsVetted
<1>5. ReportSound(p)'
  <2>1. /\ opts[p] \in Requests[p] /\ man[p] \in Manifests
        /\ status = "ok" => /\ man[p].kind \in {"Compose", "Binary", "Wasm"}
                            /\ man[p].kind # "Compose" => created[p] = {}
    BY <1>0
       DEF CallInv, Vetted, OnBranch, ChildInPlace, RunPcs, ScannedPcs, UnpackedPcs, BundlePcs,
           AdmittedPcs
  <2>2. QED
    BY <1>1, <2>1 DEF ReportSound
<1>6. \A r \in created'[p] : r.project = opts'[p].project
  BY <1>0 DEF CallInv, ChildInPlace, RunPcs
<1>7. QED
  BY <1>2, <1>3, <1>4, <1>5, <1>6, EndedKeeps, SameKeeps DEF IInv

(* Step 9 for Compose. *)
LEMMA StartComposeKeeps ==
  ASSUME IInv, NEW p \in Procs, StartCompose(p)
  PROVE  IInv'
<1>0. Typed /\ CallInv(p)
  BY DEF IInv
<1>1. pc[p] = "compose" /\ running[p] = NoProcess /\ sandbox[p] = "none"
  BY <1>0 DEF StartCompose, CallInv, BackendChosen
<1>2. UNCHANGED <<opts, man, bun, seen, files, envfile, sandbox, docker, created>>
  BY DEF StartCompose, work, host
<1>3. CASE Spawn(p, "compose", "none")
  <2>1. BackendChosen(p)'
    BY <1>1, <1>2, <1>3 DEF BackendChosen, Spawn
  <2>2. "compose" \in Codes
    BY DEF Codes
  <2>3. QED
    BY <1>0, <1>1, <1>2, <1>3, <2>1, <2>2, SpawnKeeps DEF Typed
<1>4. CASE Return(p, "failed", "compose_up") /\ NotSpawned
  BY <1>0, <1>1, <1>2, <1>4, StopKeeps DEF NotSpawned, Typed, RunPcs
<1>5. QED
  BY <1>3, <1>4 DEF StartCompose

(* The docker daemon at work for a running `up`. *)
LEMMA CreateResourceKeeps ==
  ASSUME IInv, NEW p \in Procs, CreateResource(p)
  PROVE  IInv'
<1>0. Typed /\ CallInv(p)
  BY DEF IInv
<1>1. running[p] # NoProcess
  BY DEF CreateResource, NoProcess
<1>2. pc[p] = "compose" /\ opts[p] \in Requests[p] /\ report[p].status = "none" /\ bun[p] \in Bundles
  BY <1>0, <1>1
     DEF CreateResource, CallInv, ChildInPlace, Vetted, NoReport, BundlePcs, UnpackedPcs,
         ScannedPcs, RunPcs
<1>3. PICK c \in bun[p].creates :
        /\ created' = [created EXCEPT ![p] = @ \union {[class |-> c, project |-> opts[p].project]}]
        /\ docker' = docker \union {[class |-> c, project |-> opts[p].project]}
  BY DEF CreateResource
<1>4. UNCHANGED <<pc, opts, man, bun, seen, report, files, envfile, sandbox, running, ran>>
  BY DEF CreateResource, calls, work, child
<1>5. [class |-> c, project |-> opts[p].project] \in Resource
  <2>1. c \in Classes /\ opts[p].project \in Seq(STRING)
    BY <1>2, BundlesAssumption, RequestsAssumption
  <2>2. QED
    BY <2>1 DEF Resource
<1>6. Typed'
  <2>1. docker' \subseteq Resource
    BY <1>0, <1>3, <1>5 DEF Typed
  <2>2. created' \in [Procs -> SUBSET Resource]
    BY <1>0, <1>3, <1>5 DEF Typed
  <2>3. QED
    BY <1>0, <1>4, <2>1, <2>2 DEF Typed
<1>7. ASSUME NEW q \in Procs, q # p PROVE SameAt(q)
  BY <1>0, <1>3, <1>4, <1>7 DEF Typed, SameAt
<1>8. CallInv(p)'
  <2>1. \A r \in created'[p] : r.project = opts'[p].project
    <3>1. \A r \in created[p] : r.project = opts[p].project
      BY <1>0, <1>2 DEF CallInv, ChildInPlace
    <3>2. created'[p] = created[p] \union {[class |-> c, project |-> opts[p].project]}
      BY <1>0, <1>3 DEF Typed
    <3>3. QED
      BY <1>4, <3>1, <3>2
  <2>2. QED
    BY <1>0, <1>1, <1>2, <1>4, <2>1
       DEF CallInv, Vetted, OnBranch, ChildInPlace, BackendChosen, ReportSound, SecretsVetted,
           RunPcs
<1>9. QED
  BY <1>6, <1>7, <1>8, SameKeeps DEF IInv

(* Step 9 for Binary: chmod. *)
LEMMA ChmodKeeps ==
  ASSUME IInv, NEW p \in Procs, Chmod(p)
  PROVE  IInv'
<1>0. Typed /\ CallInv(p)
  BY DEF IInv
<1>1. /\ pc[p] = "chmod" /\ running[p] = NoProcess /\ sandbox[p] = "none"
      /\ ran[p] = {} /\ created[p] = {} /\ man[p].kind = "Binary"
  BY <1>0 DEF Chmod, CallInv, OnBranch, BackendChosen, ChildInPlace
<1>2. UNCHANGED <<opts, man, bun, seen, files, envfile, sandbox, running, ran, docker, created>>
  BY DEF Chmod, work, child, host
<1>3. CASE Goto(p, "binary")
  <2>1. "binary" \in Steps
    BY DEF Steps
  <2>2. Typed'
    BY <1>0, <1>2, <1>3, <2>1, GotoTyped DEF Typed
  <2>3. pc'[p] = "binary" /\ report' = report /\ \A q \in Procs : q # p => pc'[q] = pc[q]
    BY <1>0, <1>3 DEF Typed, Goto
  <2>4. ASSUME NEW q \in Procs, q # p PROVE SameAt(q)
    BY <1>2, <2>3, <2>4 DEF SameAt
  <2>5. Vetted(p)'
    BY <1>0, <1>1, <1>2, <2>3
       DEF CallInv, Vetted, RunPcs, ScannedPcs, UnpackedPcs, BundlePcs, AdmittedPcs
  <2>6. OnBranch(p)' /\ ChildInPlace(p)' /\ BackendChosen(p)'
    BY <1>0, <1>1, <1>2, <2>3 DEF CallInv, OnBranch, ChildInPlace, BackendChosen, RunPcs
  <2>7. ReportSound(p)' /\ SecretsVetted(p)'
    BY <1>0, <1>2, <2>3 DEF CallInv, ReportSound, SecretsVetted
  <2>8. QED
    BY <2>2, <2>4, <2>5, <2>6, <2>7, SameKeeps DEF IInv, CallInv
<1>4. ASSUME NEW step \in {"binary_chmod", "binary_run"}, Return(p, "failed", step)
      PROVE  IInv'
  BY <1>0, <1>1, <1>2, <1>4, StopKeeps DEF Typed, RunPcs
<1>5. QED
  BY <1>3, <1>4 DEF Chmod

(* Step 9 for Binary: backend or opt-out. *)
LEMMA StartBinaryKeeps ==
  ASSUME IInv, NEW p \in Procs, StartBinary(p)
  PROVE  IInv'
<1>0. Typed /\ CallInv(p)
  BY DEF IInv
<1>1. pc[p] = "binary" /\ running[p] = NoProcess /\ sandbox[p] = "none" /\ ran[p] = {} /\ created[p] = {}
  BY <1>0 DEF StartBinary, Probing, CallInv, BackendChosen, ChildInPlace
<1>2. UNCHANGED <<opts, man, bun, seen, files, envfile, docker, created>>
  BY DEF StartBinary, work, host
<1>3. pc[p] \in Steps /\ "binary" \in Codes
  BY <1>0 DEF Typed, Codes
<1>5. ASSUME Reject(p), NotSpawned, UNCHANGED sandbox PROVE IInv'
  BY <1>0, <1>1, <1>2, <1>3, <1>5, StopKeeps DEF Reject, NotSpawned, Typed, RunPcs
<1>6. ASSUME NEW sb \in Candidates[opts[p].os], WrapOk(opts[p], sb),
             sandbox' = [sandbox EXCEPT ![p] = sb],
             \/ Spawn(p, "binary", sb)
             \/ Return(p, "failed", "binary_run") /\ NotSpawned
      PROVE  IInv'
  <2>1. sb \in Backends
    <3>1. opts[p].os \in Systems
      BY <1>0, <1>1, RequestsAssumption DEF CallInv, Vetted
    <3>2. QED
      BY <1>6, <3>1 DEF Systems, Candidates, Backends
  <2>2. /\ sandbox' \in [Procs -> Backends \union {"none"}] /\ sandbox'[p] = sb
        /\ \A q \in Procs : q # p => sandbox'[q] = sandbox[q]
    BY <1>0, <1>6, <2>1 DEF Typed
  <2>3. sb # "none"
    BY <2>1 DEF Backends
  <2>4. CASE Spawn(p, "binary", sb)
    <3>1. running'[p] # NoProcess /\ running'[p].sandbox = sb /\ pc' = pc
      BY <1>0, <1>3, <2>1, <2>4, SpawnTyped
    <3>2. BackendChosen(p)'
      BY <1>1, <1>2, <1>6, <2>2, <2>3, <3>1 DEF BackendChosen
    <3>3. QED
      BY <1>1, <1>2, <1>3, <2>1, <2>2, <2>4, <3>2, SpawnKeeps
  <2>5. CASE Return(p, "failed", "binary_run") /\ NotSpawned
    BY <1>0, <1>1, <1>2, <2>2, <2>5, StopKeeps DEF NotSpawned, Typed, RunPcs
  <2>6. QED
    BY <1>6, <2>4, <2>5
<1>7. ASSUME MayRunUnsandboxed(opts[p]), UNCHANGED sandbox,
             \/ Spawn(p, "binary", "none")
             \/ Return(p, "failed", "binary_run") /\ NotSpawned
      PROVE  IInv'
  <2>1. CASE Spawn(p, "binary", "none")
    <3>1. running'[p].sandbox = "none" /\ pc' = pc
      BY <1>0, <1>3, <2>1, SpawnTyped
    <3>2. BackendChosen(p)'
      BY <1>1, <1>2, <1>7, <3>1 DEF BackendChosen
    <3>3. QED
      BY <1>0, <1>1, <1>2, <1>3, <1>7, <2>1, <3>2, SpawnKeeps DEF Typed
  <2>2. CASE Return(p, "failed", "binary_run") /\ NotSpawned
    BY <1>0, <1>1, <1>2, <1>7, <2>2, StopKeeps DEF NotSpawned, Typed, RunPcs
  <2>3. QED
    BY <1>7, <2>1, <2>2
<1>8. QED
  BY <1>5, <1>6, <1>7 DEF StartBinary

(* Step 8b. *)
LEMMA StartWasmKeeps ==
  ASSUME IInv, NEW p \in Procs, StartWasm(p)
  PROVE  IInv'
<1>0. Typed /\ CallInv(p)
  BY DEF IInv
<1>1. pc[p] = "wasm" /\ running[p] = NoProcess /\ sandbox[p] = "none" /\ ran[p] = {} /\ created[p] = {}
  BY <1>0 DEF StartWasm, CallInv, BackendChosen, ChildInPlace
<1>2. UNCHANGED <<opts, man, bun, seen, files, envfile, sandbox, docker, created>>
  BY DEF StartWasm, work, host
<1>3. pc[p] \in Steps /\ "wasm" \in Codes
  BY <1>0 DEF Typed, Codes
<1>4. CASE Spawn(p, "wasm", "wasmtime")
  <2>1. BackendChosen(p)'
    BY <1>1, <1>2, <1>4 DEF BackendChosen, Spawn
  <2>2. QED
    BY <1>0, <1>1, <1>2, <1>3, <1>4, <2>1, SpawnKeeps DEF Typed
<1>5. CASE Reject(p) /\ NotSpawned
  BY <1>0, <1>1, <1>2, <1>3, <1>5, StopKeeps DEF Reject, NotSpawned, Typed, RunPcs
<1>6. QED
  BY <1>4, <1>5 DEF StartWasm

(* Step 10: the wrap cannot reject any more. *)
LEMMA StartVerifyKeeps ==
  ASSUME IInv, NEW p \in Procs, StartVerify(p)
  PROVE  IInv'
<1>0. Typed /\ CallInv(p)
  BY DEF IInv
<1>1. pc[p] = "verify" /\ running[p] = NoProcess
  BY DEF StartVerify
<1>2. UNCHANGED <<opts, man, bun, seen, files, envfile, sandbox, docker, created>>
  BY DEF StartVerify, work, host
<1>3. sandbox[p] \in Backends \union {"none", "wasmtime"} /\ "verify" \in Codes
  BY <1>0 DEF Typed, Codes
<1>4. ~(sandbox[p] # "none" /\ ~WrapOk(opts[p], sandbox[p]))
  BY <1>0, <1>1 DEF CallInv, BackendChosen
<1>5. CASE Spawn(p, "verify", sandbox[p])
  <2>1. running'[p].sandbox = sandbox[p] /\ pc' = pc
    BY <1>0, <1>3, <1>5, SpawnTyped
  <2>2. BackendChosen(p)'
    BY <1>0, <1>1, <1>2, <2>1 DEF CallInv, BackendChosen
  <2>3. QED
    BY <1>0, <1>1, <1>2, <1>3, <1>5, <2>2, SpawnKeeps DEF Typed
<1>6. CASE Return(p, "failed", "verify") /\ NotSpawned
  <2>1. "verify" \in Steps
    BY DEF Steps
  <2>2. QED
    BY <1>0, <1>1, <1>2, <1>6, <2>1, StopKeeps DEF NotSpawned, Typed, RunPcs
<1>7. QED
  BY <1>4, <1>5, <1>6 DEF StartVerify

(* A child exits 0: on to verify.sh, or the Ok report. *)
LEMMA ExitOkKeeps ==
  ASSUME IInv, NEW p \in Procs, ExitOk(p)
  PROVE  IInv'
<1>0. Typed /\ CallInv(p)
  BY DEF IInv
<1>1. /\ running[p] # NoProcess /\ pc[p] \in RunPcs \ {"chmod"} /\ running[p].code = pc[p]
      /\ report[p].status = "none"
  BY <1>0 DEF ExitOk, CallInv, ChildInPlace, Vetted, NoReport, RunPcs
<1>2. UNCHANGED <<opts, man, bun, seen, files, envfile, sandbox, ran, docker, created>>
  BY DEF ExitOk, work, host
<1>3. /\ running' \in [Procs -> Children] /\ running'[p] = NoProcess
      /\ \A q \in Procs : q # p => running'[q] = running[q]
  BY <1>0 DEF ExitOk, Typed, Children
<1>4. CASE running[p].code \in {"compose", "binary"}
  <2>1. Goto(p, "verify") /\ "verify" \in Steps
    BY <1>4 DEF ExitOk, Steps
  <2>2. Typed'
    BY <1>0, <1>2, <1>3, <2>1, GotoTyped DEF Typed
  <2>3. pc'[p] = "verify" /\ report' = report /\ \A q \in Procs : q # p => pc'[q] = pc[q]
    BY <1>0, <2>1 DEF Typed, Goto
  <2>4. ASSUME NEW q \in Procs, q # p PROVE SameAt(q)
    BY <1>2, <1>3, <2>3, <2>4 DEF SameAt
  <2>5. Vetted(p)' /\ OnBranch(p)'
    BY <1>0, <1>1, <1>2, <1>4, <2>3
       DEF CallInv, Vetted, OnBranch, RunPcs, ScannedPcs, UnpackedPcs, BundlePcs,
           AdmittedPcs
  <2>6. ChildInPlace(p)' /\ ReportSound(p)' /\ SecretsVetted(p)'
    BY <1>0, <1>1, <1>2, <1>3, <1>4, <2>3
       DEF CallInv, OnBranch, ChildInPlace, ReportSound, SecretsVetted, RunPcs
  <2>7. BackendChosen(p)'
    BY <1>0, <1>1, <1>2, <1>3, <1>4, <2>3 DEF CallInv, BackendChosen, OnBranch
  <2>8. QED
    BY <2>2, <2>4, <2>5, <2>6, <2>7, SameKeeps DEF IInv, CallInv
<1>5. CASE running[p].code \notin {"compose", "binary"}
  <2>1. Return(p, "ok", pc[p]) /\ pc[p] \in Steps /\ pc[p] \in {"wasm", "verify"}
    BY <1>0, <1>1, <1>5 DEF ExitOk, Typed, RunPcs
  <2>2. QED
    BY <1>0, <1>1, <1>2, <1>3, <2>1, StopKeeps DEF Typed
<1>6. QED
  BY <1>4, <1>5

(* A child fails or is killed at its timeout. *)
LEMMA FailedKeeps ==
  ASSUME IInv, NEW p \in Procs, Failed(p)
  PROVE  IInv'
<1>0. Typed /\ CallInv(p)
  BY DEF IInv
<1>1. pc[p] \in RunPcs \ {"chmod"} /\ running[p].code = pc[p]
  BY <1>0 DEF Failed, CallInv, ChildInPlace
<1>2. UNCHANGED <<opts, man, bun, seen, files, envfile, sandbox, ran, docker, created>>
  BY DEF Failed, work, host
<1>3. /\ running' \in [Procs -> Children] /\ running'[p] = NoProcess
      /\ \A q \in Procs : q # p => running'[q] = running[q]
  BY <1>0 DEF Failed, Typed, Children
<1>4. /\ FailStep[pc[p]] \in Steps \union {"none", "compose_up", "binary_chmod", "binary_run", "wasm_run"}
      /\ Return(p, "failed", FailStep[pc[p]])
  BY <1>1 DEF Failed, FailStep, RunPcs, Steps
<1>5. QED
  BY <1>0, <1>1, <1>2, <1>3, <1>4, StopKeeps DEF Typed

-----------------------------------------------------------------------------
(* Before the first call nothing has been fetched or run. *)
LEMMA InitEstablishes == Init => IInv
<1> SUFFICES ASSUME Init PROVE IInv
  OBVIOUS
<1>1. NoReport \in Reports
  BY DEF NoReport, Reports
<1>2. Typed
  <2>1. /\ opts \in [Procs -> (UNION {Requests[q] : q \in Procs}) \union {Nothing}]
        /\ \A p \in Procs : opts[p] \in Requests[p] \union {Nothing}
    <3>1. opts = [p \in Procs |-> Nothing]
      BY DEF Init
    <3>2. Nothing \in (UNION {Requests[q] : q \in Procs}) \union {Nothing}
      BY Zenon
    <3>3. QED
      BY <3>1, <3>2, Zenon
  <2>2. pc \in [Procs -> Steps] /\ running \in [Procs -> Children] /\ report \in [Procs -> Reports]
    BY <1>1 DEF Init, Steps, Children
  <2>3. docker \subseteq Resource /\ created \in [Procs -> SUBSET Resource] /\ seen \in [Procs -> SUBSET Resource]
    BY ForeignAssumption DEF Init
  <2>4. man \in [Procs -> Manifests \union {Nothing}] /\ bun \in [Procs -> Bundles \union {Nothing}]
    BY DEF Init
  <2>5. QED
    BY <2>1, <2>2, <2>3, <2>4 DEF Init, Typed
<1>3. ASSUME NEW p \in Procs PROVE CallInv(p)
  BY DEF Init, CallInv, Vetted, OnBranch, ChildInPlace, BackendChosen, ReportSound,
         SecretsVetted, NoReport, RunPcs, AdmittedPcs, BundlePcs, UnpackedPcs, ScannedPcs
<1>4. QED
  BY <1>2, <1>3 DEF IInv

(* One case per action of the pipeline and of its environment. *)
LEMMA NextKeeps == IInv /\ [Next]_vars => IInv'
<1> SUFFICES ASSUME IInv, [Next]_vars PROVE IInv'
  OBVIOUS
<1>1. CASE UNCHANGED vars
  <2>1. Typed'
    BY <1>1 DEF IInv, Typed, vars, calls, work, child, host
  <2>2. ASSUME NEW q \in Procs PROVE SameAt(q)
    BY <1>1 DEF SameAt, vars, calls, work, child, host
  <2>3. QED
    BY <2>1, <2>2, SameKeeps DEF IInv
<1>2. ASSUME NEW p \in Procs, Start(p) \/ Advance(p) \/ Environment(p) PROVE IInv'
  <2>1. CASE Start(p)
    BY <2>1, StartKeeps
  <2>2. CASE Advance(p)
    BY <2>2, FetchManifestKeeps, CheckManifestKeeps, ListDockerKeeps, FetchBundleKeeps,
       UnpackKeeps, ScanKeeps, ResolveEnvKeeps, StartComposeKeeps, ChmodKeeps,
       StartWasmKeeps, StartVerifyKeeps, FailedKeeps
       DEF Advance, Timeout
  <2>3. CASE Environment(p)
    BY <2>3, StartBinaryKeeps, CreateResourceKeeps, ExitOkKeeps, FailedKeeps DEF Environment, ExitBad
  <2>4. QED
    BY <1>2, <2>1, <2>2, <2>3
<1>3. QED
  BY <1>1, <1>2 DEF Next

(* What the pipeline has established at each of its steps is never undone,  *)
(* by its own later steps or by the other calls on the host.                *)
THEOREM Invariance == Spec => []IInv
  BY InitEstablishes, NextKeeps, PTL DEF Spec

(* A resource is brought up in docker's and in the call's account at once,  *)
(* and the pipeline itself takes none down.                                 *)
LEMMA StandsKept == IInv /\ CreatedStands /\ [Next]_vars => CreatedStands'
<1> SUFFICES ASSUME IInv, CreatedStands, [Next]_vars, NEW q \in Procs
             PROVE  created'[q] \subseteq docker'
  BY DEF CreatedStands
<1>0. created[q] \subseteq docker /\ created \in [Procs -> SUBSET Resource]
  BY DEF CreatedStands, IInv, Typed
<1>1. CASE UNCHANGED host
  BY <1>0, <1>1 DEF host
<1>2. ASSUME NEW p \in Procs, Start(p) PROVE created'[q] \subseteq docker'
  BY <1>0, <1>2 DEF Start, Call
<1>3. ASSUME NEW p \in Procs, CreateResource(p) PROVE created'[q] \subseteq docker'
  BY <1>0, <1>3 DEF CreateResource
<1>4. ASSUME NEW p \in Procs, Advance(p) \/ StartBinary(p) \/ ExitOk(p) \/ ExitBad(p)
      PROVE  UNCHANGED host
  BY <1>4
     DEF Advance, FetchManifest, CheckManifest, ListDocker, FetchBundle, Unpack, Scan,
         ResolveEnv, StartCompose, Chmod, StartBinary, Probing, StartWasm, StartVerify,
         Timeout, ExitOk, ExitBad, Failed
<1>5. QED
  BY <1>1, <1>2, <1>3, <1>4 DEF Next, Environment, vars

(* Every variable keeps its type, and docker holds what the calls brought   *)
(* up, for any number of calls.                                             *)
THEOREM TypeCorrect == Spec => []TypeOK
<1>1. Init => CreatedStands
  BY DEF Init, CreatedStands
<1>2. IInv /\ CreatedStands => TypeOK
  BY DEF IInv, Typed, CreatedStands, TypeOK
<1>3. QED
  BY <1>1, <1>2, StandsKept, Invariance, PTL DEF Spec

(* Whatever manifest and bundle the servers answer with, bundle code runs   *)
(* only after steps 2 to 8 of activate_inner have accepted it.              *)
THEOREM Vetting == Spec => []OnlyVettedCodeRuns
<1>1. IInv => OnlyVettedCodeRuns
  <2> SUFFICES ASSUME IInv, NEW p \in Procs, running[p] # NoProcess
               PROVE  /\ man[p].signed /\ opts[p].now < man[p].expires_at
                      /\ man[p].publisher \in opts[p].allowlist
                      /\ bun[p].digest = man[p].digest
                      /\ files[p] = "unpacked" /\ bun[p].entries = "safe" /\ man[p].path = "inside"
                      /\ man[p].kind = "Compose" => Contained(bun[p].compose)
                      /\ man[p].required \subseteq opts[p].env_values
    BY DEF OnlyVettedCodeRuns
  <2>1. CallInv(p) /\ pc[p] \in RunPcs
    BY DEF IInv, CallInv, ChildInPlace
  <2>2. /\ Admissible(man[p], opts[p]) /\ DigestOk(man[p], bun[p]) /\ ScanOk(man[p], bun[p])
        /\ bun[p] \in Bundles /\ EnvOk(man[p], opts[p])
        /\ files[p] = "unpacked" /\ bun[p].entries = "safe" /\ man[p].path = "inside"
    BY <2>1 DEF CallInv, Vetted, RunPcs, ScannedPcs, UnpackedPcs, BundlePcs, AdmittedPcs
  <2>3. QED
    BY <2>2, ScannedContained DEF Admissible, IsValid, Trusted, DigestOk, EnvOk
<1>2. QED
  BY <1>1, Invariance, PTL

(* A Binary and its verify.sh run under the backend that step 9 selected,   *)
(* or bare where the operator opted out on Linux or macOS.                  *)
THEOREM Confinement == Spec => []BinaryConfined
<1>1. IInv => BinaryConfined
  <2> SUFFICES ASSUME IInv, NEW p \in Procs, running[p] # NoProcess, man[p].kind = "Binary"
               PROVE  /\ running[p].sandbox = sandbox[p]
                      /\ running[p].sandbox = "none" =>
                           ~opts[p].require_binary_sandbox /\ opts[p].os \in {"linux", "macos"}
    BY DEF BinaryConfined
  <2>1. CallInv(p) /\ pc[p] \in {"binary", "verify"}
    BY DEF IInv, CallInv, ChildInPlace, OnBranch, RunPcs
  <2>2. running[p].sandbox = sandbox[p] /\ (sandbox[p] = "none" => MayRunUnsandboxed(opts[p]))
    BY <2>1 DEF CallInv, BackendChosen
  <2>3. PlatformOk(man[p], opts[p]) /\ opts[p].os \in Systems
    BY <2>1, RequestsAssumption
       DEF CallInv, Vetted, Admissible, RunPcs, ScannedPcs, UnpackedPcs, BundlePcs,
           AdmittedPcs
  <2>4. QED
    BY <2>2, <2>3 DEF MayRunUnsandboxed, PlatformOk, Systems
<1>2. QED
  BY <1>1, Invariance, PTL

(* A Rejected report is given only by calls that started no bundle code and *)
(* brought up no docker resource, the wrap of verify.sh included.           *)
THEOREM RejectionIsClean == Spec => []RejectedRanNothing
<1>1. IInv => RejectedRanNothing
  BY DEF IInv, CallInv, ReportSound, RejectedRanNothing
<1>2. QED
  BY <1>1, Invariance, PTL

(* Step 8 writes the secrets of vetted manifests only, never for Wasm. *)
THEOREM SecretsAreGuarded == Spec => []SecretsOnlyForVetted
<1>1. IInv => SecretsOnlyForVetted
  BY DEF IInv, CallInv, SecretsVetted, SecretsOnlyForVetted
<1>2. QED
  BY <1>1, Invariance, PTL

-----------------------------------------------------------------------------
(* Step 5 is a check before an act: it protects a project from other calls' *)
(* containers only if no two calls that run at once use the same project.   *)
ProjectsDiffer ==
  \A p, q \in Procs : p # q =>
    \A o \in Requests[p], r \in Requests[q] : o.project # r.project

OwnContainers(p) == {r \in docker : r.class = "container" /\ r.project = opts[p].project}

(* From the first listing on, the containers of the call's project are      *)
(* those it has seen; once the pre-flight is passed, those it has created.  *)
Cleared(p) ==
  /\ pc[p] \in {"volumes", "networks"} => OwnContainers(p) \subseteq seen[p]
  /\ pc[p] \in {"fetch_bundle"} \union BundlePcs /\ man[p].kind = "Compose"
       => OwnContainers(p) \subseteq created[p]

(* A step elsewhere keeps a call cleared if it brings up no container of    *)
(* the call's project.                                                      *)
LEMMA OthersKeepCleared ==
  ASSUME NEW p \in Procs, Cleared(p),
         pc'[p] = pc[p], opts'[p] = opts[p], man'[p] = man[p], seen'[p] = seen[p],
         created'[p] = created[p],
         pc[p] \notin {"idle", "done"} => \A r \in docker' \ docker : r.project # opts[p].project
  PROVE  Cleared(p)'
<1>1. pc[p] \notin {"idle", "done"} => OwnContainers(p)' \subseteq OwnContainers(p)
  BY DEF OwnContainers
<1>2. QED
  BY <1>1 DEF Cleared, BundlePcs, UnpackedPcs, ScannedPcs, RunPcs

(* The calls' own steps: the listings, the judgement of them, and `up`. *)
LEMMA ListingClears ==
  ASSUME IInv, NEW p \in Procs, Cleared(p), ListDocker(p)
  PROVE  Cleared(p)'
<1>0. Typed /\ UNCHANGED <<opts, man, docker, created>>
  BY DEF IInv, ListDocker, host
<1>1. OwnContainers(p)' = OwnContainers(p)
  BY <1>0 DEF OwnContainers
<1>2. CASE pc[p] \in {"ps", "volumes"} /\ pc'[p] \in {"volumes", "networks"}
  <2>1. OwnContainers(p) \subseteq seen[p] \union {r \in docker : r.class = Listing[pc[p]]}
    BY <1>2 DEF OwnContainers, Cleared, Listing
  <2>2. seen'[p] = seen[p] \union {r \in docker : r.class = Listing[pc[p]]}
    BY <1>0, <1>2 DEF ListDocker, Typed, Reject, Return
  <2>3. QED
    BY <1>1, <1>2, <2>1, <2>2 DEF Cleared, BundlePcs, UnpackedPcs, ScannedPcs, RunPcs
<1>3. CASE pc[p] = "networks" /\ pc'[p] = "fetch_bundle"
  <2>1. \A r \in seen[p] : ~Collides(opts[p], r)
    BY <1>0, <1>3 DEF ListDocker, Typed, Reject, Return
  <2>2. opts[p].project \in Seq(STRING)
    <3>1. opts[p] \in Requests[p]
      BY <1>3 DEF IInv, CallInv, Vetted
    <3>2. QED
      BY <3>1, RequestsAssumption
  <2>3. ASSUME NEW r \in OwnContainers(p) PROVE FALSE
    <3>1. r \in seen[p] /\ r.class = "container" /\ r.project = opts[p].project
      BY <1>3, <2>3 DEF Cleared, OwnContainers
    <3>2. Collides(opts[p], r)
      BY <2>2, <3>1 DEF Collides, IsPrefix
    <3>3. QED
      BY <2>1, <3>1, <3>2
  <2>4. QED
    BY <1>1, <1>3, <2>3 DEF Cleared
<1>4. CASE pc'[p] = "done"
  BY <1>4 DEF Cleared, BundlePcs, UnpackedPcs, ScannedPcs, RunPcs
<1>5. QED
  BY <1>0, <1>2, <1>3, <1>4 DEF ListDocker, Typed, Listing, Goto, Reject, Return

LEMMA CreatingClears ==
  ASSUME IInv, NEW p \in Procs, Cleared(p), CreateResource(p)
  PROVE  Cleared(p)'
<1>1. Typed /\ CallInv(p) /\ running[p] # NoProcess /\ running[p].code = "compose"
  BY DEF IInv, CreateResource, NoProcess
<1>2. pc[p] = "compose" /\ man[p].kind = "Compose"
  BY <1>1 DEF CallInv, ChildInPlace, OnBranch
<1>3. PICK r : /\ created' = [created EXCEPT ![p] = @ \union {r}]
               /\ docker' = docker \union {r}
  BY DEF CreateResource
<1>4. created'[p] = created[p] \union {r} /\ UNCHANGED <<pc, opts, man>>
  BY <1>1, <1>3 DEF Typed, CreateResource, calls
<1>5. OwnContainers(p) \subseteq created[p]
  BY <1>2 DEF Cleared, BundlePcs, UnpackedPcs, ScannedPcs, RunPcs
<1>6. OwnContainers(p)' \subseteq OwnContainers(p) \union {r}
  BY <1>3, <1>4 DEF OwnContainers
<1>7. QED
  BY <1>2, <1>4, <1>5, <1>6 DEF Cleared

LEMMA OwnStepsClear ==
  ASSUME IInv, NEW p \in Procs, Cleared(p), Start(p) \/ Advance(p) \/ Environment(p)
  PROVE  Cleared(p)'
<1>0. Typed /\ CallInv(p)
  BY DEF IInv
<1> USE DEF BundlePcs, UnpackedPcs, ScannedPcs, RunPcs
<1>1. CASE Start(p) \/ FetchManifest(p)
  BY <1>0, <1>1 DEF Start, Call, FetchManifest, Goto, Reject, Return, Typed, Cleared
<1>2. CASE CheckManifest(p)
  BY <1>0, <1>2 DEF CheckManifest, Goto, Reject, Return, Typed, Cleared
<1>3. CASE pc[p] \in {"fetch_bundle"} \union BundlePcs /\ UNCHANGED <<opts, man, docker, created>>
  <2>1. pc'[p] \notin {"volumes", "networks"}
    <3>1. pc[p] = "env" => man[p].kind \in {"Compose", "Binary", "Wasm"}
      BY <1>0, ManifestsAssumption DEF CallInv, Vetted, AdmittedPcs, Admissible, Kinds
    <3>2. QED
      BY <1>0, <1>3, <3>1
         DEF Typed, Start, Advance, Environment, FetchManifest, CheckManifest, ListDocker,
             Listing, FetchBundle, Unpack, Scan, ResolveEnv, StartCompose, Chmod, StartBinary,
             Probing, StartWasm, StartVerify, Timeout, Failed, ExitOk, ExitBad, CreateResource, Spawn,
             Goto, Reject, Return, RunStep, calls
  <2>2. OwnContainers(p)' = OwnContainers(p)
    BY <1>3 DEF OwnContainers
  <2>3. QED
    BY <1>3, <2>1, <2>2 DEF Cleared
<1>4. CASE FetchBundle(p) \/ Unpack(p) \/ Scan(p) \/ ResolveEnv(p)
  BY <1>3, <1>4 DEF FetchBundle, Unpack, Scan, ResolveEnv, host
<1>5. CASE StartCompose(p) \/ Chmod(p) \/ StartBinary(p) \/ StartWasm(p) \/ StartVerify(p)
  BY <1>3, <1>5 DEF StartCompose, Chmod, StartBinary, Probing, StartWasm, StartVerify, host
<1>6. CASE Failed(p) \/ ExitOk(p)
  BY <1>0, <1>3, <1>6 DEF Failed, ExitOk, CallInv, ChildInPlace, host
<1>7. QED
  BY <1>1, <1>2, <1>4, <1>5, <1>6, ListingClears, CreatingClears
     DEF Advance, Environment, Timeout, ExitBad

(* What a step does to the resources of docker and to the other calls. *)
LEMMA StepsAreOwn ==
  ASSUME IInv, NEW p \in Procs, Start(p) \/ Advance(p) \/ Environment(p),
         NEW q \in Procs, q # p
  PROVE  SameAt(q) /\ seen'[q] = seen[q]
<1>0. Typed
  BY DEF IInv
<1> USE DEF Typed, SameAt, Goto, Reject, Return, Spawn, NotSpawned, calls, work, child, host
<1>1. CASE Start(p)
  BY <1>0, <1>1 DEF Start, Call
<1>2. CASE FetchManifest(p) \/ CheckManifest(p) \/ ListDocker(p)
  BY <1>0, <1>2 DEF FetchManifest, CheckManifest, ListDocker
<1>3. CASE FetchBundle(p) \/ Unpack(p) \/ Scan(p) \/ ResolveEnv(p)
  BY <1>0, <1>3 DEF FetchBundle, Unpack, Scan, ResolveEnv
<1>4. CASE StartCompose(p) \/ Chmod(p) \/ StartWasm(p) \/ StartVerify(p)
  BY <1>0, <1>4 DEF StartCompose, Chmod, StartWasm, StartVerify
<1>5. CASE StartBinary(p)
  BY <1>0, <1>5 DEF StartBinary
<1>6. CASE Failed(p) \/ ExitOk(p)
  BY <1>0, <1>6 DEF Failed, ExitOk
<1>7. CASE CreateResource(p)
  BY <1>0, <1>7 DEF CreateResource
<1>8. QED
  BY <1>1, <1>2, <1>3, <1>4, <1>5, <1>6, <1>7 DEF Advance, Environment, Timeout, ExitBad

LEMMA OnlyUpCreates ==
  ASSUME NEW p \in Procs, Start(p) \/ Advance(p) \/ Environment(p),
         NEW r, r \in docker' \ docker \/ r \in created'[p] \ created[p], IInv
  PROVE  /\ running[p].code = "compose" /\ running[p] # NoProcess
         /\ r.project = opts[p].project /\ opts[p] \in Requests[p]
<1>0. Typed /\ CallInv(p)
  BY DEF IInv
<1>1. CASE Start(p)
  BY <1>0, <1>1 DEF Start, Call, Typed
<1>2. CASE Advance(p) \/ StartBinary(p) \/ ExitOk(p) \/ ExitBad(p)
  BY <1>2
     DEF Advance, FetchManifest, CheckManifest, ListDocker, FetchBundle, Unpack, Scan,
         ResolveEnv, StartCompose, Chmod, StartBinary, Probing, StartWasm, StartVerify,
         Timeout, ExitOk, ExitBad, Failed, host
<1>3. CASE CreateResource(p)
  <2>1. running[p].code = "compose" /\ running[p] # NoProcess
    BY <1>3 DEF CreateResource, NoProcess
  <2>2. opts[p] \in Requests[p]
    BY <1>0, <2>1 DEF CallInv, ChildInPlace, Vetted, RunPcs
  <2>3. PICK c \in bun[p].creates :
          /\ created' = [created EXCEPT ![p] = @ \union {[class |-> c, project |-> opts[p].project]}]
          /\ docker' = docker \union {[class |-> c, project |-> opts[p].project]}
    BY <1>3 DEF CreateResource
  <2>4. r = [class |-> c, project |-> opts[p].project]
    BY <1>0, <2>3 DEF Typed
  <2>5. QED
    BY <2>1, <2>2, <2>4
<1>4. QED
  BY <1>1, <1>2, <1>3 DEF Environment

LEMMA ClearedKept ==
  ASSUME ProjectsDiffer, IInv, \A p \in Procs : Cleared(p), [Next]_vars
  PROVE  \A p \in Procs : Cleared(p)'
<1>1. CASE UNCHANGED vars
  BY <1>1, OthersKeepCleared DEF vars, calls, host
<1>2. ASSUME NEW p \in Procs, Start(p) \/ Advance(p) \/ Environment(p), NEW q \in Procs
      PROVE  Cleared(q)'
  <2>1. CASE q = p
    BY <1>2, <2>1, OwnStepsClear
  <2>2. CASE q # p
    <3>1. SameAt(q) /\ seen'[q] = seen[q]
      BY <1>2, <2>2, StepsAreOwn
    <3>2. ASSUME pc[q] \notin {"idle", "done"}, NEW r \in docker' \ docker
          PROVE  r.project # opts[q].project
      <4>1. r.project = opts[p].project /\ opts[p] \in Requests[p]
        BY <1>2, <3>2, OnlyUpCreates
      <4>2. opts[q] \in Requests[q]
        BY <3>2 DEF IInv, CallInv, Vetted
      <4>3. QED
        BY <2>2, <4>1, <4>2 DEF ProjectsDiffer
    <3>3. QED
      BY <3>1, <3>2, OthersKeepCleared DEF SameAt
  <2>3. QED
    BY <2>1, <2>2
<1>3. QED
  BY <1>1, <1>2 DEF Next

(* `compose up` never takes over a container that stood before: among calls *)
(* of different projects, the pre-flight of step 5 is enough for that.      *)
THEOREM NoTakeover ==
  ASSUME ProjectsDiffer
  PROVE  Spec => NoContainerTakeover
<1> DEFINE AllCleared == \A p \in Procs : Cleared(p)
<1>1. Init => AllCleared
  BY DEF Init, Cleared, BundlePcs, UnpackedPcs, ScannedPcs, RunPcs
<1>2. IInv /\ AllCleared /\ [Next]_vars => AllCleared'
  BY ClearedKept
<1>3. IInv /\ AllCleared /\ [Next]_vars
        => [\A p \in Procs : \A r \in created'[p] \ created[p] :
              r.class = "container" => r \notin docker]_vars
  <2> SUFFICES ASSUME IInv, AllCleared, Next, NEW p \in Procs, NEW r \in created'[p] \ created[p],
                      r.class = "container", r \in docker
               PROVE  FALSE
    OBVIOUS
  <2>1. PICK q \in Procs : Start(q) \/ Advance(q) \/ Environment(q)
    BY DEF Next
  <2>2. p = q
    BY <2>1, StepsAreOwn DEF SameAt
  <2>3. running[p].code = "compose" /\ running[p] # NoProcess /\ r.project = opts[p].project
    BY <2>1, <2>2, OnlyUpCreates
  <2>4. pc[p] = "compose" /\ man[p].kind = "Compose"
    BY <2>3 DEF IInv, CallInv, ChildInPlace, OnBranch
  <2>5. r \in created[p]
    BY <2>3, <2>4 DEF Cleared, OwnContainers, BundlePcs, UnpackedPcs, ScannedPcs, RunPcs
  <2>6. QED
    BY <2>5
<1>4. QED
  <2>1. Spec => []AllCleared
    BY <1>1, <1>2, Invariance, PTL DEF Spec
  <2>2. QED
    BY <1>3, <2>1, Invariance, PTL DEF Spec, NoContainerTakeover
=============================================================================
