------------------------------ MODULE Activate ------------------------------
(***************************************************************************)
(* crates/installer-engine/src/activate.rs: `activate`, the pipeline that  *)
(* takes one signed manifest to a running service, on a host whose docker  *)
(* daemon is shared by every activation.  Procs are the `activate` calls   *)
(* that may be under way at once; each one goes through the numbered steps *)
(* of `activate_inner`, and every external command or download is a step   *)
(* of its own, so the calls interleave where the program blocks.           *)
(***************************************************************************)
EXTENDS Contracts

CONSTANTS
  Procs,      \* concurrent `activate` calls
  Manifests,  \* every manifest a location can serve
  Bundles,    \* every bundle a bundle URL can serve
  Requests,   \* Requests[p]: the ActivateOptions process p may be called with
  Protected,  \* name segments of real deployments (protected_name_substrings)
  Foreign     \* docker resources that exist before the first activation

Kinds     == {"Compose", "Binary", "Wasm", "K8s"}
Systems   == {"linux", "macos", "windows", "android"}
Backends  == {"bwrap", "sandbox_exec", "wsl_bwrap"}
Classes   == {"container", "volume", "network"}
Codes     == {"compose", "binary", "wasm", "verify"}
Steps     == {"idle", "fetch_manifest", "static", "ps", "volumes", "networks", "fetch_bundle",
              "unpack", "scan", "env", "compose", "chmod", "binary", "wasm", "verify", "done"}
Reports   == [status : {"none", "ok", "rejected", "failed"},
              step : Steps \union {"none", "compose_up", "binary_chmod", "binary_run", "wasm_run"}]

(* A project name and a docker resource name are sequences of segments: the *)
(* code joins them with "-".  A resource is what `docker compose` derives   *)
(* from a project: a container is <project>-<service>-1, a network or a     *)
(* volume is <project>_<name>.                                              *)
Resource == [class : Classes, project : Seq(STRING)]

(* What the provers need to know of the constants: the fields the pipeline  *)
(* reads, with the values it tells apart.                                   *)
ASSUME ManifestsAssumption ==
  \A m \in Manifests : /\ m.kind \in Kinds
                       /\ m.signed \in BOOLEAN
                       /\ m.required \subseteq m.template
                       /\ m.path \in {"inside", "outside"}
ASSUME BundlesAssumption ==
  \A b \in Bundles : /\ b.creates \subseteq Classes
                     /\ b.entries \in {"safe", "unsafe"}
                     /\ b.compose \in ComposeFiles
ASSUME RequestsAssumption ==
  \A p \in Procs : \A o \in Requests[p] :
    /\ o.os \in Systems
    /\ o.require_binary_sandbox \in BOOLEAN
    /\ o.policy \in {"default", "extended", "invalid"}
    /\ o.project \in Seq(STRING)
    /\ o.location \subseteq Manifests
ASSUME ForeignAssumption == Foreign \subseteq Resource

VARIABLES
  pc,       \* pc[p]: the step of activate_inner that p is about to take
  opts,     \* opts[p]: the ActivateOptions of the call
  man,      \* man[p]: the manifest fetched in step 1
  bun,      \* bun[p]: the bundle fetched in step 6
  seen,     \* seen[p]: the docker resources step 5 has listed so far
  files,    \* files[p]: what is in the call's fresh work_dir
  envfile,  \* envfile[p]: whether work_dir/.env holds the resolved secrets
  sandbox,  \* sandbox[p]: the backend that confines the call's Binary, or "none"
  running,  \* running[p]: the child process run_bounded waits for
  report,   \* report[p]: the InstallReport
  docker,   \* the resources the docker daemon holds
  created,  \* history: the resources this call's `up` has brought up
  ran       \* history: the bundle code this call has started

calls == <<pc, opts, man, bun, seen, report>>
work  == <<files, envfile>>
child == <<sandbox, running, ran>>
host  == <<docker, created>>
vars  == <<calls, work, child, host>>

NoProcess == [code |-> "none", sandbox |-> "none"]
Children  == [code : Codes, sandbox : Backends \union {"none", "wasmtime"}] \union {NoProcess}
NoReport  == [status |-> "none", step |-> "none"]
Nothing   == [none |-> TRUE]

Init ==
  /\ pc      = [p \in Procs |-> "idle"]
  /\ opts    = [p \in Procs |-> Nothing]
  /\ man     = [p \in Procs |-> Nothing]
  /\ bun     = [p \in Procs |-> Nothing]
  /\ seen    = [p \in Procs |-> {}]
  /\ files   = [p \in Procs |-> "empty"]
  /\ envfile = [p \in Procs |-> FALSE]
  /\ sandbox = [p \in Procs |-> "none"]
  /\ running = [p \in Procs |-> NoProcess]
  /\ report  = [p \in Procs |-> NoReport]
  /\ docker  = Foreign
  /\ created = [p \in Procs |-> {}]
  /\ ran     = [p \in Procs |-> {}]

-----------------------------------------------------------------------------
(* The checks: pure predicates of the manifest, the options and the bundle. *)

IsValid(m, now) == now < m.expires_at /\ m.signed

Trusted(m, o) == m.publisher \in o.allowlist

PlatformOk(m, o) == ~(m.kind = "Binary" /\ o.os = "android")

(* validate_wasm_spec: the block is there for the kind Wasm only, and the    *)
(* names it hands to the guest are in the env_template.                      *)
WasmSpecOk(m) ==
  IF m.kind = "Wasm"
    THEN /\ m.wasm # NoBlock /\ ValidWasmSpec(m.wasm)
         /\ \A i \in DOMAIN m.wasm.env : m.wasm.env[i].name \in m.template
    ELSE m.wasm = NoBlock

ContractOk(m) == ContractAccepted(m.env)

NameOk(o) == \A i \in DOMAIN o.project : o.project[i] \notin Protected

(* Variant: a valid signature taken for trust. *)
Admissible_AnyPublisher(m, o) ==
  /\ IsValid(m, o.now) /\ m.kind # "K8s" /\ PlatformOk(m, o)
  /\ WasmSpecOk(m) /\ ContractOk(m) /\ NameOk(o)

(* Steps 2 to 4b, and the docker-free half of step 5: nothing is fetched,   *)
(* written or run before all of them hold.                                  *)
Admissible(m, o) ==
  /\ IsValid(m, o.now)
  /\ Trusted(m, o)
  /\ m.kind # "K8s"
  /\ PlatformOk(m, o)
  /\ WasmSpecOk(m)
  /\ ContractOk(m)
  /\ NameOk(o)

(* Variant: only an exact match counts as a collision. *)
Collides_ExactName(o, r) ==
  /\ \E i \in DOMAIN r.project : r.project[i] \in Protected
  /\ \E i, j \in DOMAIN r.project : SubSeq(r.project, i, j) = o.project

(* preflight_collision_check on one listed name: it equals the project name *)
(* or begins with "<project>-", or it holds the project and a protected     *)
(* segment.  "<project>_default" begins with neither.                       *)
Collides(o, r) ==
  \/ /\ IsPrefix(o.project, r.project)
     /\ r.class = "container" \/ r.project # o.project
  \/ /\ \E i \in DOMAIN r.project : r.project[i] \in Protected
     /\ \E i, j \in DOMAIN r.project : SubSeq(r.project, i, j) = o.project

DigestOk(m, b) == b.digest = m.digest

ScanOk(m, b) == m.kind = "Compose" => Clean(b.compose)

EnvOk(m, o) == m.required \subseteq o.env_values

(* sandbox::platform_candidates: what is compiled in for each OS. *)
Candidates ==
  [linux |-> {"bwrap"}, macos |-> {"sandbox_exec"}, windows |-> {"wsl_bwrap"}, android |-> {}]

(* wrap_command_with_policy: bwrap and Seatbelt validate an extended policy, *)
(* the WSL backend keeps the trait's default, which refuses every such one.  *)
WrapOk(o, sb) == o.policy = "default" \/ (o.policy = "extended" /\ sb # "wsl_bwrap")

(* A Binary may run on the bare host only when the operator opted out of     *)
(* the sandbox, and never on Windows.                                        *)
MayRunUnsandboxed(o) == ~o.require_binary_sandbox /\ o.os # "windows"

-----------------------------------------------------------------------------
(* How a call ends or moves on. *)

(* Variant: a status the report type does not have. *)
Return_TimedOut(p, status, step) ==
  /\ report' = [report EXCEPT ![p] = [status |-> IF status = "failed" THEN "timed_out" ELSE status,
                                     step |-> step]]
  /\ pc' = [pc EXCEPT ![p] = "done"]

Return(p, status, step) ==
  /\ report' = [report EXCEPT ![p] = [status |-> status, step |-> step]]
  /\ pc' = [pc EXCEPT ![p] = "done"]

Reject(p) == Return(p, "rejected", pc[p])

Goto(p, step) == pc' = [pc EXCEPT ![p] = step] /\ UNCHANGED report

-----------------------------------------------------------------------------
(* A caller calls activate() with a fresh, empty work_dir. *)
Call(p, o) ==
  /\ opts' = [opts EXCEPT ![p] = o]
  /\ pc' = [pc EXCEPT ![p] = "fetch_manifest"]
  /\ report' = [report EXCEPT ![p] = NoReport]
  /\ man' = [man EXCEPT ![p] = Nothing]
  /\ bun' = [bun EXCEPT ![p] = Nothing]
  /\ seen' = [seen EXCEPT ![p] = {}]
  /\ files' = [files EXCEPT ![p] = "empty"]
  /\ envfile' = [envfile EXCEPT ![p] = FALSE]
  /\ sandbox' = [sandbox EXCEPT ![p] = "none"]
  /\ created' = [created EXCEPT ![p] = {}]
  /\ ran' = [ran EXCEPT ![p] = {}]
  /\ UNCHANGED <<running, docker>>

Start(p) == pc[p] \in {"idle", "done"} /\ \E o \in Requests[p] : Call(p, o)

(* Step 1: the location serves some manifest, or the fetch fails. *)
FetchManifest(p) ==
  /\ pc[p] = "fetch_manifest"
  /\ \/ \E m \in opts[p].location : man' = [man EXCEPT ![p] = m] /\ Goto(p, "static")
     \/ Reject(p) /\ UNCHANGED man
  /\ UNCHANGED <<opts, bun, seen, work, child, host>>

(* Steps 2 to 5's first half.  Only Compose goes on to ask docker. *)
CheckManifest(p) ==
  /\ pc[p] = "static"
  /\ IF Admissible(man[p], opts[p])
       THEN Goto(p, IF man[p].kind = "Compose" THEN "ps" ELSE "fetch_bundle")
       ELSE Reject(p)
  /\ UNCHANGED <<opts, man, bun, seen, work, child, host>>

(* Step 5: `docker ps -a`, `docker volume ls`, `docker network ls`, one     *)
(* after the other; a command that fails rejects.  The names are judged     *)
(* once all three lists are in.                                             *)
Listing == [ps |-> "container", volumes |-> "volume", networks |-> "network"]

ListDocker(p) ==
  /\ pc[p] \in DOMAIN Listing
  /\ LET all == seen[p] \union {r \in docker : r.class = Listing[pc[p]]}
         Keep(r) == seen' = [seen EXCEPT ![p] = r]
     IN \/ pc[p] = "ps" /\ Goto(p, "volumes") /\ Keep(all)
        \/ pc[p] = "volumes" /\ Goto(p, "networks") /\ Keep(all)
        \/ /\ pc[p] = "networks" /\ Keep({})
           /\ IF \E r \in all : Collides(opts[p], r) THEN Reject(p) ELSE Goto(p, "fetch_bundle")
        \/ Reject(p) /\ Keep({})
  /\ UNCHANGED <<opts, man, bun, work, child, host>>

(* Step 6: whatever the URL serves is hashed before anything else. *)
FetchBundle(p) ==
  /\ pc[p] = "fetch_bundle"
  /\ \/ \E b \in Bundles :
          /\ bun' = [bun EXCEPT ![p] = b]
          /\ IF DigestOk(man[p], b) THEN Goto(p, "unpack") ELSE Reject(p)
     \/ Reject(p) /\ UNCHANGED bun
  /\ UNCHANGED <<opts, man, seen, work, child, host>>

(* Steps 6 and 6b: entries are checked and written one by one, so a bad     *)
(* entry or an I/O error leaves the earlier entries in work_dir.            *)
Unpack(p) ==
  /\ pc[p] = "unpack"
  /\ \/ /\ bun[p].entries = "safe"
        /\ files' = [files EXCEPT ![p] = "unpacked"]
        /\ IF man[p].path = "inside"
             THEN Goto(p, IF man[p].kind = "Compose" THEN "scan" ELSE "env")
             ELSE Reject(p)
     \/ \E f \in {"empty", "partial"} : files' = [files EXCEPT ![p] = f] /\ Reject(p)
  /\ UNCHANGED <<opts, man, bun, seen, envfile, child, host>>

(* Step 7: read the compose file and scan it (Compose only). *)
Scan(p) ==
  /\ pc[p] = "scan"
  /\ \/ ScanOk(man[p], bun[p]) /\ Goto(p, "env")
     \/ Reject(p)                \* a violation, or the file cannot be read
  /\ UNCHANGED <<opts, man, bun, seen, work, child, host>>

(* Step 8: resolve env_template; write .env 0600, never for Wasm. *)
RunStep == [Compose |-> "compose", Binary |-> "chmod", Wasm |-> "wasm"]

(* Variant: .env is written for every kind. *)
ResolveEnv_EveryKind(p) ==
  /\ pc[p] = "env"
  /\ \/ /\ EnvOk(man[p], opts[p])
        /\ envfile' = [envfile EXCEPT ![p] = TRUE]
        /\ Goto(p, RunStep[man[p].kind])
     \/ Reject(p) /\ UNCHANGED envfile
  /\ UNCHANGED <<opts, man, bun, seen, files, child, host>>

ResolveEnv(p) ==
  /\ pc[p] = "env"
  /\ \/ /\ EnvOk(man[p], opts[p])
        /\ envfile' = [envfile EXCEPT ![p] = man[p].kind # "Wasm"]
        /\ \/ Goto(p, RunStep[man[p].kind])
           \/ man[p].kind # "Wasm" /\ Reject(p)  \* sync or chmod fails, the values are written
     \/ Reject(p) /\ UNCHANGED envfile  \* a required name is missing, or I/O fails
  /\ UNCHANGED <<opts, man, bun, seen, files, child, host>>

-----------------------------------------------------------------------------
(* Running bundle code: run_bounded spawns a child in a process group of    *)
(* its own and waits for it, with a timeout.                                *)

Spawn(p, code, sb) ==
  /\ running' = [running EXCEPT ![p] = [code |-> code, sandbox |-> sb]]
  /\ ran' = [ran EXCEPT ![p] = @ \union {code}]
  /\ UNCHANGED <<pc, report>>

NotSpawned == UNCHANGED <<running, ran>>

(* Step 9, Compose: `docker compose up -d --build`. *)
StartCompose(p) ==
  /\ pc[p] = "compose" /\ running[p] = NoProcess
  /\ \/ Spawn(p, "compose", "none")
     \/ Return(p, "failed", "compose_up") /\ NotSpawned
  /\ UNCHANGED <<opts, man, bun, seen, work, sandbox, host>>

(* External: the daemon creates the project's resources one at a time, and  *)
(* takes over a resource of that name that is already there.                *)
CreateResource(p) ==
  /\ running[p].code = "compose"
  /\ \E c \in bun[p].creates :
       LET r == [class |-> c, project |-> opts[p].project]
       IN /\ r \notin created[p]
          /\ created' = [created EXCEPT ![p] = @ \union {r}]
          /\ docker' = docker \union {r}
  /\ UNCHANGED <<calls, work, child>>

(* Step 9, Binary: make the file executable, then call sandbox::select().   *)
Chmod(p) ==
  /\ pc[p] = "chmod"
  /\ \/ Goto(p, "binary")
     \/ \E step \in {"binary_chmod", "binary_run"} :  \* chmod fails; the path is not UTF-8
          Return(p, "failed", step)
  /\ UNCHANGED <<opts, man, bun, seen, work, child, host>>

(* select() probes the candidates with commands of the host that it waits   *)
(* for without a timeout.                                                   *)
Probing(p) == pc[p] = "binary" /\ running[p] = NoProcess

(* The probes have come back, if they do: wrap and spawn.  No backend is    *)
(* fail-closed unless the operator opted out.                               *)
StartBinary(p) ==
  /\ Probing(p)
  /\ \/ \E sb \in Candidates[opts[p].os] :
          IF WrapOk(opts[p], sb)
            THEN /\ sandbox' = [sandbox EXCEPT ![p] = sb]
                 /\ \/ Spawn(p, "binary", sb)
                    \/ Return(p, "failed", "binary_run") /\ NotSpawned
            ELSE Reject(p) /\ NotSpawned /\ UNCHANGED sandbox
     \/ /\ IF MayRunUnsandboxed(opts[p])
             THEN \/ Spawn(p, "binary", "none")
                  \/ Return(p, "failed", "binary_run") /\ NotSpawned
             ELSE Reject(p) /\ NotSpawned
        /\ UNCHANGED sandbox
  /\ UNCHANGED <<opts, man, bun, seen, work, host>>

(* Step 8b: the component is read, hashed and compiled (a refusal rejects)  *)
(* and then run inside the engine; its own exit status is the verification. *)
StartWasm(p) ==
  /\ pc[p] = "wasm" /\ running[p] = NoProcess
  /\ \/ Spawn(p, "wasm", "wasmtime")
     \/ Reject(p) /\ NotSpawned
  /\ UNCHANGED <<opts, man, bun, seen, work, sandbox, host>>

(* Variants: verify.sh on the host; under a backend probed a second time. *)
StartVerify_OnHost(p) ==
  /\ pc[p] = "verify" /\ running[p] = NoProcess
  /\ \/ Spawn(p, "verify", "none")
     \/ Return(p, "failed", "verify") /\ NotSpawned
  /\ UNCHANGED <<opts, man, bun, seen, work, sandbox, host>>

StartVerify_ProbedAgain(p) ==
  /\ pc[p] = "verify" /\ running[p] = NoProcess
  /\ \/ Spawn(p, "verify", sandbox[p])
     \/ Return(p, "failed", "verify") /\ NotSpawned
     \/ sandbox[p] # "none" /\ Reject(p) /\ NotSpawned
  /\ UNCHANGED <<opts, man, bun, seen, work, sandbox, host>>

(* Step 10: verify.sh, under the backend that confined the Binary; on the   *)
(* host for Compose and for a Binary that ran unsandboxed.                  *)
StartVerify(p) ==
  /\ pc[p] = "verify" /\ running[p] = NoProcess
  /\ IF sandbox[p] # "none" /\ ~WrapOk(opts[p], sandbox[p])
       THEN Reject(p) /\ NotSpawned
       ELSE \/ Spawn(p, "verify", sandbox[p])
            \/ Return(p, "failed", "verify") /\ NotSpawned
  /\ UNCHANGED <<opts, man, bun, seen, work, sandbox, host>>

(* `compose up` exits 0 only with every resource of the project up. *)
Succeeds(p) ==
  running[p].code = "compose" =>
    \A c \in bun[p].creates : [class |-> c, project |-> opts[p].project] \in created[p]

FailStep ==
  [compose |-> "compose_up", binary |-> "binary_run", wasm |-> "wasm_run", verify |-> "verify"]

ExitOk(p) ==
  /\ running[p] # NoProcess /\ Succeeds(p)
  /\ IF running[p].code \in {"compose", "binary"}
       THEN Goto(p, "verify")
       ELSE Return(p, "ok", running[p].code)
  /\ running' = [running EXCEPT ![p] = NoProcess]
  /\ UNCHANGED <<opts, man, bun, seen, work, sandbox, ran, host>>

Failed(p) ==
  /\ running[p] # NoProcess
  /\ Return(p, "failed", FailStep[running[p].code])
  /\ running' = [running EXCEPT ![p] = NoProcess]
  /\ UNCHANGED <<opts, man, bun, seen, work, sandbox, ran, host>>

(* The child exits non-zero by itself. *)
ExitBad(p) == Failed(p)

(* Variant: the wait for the child has no bound. *)
Timeout_Never(p) == FALSE

(* The timeout of run_bounded fires: the whole process group is killed. *)
Timeout(p) == Failed(p)

-----------------------------------------------------------------------------
(* What the call does within a bounded time, as opposed to what waits for   *)
(* its caller, a sandbox probe, its child process or the docker daemon.     *)
Advance(p) ==
  \/ FetchManifest(p) \/ CheckManifest(p) \/ ListDocker(p)
  \/ FetchBundle(p)   \/ Unpack(p)        \/ Scan(p)        \/ ResolveEnv(p)
  \/ StartCompose(p)  \/ Chmod(p)         \/ StartWasm(p)   \/ StartVerify(p)
  \/ Timeout(p)

Environment(p) == StartBinary(p) \/ CreateResource(p) \/ ExitOk(p) \/ ExitBad(p)

Next == \E p \in Procs : Start(p) \/ Advance(p) \/ Environment(p)

Spec == Init /\ [][Next]_vars

(* Downloads are bounded by FETCH_TIMEOUT, children by run_bounded's        *)
(* timeout.  A child need never exit by itself, nor a probe come back.      *)
FairSpec == Spec /\ \A p \in Procs : WF_vars(Advance(p))

-----------------------------------------------------------------------------
(* Properties *)

(* Every variable holds a value of its kind. *)
TypeOK ==
  /\ pc \in [Procs -> Steps]
  /\ opts \in [Procs -> (UNION {Requests[q] : q \in Procs}) \union {Nothing}]
  /\ \A p \in Procs : opts[p] \in Requests[p] \union {Nothing}
  /\ man \in [Procs -> Manifests \union {Nothing}]
  /\ bun \in [Procs -> Bundles \union {Nothing}]
  /\ docker \subseteq Resource
  /\ seen \in [Procs -> SUBSET Resource]
  /\ created \in [Procs -> SUBSET docker]
  /\ files \in [Procs -> {"empty", "partial", "unpacked"}]
  /\ envfile \in [Procs -> BOOLEAN]
  /\ sandbox \in [Procs -> Backends \union {"none"}]
  /\ running \in [Procs -> Children]
  /\ ran \in [Procs -> SUBSET Codes]
  /\ report \in [Procs -> Reports]

(* No child process of an activation exists unless the manifest that led to *)
(* it was authentic, current and from a trusted publisher, and the bundle   *)
(* is the one that was signed, unpacked inside work_dir, and (Compose)      *)
(* gives its containers nothing of the host beyond the bundle, loopback and *)
(* what the scan overlooks: whatever the servers answered, and however the  *)
(* other activations on the host interleave (steps 2 to 8).                 *)
OnlyVettedCodeRuns ==
  \A p \in Procs : running[p] # NoProcess =>
    /\ man[p].signed /\ opts[p].now < man[p].expires_at
    /\ man[p].publisher \in opts[p].allowlist
    /\ bun[p].digest = man[p].digest
    /\ files[p] = "unpacked" /\ bun[p].entries = "safe" /\ man[p].path = "inside"
    /\ man[p].kind = "Compose" => Contained(bun[p].compose)
    /\ man[p].required \subseteq opts[p].env_values

(* Bundle code of a Binary manifest, its verify.sh included, runs under the *)
(* backend the call selected; bare only where the operator opted out, never *)
(* on Windows or Android (steps 4a, 9 and 10).                              *)
BinaryConfined ==
  \A p \in Procs : running[p] # NoProcess /\ man[p].kind = "Binary" =>
    /\ running[p].sandbox = sandbox[p]
    /\ running[p].sandbox = "none" =>
         ~opts[p].require_binary_sandbox /\ opts[p].os \in {"linux", "macos"}

(* A Rejected report means that no bundle code ran in this call and that it *)
(* brought up no docker resource; past that point a call can only fail or   *)
(* succeed.  The wrap of verify.sh may reject after the Binary ran, so this *)
(* rests on wrap_command_with_policy deciding both alike.                   *)
RejectedRanNothing ==
  \A p \in Procs : report[p].status = "rejected" => ran[p] = {} /\ created[p] = {}

(* Secret values reach the disk only for a vetted, trusted manifest whose   *)
(* containers reach nothing of the host but the bundle and what the scan    *)
(* overlooks, and never in a work_dir that a Wasm guest may see through a   *)
(* preopen (step 8).                                                        *)
SecretsOnlyForVetted ==
  \A p \in Procs : envfile[p] =>
    /\ man[p].publisher \in opts[p].allowlist /\ man[p].signed
    /\ bun[p].digest = man[p].digest
    /\ man[p].kind \in {"Compose", "Binary"}
    /\ man[p].kind = "Compose" => Contained(bun[p].compose)

(* `compose up` never adopts a container that was there before: a stale run *)
(* of the project, or of a project nested under it, is refused by the       *)
(* pre-flight (step 5), for calls whose projects differ.                    *)
NoContainerTakeover ==
  [][\A p \in Procs : \A r \in created'[p] \ created[p] :
       r.class = "container" => r \notin docker]_vars

(* Every call ends with a report, although downloads may stall and bundle   *)
(* code may hang, unless a probe of select() never comes back: each other   *)
(* wait is bounded, after the probes as before them.                        *)
EveryCallReports ==
  \A p \in Procs : pc[p] # "idle" ~> pc[p] = "done" \/ Probing(p)

=============================================================================
