----------------------------- MODULE Contracts -----------------------------
(***************************************************************************)
(* The two signed blocks of a manifest that are judged before anything is  *)
(* fetched: the environment contract (manifest-core/src/environment.rs)    *)
(* and the description of a WebAssembly installation (wasm.rs).            *)
(***************************************************************************)
EXTENDS Guardrails

NoBlock == [none |-> TRUE]  \* the manifest carries no such block

-----------------------------------------------------------------------------
(* An environment contract; every key is optional, and what is left out     *)
(* takes the value of the strictest profile.  cpu_cores is a float: what    *)
(* counts is whether it is finite and positive, or which way it is not.     *)
EnvironmentSchema == 1

DefaultFsScope        == [read_base_os |-> TRUE, extra_ro |-> {}, tmp_mb |-> 256]
DefaultProcessPolicy  == [allow |-> {}, max_pids |-> 64]
DefaultNetworkPolicy  == [mode |-> "private_loopback", host_loopback_ports |-> {}, egress |-> {}]
DefaultResourceLimits == [cpu_cores |-> "positive", memory_mb |-> 1024, wall_secs |-> 300, disk_mb |-> 512]
DefaultHooks          == [verify |-> "verify.sh", verify_timeout_secs |-> 60]
DefaultMinTier        == [linux |-> "bwrap", macos |-> "seatbelt", windows |-> "wsl2_bwrap"]

DefaultContract ==
  [schema |-> EnvironmentSchema, filesystem |-> DefaultFsScope, processes |-> DefaultProcessPolicy,
   network |-> DefaultNetworkPolicy, resources |-> DefaultResourceLimits, hooks |-> DefaultHooks,
   sandbox_min_tier |-> DefaultMinTier]

PortInRange(port) == port # 0

(* EnvironmentContract::validate; "" stands for a text of blanks too. *)
ValidContract(env) ==
  /\ env.schema = EnvironmentSchema
  /\ 0 \notin {env.filesystem.tmp_mb, env.processes.max_pids, env.resources.memory_mb,
               env.resources.wall_secs, env.resources.disk_mb, env.hooks.verify_timeout_secs}
  /\ \A p \in env.network.host_loopback_ports : PortInRange(p.port) /\ p.justification # ""
  /\ \A e \in env.network.egress : e.host # "" /\ PortInRange(e.port) /\ e.justification # ""
  /\ env.resources.cpu_cores = "positive"
  /\ env.hooks.verify # ""
  /\ \A os \in DOMAIN env.sandbox_min_tier : env.sandbox_min_tier[os] # ""

(* environment_contract_refusal: a contract may not ask for more than the   *)
(* sandbox gives; no contract is the strictest one.                         *)
ContractAccepted(env) ==
  \/ env = NoBlock
  \/ /\ ValidContract(env)
     /\ env.network.mode # "host_loopback" /\ env.network.egress = {}

-----------------------------------------------------------------------------
(* A WasmSpec.  A path has lead "odd" if it is too long or holds a byte     *)
(* that is refused there (NUL, a backslash, a drive); a host name is its    *)
(* labels, each by what the check tells apart; an environment name says     *)
(* whether it is well formed.  Memory is counted in MiB, fuel in 10^12.     *)
WasmWorld        == "wasi:cli/command"
MaxWasmMemory    == 2048
MaxWasmTimeoutMs == 3600000
MaxWasmFuel      == 1000
MaxWasmPreopens  == 16
MaxWasmHttpHosts == 64
MaxWasmEnvNames  == 64

Preopen(guest, subdir) == [guest_path |-> guest, host_subdir |-> subdir]

WasmSpec(path, preopens, hosts, env, limits) ==
  [world |-> WasmWorld, component_path |-> path, preopens |-> preopens,
   allowed_http_hosts |-> hosts, env |-> env, limits |-> limits]

(* check_relative_path: a "." part only where the caller allows it. *)
IsRelativePath(path, allowDot) ==
  /\ path.lead \notin {"/", "odd"} /\ path.parts # <<>>
  /\ \A i \in DOMAIN path.parts : path.parts[i] \notin {"..", ""} \union (IF allowDot THEN {} ELSE {"."})

(* The guest's side of a preopen may be absolute. *)
IsGuestPath(path) ==
  /\ path.lead # "odd" /\ (path.lead = "/" \/ path.parts # <<>>)
  /\ \A i \in DOMAIN path.parts : path.parts[i] # ".."

IsHostname(h) ==
  /\ h.lowercase /\ Len(h.labels) >= 2
  /\ \A i \in DOMAIN h.labels : h.labels[i] \in {"word", "digits"}  \* not empty, long or dashed
  /\ Last(h.labels) # "digits"                                    \* an IP literal

IsEnvName(n) == n.wellformed

InRange(n, max) == n > 0 /\ n <= max

(* An empty host_subdir is the work dir itself. *)
ValidPreopens(preopens) ==
  /\ Len(preopens) <= MaxWasmPreopens
  /\ IsInjective([i \in DOMAIN preopens |-> preopens[i].guest_path])
  /\ \A i \in DOMAIN preopens :
       /\ IsGuestPath(preopens[i].guest_path)
       /\ preopens[i].host_subdir = NoText \/ IsRelativePath(preopens[i].host_subdir, TRUE)

ValidLimits(limits) ==
  /\ InRange(limits.max_memory, MaxWasmMemory)
  /\ InRange(limits.timeout_ms, MaxWasmTimeoutMs)
  /\ \A i \in DOMAIN limits.fuel : InRange(limits.fuel[i], MaxWasmFuel)  \* <<>> is none

(* WasmSpec::validate. *)
ValidWasmSpec(w) ==
  /\ w.world = WasmWorld
  /\ IsRelativePath(w.component_path, FALSE)
  /\ ValidPreopens(w.preopens)
  /\ Len(w.allowed_http_hosts) <= MaxWasmHttpHosts /\ IsInjective(w.allowed_http_hosts)
  /\ \A i \in DOMAIN w.allowed_http_hosts : IsHostname(w.allowed_http_hosts[i])
  /\ Len(w.env) <= MaxWasmEnvNames /\ IsInjective(w.env)
  /\ \A i \in DOMAIN w.env : IsEnvName(w.env[i])
  /\ ValidLimits(w.limits)

-----------------------------------------------------------------------------
(* Where the host side of a preopen leads: inside the work dir, whatever    *)
(* its parts are, or a guest would see more than its own installation.      *)
PreopensStayInside(w) ==
  \A i \in DOMAIN w.preopens :
    LET subdir == w.preopens[i].host_subdir
    IN subdir = NoText \/ InsideBundle(subdir)
=============================================================================
