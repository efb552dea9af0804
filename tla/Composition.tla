---------------------------- MODULE Composition ----------------------------
(***************************************************************************)
(* crates/installer-engine/src/composition.rs: `activate_composition`.     *)
(* A composition pins several manifests; the installer verifies all of     *)
(* them, activates them one after the other with the pipeline of Activate, *)
(* and on the first that does not succeed tears down, in reverse order,    *)
(* the ones that did.  Here a process of Activate is one                   *)
(* activate_composition call, and its activate() calls are made by it.     *)
(***************************************************************************)
EXTENDS Activate

CONSTANT CompositionRequests  \* CompositionRequests[p]: CompositionActivateOptions

(* activate() is called with the composition's own options, but for the     *)
(* project and the location: Requests covers what that comes to.            *)
ASSUME CompositionAssumption ==
  \A p \in Procs : \A q \in CompositionRequests[p] :
    /\ Len(q.composition.pins) \in Nat
    /\ \A i \in 0..(Len(q.composition.pins) - 1), m \in Manifests :
         [q.base EXCEPT !.project = Append(q.prefix, ToString(i)), !.location = {m}]
           \in Requests[p]

VARIABLES
  cpc,      \* cpc[p]: where activate_composition is
  copts,    \* copts[p]: its options, the composition included
  subs,     \* subs[p]: resolved_subs
  inst,     \* inst[p]: succeeded, the sub-manifests installed so far
  torn,     \* torn[p]: the outcomes of the teardowns made so far
  creport,  \* creport[p]: the CompositionInstallReport's status
  before    \* history: what docker held when the attempt began

comps == <<cpc, copts, subs, inst, torn, creport, before>>
cvars == <<vars, comps>>

CInit ==
  /\ Init
  /\ cpc     = [p \in Procs |-> "idle"]
  /\ copts   = [p \in Procs |-> Nothing]
  /\ subs    = [p \in Procs |-> <<>>]
  /\ inst    = [p \in Procs |-> <<>>]
  /\ torn    = [p \in Procs |-> <<>>]
  /\ creport = [p \in Procs |-> "none"]
  /\ before  = [p \in Procs |-> {}]

-----------------------------------------------------------------------------
(* Variant: a status the report type does not have. *)
Conclude_Failed(p, status) ==
  /\ creport' = [creport EXCEPT ![p] = IF status = "rolled_back" THEN "failed" ELSE status]
  /\ cpc' = [cpc EXCEPT ![p] = "done"]

Conclude(p, status) ==
  /\ creport' = [creport EXCEPT ![p] = status]
  /\ cpc' = [cpc EXCEPT ![p] = "done"]

CGoto(p, step) == cpc' = [cpc EXCEPT ![p] = step] /\ UNCHANGED creport

(* A SubManifestRef's (publisher_pubkey, manifest_id, signature). *)
Pin(m) == [publisher |-> m.publisher, id |-> m.id, sig |-> m.sig]

StartComposition(p) ==
  /\ cpc[p] \in {"idle", "done"}
  /\ \E q \in CompositionRequests[p] : copts' = [copts EXCEPT ![p] = q]
  /\ cpc' = [cpc EXCEPT ![p] = "verify"]
  /\ subs' = [subs EXCEPT ![p] = <<>>]
  /\ inst' = [inst EXCEPT ![p] = <<>>]
  /\ torn' = [torn EXCEPT ![p] = <<>>]
  /\ creport' = [creport EXCEPT ![p] = "none"]
  /\ before' = [before EXCEPT ![p] = docker]
  /\ created' = [created EXCEPT ![p] = {}]
  /\ UNCHANGED <<calls, work, child, docker>>

(* Step 1a. *)
CheckComposition(p) ==
  /\ cpc[p] = "verify"
  /\ IF IsValid(copts[p].composition, copts[p].base.now)
       THEN CGoto(p, "resolve") ELSE Conclude(p, "rejected")
  /\ UNCHANGED <<copts, subs, inst, torn, before, vars>>

(* Step 1b, one turn of its loop: the registry answers with some manifest,  *)
(* or not at all.                                                           *)
ResolveSub(p) ==
  /\ cpc[p] = "resolve" /\ Len(subs[p]) < Len(copts[p].composition.pins)
  /\ \/ \E m \in Manifests :
          IF /\ Pin(m) = copts[p].composition.pins[Len(subs[p]) + 1]
             /\ IsValid(m, copts[p].base.now)
            THEN subs' = [subs EXCEPT ![p] = Append(@, m)] /\ UNCHANGED <<cpc, creport>>
            ELSE Conclude(p, "rejected") /\ UNCHANGED subs
     \/ Conclude(p, "rejected") /\ UNCHANGED subs
  /\ UNCHANGED <<copts, inst, torn, before, vars>>

EdgesOk(c) == \A e \in c.edges : e[1] < Len(c.pins) /\ e[2] < Len(c.pins)

(* Variant: only the composition's own publisher is looked up. *)
PublishersOk_OwnOnly(p) == copts[p].composition.publisher \in copts[p].base.allowlist

(* Step 1c: every distinct publisher, the composition's and each sub's. *)
PublishersOk(p) ==
  ({copts[p].composition.publisher} \union {subs[p][i].publisher : i \in DOMAIN subs[p]})
    \subseteq copts[p].base.allowlist

CheckTrust(p) ==
  /\ cpc[p] = "resolve" /\ Len(subs[p]) = Len(copts[p].composition.pins)
  /\ IF EdgesOk(copts[p].composition) /\ PublishersOk(p)
       THEN CGoto(p, "install") ELSE Conclude(p, "rejected")
  /\ UNCHANGED <<copts, subs, inst, torn, before, vars>>

SubProject(p) == Append(copts[p].prefix, ToString(Len(inst[p])))

(* Steps 2 and 3: all installed, or write the next sub's manifest.json and  *)
(* call activate() on it under the project "<prefix>-<index>".              *)
AllInstalled(p) ==
  /\ cpc[p] = "install" /\ Len(inst[p]) = Len(subs[p])
  /\ Conclude(p, "ok")
  /\ UNCHANGED <<copts, subs, inst, torn, before, vars>>

CallSub(p) ==
  /\ cpc[p] = "install" /\ Len(inst[p]) < Len(subs[p])
  /\ \/ /\ Call(p, [copts[p].base EXCEPT !.project = SubProject(p),
                                         !.location = {subs[p][Len(inst[p]) + 1]}])
        /\ CGoto(p, "await")
     \/ CGoto(p, "rollback") /\ UNCHANGED vars   \* the manifest cannot be written
  /\ UNCHANGED <<copts, subs, inst, torn, before>>

(* activate() has returned: its locals are gone.  What it created stays on  *)
(* the host, and so does the sub's directory, which no later call reuses.   *)
Returned(p) ==
  /\ pc' = [pc EXCEPT ![p] = "idle"]
  /\ report' = [report EXCEPT ![p] = NoReport]
  /\ opts' = [opts EXCEPT ![p] = Nothing]
  /\ man' = [man EXCEPT ![p] = Nothing]
  /\ bun' = [bun EXCEPT ![p] = Nothing]
  /\ files' = [files EXCEPT ![p] = "empty"]
  /\ envfile' = [envfile EXCEPT ![p] = FALSE]
  /\ sandbox' = [sandbox EXCEPT ![p] = "none"]
  /\ ran' = [ran EXCEPT ![p] = {}]
  /\ UNCHANGED <<seen, running, host>>

Installed(p) == [index |-> Len(inst[p]), kind |-> man[p].kind,
                 project |-> opts[p].project, created |-> created[p]]

(* Variant: a Rejected sub is taken to leave nothing to roll back. *)
SubReturned_RejectedIsFinal(p) ==
  /\ cpc[p] = "await" /\ pc[p] = "done" /\ Returned(p)
  /\ \/ /\ report[p].status = "ok"
        /\ inst' = [inst EXCEPT ![p] = Append(@, Installed(p))]
        /\ CGoto(p, "install")
     \/ report[p].status = "failed" /\ CGoto(p, "rollback") /\ UNCHANGED inst
     \/ report[p].status = "rejected" /\ Conclude(p, "rolled_back") /\ UNCHANGED inst
  /\ UNCHANGED <<copts, subs, torn, before>>

SubReturned(p) ==
  /\ cpc[p] = "await" /\ pc[p] = "done" /\ Returned(p)
  /\ \/ /\ report[p].status = "ok"
        /\ inst' = [inst EXCEPT ![p] = Append(@, Installed(p))]
        /\ CGoto(p, "install")
     \/ report[p].status \in {"rejected", "failed"} /\ CGoto(p, "rollback") /\ UNCHANGED inst
  /\ UNCHANGED <<copts, subs, torn, before>>

-----------------------------------------------------------------------------
(* roll_back: the most recently installed sub first.  `docker compose -p    *)
(* <project> down -v` removes the project's containers, networks and        *)
(* volumes; when it fails or times out, some of them stay.  A Binary or a   *)
(* Wasm component has exited already: there is nothing to reverse.          *)
Outcome(s, err, nothing) == [index |-> s.index, error |-> err, nothing |-> nothing]

(* Variant: the teardown selects by name prefix. *)
OfProject_ByPrefix(s) == {r \in docker : IsPrefix(s.project, r.project)}

OfProject(s) == {r \in docker : r.project = s.project}

TearDown(p) ==
  /\ cpc[p] = "rollback" /\ Len(torn[p]) < Len(inst[p])
  /\ LET s == inst[p][Len(inst[p]) - Len(torn[p])]
         Record(err, nothing) == torn' = [torn EXCEPT ![p] = Append(@, Outcome(s, err, nothing))]
     IN \/ s.kind = "Compose" /\ docker' = docker \ OfProject(s) /\ Record(FALSE, FALSE)
        \/ /\ s.kind = "Compose"
           /\ \E gone \in SUBSET OfProject(s) : docker' = docker \ gone
           /\ Record(TRUE, FALSE)
        \/ s.kind \in {"Binary", "Wasm"} /\ Record(FALSE, TRUE) /\ UNCHANGED docker
  /\ UNCHANGED <<cpc, copts, subs, inst, creport, before, calls, work, child, created>>

RollbackDone(p) ==
  /\ cpc[p] = "rollback" /\ Len(torn[p]) = Len(inst[p])
  /\ Conclude(p, "rolled_back")
  /\ UNCHANGED <<copts, subs, inst, torn, before, vars>>

-----------------------------------------------------------------------------
Orchestrate(p) ==
  \/ CheckComposition(p) \/ ResolveSub(p) \/ CheckTrust(p)
  \/ AllInstalled(p) \/ CallSub(p) \/ SubReturned(p)
  \/ TearDown(p) \/ RollbackDone(p)

Activation(p) == Advance(p) /\ UNCHANGED comps

CNext == \E p \in Procs :
           \/ StartComposition(p) \/ Orchestrate(p) \/ Activation(p)
           \/ Environment(p) /\ UNCHANGED comps

CSpec == CInit /\ [][CNext]_cvars

(* activate_composition is one thread; all it waits for but the probes of a *)
(* sub's backend is bounded.                                                *)
CFairSpec == CSpec /\ \A p \in Procs : WF_cvars(Orchestrate(p) \/ Activation(p))

-----------------------------------------------------------------------------
(* Properties *)

(* Every variable of the orchestration holds a value of its kind. *)
CTypeOK ==
  /\ cpc \in [Procs -> {"idle", "verify", "resolve", "install", "await", "rollback", "done"}]
  /\ creport \in [Procs -> {"none", "rejected", "rolled_back", "ok"}]
  /\ \A p \in Procs :
       /\ subs[p] \in Seq(Manifests)
       /\ inst[p] \in Seq([index : Nat, kind : Kinds \ {"K8s"}, project : Seq(STRING),
                           created : SUBSET Resource])
       /\ torn[p] \in Seq([index : Nat, error : BOOLEAN, nothing : BOOLEAN])
       /\ Len(torn[p]) <= Len(inst[p]) /\ Len(inst[p]) <= Len(subs[p])

(* Not one sub-manifest is handed to activate() before the composition and  *)
(* all of its sub-manifests are authentic, current, the pinned ones, and    *)
(* from trusted publishers: an untrusted last sub stops the first one from  *)
(* ever running (steps 1a to 1c).                                           *)
AllVettedBeforeAny ==
  \A p \in Procs : pc[p] # "idle" =>
    LET c == copts[p].composition
        base == copts[p].base
    IN /\ c.signed /\ base.now < c.expires_at /\ c.publisher \in base.allowlist
       /\ Len(subs[p]) = Len(c.pins)
       /\ \A i \in DOMAIN subs[p] :
            /\ subs[p][i].signed /\ base.now < subs[p][i].expires_at
            /\ subs[p][i].publisher \in base.allowlist
            /\ Pin(subs[p][i]) = c.pins[i]

(* A rolled-back attempt accounts for every sub-manifest that succeeded:    *)
(* each has a teardown outcome, newest first, and none of the resources it  *)
(* created is left unless its outcome reports an error (roll_back).         *)
RollbackCoversSucceeded ==
  \A p \in Procs : creport[p] = "rolled_back" =>
    /\ Len(torn[p]) = Len(inst[p])
    /\ \A k \in DOMAIN inst[p] :
         LET t == torn[p][Len(inst[p]) + 1 - k]
         IN /\ t.index = inst[p][k].index
            /\ ~t.error => inst[p][k].created \intersect docker = {}

(* As long as an attempt's report is Ok, everything its sub-manifests       *)
(* created stands: no rollback of another composition on the host, even     *)
(* one whose project names begin alike, reaches it.                         *)
OkCompositionStands ==
  \A p \in Procs : creport[p] = "ok" =>
    /\ Len(inst[p]) = Len(copts[p].composition.pins)
    /\ \A k \in DOMAIN inst[p] : inst[p][k].created \subseteq docker

(* A rollback deletes no container that stood when the attempt began: the   *)
(* pre-flight of each sub refuses a project that still has one.             *)
RollbackSparesContainers ==
  [][\A p \in Procs : torn'[p] # torn[p] =>
       \A r \in docker \ docker' : r.class = "container" => r \notin before[p]]_cvars

(* Every attempt ends with a report, whatever hangs or fails on the way, or *)
(* waits for a sandbox probe that does not come back.                       *)
EveryAttemptReports ==
  \A p \in Procs : cpc[p] # "idle" ~> cpc[p] = "done" \/ Probing(p)

-----------------------------------------------------------------------------
(* docs/design/composition-manifest.md: "never leave a partial installation *)
(* standing".  After a rollback without teardown errors, nothing that the   *)
(* attempt brought up is left: neither by the subs that succeeded nor by    *)
(* the one that failed.                                                     *)
NoPartialInstallation ==
  \A p \in Procs :
    creport[p] = "rolled_back" /\ (\A i \in DOMAIN torn[p] : ~torn[p][i].error)
      => /\ \A k \in DOMAIN inst[p] : inst[p][k].created \intersect docker = {}
         /\ created[p] \intersect docker = {}

(* docs/security-model.md F.11: an activation does not proceed "if any      *)
(* container/volume/network matching the target project name/prefix already *)
(* exists", so a rollback deletes no resource, of any class, that stood     *)
(* before the attempt.                                                      *)
RollbackSparesEverything ==
  [][\A p \in Procs : torn'[p] # torn[p] =>
       \A r \in docker \ docker' : r \notin before[p]]_cvars

=============================================================================
