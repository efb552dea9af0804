-------------------------- MODULE CompositionProofs --------------------------
(***************************************************************************)
(* Safety of activate_composition for any number of concurrent             *)
(* compositions, of any length, over any manifests and bundles.  Part one  *)
(* needs nothing of the host; part two, what stands and what is deleted    *)
(* there, needs that no two compositions that run at once share a project  *)
(* name.                                                                   *)
(***************************************************************************)
EXTENDS Composition, ActivateProofs

InstalledSub == [index : Nat, kind : Kinds \ {"K8s"}, project : Seq(STRING),
                 created : SUBSET Resource]
TornSub      == [index : Nat, error : BOOLEAN, nothing : BOOLEAN]

CTyped ==
  /\ cpc \in [Procs -> {"idle", "verify", "resolve", "install", "await", "rollback", "done"}]
  /\ creport \in [Procs -> {"none", "rejected", "rolled_back", "ok"}]
  /\ copts \in [Procs -> (UNION {CompositionRequests[q] : q \in Procs}) \union {Nothing}]
  /\ subs \in [Procs -> Seq(Manifests)]
  /\ inst \in [Procs -> Seq(InstalledSub)]
  /\ torn \in [Procs -> Seq(TornSub)]
  /\ before \in [Procs -> SUBSET Resource]

(* activate() runs only while the composition awaits it. *)
Orderly(p) ==
  /\ pc[p] # "idle" => cpc[p] = "await"
  /\ cpc[p] # "idle" => copts[p] \in CompositionRequests[p]

(* Steps 1a to 1c, as far as they have come. *)
CVetted(p) ==
  /\ cpc[p] \in {"resolve", "install", "await", "rollback"} =>
       /\ IsValid(copts[p].composition, copts[p].base.now)
       /\ Len(subs[p]) <= Len(copts[p].composition.pins)
       /\ \A i \in DOMAIN subs[p] : /\ Pin(subs[p][i]) = copts[p].composition.pins[i]
                                    /\ IsValid(subs[p][i], copts[p].base.now)
  /\ cpc[p] \in {"install", "await", "rollback"} =>
       Len(subs[p]) = Len(copts[p].composition.pins) /\ PublishersOk(p)

(* How far the installation and the rollback have come. *)
Counted(p) ==
  /\ Len(torn[p]) <= Len(inst[p]) /\ Len(inst[p]) <= Len(subs[p])
  /\ cpc[p] = "verify" => subs[p] = <<>>
  /\ cpc[p] = "await" => Len(inst[p]) < Len(subs[p])
  /\ cpc[p] \notin {"rollback", "done"} => torn[p] = <<>>
  /\ creport[p] # "none" => cpc[p] = "done"
  /\ creport[p] = "ok" => Len(inst[p]) = Len(copts[p].composition.pins)
  /\ creport[p] = "rolled_back" => Len(torn[p]) = Len(inst[p])

(* What the composition notes of each sub-manifest. *)
Noted(p) ==
  /\ \A k \in DOMAIN inst[p] :
       /\ \E o \in Requests[p] : o.project = inst[p][k].project
       /\ inst[p][k].kind # "Compose" => inst[p][k].created = {}
       /\ \A r \in inst[p][k].created : r.project = inst[p][k].project
  /\ \A j \in DOMAIN torn[p] : torn[p][j].index = inst[p][Len(inst[p]) + 1 - j].index

CompInv(p) == Orderly(p) /\ CVetted(p) /\ Counted(p) /\ Noted(p)

CIInv == IInv /\ CTyped /\ \A p \in Procs : CompInv(p)

-----------------------------------------------------------------------------
(* Part two: the host. *)

(* What an attempt that has not turned back has brought up still stands. *)
Standing(p) ==
  /\ pc[p] \notin {"idle", "done"} => created[p] \subseteq docker
  /\ pc[p] = "done" /\ report[p].status = "ok" => created[p] \subseteq docker
  /\ cpc[p] \in {"verify", "resolve", "install", "await"} \/ creport[p] = "ok" =>
       \A k \in DOMAIN inst[p] : inst[p][k].created \subseteq docker

(* A teardown without an error has left nothing of its sub. *)
TornDown(p) ==
  \A j \in DOMAIN torn[p] :
    ~torn[p][j].error => inst[p][Len(inst[p]) + 1 - j].created \intersect docker = {}

OwnProject(p, r) == \E o \in Requests[p] : o.project = r.project
Before(p, project) == {r \in before[p] : r.class = "container" /\ r.project = project}

(* What stood before the attempt under one of its names is still there, so  *)
(* the pre-flight sees it: no sub is installed into a project that had a    *)
(* container.                                                               *)
Spared(p) ==
  /\ cpc[p] \in {"verify", "resolve", "install", "await"} =>
       \A r \in before[p] : OwnProject(p, r) => r \in docker
  /\ pc[p] \in {"volumes", "networks"} => Before(p, opts[p].project) \subseteq seen[p]
  /\ pc[p] \in {"fetch_bundle"} \union BundlePcs /\ man[p].kind = "Compose"
       => Before(p, opts[p].project) = {}
  /\ pc[p] = "done" /\ report[p].status = "ok" /\ man[p].kind = "Compose"
       => Before(p, opts[p].project) = {}
  /\ \A k \in DOMAIN inst[p] : inst[p][k].kind = "Compose" => Before(p, inst[p][k].project) = {}

HostInv(p) == Standing(p) /\ TornDown(p) /\ Spared(p)

-----------------------------------------------------------------------------
(* Part one. *)

SameComp(q) ==
  /\ pc'[q] = pc[q] /\ cpc'[q] = cpc[q] /\ copts'[q] = copts[q] /\ subs'[q] = subs[q]
  /\ inst'[q] = inst[q] /\ torn'[q] = torn[q] /\ creport'[q] = creport[q]

(* CompInv speaks of one composition only. *)
LEMMA SameCompKeeps ==
  ASSUME NEW q \in Procs, CompInv(q), SameComp(q)
  PROVE  CompInv(q)'
  BY DEF CompInv, SameComp, Orderly, CVetted, PublishersOk, Counted, Noted

(* The pipeline moves on only inside a call that the composition awaits. *)
LEMMA PipelineSteps ==
  ASSUME IInv, NEW p \in Procs, Advance(p) \/ Environment(p)
  PROVE  /\ pc[p] \notin {"idle", "done"}
         /\ IInv'
         /\ \A q \in Procs : q # p => SameAt(q) /\ seen'[q] = seen[q]
<1>1. pc[p] \notin {"idle", "done"}
  BY DEF IInv, CallInv, ChildInPlace, RunPcs, NoProcess, Advance, Environment, FetchManifest,
         CheckManifest, ListDocker, Listing, FetchBundle, Unpack, Scan, ResolveEnv,
         StartCompose, Chmod, StartBinary, Probing, StartWasm, StartVerify, Timeout, Failed, ExitOk, ExitBad,
         CreateResource
<1>2. IInv'
  BY NextKeeps DEF Next
<1>3. QED
  BY <1>1, <1>2, StepsAreOwn

LEMMA PipelineKeeps ==
  ASSUME CIInv, NEW p \in Procs, Advance(p) \/ Environment(p), UNCHANGED comps
  PROVE  CIInv'
<1>0. IInv /\ CTyped /\ \A q \in Procs : CompInv(q)
  BY DEF CIInv
<1>1. /\ pc[p] # "idle" /\ IInv'
      /\ \A q \in Procs : q # p => SameAt(q)
  BY <1>0, PipelineSteps
<1>2. CTyped'
  BY <1>0 DEF CTyped, comps
<1>3. CompInv(p)'
  <2>1. cpc[p] = "await"
    BY <1>0, <1>1 DEF CompInv, Orderly
  <2>2. QED
    BY <1>0, <2>1 DEF CompInv, Orderly, CVetted, PublishersOk, Counted, Noted, comps
<1>4. ASSUME NEW q \in Procs, q # p PROVE CompInv(q)'
  <2>1. SameComp(q)
    BY <1>1, <1>4 DEF SameAt, SameComp, comps
  <2>2. QED
    BY <1>0, <2>1, SameCompKeeps
<1>5. QED
  BY <1>1, <1>2, <1>3, <1>4 DEF CIInv

(* The composition's own bookkeeping leaves the pipeline as it is. *)
LEMMA StillIInv ==
  ASSUME IInv, UNCHANGED vars
  PROVE  IInv'
  BY NextKeeps

LEMMA StartCompositionKeeps ==
  ASSUME CIInv, NEW p \in Procs, StartComposition(p)
  PROVE  CIInv'
<1>0. IInv /\ CTyped /\ CompInv(p) /\ Typed /\ CallInv(p)
  BY DEF CIInv, IInv
<1>1. pc[p] = "idle"
  BY <1>0 DEF StartComposition, CompInv, Orderly
<1>2. PICK o \in CompositionRequests[p] : copts' = [copts EXCEPT ![p] = o]
  BY DEF StartComposition
<1>3. IInv'
  <2>1. created' = [created EXCEPT ![p] = {}] /\ UNCHANGED <<calls, work, child, docker>>
    BY DEF StartComposition
  <2>2. Typed'
    BY <1>0, <2>1 DEF Typed, calls, work, child
  <2>3. ASSUME NEW q \in Procs, q # p PROVE CallInv(q)'
    <3>1. SameAt(q)
      BY <1>0, <2>1, <2>3 DEF Typed, SameAt, calls, work, child
    <3>2. QED
      BY <3>1, SameKeeps DEF CIInv, IInv
  <2>4. CallInv(p)'
    <3>1. created'[p] = {}
      BY <1>0, <2>1 DEF Typed
    <3>2. QED
      BY <1>0, <1>1, <2>1, <3>1
         DEF CallInv, Vetted, OnBranch, ChildInPlace, BackendChosen, ReportSound,
             SecretsVetted, calls, work, child, RunPcs, AdmittedPcs, BundlePcs, UnpackedPcs,
             ScannedPcs
  <2>5. QED
    BY <2>2, <2>3, <2>4 DEF IInv
<1>4. CTyped'
  <2>1. o \in (UNION {CompositionRequests[q] : q \in Procs}) \union {Nothing}
    BY <1>2, Zenon
  <2>2. copts' \in [Procs -> (UNION {CompositionRequests[q] : q \in Procs}) \union {Nothing}]
    BY <1>0, <1>2, <2>1 DEF CTyped
  <2>3. before' \in [Procs -> SUBSET Resource]
    BY <1>0 DEF CTyped, Typed, StartComposition
  <2>4. QED
    BY <1>0, <2>2, <2>3 DEF CTyped, StartComposition
<1>5. ASSUME NEW q \in Procs, q # p PROVE CompInv(q)'
  <2>1. SameComp(q)
    BY <1>0, <1>5 DEF CTyped, SameComp, StartComposition, calls
  <2>2. QED
    BY <2>1, SameCompKeeps DEF CIInv
<1>6. CompInv(p)'
  <2>1. /\ cpc'[p] = "verify" /\ subs'[p] = <<>> /\ inst'[p] = <<>> /\ torn'[p] = <<>>
        /\ creport'[p] = "none" /\ copts'[p] = o /\ pc'[p] = "idle"
    BY <1>0, <1>1, <1>2 DEF CTyped, StartComposition, calls
  <2>2. QED
    BY <2>1 DEF CompInv, Orderly, CVetted, PublishersOk, Counted, Noted
<1>7. QED
  BY <1>3, <1>4, <1>5, <1>6 DEF CIInv

(* What Conclude and CGoto change. *)
LEMMA ConcludeTyped ==
  ASSUME CTyped, NEW p \in Procs, NEW st \in {"rejected", "rolled_back", "ok"}, Conclude(p, st)
  PROVE  /\ cpc' \in [Procs -> {"idle", "verify", "resolve", "install", "await", "rollback", "done"}]
         /\ creport' \in [Procs -> {"none", "rejected", "rolled_back", "ok"}]
         /\ cpc'[p] = "done" /\ creport'[p] = st
         /\ \A q \in Procs : q # p => cpc'[q] = cpc[q] /\ creport'[q] = creport[q]
  BY DEF CTyped, Conclude

LEMMA CGotoTyped ==
  ASSUME CTyped, NEW p \in Procs, NEW step \in {"resolve", "install", "await", "rollback"},
         CGoto(p, step)
  PROVE  /\ cpc' \in [Procs -> {"idle", "verify", "resolve", "install", "await", "rollback", "done"}]
         /\ creport' \in [Procs -> {"none", "rejected", "rolled_back", "ok"}]
         /\ cpc'[p] = step /\ creport' = creport
         /\ \A q \in Procs : q # p => cpc'[q] = cpc[q]
  BY DEF CTyped, CGoto

(* An attempt that ends keeps what it has noted. *)
LEMMA ConcludeKeeps ==
  ASSUME CIInv, NEW p \in Procs, NEW st \in {"rejected", "rolled_back", "ok"}, Conclude(p, st),
         pc[p] = "idle", cpc[p] # "idle",
         st = "ok" => Len(inst[p]) = Len(copts[p].composition.pins),
         st = "rolled_back" => Len(torn[p]) = Len(inst[p]),
         UNCHANGED <<copts, subs, inst, torn, before, vars>>
  PROVE  CIInv'
<1>0. IInv /\ CTyped /\ CompInv(p)
  BY DEF CIInv
<1>1. /\ cpc'[p] = "done" /\ creport'[p] = st
      /\ \A q \in Procs : q # p => cpc'[q] = cpc[q] /\ creport'[q] = creport[q]
  BY <1>0, ConcludeTyped
<1>2. IInv' /\ CTyped'
  BY <1>0, StillIInv, ConcludeTyped DEF CTyped
<1>3. ASSUME NEW q \in Procs, q # p PROVE CompInv(q)'
  <2>1. SameComp(q)
    BY <1>1, <1>3 DEF SameComp, vars, calls
  <2>2. QED
    BY <2>1, SameCompKeeps DEF CIInv
<1>4. CompInv(p)'
  BY <1>0, <1>1 DEF CompInv, Orderly, CVetted, Counted, Noted, vars, calls
<1>5. QED
  BY <1>2, <1>3, <1>4 DEF CIInv

(* Step 1a. *)
LEMMA CheckCompositionKeeps ==
  ASSUME CIInv, NEW p \in Procs, CheckComposition(p)
  PROVE  CIInv'
<1>0. IInv /\ CTyped /\ CompInv(p) /\ pc[p] = "idle" /\ cpc[p] = "verify"
  BY DEF CIInv, CompInv, Orderly, CheckComposition
<1>1. CASE Conclude(p, "rejected")
  BY <1>0, <1>1, ConcludeKeeps DEF CheckComposition
<1>2. CASE CGoto(p, "resolve") /\ IsValid(copts[p].composition, copts[p].base.now)
  <2>0. UNCHANGED <<copts, subs, inst, torn, before, vars>>
    BY DEF CheckComposition
  <2>1. /\ cpc'[p] = "resolve" /\ creport' = creport
        /\ \A q \in Procs : q # p => cpc'[q] = cpc[q]
    BY <1>0, <1>2, CGotoTyped
  <2>2. IInv' /\ CTyped'
    BY <1>0, <1>2, <2>0, StillIInv, CGotoTyped DEF CTyped
  <2>3. ASSUME NEW q \in Procs, q # p PROVE CompInv(q)'
    <3>1. SameComp(q)
      BY <2>0, <2>1, <2>3 DEF SameComp, vars, calls
    <3>2. QED
      BY <3>1, SameCompKeeps DEF CIInv
  <2>4. CompInv(p)'
    <3>1. subs[p] = <<>> /\ Len(copts[p].composition.pins) \in Nat
      BY <1>0, CompositionAssumption DEF CompInv, Orderly, Counted
    <3>2. QED
      BY <1>0, <1>2, <2>0, <2>1, <3>1 DEF CompInv, Orderly, CVetted, Counted, Noted, vars, calls
  <2>5. QED
    BY <2>2, <2>3, <2>4 DEF CIInv
<1>3. QED
  BY <1>1, <1>2 DEF CheckComposition

(* Step 1b: one more sub-manifest is pinned and authentic. *)
LEMMA ResolveSubKeeps ==
  ASSUME CIInv, NEW p \in Procs, ResolveSub(p)
  PROVE  CIInv'
<1>0. /\ IInv /\ CTyped /\ CompInv(p) /\ pc[p] = "idle" /\ cpc[p] = "resolve"
      /\ Len(subs[p]) < Len(copts[p].composition.pins)
  BY DEF CIInv, CompInv, Orderly, ResolveSub
<1>1. UNCHANGED <<copts, inst, torn, before, vars>>
  BY DEF ResolveSub
<1>2. CASE Conclude(p, "rejected") /\ UNCHANGED subs
  BY <1>0, <1>1, <1>2, ConcludeKeeps
<1>3. ASSUME NEW m \in Manifests,
             Pin(m) = copts[p].composition.pins[Len(subs[p]) + 1],
             IsValid(m, copts[p].base.now),
             subs' = [subs EXCEPT ![p] = Append(@, m)], UNCHANGED <<cpc, creport>>
      PROVE  CIInv'
  <2>1. subs[p] \in Seq(Manifests) /\ Len(copts[p].composition.pins) \in Nat
    BY <1>0, CompositionAssumption DEF CTyped, CompInv, Orderly
  <2>2. /\ subs'[p] \in Seq(Manifests) /\ Len(subs'[p]) = Len(subs[p]) + 1
        /\ \A i \in 1..Len(subs[p]) : subs'[p][i] = subs[p][i]
        /\ subs'[p][Len(subs[p]) + 1] = m
        /\ DOMAIN subs'[p] = 1..(Len(subs[p]) + 1)
        /\ \A q \in Procs : q # p => subs'[q] = subs[q]
    BY <1>0, <1>3, <2>1 DEF CTyped
  <2>3. IInv'
    BY <1>0, <1>1, StillIInv
  <2>4. CTyped'
    <3>1. subs' \in [Procs -> Seq(Manifests)]
      BY <1>0, <1>3, <2>1 DEF CTyped
    <3>2. QED
      BY <1>0, <1>1, <1>3, <3>1 DEF CTyped
  <2>5. ASSUME NEW q \in Procs, q # p PROVE CompInv(q)'
    <3>1. SameComp(q)
      BY <1>1, <1>3, <2>2, <2>5 DEF SameComp, vars, calls
    <3>2. QED
      BY <3>1, SameCompKeeps DEF CIInv
  <2>6. CVetted(p)'
    <3>1. ASSUME NEW i \in DOMAIN subs'[p]
          PROVE  /\ Pin(subs'[p][i]) = copts[p].composition.pins[i]
                 /\ IsValid(subs'[p][i], copts[p].base.now)
      <4>1. CASE i = Len(subs[p]) + 1
        BY <1>3, <2>2, <4>1
      <4>2. CASE i # Len(subs[p]) + 1
        <5>1. i \in DOMAIN subs[p] /\ subs'[p][i] = subs[p][i]
          BY <2>1, <2>2, <3>1, <4>2
        <5>2. QED
          BY <1>0, <5>1 DEF CompInv, CVetted
      <4>3. QED
        BY <4>1, <4>2
    <3>2. IsValid(copts[p].composition, copts[p].base.now)
      BY <1>0 DEF CompInv, CVetted
    <3>3. Len(subs'[p]) <= Len(copts[p].composition.pins)
      BY <1>0, <2>1, <2>2
    <3>4. QED
      BY <1>0, <1>1, <1>3, <3>1, <3>2, <3>3 DEF CVetted
  <2>7. Orderly(p)' /\ Noted(p)'
    BY <1>0, <1>1, <1>3 DEF CompInv, Orderly, Noted, vars, calls
  <2>8. Counted(p)'
    <3>1. Len(inst[p]) \in Nat /\ Len(subs[p]) \in Nat /\ Len(inst[p]) <= Len(subs[p])
      BY <1>0, <2>1 DEF CTyped, CompInv, Counted
    <3>2. Len(inst[p]) <= Len(subs'[p])
      BY <2>2, <3>1
    <3>3. QED
      BY <1>0, <1>1, <1>3, <3>2 DEF CompInv, Counted
  <2>9. QED
    BY <2>3, <2>4, <2>5, <2>6, <2>7, <2>8 DEF CIInv, CompInv
<1>4. QED
  BY <1>2, <1>3 DEF ResolveSub

(* Step 1c: from here on everything is vetted. *)
LEMMA CheckTrustKeeps ==
  ASSUME CIInv, NEW p \in Procs, CheckTrust(p)
  PROVE  CIInv'
<1>0. /\ IInv /\ CTyped /\ CompInv(p) /\ pc[p] = "idle" /\ cpc[p] = "resolve"
      /\ Len(subs[p]) = Len(copts[p].composition.pins)
  BY DEF CIInv, CompInv, Orderly, CheckTrust
<1>1. CASE Conclude(p, "rejected")
  BY <1>0, <1>1, ConcludeKeeps DEF CheckTrust
<1>2. CASE CGoto(p, "install") /\ PublishersOk(p)
  <2>0. UNCHANGED <<copts, subs, inst, torn, before, vars>>
    BY DEF CheckTrust
  <2>1. /\ cpc'[p] = "install" /\ creport' = creport
        /\ \A q \in Procs : q # p => cpc'[q] = cpc[q]
    BY <1>0, <1>2, CGotoTyped
  <2>2. IInv' /\ CTyped'
    BY <1>0, <1>2, <2>0, StillIInv, CGotoTyped DEF CTyped
  <2>3. ASSUME NEW q \in Procs, q # p PROVE CompInv(q)'
    <3>1. SameComp(q)
      BY <2>0, <2>1, <2>3 DEF SameComp, vars, calls
    <3>2. QED
      BY <3>1, SameCompKeeps DEF CIInv
  <2>4. CompInv(p)'
    BY <1>0, <1>2, <2>0, <2>1
       DEF CompInv, Orderly, CVetted, PublishersOk, Counted, Noted, vars, calls
  <2>5. QED
    BY <2>2, <2>3, <2>4 DEF CIInv
<1>3. QED
  BY <1>1, <1>2 DEF CheckTrust

(* Steps 2 and 3. *)
LEMMA AllInstalledKeeps ==
  ASSUME CIInv, NEW p \in Procs, AllInstalled(p)
  PROVE  CIInv'
<1>1. CompInv(p) /\ pc[p] = "idle" /\ cpc[p] = "install"
  BY DEF CIInv, CompInv, Orderly, AllInstalled
<1>2. Len(inst[p]) = Len(copts[p].composition.pins)
  BY <1>1 DEF CompInv, CVetted, AllInstalled
<1>3. QED
  BY <1>1, <1>2, ConcludeKeeps DEF AllInstalled

LEMMA CallSubKeeps ==
  ASSUME CIInv, NEW p \in Procs, CallSub(p)
  PROVE  CIInv'
<1>0. /\ IInv /\ CTyped /\ CompInv(p) /\ pc[p] = "idle" /\ cpc[p] = "install"
      /\ Len(inst[p]) < Len(subs[p])
  BY DEF CIInv, CompInv, Orderly, CallSub
<1>1. UNCHANGED <<copts, subs, inst, torn, before>>
  BY DEF CallSub
<1>2. CASE CGoto(p, "rollback") /\ UNCHANGED vars
  <2>1. /\ cpc'[p] = "rollback" /\ creport' = creport
        /\ \A q \in Procs : q # p => cpc'[q] = cpc[q]
    BY <1>0, <1>2, CGotoTyped
  <2>2. IInv' /\ CTyped'
    BY <1>0, <1>1, <1>2, StillIInv, CGotoTyped DEF CTyped
  <2>3. ASSUME NEW q \in Procs, q # p PROVE CompInv(q)'
    <3>1. SameComp(q)
      BY <1>1, <1>2, <2>1, <2>3 DEF SameComp, vars, calls
    <3>2. QED
      BY <3>1, SameCompKeeps DEF CIInv
  <2>4. CompInv(p)'
    BY <1>0, <1>1, <1>2, <2>1
       DEF CompInv, Orderly, CVetted, PublishersOk, Counted, Noted, vars, calls
  <2>5. QED
    BY <2>2, <2>3, <2>4 DEF CIInv
<1>3. ASSUME NEW o, o = [copts[p].base EXCEPT !.project = SubProject(p),
                                              !.location = {subs[p][Len(inst[p]) + 1]}],
             Call(p, o), CGoto(p, "await")
      PROVE  CIInv'
  <2>1. o \in Requests[p]
    <3>0. subs[p] \in Seq(Manifests) /\ inst[p] \in Seq(InstalledSub)
      BY <1>0 DEF CTyped
    <3>1. Len(inst[p]) \in Nat
      BY <3>0
    <3>2. /\ copts[p] \in CompositionRequests[p] /\ Len(copts[p].composition.pins) \in Nat
          /\ Len(subs[p]) = Len(copts[p].composition.pins)
      BY <1>0, CompositionAssumption DEF CompInv, Orderly, CVetted
    <3>3. /\ Len(inst[p]) \in 0..(Len(copts[p].composition.pins) - 1)
          /\ subs[p][Len(inst[p]) + 1] \in Manifests
      BY <1>0, <3>0, <3>1, <3>2
    <3>4. [copts[p].base EXCEPT !.project = Append(copts[p].prefix, ToString(Len(inst[p]))),
                                !.location = {subs[p][Len(inst[p]) + 1]}] \in Requests[p]
      BY <3>2, <3>3, CompositionAssumption
    <3>5. QED
      BY <1>3, <3>4 DEF SubProject
  <2>2. Start(p)
    BY <1>0, <1>3, <2>1 DEF Start
  <2>3. IInv' /\ \A q \in Procs : q # p => SameAt(q)
    BY <1>0, <2>2, StartKeeps, StepsAreOwn
  <2>4. /\ cpc'[p] = "await" /\ creport' = creport
        /\ \A q \in Procs : q # p => cpc'[q] = cpc[q]
    BY <1>0, <1>3, CGotoTyped
  <2>5. CTyped'
    BY <1>0, <1>1, <1>3, CGotoTyped DEF CTyped
  <2>6. ASSUME NEW q \in Procs, q # p PROVE CompInv(q)'
    <3>1. SameComp(q)
      BY <1>1, <2>3, <2>4, <2>6 DEF SameComp, SameAt
    <3>2. QED
      BY <3>1, SameCompKeeps DEF CIInv
  <2>7. CompInv(p)'
    BY <1>0, <1>1, <2>4 DEF CompInv, Orderly, CVetted, PublishersOk, Counted, Noted
  <2>8. QED
    BY <2>3, <2>5, <2>6, <2>7 DEF CIInv
<1>4. QED
  BY <1>2, <1>3 DEF CallSub

(* activate() hands its result over, and its locals are gone. *)
LEMMA ReturnedKeeps ==
  ASSUME IInv, NEW p \in Procs, Returned(p), pc[p] = "done"
  PROVE  /\ IInv' /\ pc'[p] = "idle" /\ report'[p] = NoReport
         /\ \A q \in Procs : q # p => SameAt(q) /\ seen'[q] = seen[q]
         /\ UNCHANGED <<seen, running, docker, created>>
<1>0. Typed /\ CallInv(p)
  BY DEF IInv
<1>1. UNCHANGED <<seen, running, docker, created>>
  BY DEF Returned, host
<1>2. /\ pc'[p] = "idle" /\ report'[p] = NoReport /\ ran'[p] = {} /\ envfile'[p] = FALSE
      /\ sandbox'[p] = "none"
  BY <1>0 DEF Typed, Returned
<1>3. Typed'
  <2>1. opts' \in [Procs -> (UNION {Requests[q] : q \in Procs}) \union {Nothing}]
    <3>1. Nothing \in (UNION {Requests[q] : q \in Procs}) \union {Nothing}
      BY Zenon
    <3>2. QED
      BY <1>0, <3>1 DEF Typed, Returned
  <2>2. \A q \in Procs : opts'[q] \in Requests[q] \union {Nothing}
    BY <1>0 DEF Typed, Returned
  <2>3. report' \in [Procs -> Reports] /\ pc' \in [Procs -> Steps]
    <3>1. NoReport \in Reports /\ "idle" \in Steps
      BY DEF NoReport, Reports, Steps
    <3>2. QED
      BY <1>0, <3>1 DEF Typed, Returned
  <2>4. /\ files' \in [Procs -> {"empty", "partial", "unpacked"}]
        /\ envfile' \in [Procs -> BOOLEAN]
        /\ sandbox' \in [Procs -> Backends \union {"none"}]
        /\ ran' \in [Procs -> SUBSET Codes]
    BY <1>0 DEF Typed, Returned
  <2>5. man' \in [Procs -> Manifests \union {Nothing}] /\ bun' \in [Procs -> Bundles \union {Nothing}]
    BY <1>0 DEF Typed, Returned
  <2>6. QED
    BY <1>0, <1>1, <2>1, <2>2, <2>3, <2>4, <2>5 DEF Typed
<1>4. ASSUME NEW q \in Procs, q # p PROVE SameAt(q)
  BY <1>0, <1>4 DEF Typed, SameAt, Returned, host
<1>5. CallInv(p)'
  <2>1. running'[p] = NoProcess
    BY <1>0, <1>1 DEF CallInv, ChildInPlace, RunPcs
  <2>2. QED
    BY <1>2, <2>1
       DEF CallInv, Vetted, OnBranch, ChildInPlace, BackendChosen, ReportSound,
           SecretsVetted, RunPcs, AdmittedPcs, BundlePcs, UnpackedPcs, ScannedPcs, NoReport
<1>6. QED
  BY <1>1, <1>2, <1>3, <1>4, <1>5, SameKeeps DEF IInv

(* Step 3: a sub-manifest is up, or the rollback begins. *)
LEMMA InstalledTyped ==
  ASSUME CIInv, NEW p \in Procs, report[p].status = "ok", pc[p] # "idle"
  PROVE  /\ Installed(p) \in InstalledSub
         /\ \E o \in Requests[p] : o.project = Installed(p).project
         /\ Installed(p).kind # "Compose" => Installed(p).created = {}
         /\ \A r \in Installed(p).created : r.project = Installed(p).project
         /\ Installed(p).created = created[p] /\ Installed(p).project = opts[p].project
         /\ Installed(p).kind = man[p].kind
<1>1. /\ opts[p] \in Requests[p] /\ man[p].kind \in {"Compose", "Binary", "Wasm"}
      /\ man[p].kind # "Compose" => created[p] = {}
  BY DEF CIInv, IInv, CallInv, ReportSound
<1>2. \A r \in created[p] : r.project = opts[p].project
  BY DEF CIInv, IInv, CallInv, ChildInPlace
<1>3. Len(inst[p]) \in Nat
  <2>1. inst[p] \in Seq(InstalledSub)
    BY DEF CIInv, CTyped
  <2>2. QED
    BY <2>1
<1>4. created[p] \subseteq Resource /\ opts[p].project \in Seq(STRING)
  BY <1>1, RequestsAssumption DEF CIInv, IInv, Typed
<1>5. Installed(p) \in InstalledSub
  BY <1>1, <1>3, <1>4 DEF Installed, InstalledSub, Kinds
<1>6. QED
  BY <1>1, <1>2, <1>5 DEF Installed

LEMMA SubReturnedKeeps ==
  ASSUME CIInv, NEW p \in Procs, SubReturned(p)
  PROVE  CIInv'
<1>0. /\ IInv /\ CTyped /\ CompInv(p) /\ pc[p] = "done" /\ cpc[p] = "await" /\ Returned(p)
      /\ UNCHANGED <<copts, subs, torn, before>>
  BY DEF CIInv, SubReturned
<1>1. /\ IInv' /\ pc'[p] = "idle"
      /\ \A q \in Procs : q # p => SameAt(q)
  BY <1>0, ReturnedKeeps
<1>2. CASE CGoto(p, "rollback") /\ UNCHANGED inst
  <2>1. /\ cpc'[p] = "rollback" /\ creport' = creport
        /\ \A q \in Procs : q # p => cpc'[q] = cpc[q]
    BY <1>0, <1>2, CGotoTyped
  <2>2. CTyped'
    BY <1>0, <1>2, CGotoTyped DEF CTyped
  <2>3. ASSUME NEW q \in Procs, q # p PROVE CompInv(q)'
    <3>1. SameComp(q)
      BY <1>0, <1>1, <1>2, <2>1, <2>3 DEF SameComp, SameAt
    <3>2. QED
      BY <3>1, SameCompKeeps DEF CIInv
  <2>4. CompInv(p)'
    BY <1>0, <1>1, <1>2, <2>1 DEF CompInv, Orderly, CVetted, PublishersOk, Counted, Noted
  <2>5. QED
    BY <1>1, <2>2, <2>3, <2>4 DEF CIInv
<1>3. ASSUME report[p].status = "ok", NEW s, s = Installed(p),
             inst' = [inst EXCEPT ![p] = Append(@, s)], CGoto(p, "install")
      PROVE  CIInv'
  <2>1. /\ s \in InstalledSub /\ \E o \in Requests[p] : o.project = s.project
        /\ s.kind # "Compose" => s.created = {}
        /\ \A r \in s.created : r.project = s.project
    BY <1>0, <1>3, InstalledTyped
  <2>2. /\ cpc'[p] = "install" /\ creport' = creport
        /\ \A q \in Procs : q # p => cpc'[q] = cpc[q]
    BY <1>0, <1>3, CGotoTyped
  <2>3. inst[p] \in Seq(InstalledSub)
    BY <1>0 DEF CTyped
  <2>4. /\ Len(inst'[p]) = Len(inst[p]) + 1 /\ DOMAIN inst'[p] = 1..(Len(inst[p]) + 1)
        /\ \A k \in 1..Len(inst[p]) : inst'[p][k] = inst[p][k]
        /\ inst'[p][Len(inst[p]) + 1] = s
        /\ \A q \in Procs : q # p => inst'[q] = inst[q]
    BY <1>0, <1>3, <2>1, <2>3 DEF CTyped
  <2>5. CTyped'
    <3>1. inst' \in [Procs -> Seq(InstalledSub)]
      BY <1>0, <1>3, <2>1, <2>3 DEF CTyped
    <3>2. QED
      BY <1>0, <1>3, <3>1, CGotoTyped DEF CTyped
  <2>6. ASSUME NEW q \in Procs, q # p PROVE CompInv(q)'
    <3>1. SameComp(q)
      BY <1>0, <1>1, <2>2, <2>4, <2>6 DEF SameComp, SameAt
    <3>2. QED
      BY <3>1, SameCompKeeps DEF CIInv
  <2>7. Orderly(p)' /\ CVetted(p)'
    BY <1>0, <1>1, <2>2 DEF CompInv, Orderly, CVetted, PublishersOk
  <2>8. torn[p] = <<>> /\ creport[p] = "none" /\ Len(inst[p]) < Len(subs[p])
    BY <1>0 DEF CompInv, Counted, CTyped
  <2>9. Counted(p)'
    <3>1. Len(inst[p]) \in Nat /\ Len(subs[p]) \in Nat
      BY <1>0, <2>3 DEF CTyped
    <3>2. QED
      BY <1>0, <2>2, <2>4, <2>8, <3>1 DEF Counted
  <2>10. Noted(p)'
    <3>1. ASSUME NEW k \in DOMAIN inst'[p]
          PROVE  /\ \E o \in Requests[p] : o.project = inst'[p][k].project
                 /\ inst'[p][k].kind # "Compose" => inst'[p][k].created = {}
                 /\ \A r \in inst'[p][k].created : r.project = inst'[p][k].project
      <4>1. CASE k = Len(inst[p]) + 1
        BY <2>1, <2>4, <4>1
      <4>2. CASE k # Len(inst[p]) + 1
        <5>1. k \in DOMAIN inst[p] /\ inst'[p][k] = inst[p][k]
          BY <2>3, <2>4, <3>1, <4>2
        <5>2. QED
          BY <1>0, <5>1 DEF CompInv, Noted
      <4>3. QED
        BY <4>1, <4>2
    <3>2. DOMAIN torn'[p] = {}
      BY <1>0, <2>8
    <3>3. QED
      BY <3>1, <3>2 DEF Noted
  <2>11. QED
    BY <1>1, <2>5, <2>6, <2>7, <2>9, <2>10 DEF CIInv, CompInv
<1>4. QED
  BY <1>2, <1>3 DEF SubReturned

(* roll_back: one teardown, and its end. *)
LEMMA DockerShrinks ==
  ASSUME IInv, docker' \subseteq docker, UNCHANGED <<calls, work, child, created>>
  PROVE  IInv'
<1>1. Typed'
  BY DEF IInv, Typed, calls, work, child
<1>2. ASSUME NEW q \in Procs PROVE SameAt(q)
  BY DEF SameAt, calls, work, child
<1>3. QED
  BY <1>1, <1>2, SameKeeps DEF IInv

(* The teardowns run through the installed subs backwards. *)
LEMMA Backwards ==
  ASSUME NEW m \in Nat, NEW n \in Nat
  PROVE  /\ n < m => m - n \in 1..m
         /\ m + 1 - (n + 1) = m - n
  OBVIOUS

LEMMA Mirrored ==
  ASSUME NEW m \in Nat, NEW n \in Nat, n <= m, NEW j \in 1..n
  PROVE  m + 1 - j \in 1..m
  OBVIOUS

LEMMA MirroredTwice ==
  ASSUME NEW m \in Nat, NEW k \in 1..m
  PROVE  m + 1 - k \in 1..m /\ m + 1 - (m + 1 - k) = k
  OBVIOUS

LEMMA TearDownShape ==
  ASSUME CTyped, NEW p \in Procs, TearDown(p)
  PROVE  LET s == inst[p][Len(inst[p]) - Len(torn[p])]
         IN  /\ s \in InstalledSub /\ Len(inst[p]) - Len(torn[p]) \in DOMAIN inst[p]
             /\ docker \ docker' \subseteq OfProject(s) /\ docker' \subseteq docker
             /\ docker' # docker => s.kind = "Compose"
             /\ \E err, nothing \in BOOLEAN :
                  /\ torn' = [torn EXCEPT ![p] = Append(@, Outcome(s, err, nothing))]
                  /\ ~err => OfProject(s) \intersect docker' = {} \/ s.kind # "Compose"
<1>1. Len(inst[p]) - Len(torn[p]) \in DOMAIN inst[p] /\ inst[p] \in Seq(InstalledSub)
  <2>1. inst[p] \in Seq(InstalledSub) /\ torn[p] \in Seq(TornSub)
    BY DEF CTyped
  <2>2. Len(inst[p]) \in Nat /\ Len(torn[p]) \in Nat /\ DOMAIN inst[p] = 1..Len(inst[p])
    BY <2>1
  <2>3. Len(torn[p]) < Len(inst[p])
    BY DEF TearDown
  <2>4. QED
    BY <2>1, <2>2, <2>3, Backwards
<1>2. inst[p][Len(inst[p]) - Len(torn[p])] \in InstalledSub
  <2>1. ASSUME NEW k \in DOMAIN inst[p] PROVE inst[p][k] \in InstalledSub
    BY <1>1
  <2>2. QED
    BY <1>1, <2>1
<1>3. QED
  BY <1>1, <1>2 DEF TearDown, OfProject

LEMMA TearDownKeeps ==
  ASSUME CIInv, NEW p \in Procs, TearDown(p)
  PROVE  CIInv'
<1>0. /\ IInv /\ CTyped /\ CompInv(p) /\ cpc[p] = "rollback" /\ Len(torn[p]) < Len(inst[p])
      /\ UNCHANGED <<cpc, copts, subs, inst, creport, before, calls, work, child, created>>
  BY DEF CIInv, TearDown
<1> DEFINE s == inst[p][Len(inst[p]) - Len(torn[p])]
<1>1. PICK err, nothing \in BOOLEAN : torn' = [torn EXCEPT ![p] = Append(@, Outcome(s, err, nothing))]
  BY <1>0, TearDownShape
<1>2. /\ s \in InstalledSub /\ docker' \subseteq docker
      /\ inst[p] \in Seq(InstalledSub) /\ torn[p] \in Seq(TornSub)
  BY <1>0, TearDownShape DEF CTyped
<1> DEFINE t == Outcome(s, err, nothing)
<1>3. t \in TornSub /\ t.index = s.index
  BY <1>2 DEF Outcome, TornSub, InstalledSub
<1> HIDE DEF t
<1>4. /\ Len(torn'[p]) = Len(torn[p]) + 1 /\ DOMAIN torn'[p] = 1..(Len(torn[p]) + 1)
      /\ \A j \in 1..Len(torn[p]) : torn'[p][j] = torn[p][j]
      /\ torn'[p][Len(torn[p]) + 1] = t
      /\ \A q \in Procs : q # p => torn'[q] = torn[q]
  BY <1>0, <1>1, <1>2, <1>3 DEF CTyped, t
<1>5. IInv'
  BY <1>0, <1>2, DockerShrinks
<1>6. CTyped'
  <2>1. torn' \in [Procs -> Seq(TornSub)]
    BY <1>0, <1>1, <1>2, <1>3 DEF CTyped, t
  <2>2. QED
    BY <1>0, <2>1 DEF CTyped
<1>7. ASSUME NEW q \in Procs, q # p PROVE CompInv(q)'
  <2>1. SameComp(q)
    BY <1>0, <1>4, <1>7 DEF SameComp, calls
  <2>2. QED
    BY <2>1, SameCompKeeps DEF CIInv
<1>8. Orderly(p)' /\ CVetted(p)'
  BY <1>0 DEF CompInv, Orderly, CVetted, PublishersOk, calls
<1>9. Len(inst[p]) \in Nat /\ Len(torn[p]) \in Nat
  BY <1>2
<1>10. Counted(p)'
  <2>1. creport[p] = "none"
    BY <1>0 DEF CompInv, Counted, CTyped
  <2>2. QED
    BY <1>0, <1>4, <1>9, <2>1 DEF CompInv, Counted
<1>11. Noted(p)'
  <2>1. ASSUME NEW j \in DOMAIN torn'[p]
        PROVE  torn'[p][j].index = inst[p][Len(inst[p]) + 1 - j].index
    <3>1. CASE j = Len(torn[p]) + 1
      <4>1. Len(inst[p]) + 1 - j = Len(inst[p]) - Len(torn[p])
        BY <1>9, <3>1, Backwards
      <4>2. QED
        BY <1>3, <1>4, <3>1, <4>1
    <3>2. CASE j # Len(torn[p]) + 1
      <4>1. j \in DOMAIN torn[p] /\ torn'[p][j] = torn[p][j]
        BY <1>2, <1>4, <2>1, <3>2
      <4>2. QED
        BY <1>0, <4>1 DEF CompInv, Noted
    <3>3. QED
      BY <3>1, <3>2
  <2>2. QED
    BY <1>0, <2>1 DEF CompInv, Noted
<1>12. QED
  BY <1>5, <1>6, <1>7, <1>8, <1>10, <1>11 DEF CIInv, CompInv

LEMMA RollbackDoneKeeps ==
  ASSUME CIInv, NEW p \in Procs, RollbackDone(p)
  PROVE  CIInv'
<1>1. CompInv(p) /\ pc[p] = "idle" /\ cpc[p] = "rollback"
  BY DEF CIInv, CompInv, Orderly, RollbackDone
<1>2. QED
  BY <1>1, ConcludeKeeps DEF RollbackDone

LEMMA CInitEstablishes == CInit => CIInv
<1> SUFFICES ASSUME CInit PROVE CIInv
  OBVIOUS
<1>1. IInv
  BY InitEstablishes DEF CInit
<1>2. CTyped
  <2>1. Nothing \in (UNION {CompositionRequests[q] : q \in Procs}) \union {Nothing}
    BY Zenon
  <2>2. copts \in [Procs -> (UNION {CompositionRequests[q] : q \in Procs}) \union {Nothing}]
    BY <2>1 DEF CInit
  <2>3. QED
    BY <2>2 DEF CInit, CTyped
<1>3. ASSUME NEW p \in Procs PROVE CompInv(p)
  BY DEF CInit, Init, CompInv, Orderly, CVetted, Counted, Noted
<1>4. QED
  BY <1>1, <1>2, <1>3 DEF CIInv

LEMMA CNextKeeps == CIInv /\ [CNext]_cvars => CIInv'
<1> SUFFICES ASSUME CIInv, [CNext]_cvars PROVE CIInv'
  OBVIOUS
<1>1. CASE UNCHANGED cvars
  <2>1. IInv' /\ CTyped'
    BY <1>1, StillIInv DEF CIInv, CTyped, cvars, comps
  <2>2. ASSUME NEW q \in Procs PROVE CompInv(q)'
    <3>1. SameComp(q)
      BY <1>1 DEF SameComp, cvars, comps, vars, calls
    <3>2. QED
      BY <3>1, SameCompKeeps DEF CIInv
  <2>3. QED
    BY <2>1, <2>2 DEF CIInv
<1>2. CASE CNext
  BY <1>2, StartCompositionKeeps, CheckCompositionKeeps, ResolveSubKeeps, CheckTrustKeeps,
     AllInstalledKeeps, CallSubKeeps, SubReturnedKeeps, TearDownKeeps, RollbackDoneKeeps,
     PipelineKeeps
     DEF CNext, Orchestrate, Activation
<1>3. QED
  BY <1>1, <1>2

(* What a composition has established and noted is never undone by its own  *)
(* later steps, by the pipeline, or by the other compositions on the host.  *)
THEOREM CompositionInvariance == CSpec => []CIInv
  BY CInitEstablishes, CNextKeeps, PTL DEF CSpec

(* Every variable of the orchestration keeps its type, and teardowns never  *)
(* outnumber installations.                                                 *)
THEOREM CompositionTyped == CSpec => []CTypeOK
<1>1. CIInv => CTypeOK
  BY DEF CIInv, CTyped, CTypeOK, CompInv, Counted, InstalledSub, TornSub
<1>2. QED
  BY <1>1, CompositionInvariance, PTL

(* However long the composition and whatever the registry answers: nothing  *)
(* is activated before the whole of it is vetted.                           *)
THEOREM VettedBeforeAny == CSpec => []AllVettedBeforeAny
<1>1. CIInv => AllVettedBeforeAny
  <2> SUFFICES ASSUME CIInv, NEW p \in Procs, pc[p] # "idle"
               PROVE  LET c == copts[p].composition
                          base == copts[p].base
                      IN /\ c.signed /\ base.now < c.expires_at /\ c.publisher \in base.allowlist
                         /\ Len(subs[p]) = Len(c.pins)
                         /\ \A i \in DOMAIN subs[p] :
                              /\ subs[p][i].signed /\ base.now < subs[p][i].expires_at
                              /\ subs[p][i].publisher \in base.allowlist
                              /\ Pin(subs[p][i]) = c.pins[i]
    BY DEF AllVettedBeforeAny
  <2>1. cpc[p] = "await" /\ CVetted(p)
    BY DEF CIInv, CompInv, Orderly
  <2>2. QED
    BY <2>1 DEF CVetted, PublishersOk, IsValid
<1>2. QED
  BY <1>1, CompositionInvariance, PTL

-----------------------------------------------------------------------------
(* Part two. *)

SameHost(q) ==
  /\ SameComp(q) /\ opts'[q] = opts[q] /\ man'[q] = man[q] /\ seen'[q] = seen[q]
  /\ report'[q] = report[q] /\ created'[q] = created[q] /\ before'[q] = before[q]

(* A composition's hold on the host is safe from whoever creates and        *)
(* deletes under other project names only.                                  *)
LEMMA OthersKeepHost ==
  ASSUME CIInv, NEW q \in Procs, HostInv(q), SameHost(q),
         \A r \in (docker' \ docker) \union (docker \ docker') : ~OwnProject(q, r)
  PROVE  HostInv(q)'
<1>0. CompInv(q) /\ CallInv(q)
  BY DEF CIInv, IInv
<1>1. ASSUME NEW k \in DOMAIN inst[q], NEW r \in inst[q][k].created
      PROVE  r \in docker <=> r \in docker'
  <2>1. OwnProject(q, r)
    BY <1>0, <1>1 DEF CompInv, Noted, OwnProject
  <2>2. QED
    BY <2>1
<1>2. ASSUME pc[q] # "idle", opts[q] \in Requests[q], created[q] \subseteq docker
      PROVE  created[q] \subseteq docker'
  <2>1. \A r \in created[q] : OwnProject(q, r)
    BY <1>0, <1>2 DEF CallInv, ChildInPlace, OwnProject
  <2>2. QED
    BY <1>2, <2>1
<1>3. Standing(q)'
  <2>1. ASSUME cpc[q] \in {"verify", "resolve", "install", "await"} \/ creport[q] = "ok",
               NEW k \in DOMAIN inst[q]
        PROVE  inst[q][k].created \subseteq docker'
    <3>1. inst[q][k].created \subseteq docker
      BY <2>1 DEF HostInv, Standing
    <3>2. QED
      BY <1>1, <3>1
  <2>2. ASSUME pc[q] \notin {"idle", "done"} PROVE created[q] \subseteq docker'
    <3>1. created[q] \subseteq docker /\ opts[q] \in Requests[q]
      BY <1>0, <2>2 DEF HostInv, Standing, CallInv, Vetted
    <3>2. QED
      BY <1>2, <2>2, <3>1
  <2>3. ASSUME pc[q] = "done" /\ report[q].status = "ok" PROVE created[q] \subseteq docker'
    <3>1. created[q] \subseteq docker /\ opts[q] \in Requests[q]
      BY <1>0, <2>3 DEF HostInv, Standing, CallInv, ReportSound
    <3>2. QED
      BY <1>2, <2>3, <3>1
  <2>4. /\ pc'[q] = pc[q] /\ report'[q] = report[q] /\ created'[q] = created[q]
        /\ cpc'[q] = cpc[q] /\ creport'[q] = creport[q] /\ inst'[q] = inst[q]
    BY DEF SameHost, SameComp
  <2>5. QED
    BY <2>1, <2>2, <2>3, <2>4 DEF Standing
<1>4. TornDown(q)'
  <2>1. ASSUME NEW j \in DOMAIN torn[q], ~torn[q][j].error
        PROVE  inst[q][Len(inst[q]) + 1 - j].created \intersect docker' = {}
    <3>1. Len(inst[q]) + 1 - j \in DOMAIN inst[q]
      <4>1. inst[q] \in Seq(InstalledSub) /\ torn[q] \in Seq(TornSub)
        BY DEF CIInv, CTyped
      <4>2. /\ Len(inst[q]) \in Nat /\ Len(torn[q]) \in Nat /\ Len(torn[q]) <= Len(inst[q])
            /\ DOMAIN inst[q] = 1..Len(inst[q]) /\ j \in 1..Len(torn[q])
        BY <1>0, <2>1, <4>1 DEF CompInv, Counted
      <4>3. QED
        BY <4>2, Mirrored
    <3>2. inst[q][Len(inst[q]) + 1 - j].created \intersect docker = {}
      BY <2>1 DEF HostInv, TornDown
    <3>3. QED
      BY <1>1, <3>1, <3>2
  <2>2. QED
    BY <2>1 DEF TornDown, SameHost, SameComp
<1>5. Spared(q)'
  <2>1. Before(q, opts[q].project)' = Before(q, opts[q].project)
    BY DEF Before, SameHost
  <2>2. \A k \in DOMAIN inst[q] : Before(q, inst[q][k].project)' = Before(q, inst[q][k].project)
    BY DEF Before, SameHost, SameComp
  <2>3. \A r \in before[q] : OwnProject(q, r) /\ r \in docker => r \in docker'
    OBVIOUS
  <2>4. QED
    BY <2>1, <2>2, <2>3 DEF HostInv, Spared, SameHost, SameComp, OwnProject
<1>6. QED
  BY <1>3, <1>4, <1>5 DEF HostInv

(* No step of one composition concerns another's project names. *)
LEMMA StrangersApart ==
  ASSUME ProjectsDiffer, NEW p \in Procs, NEW q \in Procs, q # p, NEW r, OwnProject(p, r)
  PROVE  ~OwnProject(q, r)
  BY DEF ProjectsDiffer, OwnProject

(* The pipeline of p: docker gains resources of p's project, and only those. *)
LEMMA PipelineHost ==
  ASSUME IInv, NEW p \in Procs, Advance(p) \/ Environment(p)
  PROVE  /\ docker \subseteq docker'
         /\ created[p] \subseteq docker => created'[p] \subseteq docker'
         /\ \A r \in docker' \ docker : OwnProject(p, r)
         /\ opts'[p] = opts[p]
<1>1. \A r \in docker' \ docker : OwnProject(p, r)
  BY OnlyUpCreates DEF OwnProject
<1>2. docker \subseteq docker' /\ (created[p] \subseteq docker => created'[p] \subseteq docker')
  <2>1. CASE CreateResource(p)
    BY <2>1 DEF CreateResource, IInv, Typed
  <2>2. CASE UNCHANGED host
    BY <2>2 DEF host
  <2>3. QED
    BY <2>1, <2>2
       DEF Advance, FetchManifest, CheckManifest, ListDocker, FetchBundle, Unpack, Scan,
           ResolveEnv, StartCompose, Chmod, StartBinary, Probing, StartWasm, StartVerify, Timeout,
           Environment, ExitOk, ExitBad, Failed
<1>3. opts'[p] = opts[p]
  BY DEF Advance, FetchManifest, CheckManifest, ListDocker, FetchBundle, Unpack, Scan,
         ResolveEnv, StartCompose, Chmod, StartBinary, Probing, StartWasm, StartVerify, Timeout,
         Environment, ExitOk, ExitBad, Failed, CreateResource, calls
<1>4. QED
  BY <1>1, <1>2, <1>3

(* How a call moves from step to step: it lists docker before it fetches a  *)
(* Compose bundle, and an Ok report comes from a step after that.           *)
LEMMA Stages ==
  ASSUME IInv, NEW p \in Procs, Advance(p) \/ Environment(p)
  PROVE  /\ pc'[p] \in {"volumes", "networks"} => ListDocker(p) /\ pc[p] \in {"ps", "volumes"}
         /\ /\ \/ pc'[p] \in {"fetch_bundle"} \union BundlePcs
               \/ pc'[p] = "done" /\ report'[p].status = "ok"
            /\ man'[p].kind = "Compose"
            => /\ man[p].kind = "Compose"
               /\ \/ pc[p] \in {"fetch_bundle"} \union BundlePcs
                  \/ ListDocker(p) /\ pc[p] = "networks" /\ pc'[p] = "fetch_bundle"
<1>0. Typed /\ CallInv(p)
  BY DEF IInv
<1> USE DEF BundlePcs, UnpackedPcs, ScannedPcs, RunPcs
<1>1. CASE FetchManifest(p)
  BY <1>0, <1>1 DEF FetchManifest, Goto, Reject, Return, Typed
<1>2. CASE CheckManifest(p)
  BY <1>0, <1>2 DEF CheckManifest, Goto, Reject, Return, Typed
<1>3. CASE ListDocker(p)
  BY <1>0, <1>3 DEF ListDocker, Listing, Goto, Reject, Return, Typed
<1>4. CASE FetchBundle(p) \/ Unpack(p) \/ Scan(p)
  BY <1>0, <1>4 DEF FetchBundle, Unpack, Scan, Goto, Reject, Return, Typed
<1>5. CASE ResolveEnv(p)
  <2>1. man[p].kind \in {"Compose", "Binary", "Wasm"}
    BY <1>0, <1>5, ManifestsAssumption DEF ResolveEnv, CallInv, Vetted, AdmittedPcs, Admissible, Kinds
  <2>2. QED
    BY <1>0, <1>5, <2>1 DEF ResolveEnv, RunStep, Goto, Reject, Return, Typed
<1>6. CASE StartCompose(p) \/ StartWasm(p) \/ StartVerify(p)
  BY <1>0, <1>6 DEF StartCompose, StartWasm, StartVerify, Spawn, Reject, Return, Typed
<1>11. CASE Chmod(p)
  BY <1>0, <1>11 DEF Chmod, Goto, Return, Typed
<1>7. CASE StartBinary(p)
  BY <1>0, <1>7 DEF StartBinary, Probing, Spawn, Reject, Return, Typed
<1>8. CASE Failed(p) \/ ExitOk(p)
  BY <1>0, <1>8 DEF Failed, ExitOk, CallInv, ChildInPlace, Goto, Return, Typed
<1>9. CASE CreateResource(p)
  <2>1. pc[p] = "compose" /\ UNCHANGED <<pc, man>>
    BY <1>0, <1>9 DEF CreateResource, CallInv, ChildInPlace, NoProcess, calls
  <2>2. QED
    BY <2>1
<1>10. QED
  BY <1>1, <1>2, <1>3, <1>4, <1>5, <1>6, <1>7, <1>8, <1>9, <1>11
     DEF Advance, Environment, Timeout, ExitBad

(* The pre-flight on containers that stand throughout: a call that gets     *)
(* past it has none of them in its project.                                 *)
LEMMA PreFlight ==
  ASSUME IInv, NEW p \in Procs, Advance(p) \/ Environment(p),
         NEW B, B \subseteq docker,
         \A r \in B : r.class = "container" /\ r.project = opts[p].project,
         pc[p] \in {"volumes", "networks"} => B \subseteq seen[p],
         pc[p] \in {"fetch_bundle"} \union BundlePcs /\ man[p].kind = "Compose" => B = {}
  PROVE  /\ pc'[p] \in {"volumes", "networks"} => B \subseteq seen'[p]
         /\ pc'[p] \in {"fetch_bundle"} \union BundlePcs /\ man'[p].kind = "Compose" => B = {}
         /\ pc'[p] = "done" /\ report'[p].status = "ok" /\ man'[p].kind = "Compose" => B = {}
<1>0. Typed
  BY DEF IInv
<1>1. ASSUME pc'[p] \in {"volumes", "networks"} PROVE B \subseteq seen'[p]
  <2>1. ListDocker(p) /\ pc[p] \in {"ps", "volumes"}
    BY <1>1, Stages
  <2>2. seen'[p] = seen[p] \union {r \in docker : r.class = Listing[pc[p]]}
    BY <1>0, <1>1, <2>1 DEF ListDocker, Typed, Reject, Return
  <2>3. QED
    BY <2>1, <2>2 DEF Listing
<1>2. ASSUME ListDocker(p), pc[p] = "networks", pc'[p] = "fetch_bundle" PROVE B = {}
  <2>1. \A r \in seen[p] : ~Collides(opts[p], r)
    BY <1>0, <1>2 DEF ListDocker, Typed, Reject, Return
  <2>2. opts[p].project \in Seq(STRING)
    <3>1. opts[p] \in Requests[p]
      BY <1>2 DEF IInv, CallInv, Vetted
    <3>2. QED
      BY <3>1, RequestsAssumption
  <2>3. ASSUME NEW r \in B PROVE FALSE
    <3>1. Collides(opts[p], r)
      BY <2>2, <2>3 DEF Collides, IsPrefix
    <3>2. QED
      BY <1>2, <2>1, <2>3, <3>1
  <2>4. QED
    BY <2>3
<1>3. QED
  BY <1>1, <1>2, Stages

(* p's pipeline at work for its composition. *)
LEMMA PipelineOwnHost ==
  ASSUME CIInv, NEW p \in Procs, HostInv(p), Advance(p) \/ Environment(p), UNCHANGED comps
  PROVE  HostInv(p)'
<1>0. IInv /\ CTyped /\ CompInv(p) /\ CallInv(p)
  BY DEF CIInv, IInv
<1>1. /\ pc[p] \notin {"idle", "done"} /\ cpc[p] = "await" /\ opts[p] \in Requests[p]
      /\ torn[p] = <<>>
  BY <1>0, PipelineSteps DEF CompInv, Orderly, Counted, CallInv, Vetted
<1>2. /\ docker \subseteq docker' /\ opts'[p] = opts[p]
      /\ created[p] \subseteq docker => created'[p] \subseteq docker'
  BY <1>0, PipelineHost
<1>3. UNCHANGED <<cpc, inst, torn, creport, before>>
  BY DEF comps
<1>4. Standing(p)'
  BY <1>1, <1>2, <1>3 DEF HostInv, Standing
<1>5. TornDown(p)'
  BY <1>1, <1>3 DEF TornDown
<1>6. Spared(p)'
  <2> DEFINE B == Before(p, opts[p].project)
  <2>1. /\ B \subseteq docker
        /\ \A r \in B : r.class = "container" /\ r.project = opts[p].project
    BY <1>1 DEF HostInv, Spared, OwnProject, Before
  <2>2. B' = B /\ \A k \in DOMAIN inst[p] : Before(p, inst[p][k].project)' = Before(p, inst[p][k].project)
    BY <1>2, <1>3 DEF Before
  <2>3. /\ pc[p] \in {"volumes", "networks"} => B \subseteq seen[p]
        /\ pc[p] \in {"fetch_bundle"} \union BundlePcs /\ man[p].kind = "Compose" => B = {}
    BY DEF HostInv, Spared
  <2> HIDE DEF B
  <2>4. /\ pc'[p] \in {"volumes", "networks"} => B \subseteq seen'[p]
        /\ pc'[p] \in {"fetch_bundle"} \union BundlePcs /\ man'[p].kind = "Compose" => B = {}
        /\ pc'[p] = "done" /\ report'[p].status = "ok" /\ man'[p].kind = "Compose" => B = {}
    BY <1>0, <2>1, <2>3, PreFlight
  <2>5. \A r \in before[p] : OwnProject(p, r) => r \in docker'
    BY <1>1, <1>2 DEF HostInv, Spared
  <2>6. \A k \in DOMAIN inst[p] : inst[p][k].kind = "Compose" => Before(p, inst[p][k].project) = {}
    BY DEF HostInv, Spared
  <2>7. QED
    BY <1>3, <2>2, <2>4, <2>5, <2>6 DEF Spared, B, OwnProject
<1>7. QED
  BY <1>4, <1>5, <1>6 DEF HostInv

(* The composition's own steps that leave docker and its notes alone. *)
LEMMA BookkeepingHost ==
  ASSUME NEW p \in Procs, HostInv(p),
         UNCHANGED vars, UNCHANGED before, inst'[p] = inst[p], torn'[p] = torn[p],
         cpc'[p] \in {"verify", "resolve", "install", "await"} \/ creport'[p] = "ok" =>
           cpc[p] \in {"verify", "resolve", "install", "await"}
  PROVE  HostInv(p)'
<1>1. pc' = pc /\ created' = created /\ docker' = docker /\ opts' = opts /\ man' = man
      /\ seen' = seen /\ report' = report /\ before' = before
  BY DEF vars, calls, host
<1>2. Standing(p)'
  BY <1>1 DEF HostInv, Standing
<1>3. TornDown(p)'
  BY <1>1 DEF HostInv, TornDown
<1>4. Spared(p)'
  BY <1>1 DEF HostInv, Spared, Before, OwnProject
<1>5. QED
  BY <1>2, <1>3, <1>4 DEF HostInv

LEMMA StartCompositionHost ==
  ASSUME CIInv, NEW p \in Procs, HostInv(p), StartComposition(p)
  PROVE  HostInv(p)'
<1>0. /\ Typed /\ CTyped /\ pc[p] = "idle"
  BY DEF CIInv, IInv, CompInv, Orderly, StartComposition
<1>1. /\ pc'[p] = "idle" /\ inst'[p] = <<>> /\ torn'[p] = <<>> /\ before'[p] = docker'
  BY <1>0 DEF CTyped, StartComposition, calls
<1>2. QED
  BY <1>1 DEF HostInv, Standing, TornDown, Spared, BundlePcs, UnpackedPcs, ScannedPcs, RunPcs

LEMMA CallSubHost ==
  ASSUME CIInv, NEW p \in Procs, HostInv(p), CallSub(p)
  PROVE  HostInv(p)'
<1>0. Typed /\ CTyped /\ UNCHANGED <<inst, torn, before>> /\ cpc[p] = "install"
  BY DEF CIInv, IInv, CallSub
<1>1. CASE UNCHANGED vars
  BY <1>0, <1>1, BookkeepingHost
<1>2. ASSUME NEW o, Call(p, o), CGoto(p, "await") PROVE HostInv(p)'
  <2>1. /\ pc'[p] = "fetch_manifest" /\ created'[p] = {} /\ docker' = docker
        /\ cpc'[p] = "await" /\ creport' = creport
    BY <1>0, <1>2 DEF Typed, CTyped, Call, CGoto
  <2>2. Standing(p)' /\ TornDown(p)'
    BY <1>0, <2>1 DEF HostInv, Standing, TornDown
  <2>3. Spared(p)'
    BY <1>0, <2>1
       DEF HostInv, Spared, Before, OwnProject, BundlePcs, UnpackedPcs, ScannedPcs, RunPcs
  <2>4. QED
    BY <2>2, <2>3 DEF HostInv
<1>3. QED
  BY <1>1, <1>2 DEF CallSub

LEMMA SubReturnedHost ==
  ASSUME CIInv, NEW p \in Procs, HostInv(p), SubReturned(p)
  PROVE  HostInv(p)'
<1>0. /\ IInv /\ CTyped /\ CompInv(p) /\ pc[p] = "done" /\ cpc[p] = "await" /\ Returned(p)
      /\ UNCHANGED <<copts, subs, torn, before>>
  BY DEF CIInv, SubReturned
<1>1. pc'[p] = "idle" /\ UNCHANGED <<docker, created>>
  BY <1>0, ReturnedKeeps
<1>2. torn'[p] = <<>> /\ inst[p] \in Seq(InstalledSub)
  BY <1>0 DEF CompInv, Counted, CTyped
<1>3. TornDown(p)'
  BY <1>2 DEF TornDown
<1>4. CASE CGoto(p, "rollback") /\ UNCHANGED inst
  <2>1. cpc'[p] = "rollback" /\ creport'[p] # "ok"
    BY <1>0, <1>4 DEF CTyped, CGoto, CompInv, Counted
  <2>2. Standing(p)' /\ Spared(p)'
    BY <1>0, <1>1, <1>4, <2>1
       DEF HostInv, Standing, Spared, Before, BundlePcs, UnpackedPcs, ScannedPcs, RunPcs
  <2>3. QED
    BY <1>3, <2>2 DEF HostInv
<1>5. ASSUME report[p].status = "ok", NEW s, s = Installed(p),
             inst' = [inst EXCEPT ![p] = Append(@, s)], CGoto(p, "install")
      PROVE  HostInv(p)'
  <2>1. s \in InstalledSub /\ s.created = created[p] /\ s.project = opts[p].project /\ s.kind = man[p].kind
    BY <1>0, <1>5, InstalledTyped
  <2>2. /\ DOMAIN inst'[p] = 1..(Len(inst[p]) + 1)
        /\ \A k \in 1..Len(inst[p]) : inst'[p][k] = inst[p][k]
        /\ inst'[p][Len(inst[p]) + 1] = s
    BY <1>0, <1>2, <1>5, <2>1 DEF CTyped
  <2>3. cpc'[p] = "install"
    BY <1>0, <1>5 DEF CTyped, CGoto
  <2>4. ASSUME NEW k \in DOMAIN inst'[p]
        PROVE  /\ inst'[p][k].created \subseteq docker
               /\ inst'[p][k].kind = "Compose" => Before(p, inst'[p][k].project) = {}
    <3>1. CASE k = Len(inst[p]) + 1
      BY <1>0, <1>5, <2>1, <2>2, <3>1 DEF HostInv, Standing, Spared
    <3>2. CASE k # Len(inst[p]) + 1
      <4>1. k \in DOMAIN inst[p] /\ inst'[p][k] = inst[p][k]
        BY <1>2, <2>2, <2>4, <3>2
      <4>2. QED
        BY <1>0, <4>1 DEF HostInv, Standing, Spared
    <3>3. QED
      BY <3>1, <3>2
  <2>5. Standing(p)'
    BY <1>1, <2>3, <2>4 DEF Standing
  <2>6. Spared(p)'
    <3>1. \A k \in DOMAIN inst'[p] : inst'[p][k].kind = "Compose" => Before(p, inst[p][k].project)' = {}
      BY <1>0, <2>4 DEF Before
    <3>2. \A r \in before'[p] : OwnProject(p, r)' => r \in docker'
      BY <1>0, <1>1 DEF HostInv, Spared, OwnProject
    <3>3. QED
      BY <1>1, <3>1, <3>2 DEF Spared, BundlePcs, UnpackedPcs, ScannedPcs, RunPcs
  <2>7. QED
    BY <1>3, <2>5, <2>6 DEF HostInv
<1>6. \/ /\ report[p].status = "ok"
         /\ inst' = [inst EXCEPT ![p] = Append(@, Installed(p))]
         /\ CGoto(p, "install")
      \/ CGoto(p, "rollback") /\ UNCHANGED inst
  BY DEF SubReturned
<1>7. QED
  BY <1>4, <1>5, <1>6

LEMMA TearDownHost ==
  ASSUME CIInv, NEW p \in Procs, HostInv(p), TearDown(p)
  PROVE  HostInv(p)'
<1>0. /\ IInv /\ CTyped /\ CompInv(p) /\ cpc[p] = "rollback"
      /\ UNCHANGED <<cpc, copts, subs, inst, creport, before, calls, work, child, created>>
  BY DEF CIInv, TearDown
<1>1. pc[p] = "idle" /\ creport[p] # "ok"
  BY <1>0 DEF CompInv, Orderly, Counted
<1> DEFINE n == Len(inst[p]) - Len(torn[p])
           s == inst[p][n]
<1>2. PICK err, nothing \in BOOLEAN :
        /\ torn' = [torn EXCEPT ![p] = Append(@, Outcome(s, err, nothing))]
        /\ ~err => OfProject(s) \intersect docker' = {} \/ s.kind # "Compose"
  BY <1>0, TearDownShape
<1>3. s \in InstalledSub /\ n \in DOMAIN inst[p] /\ docker' \subseteq docker
  BY <1>0, TearDownShape
<1> DEFINE t == Outcome(s, err, nothing)
<1>4. t \in TornSub /\ t.error = err
  BY <1>3 DEF Outcome, TornSub, InstalledSub
<1>5. torn[p] \in Seq(TornSub) /\ inst[p] \in Seq(InstalledSub)
  BY <1>0 DEF CTyped
<1>6. Len(inst[p]) \in Nat /\ Len(torn[p]) \in Nat
  BY <1>5
<1>7. ~err => s.created \intersect docker' = {}
  <2>1. CASE s.kind # "Compose"
    BY <1>0, <1>3, <2>1 DEF CompInv, Noted
  <2>2. CASE OfProject(s) \intersect docker' = {}
    <3>1. \A r \in s.created : r.project = s.project
      BY <1>0, <1>3 DEF CompInv, Noted
    <3>2. QED
      BY <1>3, <2>2, <3>1 DEF OfProject
  <2>3. QED
    BY <1>2, <2>1, <2>2
<1> HIDE DEF t
<1>8. /\ DOMAIN torn'[p] = 1..(Len(torn[p]) + 1)
      /\ \A j \in 1..Len(torn[p]) : torn'[p][j] = torn[p][j]
      /\ torn'[p][Len(torn[p]) + 1] = t
  BY <1>0, <1>2, <1>4, <1>5 DEF CTyped, t
<1>9. TornDown(p)'
  <2>1. ASSUME NEW j \in DOMAIN torn'[p], ~torn'[p][j].error
        PROVE  inst[p][Len(inst[p]) + 1 - j].created \intersect docker' = {}
    <3>1. CASE j = Len(torn[p]) + 1
      <4>1. Len(inst[p]) + 1 - j = n
        BY <1>6, <3>1, Backwards
      <4>2. ~err
        BY <1>4, <1>8, <2>1, <3>1
      <4>3. QED
        BY <1>7, <4>1, <4>2
    <3>2. CASE j # Len(torn[p]) + 1
      <4>1. j \in DOMAIN torn[p] /\ torn'[p][j] = torn[p][j]
        BY <1>5, <1>8, <2>1, <3>2
      <4>2. inst[p][Len(inst[p]) + 1 - j].created \intersect docker = {}
        BY <2>1, <4>1 DEF HostInv, TornDown
      <4>3. QED
        BY <1>3, <4>2
    <3>3. QED
      BY <3>1, <3>2
  <2>2. QED
    BY <1>0, <2>1 DEF TornDown
<1>10. Standing(p)'
  BY <1>0, <1>1 DEF Standing, calls
<1>11. Spared(p)'
  <2>1. \A k \in DOMAIN inst[p] : Before(p, inst[p][k].project)' = Before(p, inst[p][k].project)
    BY <1>0 DEF Before
  <2>2. QED
    BY <1>0, <1>1, <2>1
       DEF HostInv, Spared, calls, BundlePcs, UnpackedPcs, ScannedPcs, RunPcs
<1>12. QED
  BY <1>9, <1>10, <1>11 DEF HostInv

(* p's own steps. *)
LEMMA OwnHost ==
  ASSUME CIInv, NEW p \in Procs, HostInv(p),
         \/ StartComposition(p) \/ Orchestrate(p) \/ Activation(p)
         \/ Environment(p) /\ UNCHANGED comps
  PROVE  HostInv(p)'
<1>1. CASE CheckComposition(p) \/ ResolveSub(p) \/ CheckTrust(p) \/ AllInstalled(p)
  <2>1. /\ cpc[p] \in {"verify", "resolve", "install", "await"}
        /\ UNCHANGED <<inst, torn, before>> /\ UNCHANGED vars
    BY <1>1 DEF CheckComposition, ResolveSub, CheckTrust, AllInstalled
  <2>2. QED
    BY <2>1, BookkeepingHost
<1>2. CASE RollbackDone(p)
  <2>1. cpc'[p] = "done" /\ creport'[p] = "rolled_back"
    BY <1>2 DEF RollbackDone, Conclude, CIInv, CTyped
  <2>2. QED
    BY <1>2, <2>1, BookkeepingHost DEF RollbackDone
<1>3. CASE (Advance(p) \/ Environment(p)) /\ UNCHANGED comps
  BY <1>3, PipelineOwnHost
<1>4. CASE StartComposition(p) \/ CallSub(p) \/ SubReturned(p) \/ TearDown(p)
  BY <1>4, StartCompositionHost, CallSubHost, SubReturnedHost, TearDownHost
<1>5. QED
  BY <1>1, <1>2, <1>3, <1>4 DEF Orchestrate, Activation

(* p's steps, as seen by another composition q. *)
LEMMA OtherHost ==
  ASSUME CIInv, NEW p \in Procs, NEW q \in Procs, q # p,
         \/ StartComposition(p) \/ Orchestrate(p) \/ Activation(p)
         \/ Environment(p) /\ UNCHANGED comps
  PROVE  /\ SameHost(q)
         /\ \A r \in (docker' \ docker) \union (docker \ docker') : OwnProject(p, r)
<1>0. IInv /\ Typed /\ CTyped /\ CompInv(p)
  BY DEF CIInv, IInv
<1>1. CASE StartComposition(p)
  BY <1>0, <1>1 DEF Typed, CTyped, StartComposition, SameHost, SameComp, calls
<1>2. CASE CheckComposition(p) \/ ResolveSub(p) \/ CheckTrust(p) \/ AllInstalled(p) \/ RollbackDone(p)
  <2>1. /\ UNCHANGED vars /\ UNCHANGED <<copts, inst, torn, before>>
        /\ cpc'[q] = cpc[q] /\ creport'[q] = creport[q] /\ subs'[q] = subs[q]
    BY <1>0, <1>2
       DEF CTyped, CheckComposition, ResolveSub, CheckTrust, AllInstalled, RollbackDone,
           Conclude, CGoto
  <2>2. QED
    BY <2>1 DEF SameHost, SameComp, vars, calls, host
<1>3. CASE CallSub(p)
  BY <1>0, <1>3
     DEF Typed, CTyped, CallSub, Call, CGoto, SameHost, SameComp, vars, calls, host
<1>4. CASE SubReturned(p)
  <2>1. /\ SameAt(q) /\ seen'[q] = seen[q] /\ docker' = docker
        /\ UNCHANGED <<copts, subs, torn, before>>
    BY <1>0, <1>4, ReturnedKeeps DEF SubReturned
  <2>2. inst'[q] = inst[q] /\ cpc'[q] = cpc[q] /\ creport'[q] = creport[q]
    BY <1>0, <1>4 DEF CTyped, SubReturned, CGoto
  <2>3. QED
    BY <2>1, <2>2 DEF SameHost, SameComp, SameAt
<1>5. CASE TearDown(p)
  <2> DEFINE s == inst[p][Len(inst[p]) - Len(torn[p])]
  <2>1. /\ s \in InstalledSub /\ Len(inst[p]) - Len(torn[p]) \in DOMAIN inst[p]
        /\ docker \ docker' \subseteq OfProject(s) /\ docker' \subseteq docker
    BY <1>0, <1>5, TearDownShape
  <2>2. PICK o \in Requests[p] : o.project = s.project
    BY <1>0, <2>1 DEF CompInv, Noted
  <2>3. \A r \in docker \ docker' : OwnProject(p, r)
    BY <2>1, <2>2 DEF OfProject, OwnProject
  <2>4. SameHost(q)
    BY <1>0, <1>5 DEF CTyped, TearDown, SameHost, SameComp, calls
  <2>5. QED
    BY <2>1, <2>3, <2>4
<1>6. CASE (Advance(p) \/ Environment(p)) /\ UNCHANGED comps
  <2>1. SameAt(q) /\ seen'[q] = seen[q]
    BY <1>0, <1>6, PipelineSteps
  <2>2. docker \subseteq docker' /\ \A r \in docker' \ docker : OwnProject(p, r)
    BY <1>0, <1>6, PipelineHost
  <2>3. QED
    BY <1>6, <2>1, <2>2 DEF SameHost, SameComp, SameAt, comps
<1>7. QED
  BY <1>1, <1>2, <1>3, <1>4, <1>5, <1>6 DEF Orchestrate, Activation

LEMMA HostKept ==
  ASSUME ProjectsDiffer, CIInv, \A p \in Procs : HostInv(p), [CNext]_cvars
  PROVE  \A p \in Procs : HostInv(p)'
<1>1. CASE UNCHANGED cvars
  <2>1. docker' = docker /\ \A q \in Procs : SameHost(q)
    BY <1>1 DEF cvars, comps, vars, calls, host, SameHost, SameComp
  <2>2. QED
    BY <2>1, OthersKeepHost
<1>2. ASSUME NEW p \in Procs,
             \/ StartComposition(p) \/ Orchestrate(p) \/ Activation(p)
             \/ Environment(p) /\ UNCHANGED comps,
             NEW q \in Procs
      PROVE  HostInv(q)'
  <2>1. CASE q = p
    BY <1>2, <2>1, OwnHost
  <2>2. CASE q # p
    BY <1>2, <2>2, OtherHost, StrangersApart, OthersKeepHost
  <2>3. QED
    BY <2>1, <2>2
<1>3. QED
  BY <1>1, <1>2 DEF CNext

(* What stands on the host and what was deleted there, of each composition, *)
(* if compositions that run at once use different project names.            *)
THEOREM HostInvariance ==
  ASSUME ProjectsDiffer
  PROVE  CSpec => [](\A p \in Procs : HostInv(p))
<1> DEFINE Hosts == \A p \in Procs : HostInv(p)
<1>1. CInit => Hosts
  <2> SUFFICES ASSUME CInit, NEW p \in Procs PROVE HostInv(p)
    OBVIOUS
  <2>1. /\ pc[p] = "idle" /\ cpc[p] = "idle" /\ creport[p] = "none"
        /\ inst[p] = <<>> /\ torn[p] = <<>>
    BY DEF CInit, Init
  <2>2. QED
    BY <2>1 DEF HostInv, Standing, TornDown, Spared, BundlePcs, UnpackedPcs, ScannedPcs, RunPcs
<1>2. CIInv /\ Hosts /\ [CNext]_cvars => Hosts'
  BY HostKept
<1>3. QED
  BY <1>1, <1>2, CompositionInvariance, PTL DEF CSpec

(* A rolled-back attempt accounts for every sub-manifest that succeeded:    *)
(* none is forgotten, and a teardown without an error leaves nothing of it. *)
THEOREM RollbackIsComplete ==
  ASSUME ProjectsDiffer
  PROVE  CSpec => []RollbackCoversSucceeded
<1>1. CIInv /\ (\A p \in Procs : HostInv(p)) => RollbackCoversSucceeded
  <2> SUFFICES ASSUME CIInv, NEW p \in Procs, HostInv(p), creport[p] = "rolled_back"
               PROVE  /\ Len(torn[p]) = Len(inst[p])
                      /\ \A k \in DOMAIN inst[p] :
                           LET t == torn[p][Len(inst[p]) + 1 - k]
                           IN /\ t.index = inst[p][k].index
                              /\ ~t.error => inst[p][k].created \intersect docker = {}
    BY DEF RollbackCoversSucceeded
  <2>1. Len(torn[p]) = Len(inst[p])
    BY DEF CIInv, CompInv, Counted
  <2>2. torn[p] \in Seq(TornSub) /\ inst[p] \in Seq(InstalledSub)
    BY DEF CIInv, CTyped
  <2>3. ASSUME NEW k \in DOMAIN inst[p], NEW j, j = Len(inst[p]) + 1 - k
        PROVE  /\ torn[p][j].index = inst[p][k].index
               /\ ~torn[p][j].error => inst[p][k].created \intersect docker = {}
    <3>1. k \in 1..Len(inst[p]) /\ Len(inst[p]) \in Nat /\ DOMAIN torn[p] = 1..Len(inst[p])
      BY <2>1, <2>2, <2>3
    <3>2. j \in DOMAIN torn[p] /\ Len(inst[p]) + 1 - j = k
      BY <2>3, <3>1, MirroredTwice
    <3>3. QED
      BY <3>2 DEF CIInv, CompInv, Noted, HostInv, TornDown
  <2>4. QED
    BY <2>1, <2>3
<1>2. QED
  BY <1>1, CompositionInvariance, HostInvariance, PTL

(* An Ok report keeps its word: what its sub-manifests brought up stands    *)
(* until the next attempt, whatever the other compositions roll back.       *)
THEOREM OkStands ==
  ASSUME ProjectsDiffer
  PROVE  CSpec => []OkCompositionStands
<1>1. CIInv /\ (\A p \in Procs : HostInv(p)) => OkCompositionStands
  BY DEF CIInv, CompInv, Counted, HostInv, Standing, OkCompositionStands
<1>2. QED
  BY <1>1, CompositionInvariance, HostInvariance, PTL

(* A rollback deletes no container that stood before its attempt. *)
THEOREM RollbackSpares ==
  ASSUME ProjectsDiffer
  PROVE  CSpec => RollbackSparesContainers
<1>1. CIInv /\ (\A p \in Procs : HostInv(p)) /\ [CNext]_cvars
        => [\A p \in Procs : torn'[p] # torn[p] =>
              \A r \in docker \ docker' : r.class = "container" => r \notin before[p]]_cvars
  <2> SUFFICES ASSUME CIInv, CNext, NEW p \in Procs, HostInv(p), torn'[p] # torn[p],
                      NEW r \in docker \ docker', r.class = "container", r \in before[p]
               PROVE  FALSE
    OBVIOUS
  <2>1. PICK q \in Procs : \/ StartComposition(q) \/ Orchestrate(q) \/ Activation(q)
                           \/ Environment(q) /\ UNCHANGED comps
    BY DEF CNext
  <2>2. p = q
    BY <2>1, OtherHost DEF SameHost, SameComp
  <2>3. TearDown(p)
    BY <2>1, <2>2
       DEF StartComposition, Orchestrate, Activation, CheckComposition, ResolveSub, CheckTrust,
           AllInstalled, CallSub, SubReturned, RollbackDone, comps
  <2> DEFINE s == inst[p][Len(inst[p]) - Len(torn[p])]
  <2>4. /\ Len(inst[p]) - Len(torn[p]) \in DOMAIN inst[p] /\ s.kind = "Compose"
        /\ r \in OfProject(s)
    BY <2>3, TearDownShape DEF CIInv
  <2>5. Before(p, s.project) = {}
    BY <2>4 DEF HostInv, Spared
  <2>6. QED
    BY <2>4, <2>5 DEF OfProject, Before
<1>2. QED
  BY <1>1, CompositionInvariance, HostInvariance, PTL DEF CSpec, RollbackSparesContainers
=============================================================================
