--------------------------- MODULE MCComposition ---------------------------
(* Compositions of up to two sub-manifests, on a host where a second        *)
(* composition uses project names nested under the first one's.             *)
EXTENDS Composition

CONSTANTS p1, p2

Now == 2

Web == [id |-> "web", sig |-> "s1", publisher |-> "trusted", signed |-> TRUE, expires_at |-> 3,
        kind |-> "Compose", wasm |-> NoBlock, env |-> NoBlock, path |-> "inside",
        digest |-> "web", template |-> {}, required |-> {}]
Tool   == [Web EXCEPT !.id = "tool", !.sig = "s2", !.kind = "Binary", !.digest = "tool"]
Alien  == [Web EXCEPT !.id = "alien", !.sig = "s3", !.publisher = "stranger"]
Forged == [Web EXCEPT !.kind = "Binary", !.signed = FALSE]   \* Web's pinned triple, other content

MCManifests == {Web, Tool, Alien, Forged}

MCBundleDir == <<"scratch", "bundle">>

NoServices == [read |-> "ok", services |-> {}]

BundlesOf(classes) == {[digest |-> d, entries |-> "safe", compose |-> NoServices,
                        creates |-> classes] : d \in {"web", "tool"}}
ContainerOnly == BundlesOf({"container"})
WithVolume    == BundlesOf({"container", "volume"})

Compose(pins) == [publisher |-> "trusted", signed |-> TRUE, expires_at |-> 3,
                  pins |-> pins, edges |-> {<<0, 1>>}]

Base == [project |-> <<>>, location |-> {}, os |-> "linux", require_binary_sandbox |-> TRUE,
         policy |-> "default", allowlist |-> {"trusted"}, env_values |-> {}, now |-> Now]

Ask(prefix, c) == [prefix |-> prefix, composition |-> c, base |-> Base]

Two == Compose(<<Pin(Web), Pin(Tool)>>)
One == [Compose(<<Pin(Web)>>) EXCEPT !.edges = {}]

MCProcs == {p1, p2}

MCCompositionRequests ==
  [p \in MCProcs |->
    IF p = p1
      THEN {Ask(<<"a">>, c) :
             c \in {Two, Compose(<<Pin(Web), Pin(Alien)>>), Compose(<<Pin(Tool), Pin(Web)>>),
                    [Two EXCEPT !.expires_at = Now], [Two EXCEPT !.edges = {<<0, 2>>}]}}
      ELSE {Ask(<<"a", "0">>, One)}]

MCRequests ==
  [p \in MCProcs |->
    {[Base EXCEPT !.project = Append(q.prefix, i), !.location = {m}] :
       q \in MCCompositionRequests[p], i \in {"0", "1"}, m \in MCManifests}]

(* What a run that went before left behind. *)
NoForeign == {}
StaleContainer == {[class |-> "container", project |-> <<"a", "1">>]}
StaleVolume == {[class |-> "volume", project |-> <<"a", "0">>]}
=============================================================================
