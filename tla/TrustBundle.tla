------------------------------ MODULE TrustBundle ------------------------------
(***************************************************************************)
(* Two controllers, one behind the other.  The proxy configuration         *)
(* controller validates Proxy "cluster", publishes its status and writes   *)
(* the trusted CA bundle: the certificates of the system and of the config *)
(* map the proxy names.  The injector copies the bundle into every         *)
(* labelled config map of the cluster.                                     *)
(*                                                                         *)
(* Each has a work queue and one worker.  A request whose handling fails   *)
(* is put back; one that is skipped is not, so that what it was about has  *)
(* to come again as an event.                                              *)
(***************************************************************************)
EXTENDS Integers, FiniteSets

CONSTANTS
  CANames,      \* config maps in openshift-config
  Certificates, \* what they may contain
  Labelled,     \* labelled config maps
  Networks,     \* values of the cluster's networks
  ProxyEdits,   \* specs of the Proxy that users ask for
  MaxErrors,    \* failed updates the injector puts up with (5)
  MaxTbEdits, MaxTbFaults

VARIABLES
  tbProxy,    \* Proxy "cluster": its spec and what its status shows
  tbCAs,      \* tbCAs[n]: content of the config map, "absent" or "invalid"
  tbNetwork,  \* networks in the status of Network "cluster", "missing" at first
  tbBundle,   \* certificates in trusted-ca-bundle, {} while there is none
  tbMaps,     \* tbMaps[m]: certificates in the labelled config map
  tbWorker,   \* the proxy controller: queue, request and bundle at hand
  tbInjector, \* the injector: queue, request, bundle it knows, work to do
  tbReports,  \* last report of each of the two to the status manager
  tbLeft      \* edits and faults left

tbVars == <<tbProxy, tbCAs, tbNetwork, tbBundle, tbMaps, tbWorker, tbInjector, tbReports, tbLeft>>

(* A request names Proxy "cluster", the bundle or a config map.            *)
ProxyRequest == "proxy"
BundleRequest == "trusted-ca-bundle"
NoRequest == "none"

(* What ValidateProxyConfig finds in the proxy settings; "none" are no     *)
(* settings, "unready" those whose readiness endpoints do not answer.      *)
ProxySettings == {"none", "valid", "invalid", "unready"}
NoProxies == {"unset", "*", "user"}
ProxySpecs == [settings : ProxySettings, ca : CANames \cup {"unset"}, noProxy : NoProxies]

ASSUME TbAssumption ==
  /\ ProxyEdits \subseteq ProxySpecs
  /\ MaxErrors \in Nat /\ MaxTbEdits \in Nat /\ MaxTbFaults \in Nat

--------------------------------------------------------------------------------
(* What the proxy controller makes of the objects it reads                 *)

validateTrustedCA(n) == tbCAs[n] \in Certificates

ValidateProxyConfig(spec) == spec.settings \in {"none", "valid"}

(* A merge of the user's list with the networks of the cluster.            *)
HasNoProxy(spec) == spec.settings # "none" /\ spec.noProxy # "*"
MergeUserSystemNoProxy(spec, network) == {network} \cup ({spec.noProxy} \ {"unset"})

NewStatus(spec, network) ==
  [settings |-> spec.settings,
   noProxy |-> IF HasNoProxy(spec) THEN MergeUserSystemNoProxy(spec, network)
               ELSE IF spec.settings = "none" THEN {} ELSE {"*"}]

TrustedCAValid(spec) == spec.ca # "unset" => validateTrustedCA(spec.ca)

(* generateSystemTrustBundle or mergeTrustBundlesToConfigMap.              *)
MergedBundle(spec, cas) ==
  {"system"} \cup (IF spec.ca = "unset" THEN {} ELSE {cas[spec.ca]})

--------------------------------------------------------------------------------
(* The proxy configuration controller                                      *)

Enqueued(w, reqs) == [w EXCEPT !.queue = @ \cup reqs]
Report(who, what) == tbReports' = [tbReports EXCEPT ![who] = what]

ProxyTake(req) == tbWorker.request = NoRequest /\ req \in tbWorker.queue

(* The status is updated at the version of the Proxy that was read, so     *)
(* that a Proxy that has changed since makes the update fail.              *)
ReconcileProxy ==
  /\ ProxyTake(ProxyRequest)
  /\ ValidateProxyConfig(tbProxy.spec) /\ TrustedCAValid(tbProxy.spec)
  /\ HasNoProxy(tbProxy.spec) => tbNetwork # "missing"
  /\ tbProxy' = [tbProxy EXCEPT !.status = NewStatus(tbProxy.spec, tbNetwork)]
  /\ tbWorker' = [queue |-> (tbWorker.queue \ {ProxyRequest})
                              \cup (IF tbProxy' = tbProxy THEN {} ELSE {ProxyRequest}),
                  request |-> ProxyRequest, bundle |-> MergedBundle(tbProxy.spec, tbCAs)]
  /\ UNCHANGED <<tbCAs, tbNetwork, tbBundle, tbMaps, tbInjector, tbReports, tbLeft>>

\* Mutant: the changed config map is compared with the name of the bundle.
Bug_WrongMap(n) == tbProxy.spec.ca = BundleRequest

configMapIsProxyTrustedCA(n) == tbProxy.spec.ca = n

SkipTrustedCA ==
  /\ \E n \in CANames :
       /\ ProxyTake(n)
       /\ tbCAs[n] = "absent" \/ ~configMapIsProxyTrustedCA(n)
       /\ tbWorker' = [tbWorker EXCEPT !.queue = @ \ {n}]
  /\ UNCHANGED <<tbProxy, tbCAs, tbNetwork, tbBundle, tbMaps, tbInjector, tbReports, tbLeft>>

ReconcileTrustedCA ==
  /\ \E n \in CANames :
       /\ ProxyTake(n)
       /\ tbCAs[n] # "absent" /\ configMapIsProxyTrustedCA(n)
       /\ ValidateProxyConfig(tbProxy.spec) /\ validateTrustedCA(n)
       /\ tbWorker' = [queue |-> tbWorker.queue \ {n}, request |-> n,
                       bundle |-> MergedBundle(tbProxy.spec, tbCAs)]
  /\ UNCHANGED <<tbProxy, tbCAs, tbNetwork, tbBundle, tbMaps, tbInjector, tbReports, tbLeft>>

(* The request stays for another try.  A config map is validated first.    *)
RejectProxy ==
  /\ \E req \in {ProxyRequest} \cup CANames :
       /\ ProxyTake(req)
       /\ req \in CANames => tbCAs[req] # "absent" /\ configMapIsProxyTrustedCA(req)
       /\ IF /\ ~ValidateProxyConfig(tbProxy.spec)
             /\ req \in CANames => validateTrustedCA(req)
          THEN Report("ProxyConfig", "Degraded")
          ELSE /\ \/ ~TrustedCAValid(tbProxy.spec)
                  \/ req = ProxyRequest /\ HasNoProxy(tbProxy.spec) /\ tbNetwork = "missing"
               /\ Report("ProxyConfig", "MaybeDegraded")
  /\ UNCHANGED <<tbProxy, tbCAs, tbNetwork, tbBundle, tbMaps, tbWorker, tbInjector, tbLeft>>

syncTrustedCABundle ==
  /\ tbWorker.request # NoRequest
  /\ tbBundle' = tbWorker.bundle
  /\ tbWorker' = [tbWorker EXCEPT !.request = NoRequest]
  /\ Report("ProxyConfig", "NotDegraded")
  /\ UNCHANGED <<tbProxy, tbCAs, tbNetwork, tbMaps, tbInjector, tbLeft>>

--------------------------------------------------------------------------------
(* The injector                                                            *)

(* Its informer hears of a new bundle.                                     *)
BundleEvent ==
  /\ tbInjector.known # tbBundle
  /\ tbInjector' = [Enqueued(tbInjector, {BundleRequest}) EXCEPT !.known = tbBundle]
  /\ UNCHANGED <<tbProxy, tbCAs, tbNetwork, tbBundle, tbMaps, tbWorker, tbReports, tbLeft>>

configMapsToChange(req) == IF req = BundleRequest THEN Labelled ELSE {req}

InjectorTake(req) ==
  /\ tbInjector.request = NoRequest /\ req \in tbInjector.queue

(* Without a bundle there is nothing to inject.                            *)
StartInjection ==
  /\ \E req \in tbInjector.queue :
       /\ InjectorTake(req)
       /\ tbInjector' =
            IF tbInjector.known = {} THEN [tbInjector EXCEPT !.queue = @ \ {req}]
            ELSE [tbInjector EXCEPT !.queue = @ \ {req}, !.request = req,
                    !.bundle = tbInjector.known, !.todo = configMapsToChange(req), !.errors = 0]
  /\ UNCHANGED <<tbProxy, tbCAs, tbNetwork, tbBundle, tbMaps, tbWorker, tbReports, tbLeft>>

(* A config map that is changed is an event for the injector.              *)
Inject ==
  /\ tbInjector.errors <= MaxErrors
  /\ \E m \in tbInjector.todo :
       /\ tbMaps' = [tbMaps EXCEPT ![m] = tbInjector.bundle]
       /\ tbInjector' = [Enqueued(tbInjector, IF tbMaps' = tbMaps THEN {} ELSE {m})
                           EXCEPT !.todo = @ \ {m}]
  /\ UNCHANGED <<tbProxy, tbCAs, tbNetwork, tbBundle, tbWorker, tbReports, tbLeft>>

FinishInjection ==
  /\ tbInjector.request # NoRequest
  /\ tbInjector.todo = {} \/ tbInjector.errors > MaxErrors
  /\ LET failed == tbInjector.errors > 0
     IN  /\ tbInjector' = [Enqueued(tbInjector, IF failed THEN {tbInjector.request} ELSE {})
                             EXCEPT !.request = NoRequest, !.todo = {}]
         /\ Report("InjectorConfig", IF failed THEN "MaybeDegraded" ELSE "NotDegraded")
  /\ UNCHANGED <<tbProxy, tbCAs, tbNetwork, tbBundle, tbMaps, tbWorker, tbLeft>>

--------------------------------------------------------------------------------
(* Faults and users                                                        *)

TbFault == tbLeft.faults > 0 /\ tbLeft' = [tbLeft EXCEPT !.faults = @ - 1]
TbEdit == tbLeft.edits > 0 /\ tbLeft' = [tbLeft EXCEPT !.edits = @ - 1]

SyncFails ==
  /\ tbWorker.request # NoRequest /\ TbFault
  /\ tbWorker' = [Enqueued(tbWorker, {tbWorker.request}) EXCEPT !.request = NoRequest]
  /\ Report("ProxyConfig", "MaybeDegraded")
  /\ UNCHANGED <<tbProxy, tbCAs, tbNetwork, tbBundle, tbMaps, tbInjector>>

InjectFails ==
  /\ tbInjector.errors <= MaxErrors /\ TbFault
  /\ \E m \in tbInjector.todo :
       tbInjector' = [tbInjector EXCEPT !.todo = @ \ {m}, !.errors = @ + 1]
  /\ UNCHANGED <<tbProxy, tbCAs, tbNetwork, tbBundle, tbMaps, tbWorker, tbReports>>

(* A new process lists all objects.                                        *)
TbRestart ==
  /\ TbFault
  /\ tbWorker' = [queue |-> {ProxyRequest} \cup CANames, request |-> NoRequest, bundle |-> {}]
  /\ tbInjector' = [queue |-> {BundleRequest} \cup Labelled, request |-> NoRequest,
                    known |-> tbBundle, bundle |-> {}, todo |-> {}, errors |-> 0]
  /\ UNCHANGED <<tbProxy, tbCAs, tbNetwork, tbBundle, tbMaps, tbReports>>

EditProxy ==
  /\ TbEdit
  /\ \E spec \in ProxyEdits : tbProxy' = [tbProxy EXCEPT !.spec = spec]
  /\ tbWorker' = Enqueued(tbWorker, {ProxyRequest})
  /\ UNCHANGED <<tbCAs, tbNetwork, tbBundle, tbMaps, tbInjector, tbReports>>

EditTrustedCA ==
  /\ TbEdit
  /\ \E n \in CANames, c \in Certificates \cup {"absent", "invalid"} :
       /\ tbCAs' = [tbCAs EXCEPT ![n] = c]
       /\ tbWorker' = Enqueued(tbWorker, {n})
  /\ UNCHANGED <<tbProxy, tbNetwork, tbBundle, tbMaps, tbInjector, tbReports>>

(* The operator writes the networks into the status of Network "cluster".  *)
NetworkStatusChanges ==
  /\ TbEdit
  /\ tbNetwork' \in Networks \ {tbNetwork}
  /\ tbWorker' = Enqueued(tbWorker, {ProxyRequest})
  /\ UNCHANGED <<tbProxy, tbCAs, tbBundle, tbMaps, tbInjector, tbReports>>

(* A labelled config map is created or loses what was injected.            *)
EditLabelled ==
  /\ TbEdit
  /\ \E m \in Labelled :
       /\ tbMaps' = [tbMaps EXCEPT ![m] = {}]
       /\ tbInjector' = Enqueued(tbInjector, {m})
  /\ UNCHANGED <<tbProxy, tbCAs, tbNetwork, tbBundle, tbWorker, tbReports>>

TbInit ==
  /\ tbProxy = [spec |-> [settings |-> "none", ca |-> "unset", noProxy |-> "unset"],
                status |-> [settings |-> "none", noProxy |-> {}]]
  /\ tbCAs \in [CANames -> {"absent"} \cup Certificates]
  /\ tbNetwork = "missing"
  /\ tbBundle = {} /\ tbMaps = [m \in Labelled |-> {}]
  /\ tbWorker = [queue |-> {ProxyRequest}, request |-> NoRequest, bundle |-> {}]
  /\ tbInjector = [queue |-> Labelled, request |-> NoRequest, known |-> {},
                   bundle |-> {}, todo |-> {}, errors |-> 0]
  /\ tbReports = [who \in {"ProxyConfig", "InjectorConfig"} |-> "none"]
  /\ tbLeft = [edits |-> MaxTbEdits, faults |-> MaxTbFaults]

ProxyWorks == ReconcileProxy \/ SkipTrustedCA \/ ReconcileTrustedCA \/ syncTrustedCABundle
InjectorWorks == BundleEvent \/ StartInjection \/ Inject \/ FinishInjection

TbNext ==
  \/ ProxyWorks \/ RejectProxy \/ InjectorWorks
  \/ SyncFails \/ InjectFails \/ TbRestart
  \/ EditProxy \/ EditTrustedCA \/ NetworkStatusChanges \/ EditLabelled

(* Queues are served, and failed requests are tried again with a delay.    *)
TbFairness == WF_tbVars(ProxyWorks) /\ WF_tbVars(InjectorWorks)

TbSpec == TbInit /\ [][TbNext]_tbVars
TbFairSpec == TbSpec /\ TbFairness

--------------------------------------------------------------------------------
TbReports == {"none", "Degraded", "MaybeDegraded", "NotDegraded"}
Certs == Certificates \cup {"system"}
TbTypeOK ==
  /\ tbProxy.spec \in ProxySpecs /\ tbCAs \in [CANames -> Certificates \cup {"absent", "invalid"}]
  /\ tbNetwork \in Networks \cup {"missing"}
  /\ tbBundle \subseteq Certs /\ tbMaps \in [Labelled -> SUBSET Certs]
  /\ tbWorker.queue \subseteq {ProxyRequest} \cup CANames
  /\ tbInjector.queue \subseteq {BundleRequest} \cup Labelled
  /\ tbInjector.todo \subseteq Labelled /\ tbInjector.errors \in 0 .. MaxErrors + 1
  /\ tbReports \in [{"ProxyConfig", "InjectorConfig"} -> TbReports]
  /\ tbLeft \in [edits : 0 .. MaxTbEdits, faults : 0 .. MaxTbFaults]

Acceptable ==
  /\ ValidateProxyConfig(tbProxy.spec) /\ TrustedCAValid(tbProxy.spec)
  /\ HasNoProxy(tbProxy.spec) => tbNetwork # "missing"
Distributed ==
  /\ \A m \in Labelled : tbMaps[m] = MergedBundle(tbProxy.spec, tbCAs)
  /\ tbProxy.status = NewStatus(tbProxy.spec, tbNetwork)

(* Once the proxy configuration stays acceptable, every labelled config    *)
(* map ends up with the system's certificates and those of the config map  *)
(* the proxy names, as it is then, and the status of the proxy with the    *)
(* networks of the cluster, whatever was edited, refused, failed or        *)
(* restarted before (ReconcileProxyConfig.Reconcile and                    *)
(* ReconcileConfigMapInjector.Reconcile, neither of which looks again at   *)
(* what it skipped).                                                       *)
TrustDistributed == <>[]Acceptable => <>[]Distributed
================================================================================
