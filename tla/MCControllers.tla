------------------------------ MODULE MCControllers ------------------------------
(* Small instances of the controllers besides the status manager.  They    *)
(* share no state, so that their interleavings say nothing new: a behaviour *)
(* is one of a single controller, chosen by sel, and the others stay in a  *)
(* fixed initial state.                                                    *)
EXTENDS MCOperConfig, EndpointChecker, Observability, InfraConfig, TrustBundle, CertSigner

VARIABLE sel

Selected == {"OperConfig", "EndpointChecker", "Observability", "InfraConfig", "TrustBundle", "CertSigner"}

(* Proxy settings with and without a trusted CA, with a user's list of     *)
(* exceptions, with the list "*", and settings that do not work.           *)
ProxySpec(s, c, n) == [settings |-> s, ca |-> c, noProxy |-> n]
MCProxyEdits == {ProxySpec("none", "user-ca-bundle", "unset"), ProxySpec("valid", "user-ca-bundle", "user"),
                 ProxySpec("valid", "unset", "*"), ProxySpec("unready", "unset", "unset")}

(* VIPs are numbers, those from 11 IPv6 addresses; a network is the set of *)
(* its addresses.                                                          *)
Net4 == 1 .. 9
Net6 == 11 .. 19
Far == 5 .. 6
VipSpec(a, i, n) == [api |-> a, ingress |-> i, nets |-> n]
MCInfraSpecs ==
  {VipSpec(<<>>, <<>>, <<Net4>>), VipSpec(<<1>>, <<2>>, <<Net4>>),
   VipSpec(<<1, 11>>, <<2, 12>>, <<Net4, Net6>>), VipSpec(<<1>>, <<2>>, <<Net6, Net4>>),
   VipSpec(<<1, 3>>, <<2, 4>>, <<>>), VipSpec(<<3>>, <<4>>, <<>>),
   VipSpec(<<1>>, <<1>>, <<Far>>), VipSpec(<<1, 11>>, <<2>>, <<>>)}
VipStatus(a, i, oldA, oldI) ==
  [api |-> a, ingress |-> i, nets |-> <<>>, old |-> [api |-> oldA, ingress |-> oldI]]
MCInfraStatuses ==
  {VipStatus(<<>>, <<>>, 1, 2), VipStatus(<<1>>, <<2>>, 0, 0), VipStatus(<<1, 11>>, <<2, 12>>, 11, 2)}

--------------------------------------------------------------------------------
CtInit ==
  /\ sel \in Selected
  /\ OcInit /\ EpInit /\ ObInit /\ IcInit /\ TbInit /\ SgInit
  /\ sel # "Observability" =>
       obWorld.sno /\ ~obWorld.available /\ obWorld.ns = "absent"
  /\ sel # "InfraConfig" =>
       icPlatform.type = "VSphere" /\ icObject.status = VipStatus(<<1>>, <<2>>, 0, 0)
  /\ sel # "TrustBundle" => \A n \in CANames : tbCAs[n] = "absent"
  /\ sel # "CertSigner" => sgNodes = {} /\ \A c \in Requests : sgStored[c].decodable

CtNext ==
  \/ /\ sel = "OperConfig" /\ OcNext
     /\ UNCHANGED <<sel, epVars, obVars, icVars, tbVars, sgVars>>
  \/ /\ sel = "EndpointChecker" /\ EpNext
     /\ UNCHANGED <<sel, vars, obVars, icVars, tbVars, sgVars>>
  \/ /\ sel = "Observability" /\ ObNext
     /\ UNCHANGED <<sel, vars, epVars, icVars, tbVars, sgVars>>
  \/ /\ sel = "InfraConfig" /\ IcNext
     /\ UNCHANGED <<sel, vars, epVars, obVars, tbVars, sgVars>>
  \/ /\ sel = "TrustBundle" /\ TbNext
     /\ UNCHANGED <<sel, vars, epVars, obVars, icVars, sgVars>>
  \/ /\ sel = "CertSigner" /\ SgNext
     /\ UNCHANGED <<sel, vars, epVars, obVars, icVars, tbVars>>

(* The fairness of each controller, for the one that runs.                 *)
CtFairness ==
  /\ WF_vars(sel = "OperConfig" /\ Step) /\ WF_vars(sel = "OperConfig" /\ ClusterConfigReconcile)
  /\ WF_vars(sel = "OperConfig" /\ Prober)
  /\ WF_obVars(sel = "Observability" /\ ObReconcile) /\ WF_obVars(sel = "Observability" /\ ObTick)
  /\ WF_tbVars(sel = "TrustBundle" /\ ProxyWorks) /\ WF_tbVars(sel = "TrustBundle" /\ InjectorWorks)
  /\ WF_sgVars(sel = "CertSigner" /\ SignerSteps)
  /\ \A c \in Requests : SF_sgVars(sel = "CertSigner" /\ GetCSR(c))
  /\ \A p \in AllPKIs : WF_sgVars(sel = "CertSigner" /\ ReconcilePKI(p))

ctVars == <<sel, vars, epVars, obVars, icVars, tbVars, sgVars>>
CtSpec == CtInit /\ [][CtNext]_ctVars /\ CtFairness

--------------------------------------------------------------------------------
(* Type correctness of every controller, and for OperConfig that what runs *)
(* and what is recorded is valid and has all defaults (FillDefaults).      *)
CtTypeOK ==
  /\ sel \in Selected
  /\ OcTypeOK /\ EpTypeOK /\ ObTypeOK /\ IcTypeOK /\ TbTypeOK /\ SgTypeOK

(* TakesEffect of OperConfig: users' configuration is in effect or         *)
(* reported as not being so (Reconcile of the two controllers).            *)
ConfigTakesEffect == sel = "OperConfig" => TakesEffect

(* TrustDistributed of TrustBundle: what an acceptable proxy trusts ends   *)
(* up in every labelled config map (both controllers' Reconcile).          *)
BundleDistributed == sel = "TrustBundle" => TrustDistributed
==================================================================================
