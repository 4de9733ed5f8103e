------------------------------ MODULE CertSigner ------------------------------
(***************************************************************************)
(* Certificates of the nodes.  The PKI controller keeps the certificate    *)
(* authority of every OperatorPKI; the signer approves the requests (CSRs) *)
(* that nodes make and signs them with the authority of one of these.      *)
(*                                                                         *)
(* The signer works on a copy of the request.  A write with a copy that is *)
(* not the stored request any more is refused (the API server compares     *)
(* resource versions).                                                     *)
(***************************************************************************)
EXTENDS Integers

CONSTANTS
  Requests,     \* certificate signing requests for this signer
  PKIs,         \* OperatorPKI objects besides SignerPKI
  SignerPKI,    \* the one whose authority signs
  MaxSgEdits, MaxSgFaults

ASSUME SgAssumption == Requests # {} /\ MaxSgEdits \in Nat /\ MaxSgFaults \in Nat

VARIABLES
  sgStored,   \* sgStored[c]: the request in the API server
  sgNodes,    \* requests made in the name of a node of the cluster
  sgCA,       \* sgCA[p]: authority of the PKI, "absent", "good" or "corrupt"
  sgSpecs,    \* sgSpecs[p]: spec of the OperatorPKI, 0 when deleted
  sgSigner,   \* the signer: queue, request, copy and next step
  sgPki,      \* the PKI controller: queue, pkis and pkiErrs
  sgReports,  \* last report of each to the status manager
  sgLeft      \* edits and faults left

sgVars == <<sgStored, sgNodes, sgCA, sgSpecs, sgSigner, sgPki, sgReports, sgLeft>>

AllPKIs == PKIs \cup {SignerPKI}
NotFailed == "no"
NewCSR(ok) == [exists |-> TRUE, decodable |-> ok, approved |-> FALSE, denied |-> FALSE,
               failed |-> NotFailed, cert |-> FALSE]

SgReport(who, what) == sgReports' = [sgReports EXCEPT ![who] = what]

--------------------------------------------------------------------------------
(* The signer                                                              *)

SignerIdle == "idle"
SignerAt(step) == sgSigner.at = step
Copy == sgSigner.copy
Stored == sgStored[sgSigner.request]
(* The request is handled, and again later when the handler failed.        *)
Handled(again) ==
  [sgSigner EXCEPT !.at = SignerIdle, !.queue = @ \cup (IF again THEN {sgSigner.request} ELSE {})]
Go(step) == sgSigner' = [sgSigner EXCEPT !.at = step]
GoFail(reason) == sgSigner' = [sgSigner EXCEPT !.at = "fail", !.reason = reason]

(* A request that is gone, or made for another signer, is dropped.         *)
GetCSR(c) ==
  /\ SignerAt(SignerIdle) /\ c \in sgSigner.queue
  /\ sgSigner' = [sgSigner EXCEPT !.queue = @ \ {c}, !.request = c, !.copy = sgStored[c],
                                  !.at = IF sgStored[c].exists THEN "user" ELSE SignerIdle]
  /\ UNCHANGED <<sgStored, sgNodes, sgCA, sgSpecs, sgPki, sgReports, sgLeft>>

isValidUserName(c) == c \in sgNodes

\* Mutant: what nobody has denied counts as approved.
Bug_NotDenied(copy) == ~copy.denied

isCertificateRequestApproved(copy) == copy.approved /\ ~copy.denied

CheckCSR ==
  /\ SignerAt("user")
  /\ IF ~isValidUserName(sgSigner.request) THEN GoFail("CSRInvalidUser")
     ELSE IF Copy.cert THEN sgSigner' = Handled(FALSE)
     ELSE IF ~isCertificateRequestApproved(Copy) THEN Go("approve")
     ELSE Go("ca")
  /\ UNCHANGED <<sgStored, sgNodes, sgCA, sgSpecs, sgPki, sgReports, sgLeft>>

(* The API server refuses a request that is approved and denied.           *)
Approve ==
  /\ SignerAt("approve")
  /\ IF Stored = Copy /\ ~Copy.denied
     THEN /\ sgStored' = [sgStored EXCEPT ![sgSigner.request].approved = TRUE]
          /\ sgSigner' = Handled(TRUE)      \* the event of this change
     ELSE sgSigner' = Handled(TRUE) /\ UNCHANGED sgStored
  /\ UNCHANGED <<sgNodes, sgCA, sgSpecs, sgPki, sgReports, sgLeft>>

GetCA ==
  /\ SignerAt("ca")
  /\ IF sgCA[SignerPKI] = "absent" THEN GoFail("CAFailure")
     ELSE IF ~Copy.decodable THEN GoFail("CSRDecodeFailure")
     ELSE IF sgCA[SignerPKI] = "corrupt" THEN GoFail("CorruptCACert")
     ELSE Go("sign")
  /\ UNCHANGED <<sgStored, sgNodes, sgCA, sgSpecs, sgPki, sgReports, sgLeft>>

signCSR ==
  /\ SignerAt("sign")
  /\ IF Stored = Copy
     THEN /\ sgStored' = [sgStored EXCEPT ![sgSigner.request].cert = TRUE]
          /\ sgSigner' = Handled(TRUE)      \* the event of this change
          /\ SgReport("CertificateSigner", "NotDegraded")
     ELSE sgSigner' = Handled(TRUE) /\ UNCHANGED <<sgStored, sgReports>>
  /\ UNCHANGED <<sgNodes, sgCA, sgSpecs, sgPki, sgLeft>>

\* Mutant: a request that found no authority is not tried again.
Bug_NoRetry(reason) == FALSE

(* Only a missing authority makes the handler return an error.             *)
ReturnsError(reason) == reason = "CAFailure"
SignerFault(reason) == reason \in {"CAFailure", "CorruptCACert"}

(* The condition carries the time of the update in seconds, so that the    *)
(* same reason is an event (again) in a later second only.                 *)
UpdateCSRStatusConditions ==
  /\ SignerAt("fail")
  /\ \E event \in BOOLEAN :
       IF Stored = Copy
       THEN /\ Copy.failed # sgSigner.reason => event
            /\ sgStored' = [sgStored EXCEPT ![sgSigner.request].failed = sgSigner.reason]
            /\ sgSigner' = Handled(event \/ ReturnsError(sgSigner.reason))
            /\ IF SignerFault(sgSigner.reason) THEN SgReport("CertificateSigner", "MaybeDegraded")
               ELSE UNCHANGED sgReports
       ELSE /\ ~event
            /\ sgSigner' = Handled(ReturnsError(sgSigner.reason))
            /\ SgReport("CertificateSigner", "MaybeDegraded")
            /\ UNCHANGED sgStored
  /\ UNCHANGED <<sgNodes, sgCA, sgSpecs, sgPki, sgLeft>>

--------------------------------------------------------------------------------
(* The PKI controller                                                      *)

setStatus(errs) ==
  SgReport("PKIConfig", IF errs = {} THEN "NotDegraded" ELSE "MaybeDegraded")

(* A deleted OperatorPKI is forgotten by its queue only.                   *)
PkiDeleted(p) ==
  /\ p \in sgPki.queue /\ sgSpecs[p] = 0
  /\ sgPki' = [sgPki EXCEPT !.queue = @ \ {p}]
  /\ UNCHANGED <<sgStored, sgNodes, sgCA, sgSpecs, sgSigner, sgReports, sgLeft>>

(* A PKI is set up when it is new or its spec has changed; its sync makes  *)
(* a missing authority and fails on one it cannot read.  A request that    *)
(* succeeded comes again after ResyncPeriod.                               *)
ReconcilePKI(p) ==
  /\ p \in sgPki.queue /\ sgSpecs[p] # 0
  /\ LET fails == sgCA[p] = "corrupt"
         errs == IF fails THEN sgPki.pkiErrs \cup {p} ELSE sgPki.pkiErrs \ {p}
     IN  /\ sgPki' = [sgPki EXCEPT !.pkis[p] = sgSpecs[p], !.pkiErrs = errs]
         /\ sgCA' = [sgCA EXCEPT ![p] = IF fails THEN @ ELSE "good"]
         /\ setStatus(errs)
  /\ UNCHANGED <<sgStored, sgNodes, sgSpecs, sgSigner, sgLeft>>

--------------------------------------------------------------------------------
(* Faults, users and the cluster                                           *)

SgFault == sgLeft.faults > 0 /\ sgLeft' = [sgLeft EXCEPT !.faults = @ - 1]
SgEdit == sgLeft.edits > 0 /\ sgLeft' = [sgLeft EXCEPT !.edits = @ - 1]

(* The list of the nodes, the approval or the certificate cannot be        *)
(* obtained or written.                                                    *)
SignerCallFails ==
  /\ sgSigner.at \in {"user", "approve", "sign"} /\ SgFault
  /\ sgSigner' = Handled(TRUE)
  /\ UNCHANGED <<sgStored, sgNodes, sgCA, sgSpecs, sgPki, sgReports>>

(* A secret that cannot be read is like one that is missing.               *)
GetCAFails ==
  /\ SignerAt("ca") /\ SgFault /\ GoFail("CAFailure")
  /\ UNCHANGED <<sgStored, sgNodes, sgCA, sgSpecs, sgPki, sgReports>>

PkiSyncFails ==
  /\ SgFault
  /\ \E p \in sgPki.queue :
       /\ sgSpecs[p] # 0
       /\ sgPki' = [sgPki EXCEPT !.pkis[p] = sgSpecs[p], !.pkiErrs = @ \cup {p}]
  /\ SgReport("PKIConfig", "MaybeDegraded")
  /\ UNCHANGED <<sgStored, sgNodes, sgCA, sgSpecs, sgSigner>>

NewSigner == [queue |-> Requests, request |-> CHOOSE c \in Requests : TRUE,
              copy |-> NewCSR(TRUE), at |-> SignerIdle, reason |-> NotFailed]
NewPkiReconciler == [queue |-> AllPKIs, pkis |-> [p \in AllPKIs |-> 0], pkiErrs |-> {}]

SgRestart ==
  /\ SgFault
  /\ sgSigner' = NewSigner /\ sgPki' = NewPkiReconciler
  /\ UNCHANGED <<sgStored, sgNodes, sgCA, sgSpecs, sgReports>>

(* An administrator decides on a request, or it is deleted.                *)
EditCSR ==
  /\ SgEdit
  /\ \E c \in Requests :
       /\ sgStored[c].exists
       /\ \/ ~sgStored[c].denied /\ sgStored' = [sgStored EXCEPT ![c].approved = TRUE]
          \/ ~sgStored[c].approved /\ sgStored' = [sgStored EXCEPT ![c].denied = TRUE]
          \/ sgStored' = [sgStored EXCEPT ![c].exists = FALSE]
       /\ sgSigner' = [sgSigner EXCEPT !.queue = @ \cup {c}]
  /\ UNCHANGED <<sgNodes, sgCA, sgSpecs, sgPki, sgReports>>

NodesChange ==
  /\ SgEdit
  /\ \E c \in Requests : sgNodes' = IF c \in sgNodes THEN sgNodes \ {c} ELSE sgNodes \cup {c}
  /\ UNCHANGED <<sgStored, sgCA, sgSpecs, sgSigner, sgPki, sgReports>>

(* The secret of an authority is deleted or overwritten.                   *)
EditCA ==
  /\ SgEdit
  /\ \E p \in AllPKIs, ca \in {"absent", "corrupt"} : sgCA' = [sgCA EXCEPT ![p] = ca]
  /\ UNCHANGED <<sgStored, sgNodes, sgSpecs, sgSigner, sgPki, sgReports>>

EditPKI ==
  /\ SgEdit
  /\ \E p \in AllPKIs, spec \in 0 .. 2 : sgSpecs' = [sgSpecs EXCEPT ![p] = spec]
  /\ sgPki' = [sgPki EXCEPT !.queue = @ \cup {p \in AllPKIs : sgSpecs'[p] # sgSpecs[p]}]
  /\ UNCHANGED <<sgStored, sgNodes, sgCA, sgSigner, sgReports>>

SgInit ==
  /\ sgStored \in [Requests -> {NewCSR(ok) : ok \in BOOLEAN}]
  /\ sgNodes \in SUBSET Requests
  /\ sgCA = [p \in AllPKIs |-> "absent"] /\ sgSpecs = [p \in AllPKIs |-> 1]
  /\ sgSigner = NewSigner /\ sgPki = NewPkiReconciler
  /\ sgReports = [who \in {"CertificateSigner", "PKIConfig"} |-> "none"]
  /\ sgLeft = [edits |-> MaxSgEdits, faults |-> MaxSgFaults]

SignerSteps == CheckCSR \/ Approve \/ GetCA \/ signCSR \/ UpdateCSRStatusConditions
SgNext ==
  \/ \E c \in Requests : GetCSR(c)
  \/ SignerSteps
  \/ \E p \in AllPKIs : PkiDeleted(p) \/ ReconcilePKI(p)
  \/ SignerCallFails \/ GetCAFails \/ PkiSyncFails \/ SgRestart
  \/ EditCSR \/ NodesChange \/ EditCA \/ EditPKI

(* Work queues serve every request in turn.                                *)
SgFairness ==
  /\ WF_sgVars(SignerSteps)
  /\ \A c \in Requests : SF_sgVars(GetCSR(c))
  /\ \A p \in AllPKIs : WF_sgVars(ReconcilePKI(p))

SgSpec == SgInit /\ [][SgNext]_sgVars
SgFairSpec == SgSpec /\ SgFairness

--------------------------------------------------------------------------------
SgReasons == {NotFailed, "CSRInvalidUser", "CAFailure", "CSRDecodeFailure", "CorruptCACert"}
CSRRecord == [exists : BOOLEAN, decodable : BOOLEAN, approved : BOOLEAN, denied : BOOLEAN,
              failed : SgReasons, cert : BOOLEAN]
SgTypeOK ==
  /\ sgStored \in [Requests -> CSRRecord] /\ sgNodes \subseteq Requests
  /\ sgCA \in [AllPKIs -> {"absent", "good", "corrupt"}] /\ sgSpecs \in [AllPKIs -> 0 .. 2]
  /\ sgSigner \in [queue : SUBSET Requests, request : Requests, copy : CSRRecord, reason : SgReasons,
                   at : {SignerIdle, "user", "approve", "ca", "sign", "fail"}]
  /\ sgPki \in [queue : SUBSET AllPKIs, pkis : [AllPKIs -> 0 .. 2], pkiErrs : SUBSET AllPKIs]
  /\ sgReports \in [{"CertificateSigner", "PKIConfig"} -> {"none", "NotDegraded", "MaybeDegraded"}]
  /\ sgLeft \in [edits : 0 .. MaxSgEdits, faults : 0 .. MaxSgFaults]

(* A certificate is in no request but one that is approved and that can be *)
(* decoded, though the request may be denied or deleted between the check  *)
(* and the signature, which takes three calls more (Reconcile, signCSR).   *)
SignedIfApproved ==
  \A c \in Requests :
    sgStored[c].cert => sgStored[c].approved /\ ~sgStored[c].denied /\ sgStored[c].decodable

Signable(c) ==
  /\ c \in sgNodes /\ sgStored[c].exists /\ sgStored[c].decodable /\ ~sgStored[c].denied
  /\ sgCA[SignerPKI] # "corrupt" /\ sgSpecs[SignerPKI] # 0

(* A node whose request is not denied, not deleted and well formed gets    *)
(* its certificate, though the authority may be made late or go missing,   *)
(* administrators write the request meanwhile, calls fail and the operator *)
(* restarts (ReconcileCSR.Reconcile drops a request on most of its ways    *)
(* out).  The authority must never be unreadable and the node must be      *)
(* there: the signer gives up on a request it meets in these cases.        *)
NodesGetCertificates == \A c \in Requests : []Signable(c) => <>sgStored[c].cert
================================================================================
