------------------------------- MODULE MCSite -------------------------------
(* Instances for TLC of the parts of the application that do not call each  *)
(* other: part says which of them a behaviour is about, and the variables   *)
(* of the others rest in one initial state.                                 *)
EXTENDS DeployQueue, Rollout, ClusterObjects, NetworkPolicyForm, BuildContext,
        Catalogue, Setup, TLC

CONSTANTS e1, e2, e3, e4, e5, r1, r2, r3, r4, t1, t2, b1, b2, s1, u1, main, dev

VARIABLE part

(* DeployQueue: two deploys, a stop and a restart of one target; the first *)
(* has an execution on another target besides.                            *)
TwoThenOne == (e1 :> r1) @@ (e2 :> r2) @@ (e3 :> r3) @@ (e4 :> r4) @@ (e5 :> r1)
OneApart   == [e \in Executions |-> IF e = e5 THEN t2 ELSE t1]
Lifecycle  == (r1 :> "deploy") @@ (r2 :> "deploy") @@ (r3 :> "stop") @@ (r4 :> "restart")
InOrder    == [e \in Executions |-> CASE e = e1 -> 1 [] e = e2 -> 2 [] e = e3 -> 3 [] e = e4 -> 4
                                          [] e = e5 -> 1]

(* BuildContext: two branches, one of them ahead of the other. *)
OneOnDev == [u \in CloneUsers |-> IF u \in {b2, u1} THEN dev ELSE main]
DevAhead == (main :> {1}) @@ (dev :> {1, 2})

partVars == <<vars, rolloutVars, clusterObjectsVars, policyVars, contextVars, catalogueVars, setupVars>>

SiteInit ==
  /\ part \in {"deploy", "rollout", "objects", "policy", "context", "catalogue", "setup"}
  /\ part # "rollout" => objects = {}
  /\ part # "objects" => kind = "secret"
  /\ policy = [types |-> {"Ingress"}, rules |-> [d \in Directions |-> {}]]
  /\ part # "catalogue" => edge = CHOOSE e \in Edges : TRUE
  /\ Init /\ RolloutInit /\ ClusterInit /\ PolicyInit /\ ContextInit /\ CatalogueInit /\ SetupInit

(* Bounds: nobody writes a network policy while its form is open, since     *)
(* what is said of the form is said of an up-to-date one; a clone is        *)
(* previewed or re-synced beside the builds, not both; and in Setup a seed  *)
(* fails or a release is shipped, not both, since nothing is said of the    *)
(* whole database once a seed has failed.                                   *)
SiteNext ==
  /\ UNCHANGED part
  /\ \/ part = "deploy" /\ Next
     \/ part # "deploy" /\ UNCHANGED vars
  /\ \/ part = "rollout" /\ RolloutNext
     \/ part # "rollout" /\ UNCHANGED rolloutVars
  /\ \/ part = "objects" /\ ClusterNext
     \/ part # "objects" /\ UNCHANGED clusterObjectsVars
  /\ \/ part = "policy" /\ PolicyNext /\ (open /\ open' => UNCHANGED policy)
     \/ part # "policy" /\ UNCHANGED policyVars
  /\ \/ part = "context" /\ ContextNext /\ (at'[u1] = "idle" \/ at'[s1] = "idle")
     \/ part # "context" /\ UNCHANGED contextVars
  /\ \/ part = "catalogue" /\ CatalogueNext
     \/ part # "catalogue" /\ UNCHANGED catalogueVars
  /\ \/ part = "setup" /\ SetupNext /\ (faults' = 0 \/ releases' = 0)
     \/ part # "setup" /\ UNCHANGED setupVars

(* Every part keeps the types of its module. *)
SiteTypeOK ==
  CASE part = "deploy" -> TypeOK
    [] part = "rollout" -> RolloutTypeOK
    [] part = "objects" -> ClusterTypeOK
    [] part = "policy" -> PolicyTypeOK
    [] part = "context" -> ContextTypeOK
    [] part = "catalogue" -> CatalogueTypeOK
    [] part = "setup" -> SetupTypeOK

SiteSpec == SiteInit /\ [][SiteNext]_<<partVars, part>>
=============================================================================
