------------------------------ MODULE SiteProofs ------------------------------
(* Theorems about MCSite, which has the parts of the application that do   *)
(* not call each other side by side: each of them behaves as its own       *)
(* module says, so what is proved of the modules holds of the whole.       *)
EXTENDS MCSite, DeployQueueProofs, ClusterProofs, StoreProofs

(* Whatever part a behaviour is about, every part keeps to the             *)
(* specification of its module: it moves by its own actions, or rests.     *)
THEOREM PartsKeepTheirSpecs ==
  SiteSpec => /\ Spec /\ RolloutSpec /\ ClusterSpec /\ PolicySpec
              /\ ContextSpec /\ CatalogueSpec /\ SetupSpec
<1>1. SiteInit => /\ Init /\ RolloutInit /\ ClusterInit /\ PolicyInit
                  /\ ContextInit /\ CatalogueInit /\ SetupInit
  BY DEF SiteInit
<1>2. [SiteNext]_<<partVars, part>> =>
        /\ [Next]_vars /\ [RolloutNext]_rolloutVars /\ [ClusterNext]_clusterObjectsVars
        /\ [PolicyNext]_policyVars /\ [ContextNext]_contextVars /\ [CatalogueNext]_catalogueVars
        /\ [SetupNext]_setupVars
  BY DEF SiteNext, partVars
<1>3. QED
  BY <1>1, <1>2, PTL
     DEF SiteSpec, Spec, RolloutSpec, ClusterSpec, PolicySpec, ContextSpec, CatalogueSpec, SetupSpec

(* The part a behaviour is about keeps its types, as do the others.        *)
THEOREM SiteTypeCorrect == SiteSpec => []SiteTypeOK
<1> DEFINE Names  == {"deploy", "rollout", "objects", "policy", "context", "catalogue", "setup"}
           PartOK == part \in Names
<1>1. /\ TypeOK /\ RolloutTypeOK /\ ClusterTypeOK /\ PolicyTypeOK
      /\ ContextTypeOK /\ CatalogueTypeOK /\ SetupTypeOK /\ PartOK
      => SiteTypeOK
  BY DEF SiteTypeOK
<1>2. SiteSpec => []PartOK
  <2>1. SiteInit => PartOK
    BY DEF SiteInit
  <2>2. PartOK /\ [SiteNext]_<<partVars, part>> => PartOK'
    BY DEF SiteNext
  <2>3. QED
    BY <2>1, <2>2, PTL DEF SiteSpec
<1> HIDE DEF PartOK
<1>3. QED
  BY <1>1, <1>2, PartsKeepTheirSpecs, TypeCorrect, RolloutTypeCorrect, ClusterTypeCorrect,
     PolicyTypeCorrect, ContextTypeCorrect, CatalogueTypeCorrect, SetupTypeCorrect, PTL
=============================================================================
