--------------------------- MODULE ClusterObjects ---------------------------
(***************************************************************************)
(* The pages of app/blueprints/deployment_pods/routes.py on which          *)
(* administrators edit namespaces, secrets, config maps and ingresses of a *)
(* cluster that others change too.  A page shows what the cluster held     *)
(* when it was rendered; a save sends a whole manifest through kubectl     *)
(* apply, which adds, changes and removes fields by comparing it with what *)
(* was last applied.  A pod gets the values of a secret when it starts, so *)
(* the save of a secret goes on to restart the Deployments that use it.    *)
(* Every field is a number: 0 when absent, else the write that set it.     *)
(***************************************************************************)
EXTENDS Naturals

CONSTANTS
  Admins,       (* requests of administrators                               *)
  Keys,         (* labels of a namespace, keys of a secret or a config map  *)
  Users,        (* Deployments whose pod template references the secret     *)
  MaxWrites,    (* bound: writes of values                                  *)
  MaxOutside    (* bound: changes by others                                 *)

Kinds == {"namespace", "secret", "pull", "configmap", "ingress"}

(* What the ingress form edits; what a rule has besides; what is outside   *)
(* the rules, as annotations; and further rules.                           *)
Parts == {"shown", "detail", "aside", "more"}

ASSUME ClusterAssumption ==
  /\ Keys \intersect Parts = {}
  /\ MaxWrites \in Nat /\ MaxOutside \in Nat

VARIABLES
  (* the cluster *)
  kind,         (* of the object under edit; one in a behaviour             *)
  namespace,    (* does the namespace exist?                                *)
  object,       (* there, data, and the fields last applied                 *)
  runs,         (* what the pods of each user of the secret started with    *)
  (* each request *)
  stage, seen, manifest, recorded, typed, todo,
  (* bounds and history *)
  writes, outside,
  excuse        (* the users of the secret may be behind                    *)

objectVars == <<kind, namespace, object>>
requestVars == <<stage, seen, manifest, recorded, typed, todo>>
clusterObjectsVars == <<objectVars, runs, requestVars, writes, outside, excuse>>

Absent == 0
Fields == Keys \union Parts
Nothing == [n \in Fields |-> Absent]
In(f) == {n \in Fields : f[n] # Absent}
FieldsOf == IF kind = "ingress" THEN Parts ELSE Keys

-----------------------------------------------------------------------------
(* kubectl apply of a manifest: a field it does not have goes if the last  *)
(* apply had it.  The rules of an ingress are one list, replaced whole.    *)
Applied(m, r) ==
  LET whole == IF kind = "ingress" THEN {"shown", "detail", "more"} ELSE {}
      Keep(n) == IF n \in object.applied \union whole THEN Absent ELSE object.data[n]
  IN  [there |-> TRUE, applied |-> r,
       data  |-> [n \in Fields |-> IF m[n] # Absent THEN m[n] ELSE Keep(n)]]

(* _pod_spec_references_secret, for every Deployment of the namespace. *)
DeploymentsUsing == Users

-----------------------------------------------------------------------------
(* Pages: what the edit form of each kind carries. *)

RenderNamespaces == object.data
RenderSecrets    == Nothing                     (* names, never values      *)
RenderConfigMaps == object.data
(* The form has the first rule; hidden if there is another.  The YAML has  *)
(* the spec without the annotations.                                       *)
FormSupported     == object.data["more"] = Absent
RenderIngressForm == [object.data EXCEPT !["detail"] = Absent, !["aside"] = Absent]
RenderIngressYaml == [object.data EXCEPT !["aside"] = Absent]

Opens(a, form) ==
  /\ stage[a] = "idle" /\ object.there
  /\ stage' = [stage EXCEPT ![a] = "page"]
  /\ seen' = [seen EXCEPT ![a] = object.data]
  /\ manifest' = [manifest EXCEPT ![a] = form]
  /\ UNCHANGED <<objectVars, runs, recorded, typed, todo, writes, outside, excuse>>

OpenPage(a) ==
  \/ kind = "namespace" /\ Opens(a, RenderNamespaces)
  \/ kind \in {"secret", "pull"} /\ Opens(a, RenderSecrets)
  \/ kind = "configmap" /\ Opens(a, RenderConfigMaps)
  \/ kind = "ingress" /\ FormSupported /\ Opens(a, RenderIngressForm)
  \/ kind = "ingress" /\ Opens(a, RenderIngressYaml)

-----------------------------------------------------------------------------
(* Saves: from a page, a request carries what the form carried, changed in *)
(* one field or in none.                                                   *)

Fresh == writes + 1
Request(a, m, r, T, where) ==
  /\ writes < MaxWrites /\ writes' = writes + 1
  /\ stage' = [stage EXCEPT ![a] = where]
  /\ manifest' = [manifest EXCEPT ![a] = m]
  /\ recorded' = [recorded EXCEPT ![a] = r]
  /\ typed' = [typed EXCEPT ![a] = T]
  /\ UNCHANGED <<objectVars, runs, seen, todo, outside, excuse>>

(* One field set or removed, or nothing changed. *)
Changes(a) ==
  {<<manifest[a], {}>>} \union
  {<<[manifest[a] EXCEPT ![n] = v], {n}>> : n \in FieldsOf \ {"detail", "aside"}, v \in {Absent, Fresh}}

SavesWhole(a, k) ==
  /\ stage[a] = "page" /\ kind = k
  /\ \E c \in Changes(a) : Request(a, c[1], In(c[1]), c[2], "apply")

EditNamespace(a) == SavesWhole(a, "namespace")
EditIngress(a)   == SavesWhole(a, "ingress")

(* A config map without keys is refused. *)
EditConfigMap(a) ==
  /\ stage[a] = "page" /\ kind = "configmap"
  /\ \E c \in Changes(a) : In(c[1]) # {} /\ Request(a, c[1], In(c[1]), c[2], "apply")

(* An opaque secret is read again first; an image pull secret is one blob. *)
Blob == [n \in Fields |-> IF n \in Keys THEN Fresh ELSE Absent]
EditSecret(a) ==
  /\ stage[a] = "page"
  /\ \/ kind = "secret" /\ \E c \in Changes(a) : Request(a, c[1], {}, c[2], "get")
     \/ kind = "pull" /\ Request(a, Blob, {}, Fields, "apply")

(* kubectl apply does not mind that the object exists.  Secrets are sent   *)
(* as stringData, which leaves no trace in what was last applied to data.  *)
CreateObject(a, k, noted) ==
  /\ stage[a] = "idle" /\ kind = k
  /\ \E n \in FieldsOf \ {"detail", "aside", "more"} :
       Request(a, [Nothing EXCEPT ![n] = Fresh], {n} \intersect noted, Fields, "apply")
CreateNamespace(a) == CreateObject(a, "namespace", Fields)
CreateSecret(a)    == CreateObject(a, "secret", {}) \/ CreateObject(a, "pull", {})
CreateConfigMap(a) == CreateObject(a, "configmap", Fields)
CreateIngress(a)   == CreateObject(a, "ingress", Fields)

(* update_secret: what the form did not touch is copied from the cluster.  *)
DropsTheRest(a) ==                                           (* mutant *)
  /\ stage[a] = "get" /\ object.there
  /\ seen' = [seen EXCEPT ![a] = object.data]
  /\ stage' = [stage EXCEPT ![a] = "apply"]
  /\ UNCHANGED <<objectVars, runs, manifest, recorded, typed, todo, writes, outside, excuse>>
UpdateSecret(a) ==
  LET kept == In(object.data) \ typed[a]
  IN  /\ stage[a] = "get" /\ object.there
      /\ seen' = [seen EXCEPT ![a] = object.data]
      /\ manifest' = [manifest EXCEPT ![a] = [n \in Fields |-> IF n \in kept THEN object.data[n] ELSE @[n]]]
      /\ recorded' = [recorded EXCEPT ![a] = kept]
      /\ stage' = [stage EXCEPT ![a] = "apply"]
      /\ UNCHANGED <<objectVars, runs, typed, todo, writes, outside, excuse>>

(* Back to the list.  Where this leaves the users of the secret behind,    *)
(* the code has logged why, or never meant to restart them.                *)
Finish(a, behind) ==
  /\ stage' = [stage EXCEPT ![a] = "idle"]
  /\ manifest' = [manifest EXCEPT ![a] = Nothing]
  /\ seen' = [seen EXCEPT ![a] = Nothing]
  /\ recorded' = [recorded EXCEPT ![a] = {}]
  /\ typed' = [typed EXCEPT ![a] = {}]
  /\ todo' = [todo EXCEPT ![a] = {}]
  /\ excuse' = (excuse \/ behind)
  /\ UNCHANGED <<writes, outside>>

(* _apply_and_respond: an exception, a failure, or success and, for an     *)
(* opaque secret with typed keys, its on_success.                        *)
Fails(a) ==
  /\ stage[a] \in {"page", "get", "apply"}
  /\ Finish(a, FALSE)
  /\ UNCHANGED <<objectVars, runs>>

Restarts(a) == kind = "secret" /\ typed[a] \notin {{}, Fields}

Apply(a) ==
  LET o == Applied(manifest[a], recorded[a])
  IN  /\ stage[a] = "apply"
      /\ kind = "namespace" \/ namespace
      /\ object' = o /\ namespace' = TRUE
      /\ IF Restarts(a)
         THEN /\ stage' = [stage EXCEPT ![a] = "scan"]
              /\ UNCHANGED <<seen, manifest, recorded, typed, todo, writes, outside, excuse>>
         ELSE Finish(a, kind = "secret" /\ o.data # object.data)
      /\ UNCHANGED <<kind, runs>>

-----------------------------------------------------------------------------
(* _restart_dependents_of_secret *)

Scan(a) ==
  /\ stage[a] = "scan"
  /\ \/ /\ todo' = [todo EXCEPT ![a] = DeploymentsUsing]
        /\ stage' = [stage EXCEPT ![a] = "restart"]
        /\ UNCHANGED <<seen, manifest, recorded, typed, writes, outside, excuse>>
     \/ Finish(a, TRUE)
  /\ UNCHANGED <<objectVars, runs>>

(* A Deployment that cannot be restarted is logged and passed over.        *)
StopsAtFirst(a, d) ==                                        (* mutant *)
  /\ stage[a] = "restart" /\ d \in todo[a]
  /\ runs' = [runs EXCEPT ![d] = object.data]
  /\ Finish(a, FALSE)
  /\ UNCHANGED objectVars
RestartDeployment(a, d) ==
  /\ stage[a] = "restart" /\ d \in todo[a]
  /\ todo' = [todo EXCEPT ![a] = @ \ {d}]
  /\ \/ runs' = [runs EXCEPT ![d] = object.data] /\ UNCHANGED excuse
     \/ excuse' = TRUE /\ UNCHANGED runs
  /\ UNCHANGED <<objectVars, stage, seen, manifest, recorded, typed, writes, outside>>

AllRestarted(a) ==
  /\ stage[a] = "restart" /\ todo[a] = {}
  /\ Finish(a, FALSE)
  /\ UNCHANGED <<objectVars, runs>>

(* Deleting a namespace deletes what is in it. *)
DeleteObject(a, k) ==
  /\ stage[a] = "idle" /\ kind = k
  /\ object' = [there |-> FALSE, data |-> Nothing, applied |-> {}]
  /\ excuse' = (excuse \/ k = "secret")
  /\ UNCHANGED <<kind, runs, requestVars, writes, outside>>
DeleteNamespace(a) == namespace /\ namespace' = FALSE /\ \E k \in Kinds : DeleteObject(a, k)
DeleteSecret(a)    == (DeleteObject(a, "secret") \/ DeleteObject(a, "pull")) /\ UNCHANGED namespace
DeleteConfigMap(a) == DeleteObject(a, "configmap") /\ UNCHANGED namespace
DeleteIngress(a)   == DeleteObject(a, "ingress") /\ UNCHANGED namespace

RestartWorkload(d) ==
  /\ kind = "secret" /\ object.there
  /\ runs' = [runs EXCEPT ![d] = object.data]
  /\ UNCHANGED <<objectVars, requestVars, writes, outside, excuse>>

-----------------------------------------------------------------------------
(* Others change the cluster; the process of a request dies. *)

OutsideChange ==
  /\ outside < MaxOutside /\ writes < MaxWrites
  /\ outside' = outside + 1 /\ writes' = writes + 1
  /\ object.there
  /\ \E n \in FieldsOf, v \in {Absent, Fresh}, apply \in BOOLEAN :
       object' = [object EXCEPT !.data[n] = v, !.applied = IF apply THEN @ \union {n} ELSE @]
  /\ excuse' = (excuse \/ kind = "secret")
  /\ UNCHANGED <<kind, namespace, runs, requestVars>>

RequestDies(a) ==
  /\ stage[a] # "idle"
  /\ Finish(a, stage[a] \in {"scan", "restart"})
  /\ UNCHANGED <<objectVars, runs>>

(* The object exists and is empty; pages and others fill it. *)
ClusterInit ==
  /\ kind \in Kinds /\ namespace = TRUE
  /\ object = [there |-> TRUE, data |-> Nothing, applied |-> {}]
  /\ runs = [d \in Users |-> Nothing]
  /\ stage = [a \in Admins |-> "idle"]
  /\ seen = [a \in Admins |-> Nothing]
  /\ manifest = [a \in Admins |-> Nothing]
  /\ recorded = [a \in Admins |-> {}]
  /\ typed = [a \in Admins |-> {}]
  /\ todo = [a \in Admins |-> {}]
  /\ writes = 0 /\ outside = 0 /\ excuse = FALSE

ClusterRequest(a) ==
  \/ OpenPage(a)
  \/ EditNamespace(a) \/ EditIngress(a) \/ EditConfigMap(a) \/ EditSecret(a)
  \/ CreateNamespace(a) \/ CreateSecret(a) \/ CreateConfigMap(a) \/ CreateIngress(a)
  \/ UpdateSecret(a) \/ Fails(a) \/ Apply(a) \/ Scan(a)
  \/ \E d \in Users : RestartDeployment(a, d)
  \/ AllRestarted(a)
  \/ DeleteNamespace(a) \/ DeleteSecret(a) \/ DeleteConfigMap(a) \/ DeleteIngress(a)
  \/ RequestDies(a)

ClusterNext ==
  \/ \E a \in Admins : ClusterRequest(a)
  \/ \E d \in Users : RestartWorkload(d)
  \/ OutsideChange

ClusterSpec == ClusterInit /\ [][ClusterNext]_clusterObjectsVars

-----------------------------------------------------------------------------
(* The variables keep their types. *)
ClusterTypeOK ==
  /\ kind \in Kinds /\ namespace \in BOOLEAN
  /\ object \in [there: BOOLEAN, data: [Fields -> 0..MaxWrites], applied: SUBSET Fields]
  /\ runs \in [Users -> [Fields -> 0..MaxWrites]]
  /\ stage \in [Admins -> {"idle", "page", "get", "apply", "scan", "restart"}]
  /\ manifest \in [Admins -> [Fields -> 0..MaxWrites]]
  /\ typed \in [Admins -> SUBSET Fields] /\ recorded \in [Admins -> SUBSET Fields]
  /\ todo \in [Admins -> SUBSET Users]

(* "Editing the Secret afterward never reaches an already-running          *)
(* container on its own": once no save of the secret is under way, every   *)
(* Deployment that uses it runs with what it holds, however two saves      *)
(* interleave, unless a restart failed and was logged, somebody else wrote *)
(* the secret, or it was created over or saved untouched.                  *)
UsersCatchUp ==
  \/ excuse \/ ~object.there \/ kind # "secret"
  \/ \E a \in Admins : stage[a] \in {"scan", "restart"}
  \/ \A d \in Users : runs[d] = object.data

(* A save of labels, of a secret or of a config map changes no key but the *)
(* ones its user typed, unless the key was changed since the page was    *)
(* rendered or, for a secret, since it was read again: then the older      *)
(* value comes back.                                                       *)
UntouchedKeysSurvive ==
  [][\A a \in Admins :
       /\ stage[a] = "apply" /\ stage'[a] # "apply"
       /\ kind \in {"namespace", "secret", "configmap"} /\ typed[a] # Fields
       => \A n \in Fields \ typed[a] :
            object.data[n] = seen[a][n] =>
              object'.data[n] = object.data[n]]_clusterObjectsVars
=============================================================================
