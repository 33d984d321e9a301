-------------------------- MODULE NetworkPolicyForm --------------------------
(***************************************************************************)
(* The network policy editor of app/blueprints/deployment_pods/routes.py:  *)
(* a policy is turned into the fields of a form, and the fields back into  *)
(* a policy (app/services/yaml_generator/network_policy.py).  A policy is  *)
(* the directions it restricts and, for each, the rules that let traffic   *)
(* through; only policies of at most one rule in each direction are here,  *)
(* those the form is offered for.  A selector is absent, empty (it selects *)
(* all), made of labels, or of expressions, which the form does not know.  *)
(***************************************************************************)
EXTENDS Naturals, FiniteSets

CONSTANT MaxPeers      (* bound: peers of a rule *)

ASSUME PolicyAssumption == MaxPeers \in Nat

VARIABLES
  policy,       (* on the cluster                                           *)
  fields,       (* of the form that is open                                 *)
  open          (* is one open?                                             *)

policyVars == <<policy, fields, open>>

Directions == {"Ingress", "Egress"}
Selectors  == {"absent", "all", "labels", "expressions"}
Blocks     == {"absent", "block", "except"}
Peers == [pod: Selectors, ns: Selectors, ip: {"absent"}] \union [pod: {"absent"}, ns: {"absent"}, ip: Blocks]
SomePeer == {p \in Peers : p.pod # "absent" \/ p.ns # "absent" \/ p.ip # "absent"}

Few(S) == {T \in SUBSET S : Cardinality(T) <= MaxPeers}
(* A rule is the set of its peers; a direction has no rule or one. *)
Rules    == {{}} \union {{peers} : peers \in Few(SomePeer)}
Policies == [types: (SUBSET Directions) \ {{}}, rules: [Directions -> Rules]]

Rows  == [type: {"pod", "namespace", "ip_block"}, blank: BOOLEAN]
Forms == [enabled: SUBSET Directions, rows: [Directions -> Few(Rows)]]
NoForm == [enabled |-> {}, rows |-> [d \in Directions |-> {}]]

-----------------------------------------------------------------------------
(* What a policy lets through.  A source is a pod of the policy's          *)
(* namespace or of another, which labels and expressions may select, or an *)
(* address in a block or in its exceptions.                                *)

Sources == [own: BOOLEAN, labels: BOOLEAN, expressions: BOOLEAN, nsLabels: BOOLEAN, nsExpressions: BOOLEAN]
Addresses == {"address", "excepted"}

SelectsPod(sel, s) == sel \in {"absent", "all"} \/ (sel = "labels" /\ s.labels) \/ (sel = "expressions" /\ s.expressions)
SelectsNamespace(sel, s) ==
  CASE sel = "absent"      -> s.own
    [] sel = "all"         -> TRUE
    [] sel = "labels"      -> s.nsLabels
    [] sel = "expressions" -> s.nsExpressions
LetsThrough(peer) ==
  CASE peer.ip = "block"  -> Addresses
    [] peer.ip = "except" -> {"address"}
    [] OTHER -> {s \in Sources : SelectsPod(peer.pod, s) /\ SelectsNamespace(peer.ns, s)}

(* A rule without peers lets everything through, no rule nothing. *)
Everything == {<<"pod", s>> : s \in Sources} \union {<<"address", s>> : s \in Addresses}
Tagged(peer) == {<<IF peer.ip = "absent" THEN "pod" ELSE "address", s>> : s \in LetsThrough(peer)}
RuleAllows(peers) == IF peers = {} THEN Everything ELSE UNION {Tagged(p) : p \in peers}
Allowed(P, d) ==
  IF d \notin P.types THEN Everything ELSE UNION {RuleAllows(peers) : peers \in P.rules[d]}

-----------------------------------------------------------------------------
(* From a policy to the form, and back. *)

TypesOnly(P) ==                                              (* mutant *)
  [enabled |-> P.types, rows |-> [d \in Directions |-> {}]]

(* _netpol_peer_dict_to_row: the first of the three a peer has. *)
PeerToRow(peer) ==
  CASE peer.pod # "absent" -> [type |-> "pod", blank |-> peer.pod # "labels"]
    [] peer.pod = "absent" /\ peer.ns # "absent" -> [type |-> "namespace", blank |-> peer.ns # "labels"]
    [] OTHER -> [type |-> "ip_block", blank |-> FALSE]

(* _netpol_spec_to_form_fields *)
SpecToFormFields(P) ==
  [enabled |-> {d \in Directions : d \in P.types \/ P.rules[d] # {}},
   rows    |-> [d \in Directions |-> {PeerToRow(p) : p \in UNION P.rules[d]}]]

(* _build_peer: nothing for a blank row. *)
BuildPeer(row) ==
  CASE row.type = "pod"       -> [pod |-> "labels", ns |-> "absent", ip |-> "absent"]
    [] row.type = "namespace" -> [pod |-> "absent", ns |-> "labels", ip |-> "absent"]
    [] row.type = "ip_block"  -> [pod |-> "absent", ns |-> "absent", ip |-> "block"]
BuildRule(rows) == {BuildPeer(row) : row \in {r \in rows : ~r.blank}}

(* network_policy.build: one rule for each enabled direction. *)
BuildPolicy(f) ==
  [types |-> f.enabled,
   rules |-> [d \in Directions |-> IF d \in f.enabled THEN {BuildRule(f.rows[d])} ELSE {}]]

-----------------------------------------------------------------------------
RenderNetworkPolicies ==
  /\ ~open /\ open' = TRUE
  /\ fields' = SpecToFormFields(policy)
  /\ UNCHANGED policy

SavedPolicy(f) ==
  /\ f.enabled # {}
  /\ policy' = BuildPolicy(f)
  /\ open' = FALSE /\ fields' = NoForm

(* Saved as it was shown, or with the rows of a direction changed. *)
EditNetworkPolicy ==
  /\ open
  /\ \/ SavedPolicy(fields)
     \/ \E d \in Directions, rows \in Few(Rows) : SavedPolicy([fields EXCEPT !.rows[d] = rows])

(* Others write the policy, as YAML, here or with kubectl. *)
WriteYaml ==
  /\ \/ \E d \in Directions, rules \in Rules : policy' = [policy EXCEPT !.rules[d] = rules]
     \/ \E types \in (SUBSET Directions) \ {{}} : policy' = [policy EXCEPT !.types = types]
  /\ UNCHANGED <<fields, open>>

(* An existing policy of the name is replaced. *)
CreateNetworkPolicy == ~open /\ \E f \in Forms : SavedPolicy(f)

PolicyInit == policy \in Policies /\ fields = NoForm /\ open = FALSE
PolicyNext == RenderNetworkPolicies \/ EditNetworkPolicy \/ WriteYaml \/ CreateNetworkPolicy
PolicySpec == PolicyInit /\ [][PolicyNext]_policyVars

-----------------------------------------------------------------------------
PolicyTypeOK ==
  /\ policy.types \in (SUBSET Directions) \ {{}} /\ policy.rules \in [Directions -> Rules]
  /\ fields.enabled \subseteq Directions /\ \A d \in Directions : fields.rows[d] \subseteq Rows
  /\ open \in BOOLEAN

(* What a form's peers can be; the form knows a direction that is left    *)
(* alone, or restricted to one rule.                                       *)
FormPeers == {BuildPeer(row) : row \in Rows}
Expressible(P, d) ==
  \/ d \notin P.types /\ P.rules[d] = {}
  \/ d \in P.types /\ \E peers \in SUBSET FormPeers : P.rules[d] = {peers}

(* A policy shown in the form and saved as it was shown lets through what  *)
(* it did, in every direction that the form can express.  The docstring of *)
(* _netpol_spec_to_form_fields promises it for every policy with at most   *)
(* one rule in each direction, which is too much: see the README.          *)
SaveKeepsTraffic ==
  [][open /\ ~open' /\ fields = SpecToFormFields(policy) /\ policy' = BuildPolicy(fields)
     => \A d \in Directions : Expressible(policy, d) => Allowed(policy', d) = Allowed(policy, d)]_policyVars
=============================================================================
