------------------------------ MODULE Catalogue ------------------------------
(***************************************************************************)
(* The rows that administrators keep, and their references to one another: *)
(* the create, edit, delete, disable and enable routes of the blueprints   *)
(* over the foreign keys of app/models.                                    *)
(*                                                                         *)
(* A behaviour is about one reference of the schema, chosen at the start,  *)
(* one row that is referred to and the rows that may refer to it.  A route *)
(* looks (it validates a form, or counts the referrers of what it is to    *)
(* delete) and later commits; other requests may commit in between.        *)
(***************************************************************************)
EXTENDS Naturals, FiniteSets

CONSTANTS Referrers,     \* rows that may refer to the target
          Requests       \* requests that may be in progress at a time

ASSUME CatalogueAssumption == Referrers # {} /\ Requests # {}

VARIABLES
    edge,      \* the reference: from which kind of row to which, and on delete
    target,    \* the row referred to
    refs,      \* the rows that refer to it
    does,      \* what a request is about to commit
    subject,   \* the referrer this is about
    late,      \* references made since a request for deletion has counted
    dropped    \* referrers whose owner gave the reference up

catalogueVars == <<edge, target, refs, does, subject, late, dropped>>

----------------------------------------------------------------------------
(* References.  When the target is deleted the session or the database     *)
(*   refuses   while a NOT NULL or unmapped foreign key names it;          *)
(*   lets_go   nulls the column, or deletes the rows of the secondary      *)
(*             table, of a relationship that the target's side knows;      *)
(*   detached  as the route itself has nulled or deleted the referrers;    *)
(*   cascades  and deletes the referrers;                                  *)
(*   ignores   a reference by code, without a foreign key.                 *)
Edge(from, to, on) == [from |-> from, to |-> to, on |-> on]

BuilderEdges     == {Edge("builder", "version", "refuses"), Edge("builder", "repository", "refuses"),
                     Edge("builder", "registry", "refuses"), Edge("builder", "dockerfile", "lets_go"),
                     Edge("builder", "role", "lets_go")}
BuildEdges       == {Edge("build", "builder", "refuses")}
BatchEdges       == {Edge("batch", "version", "refuses"), Edge("batch", "user", "refuses")}
VersionEdges     == {Edge("version", "version", "refuses")}
RepositoryEdges  == {Edge("repository", "connection", "refuses")}
ManifestEdges    == {Edge("manifest", "server", "lets_go"), Edge("manifest", "user", "lets_go")}
BindingEdges     == {Edge("binding", "manifest", "detached"), Edge("binding", "builder", "refuses")}
ExecutionEdges   == {Edge("execution", "manifest", "detached"), Edge("execution", "server", "refuses")}
RunEdges         == {Edge("deployment_run", "user", "refuses")}
ServerEdges      == {Edge("server", "role", "lets_go")}
WorkflowEdges    == {Edge("workflow", "role", "lets_go"), Edge("workflow", "user", "refuses")}
StepEdges        == {Edge("step", "workflow", "cascades"), Edge("step", "builder", "refuses"),
                     Edge("step", "manifest", "refuses")}
WorkflowRunEdges == {Edge("workflow_run", "workflow", "refuses"), Edge("workflow_run", "user", "refuses")}
StepRunEdges     == {Edge("step_run", "step", "refuses")}
UserEdges        == {Edge("user", "role", "lets_go"), Edge("user", "user", "detached")}
LogEdges         == {Edge("log", "user", "detached")}
RoleEdges        == {Edge("role", "permission", "lets_go")}
MenuEdges        == {Edge("menu", "menu", "lets_go"), Edge("menu", "permission", "ignores")}

Edges == UNION {BuilderEdges, BuildEdges, BatchEdges, VersionEdges, RepositoryEdges, ManifestEdges,
                BindingEdges, ExecutionEdges, RunEdges, ServerEdges, WorkflowEdges, StepEdges,
                WorkflowRunEdges, StepRunEdges, UserEdges, LogEdges, RoleEdges, MenuEdges}

(* Rows that are written with another one. *)
Owner == CASE edge.from = "binding"   -> "manifest"
           [] edge.from = "build"     -> "batch"
           [] edge.from = "execution" -> "deployment_run"
           [] edge.from = "step_run"  -> "workflow_run"
           [] OTHER                   -> edge.from

Exists      == target \in {"active", "disabled"}
Doings      == {"nothing", "refer", "drop", "lose", "delete"}
SomeRow     == CHOOSE r \in Referrers : TRUE

CatalogueTypeOK ==
    /\ edge \in Edges /\ target \in {"none", "active", "disabled", "gone"}
    /\ refs \subseteq Referrers /\ dropped \subseteq Referrers
    /\ does \in [Requests -> Doings] /\ subject \in [Requests -> Referrers]
    /\ late \in [Requests -> SUBSET Referrers]

CatalogueInit ==
    /\ edge \in Edges /\ target = "none" /\ refs = {}
    /\ does = [q \in Requests |-> "nothing"] /\ subject = [q \in Requests |-> SomeRow]
    /\ late = [q \in Requests |-> {}] /\ dropped = {}

----------------------------------------------------------------------------
(* What a route does before its commit. *)

Begin(q, doing, r) ==
    /\ does[q] = "nothing"
    /\ does' = [does EXCEPT ![q] = doing] /\ subject' = [subject EXCEPT ![q] = r]
    /\ late' = [late EXCEPT ![q] = {}]
    /\ UNCHANGED <<edge, target, refs, dropped>>

(* A row is created: the one that may be referred to, or one that refers.  *)
(* choices are the states of rows that the form offers: choices.new to a   *)
(* row that does not refer to them by now, choices.kept to one that does.  *)
Create(q, kind, choices) ==
    \/ /\ edge.to = kind /\ target = "none" /\ target' = "active"
       /\ UNCHANGED <<edge, refs, does, subject, late, dropped>>
    \/ /\ Owner = kind /\ target \in choices.new
       /\ \E r \in Referrers \ refs : Begin(q, "refer", r)

(* A row that refers is edited: it comes to refer, it is to refer no more, *)
(* or something else is edited and a target that the form does not offer   *)
(* is lost.                                                                *)
Edit(q, kind, choices) ==
    /\ Owner = kind /\ Exists
    /\ \/ target \in choices.new /\ \E r \in Referrers \ refs : Begin(q, "refer", r)
       \/ \E r \in refs : Begin(q, "drop", r)
       \/ target \notin choices.kept /\ \E r \in refs : Begin(q, "lose", r)

(* A row is to be deleted: the target, once the referrers of some kinds    *)
(* are found to be none, or a row that refers to it.                       *)
Delete(q, kind, counted) ==
    \/ /\ edge.to = kind /\ Exists
       /\ edge.from \in counted => refs = {}
       /\ Begin(q, "delete", SomeRow)
    \/ Owner = kind /\ \E r \in refs : Begin(q, "drop", r)

Toggle(kind) ==
    /\ edge.to = kind /\ Exists
    /\ target' = IF target = "active" THEN "disabled" ELSE "active"
    /\ UNCHANGED <<edge, refs, does, subject, late, dropped>>

----------------------------------------------------------------------------
(* The commits. *)

CommitRefer(q) ==
    /\ does[q] = "refer"
    /\ IF Exists
       THEN /\ refs' = refs \union {subject[q]}
            /\ dropped' = dropped \ {subject[q]}
            /\ late' = [p \in Requests |->
                           IF does[p] = "delete" THEN late[p] \union {subject[q]} ELSE late[p]]
       ELSE UNCHANGED <<refs, dropped, late>>
    /\ does' = [does EXCEPT ![q] = "nothing"]
    /\ UNCHANGED <<edge, target, subject>>

CommitDrop(q) ==
    /\ does[q] \in {"drop", "lose"}
    /\ refs' = refs \ {subject[q]}
    /\ dropped' = IF does[q] = "drop" THEN dropped \union {subject[q]} ELSE dropped
    /\ does' = [does EXCEPT ![q] = "nothing"]
    /\ UNCHANGED <<edge, target, subject, late>>

(* A delete the database refuses is an error page and changes nothing.     *)
CommitDelete(q) ==
    /\ does[q] = "delete"
    /\ \/ /\ Exists /\ (edge.on = "refuses" => refs = {})
          /\ target' = "gone"
          /\ refs' = IF edge.on = "ignores" THEN refs ELSE {}
       \/ /\ ~Exists \/ (edge.on = "refuses" /\ refs # {})
          /\ UNCHANGED <<target, refs>>
    /\ does' = [does EXCEPT ![q] = "nothing"]
    /\ UNCHANGED <<edge, subject, late, dropped>>

----------------------------------------------------------------------------
(* The choices of the forms. *)

AllRows == [new |-> {"active", "disabled"}, kept |-> {"active", "disabled"}]
Active  == [new |-> {"active"}, kept |-> {"active"}]

WithoutFallback == [new |-> {"active"}, kept |-> {"active"}]      \* mutant
(* _active_choices_with_fallback: the current row stays on offer. *)
WithFallback == [new |-> {"active"}, kept |-> {"active", "disabled"}]

(* Only repositories that are ready are offered, be it to a builder of one *)
(* whose re-sync has failed.                                               *)
BuilderChoices ==
    IF edge.to = "repository" THEN Active
    ELSE IF edge.to = "role" THEN AllRows
    ELSE WithFallback
LinkedVersionChoices == WithFallback
ServerChoices        == WithFallback
ManifestChoices ==
    IF edge.to = "server" THEN ServerChoices ELSE Active
(* What is enqueued refers to the Builder's Version and to the manifest's  *)
(* servers, disabled or not; a step is added to any workflow.              *)
BuildChoices  == IF edge.to = "version" THEN AllRows ELSE Active
DeployChoices == IF edge.to = "server" THEN AllRows ELSE Active
StepChoices   == IF edge.to = "workflow" THEN AllRows ELSE Active

----------------------------------------------------------------------------
(* The routes. *)

CreateBuilder(q)  == Create(q, "builder", BuilderChoices)
EditBuilder(q)    == Edit(q, "builder", BuilderChoices)
DeleteBuilder(q)  == Delete(q, "builder", {"build", "step"})
ToggleBuilder     == Toggle("builder")
EnqueueBuild(q)   == Create(q, "batch", BuildChoices)

CreateVersion(q)  == Create(q, "version", LinkedVersionChoices)
EditVersion(q)    == Edit(q, "version", LinkedVersionChoices)
DeleteVersion(q)  == Delete(q, "version", {"builder"})
ToggleVersion     == Toggle("version")

CreateDockerfile(q) == Create(q, "dockerfile", Active)
DeleteDockerfile(q) == Delete(q, "dockerfile", {"builder"})
ToggleDockerfile    == Toggle("dockerfile")

CreateRegistry(q) == Create(q, "registry", Active)
DeleteRegistry(q) == Delete(q, "registry", {"builder"})
ToggleRegistry    == Toggle("registry")

CreateConnection(q) == Create(q, "connection", Active)
DeleteConnection(q) == Delete(q, "connection", {"repository"})
ToggleConnection    == Toggle("connection")
RegisterRepository(q) == Create(q, "repository", Active)
RemoveRepository(q)   == Delete(q, "repository", {"builder"})
(* Ready after a re-sync that worked, in error after one that did not. *)
ResyncRepository      == Toggle("repository")

CreateServer(q) == Create(q, "server", AllRows)
EditServer(q)   == Edit(q, "server", AllRows)
DeleteServer(q) == Delete(q, "server", {"manifest", "execution"})
ToggleServer    == Toggle("server")

CreateManifest(q) == Create(q, "manifest", ManifestChoices)
EditManifest(q)   == Edit(q, "manifest", ManifestChoices)
(* Its executions count only while one of them is at work or deployed.     *)
DropManifest(q) == Delete(q, "manifest", {"step"})
ToggleManifest    == Toggle("manifest")
TriggerDeploy(q)  == Create(q, "deployment_run", DeployChoices)

CreateWorkflow(q) == Create(q, "workflow", AllRows)
EditWorkflow(q)   == edge.to # "user" /\ Edit(q, "workflow", AllRows)
DeleteWorkflow(q) == Delete(q, "workflow", {"workflow_run"})
ToggleWorkflow    == Toggle("workflow")
AddBuildStep(q)   == edge.to # "manifest" /\ Create(q, "step", StepChoices)
AddDeployStep(q)  == edge.to # "builder" /\ Create(q, "step", StepChoices)
DropStep(q)       == Delete(q, "step", {"step_run"})
TriggerRun(q)     == Create(q, "workflow_run", Active)

CreateRole(q) == Create(q, "role", AllRows)
EditRole(q)   == Edit(q, "role", AllRows)
DeleteRole(q) == Delete(q, "role", {"user"})

CreateUser(q) == Create(q, "user", AllRows)
EditUser(q)   == edge.to # "user" /\ Edit(q, "user", AllRows)
ToggleUser    == Toggle("user")
DeleteUser(q) == Delete(q, "user", {})
LogActivity(q) == Create(q, "log", Active)

CreatePermission(q) == Create(q, "permission", AllRows)
DeletePermission(q) == Delete(q, "permission", {"role", "menu"})
(* The menus follow the new code; a menu about to be saved names a code    *)
(* that nobody has any more.                                               *)
RenamePermission ==
    /\ edge \in MenuEdges /\ edge.to = "permission" /\ Exists
    /\ does' = [q \in Requests |-> IF does[q] = "refer" THEN "nothing" ELSE does[q]]
    /\ UNCHANGED <<edge, target, refs, subject, late, dropped>>

CreateMenu(q) == Create(q, "menu", AllRows)
EditMenu(q)   == Edit(q, "menu", AllRows)
DeleteMenu(q) == Delete(q, "menu", {"menu"})
(* The tree as it was dragged: parents change, in one commit.              *)
ReorderMenus ==
    /\ edge.from = "menu" /\ edge.to = "menu" /\ Exists
    /\ refs' \in SUBSET Referrers /\ dropped' = (dropped \union (refs \ refs')) \ refs'
    /\ late' = [q \in Requests |->
                   IF does[q] = "delete" THEN late[q] \union (refs' \ refs) ELSE late[q]]
    /\ UNCHANGED <<edge, target, does, subject>>

Route(q) ==
    \/ CreateBuilder(q) \/ EditBuilder(q) \/ DeleteBuilder(q) \/ EnqueueBuild(q)
    \/ CreateVersion(q) \/ EditVersion(q) \/ DeleteVersion(q)
    \/ CreateDockerfile(q) \/ DeleteDockerfile(q) \/ CreateRegistry(q) \/ DeleteRegistry(q)
    \/ CreateConnection(q) \/ DeleteConnection(q) \/ RegisterRepository(q) \/ RemoveRepository(q)
    \/ CreateServer(q) \/ EditServer(q) \/ DeleteServer(q)
    \/ CreateManifest(q) \/ EditManifest(q) \/ DropManifest(q) \/ TriggerDeploy(q)
    \/ CreateWorkflow(q) \/ EditWorkflow(q) \/ DeleteWorkflow(q)
    \/ AddBuildStep(q) \/ AddDeployStep(q) \/ DropStep(q) \/ TriggerRun(q)
    \/ CreateRole(q) \/ EditRole(q) \/ DeleteRole(q)
    \/ CreateUser(q) \/ EditUser(q) \/ DeleteUser(q) \/ LogActivity(q)
    \/ CreatePermission(q) \/ DeletePermission(q)
    \/ CreateMenu(q) \/ EditMenu(q) \/ DeleteMenu(q)

CatalogueNext ==
    \/ \E q \in Requests : Route(q) \/ CommitRefer(q) \/ CommitDrop(q) \/ CommitDelete(q)
    \/ ToggleBuilder \/ ToggleVersion \/ ToggleDockerfile \/ ToggleRegistry \/ ToggleConnection
    \/ ResyncRepository \/ ToggleServer \/ ToggleManifest \/ ToggleWorkflow \/ ToggleUser
    \/ RenamePermission \/ ReorderMenus

CatalogueSpec == CatalogueInit /\ [][CatalogueNext]_catalogueVars

----------------------------------------------------------------------------
(* References that go although nobody asked for it: history that is let go *)
(* on purpose, lists of roles and users, which no delete counts, and what  *)
(* the forms of builders and manifests do not offer.                       *)
LetGo ==
    \/ edge.on \in {"detached", "cascades"}
    \/ edge.to = "role" /\ edge.from # "user"
    \/ edge.from = "manifest" /\ edge.to = "user"
    \/ edge.from = "builder" /\ edge.to = "repository"
    \/ edge.from = "binding" /\ edge.to = "builder"

(* A reference goes only when the row that has it is deleted or edited to  *)
(* that end, or when it was made after the target's delete had counted.    *)
ReferencesSurvive ==
    [][\A r \in refs \ refs' :
          r \in dropped' \/ LetGo \/ \E q \in Requests : does[q] = "delete" /\ r \in late[q]]_catalogueVars
=============================================================================
