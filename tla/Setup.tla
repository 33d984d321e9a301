-------------------------------- MODULE Setup --------------------------------
(***************************************************************************)
(* The setup wizard (src/app/blueprints/setup/routes.py), the seed scripts *)
(* it runs (src/seeds) and the one row of settings, which every thread may *)
(* create on first access (src/app/utils/system_config.py).                *)
(*                                                                         *)
(* A press of the button runs `flask db upgrade` and then the seeds, one   *)
(* process after the other, and stops at the first one that fails.  A seed *)
(* looks for its row and inserts it when it is missing: one transaction    *)
(* for each entry of Items, so a look and its commit are two steps here.   *)
(* rows counts, for each seed, the rows with the name it looks for.  What  *)
(* a new release adds to a seed is a new row, so Ship empties its count.   *)
(***************************************************************************)
EXTENDS Naturals, Sequences

CONSTANTS
    Setups,        \* requests that press the button
    Readers,       \* threads and requests that read the settings
    Values,        \* what an administrator may save as settings
    DefaultSettings,   \* what a new row of settings holds
    MaxFaults,     \* bound: seeds that fail, time out or are killed
    MaxReleases,   \* bound: releases shipped onto the same database
    MaxSaves       \* bound: forms of settings saved

Items == {"permissions", "role", "user", "menu", "change_types",
          "version_types", "ai", "config"}

ASSUME SetupAssumption ==
    /\ Setups \cap Readers = {}
    /\ DefaultSettings \notin Values
    /\ MaxFaults \in Nat /\ MaxReleases \in Nat /\ MaxSaves \in Nat

VARIABLES
    schema,     \* "none", "old" or "head": the revision of the database
    rows,       \* rows[i]: how many rows seed i finds
    settings,   \* the rows of system_configs, each with the values it holds
    saved,      \* the settings the last administrator saved
    step,       \* step[w]: index in SetupSteps, 0 when w runs nothing
    found,      \* found[a]: what a's open transaction found, "nothing" if none
    seeded,     \* the seeds that have ended well since the last release
    raced,      \* the rows that two transactions looked for at once
    faults, releases, saves

setupVars == <<schema, rows, settings, saved, step, found, seeded, raced,
               faults, releases, saves>>

SetupSteps == <<"upgrade", "permissions", "role", "user", "menu",
                "change_types", "version_types", "ai", "config">>

(* The columns the database keeps unique: permissions.code, roles.name,    *)
(* users.username, change_types.name, version_types.name.  Menus, prompt   *)
(* templates and settings have no such constraint.                         *)
UniqueItems == {"permissions", "role", "user", "change_types", "version_types"}

Count(i) == IF i = "config" THEN Len(settings) ELSE rows[i]

Doing(w) == IF step[w] = 0 THEN "idle" ELSE SetupSteps[step[w]]

(* Who else holds a transaction that has looked for row i. *)
AlsoLooked(a, i) ==
    \E b \in (Setups \cup Readers) \ {a} :
        /\ found[b] \in {"missing", "there"}
        /\ b \in Readers => i = "config"
        /\ b \in Setups => Doing(b) = i

SetupInit ==
    /\ schema = "none"
    /\ rows = [i \in Items |-> 0]
    /\ settings = << >>
    /\ saved = DefaultSettings
    /\ step = [w \in Setups |-> 0]
    /\ found = [a \in Setups \cup Readers |-> "nothing"]
    /\ seeded = {}
    /\ raced = {}
    /\ faults = 0 /\ releases = 0 /\ saves = 0

(* is_setup_complete: schema at head and at least one user. *)
IsSetupComplete == schema = "head" /\ rows["user"] > 0

----------------------------------------------------------------------------
(* run_setup: only while the wizard is open; nothing keeps a second press  *)
(* of the button from running the same steps beside the first.             *)
RunSetup(w) ==
    /\ step[w] = 0
    /\ ~IsSetupComplete
    /\ step' = [step EXCEPT ![w] = 1]
    /\ UNCHANGED <<schema, rows, settings, saved, found, seeded, raced,
                   faults, releases, saves>>

(* _run_setup_steps: the next step when this one ended well, else stop. *)
GoOn(w) == step' = [step EXCEPT ![w] = IF step[w] = Len(SetupSteps) THEN 0 ELSE step[w] + 1]
GiveUp(w) == step' = [step EXCEPT ![w] = 0]

(* `flask db upgrade` reads the revision, then migrates in a transaction:  *)
(* of two that started from the same revision the later one fails on what  *)
(* the earlier one created.                                                *)
StartUpgrade(w) ==
    /\ Doing(w) = "upgrade" /\ found[w] = "nothing"
    /\ found' = [found EXCEPT ![w] = schema]
    /\ UNCHANGED <<schema, rows, settings, saved, step, seeded, raced,
                   faults, releases, saves>>

FinishUpgrade(w) ==
    /\ Doing(w) = "upgrade" /\ found[w] # "nothing"
    /\ found' = [found EXCEPT ![w] = "nothing"]
    /\ IF found[w] = schema
       THEN schema' = "head" /\ GoOn(w)
       ELSE GiveUp(w) /\ UNCHANGED schema
    /\ UNCHANGED <<rows, settings, saved, seeded, raced, faults, releases, saves>>

(* A transaction looks for its row. *)
LookFor(a, i) ==
    /\ schema = "head" /\ found[a] = "nothing"
    /\ found' = [found EXCEPT ![a] = IF Count(i) = 0 THEN "missing" ELSE "there"]
    /\ raced' = IF AlsoLooked(a, i) THEN raced \cup {i} ELSE raced
    /\ UNCHANGED <<schema, rows, settings, saved, step, seeded,
                   faults, releases, saves>>

Inserts(i) ==
    IF i = "config"
    THEN settings' = Append(settings, DefaultSettings) /\ UNCHANGED rows
    ELSE rows' = [rows EXCEPT ![i] = @ + 1] /\ UNCHANGED settings

(* mutant: a seed that adds its rows without having looked for them *)
AddsAnyway(a, i) == Inserts(i)

(* get_or_create: a row only when none was found. *)
GetOrCreate(a, i) ==
    IF found[a] = "missing" THEN Inserts(i) ELSE UNCHANGED <<rows, settings>>

(* The commit of a seed.  It fails, and setup with it, when another        *)
(* transaction has inserted a row of the same unique name in between.      *)
Commit(w, i) ==
    /\ found[w] # "nothing"
    /\ found' = [found EXCEPT ![w] = "nothing"]
    /\ IF found[w] = "missing" /\ i \in UniqueItems /\ Count(i) > 0
       THEN GiveUp(w) /\ UNCHANGED <<rows, settings, seeded>>
       ELSE GoOn(w) /\ GetOrCreate(w, i) /\ seeded' = seeded \cup {i}
    /\ UNCHANGED <<schema, saved, raced, faults, releases, saves>>

SeedPermissions(w) ==
    Doing(w) = "permissions" /\ (LookFor(w, "permissions") \/ Commit(w, "permissions"))
SeedSuperAdminRole(w) == Doing(w) = "role" /\ (LookFor(w, "role") \/ Commit(w, "role"))
SeedSuperAdminUser(w) == Doing(w) = "user" /\ (LookFor(w, "user") \/ Commit(w, "user"))
SeedMenu(w) == Doing(w) = "menu" /\ (LookFor(w, "menu") \/ Commit(w, "menu"))
SeedChangeTypes(w) ==
    Doing(w) = "change_types" /\ (LookFor(w, "change_types") \/ Commit(w, "change_types"))
SeedVersionTypes(w) ==
    Doing(w) = "version_types" /\ (LookFor(w, "version_types") \/ Commit(w, "version_types"))
SeedAIProvider(w) == Doing(w) = "ai" /\ (LookFor(w, "ai") \/ Commit(w, "ai"))
SeedSystemConfig(w) == Doing(w) = "config" /\ (LookFor(w, "config") \/ Commit(w, "config"))

(* A step ends with an error, after its 120 seconds, or with the process   *)
(* of the request: its open transaction leaves nothing.                    *)
StepFails(w) ==
    /\ step[w] # 0 /\ faults < MaxFaults
    /\ faults' = faults + 1
    /\ GiveUp(w)
    /\ found' = [found EXCEPT ![w] = "nothing"]
    /\ UNCHANGED <<schema, rows, settings, saved, seeded, raced, releases, saves>>

----------------------------------------------------------------------------
(* get_system_config: every request and every background thread, those of  *)
(* the seeds' own processes included, creates the row it does not find;    *)
(* one that finds it writes nothing, and is no step here.                  *)
ReadConfig(x) == settings = << >> /\ LookFor(x, "config")

CreateConfig(x) ==
    /\ found[x] # "nothing"
    /\ found' = [found EXCEPT ![x] = "nothing"]
    /\ GetOrCreate(x, "config")
    /\ UNCHANGED <<schema, saved, step, seeded, raced, faults, releases, saves>>

(* system_config.index: the form updates the row that query.first(), which *)
(* names no order, returned.                                               *)
SaveSettings ==
    /\ IsSetupComplete /\ saves < MaxSaves
    /\ saves' = saves + 1
    /\ \E k \in DOMAIN settings, v \in Values :
        /\ settings' = [settings EXCEPT ![k] = v]
        /\ saved' = v
    /\ UNCHANGED <<schema, rows, step, found, seeded, raced, faults, releases>>

(* A release brings a migration and a row the database does not have yet,  *)
(* unique or not: before_request sends every request to the wizard again.  *)
Ship ==
    /\ schema = "head" /\ releases < MaxReleases
    /\ \A w \in Setups : step[w] = 0
    /\ \A x \in Readers : found[x] = "nothing"
    /\ releases' = releases + 1
    /\ schema' = "old"
    /\ seeded' = {}
    /\ \E i \in {"permissions", "menu"} :
        /\ rows' = [rows EXCEPT ![i] = 0]
        /\ raced' = raced \ {i}
    /\ UNCHANGED <<settings, saved, step, found, faults, saves>>

SetupNext ==
    \/ \E w \in Setups :
        \/ RunSetup(w) \/ StartUpgrade(w) \/ FinishUpgrade(w)
        \/ SeedPermissions(w) \/ SeedSuperAdminRole(w) \/ SeedSuperAdminUser(w)
        \/ SeedMenu(w) \/ SeedChangeTypes(w) \/ SeedVersionTypes(w)
        \/ SeedAIProvider(w) \/ SeedSystemConfig(w)
        \/ StepFails(w)
    \/ \E x \in Readers : ReadConfig(x) \/ CreateConfig(x)
    \/ SaveSettings
    \/ Ship

SetupSpec == SetupInit /\ [][SetupNext]_setupVars

----------------------------------------------------------------------------
SetupTypeOK ==
    /\ schema \in {"none", "old", "head"}
    /\ rows \in [Items -> Nat]
    /\ settings \in Seq(Values \cup {DefaultSettings})
    /\ saved \in Values \cup {DefaultSettings}
    /\ step \in [Setups -> 0 .. Len(SetupSteps)]
    /\ found \in [Setups \cup Readers ->
                    {"nothing", "missing", "there", "none", "old", "head"}]
    /\ seeded \subseteq Items /\ raced \subseteq Items
    /\ faults \in 0 .. MaxFaults
    /\ releases \in 0 .. MaxReleases
    /\ saves \in 0 .. MaxSaves

(* What the seeds say of themselves, "Safe to re-run", and what             *)
(* is_setup_complete says of itself: through failures, releases, two       *)
(* presses of the button and threads that create the settings meanwhile,   *)
(*   - a row exists twice only if two transactions looked for it at once,  *)
(*     and one of a unique column never;                                   *)
(*   - settings that exist once are the ones last saved;                   *)
(*   - unless a seed failed of itself, the wizard closes on a database     *)
(*     with every seed in it: of two presses one is always left to finish. *)
SeededOnceAndWhole ==
    /\ \A i \in Items : Count(i) > 1 => i \in raced /\ i \notin UniqueItems
    /\ \A k \in DOMAIN settings : Len(settings) = 1 => settings[k] = saved
    /\ faults = 0 /\ IsSetupComplete /\ (\A w \in Setups : step[w] = 0) => seeded = Items
=============================================================================
