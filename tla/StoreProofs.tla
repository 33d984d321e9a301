------------------------------ MODULE StoreProofs ------------------------------
(* Theorems about what outlives every process: what the setup wizard and   *)
(* the seeds leave in the tables (Setup), the references administrators    *)
(* keep (Catalogue), and the clones that builds are made from, with what   *)
(* the builds leave in the cluster (BuildContext).                         *)
EXTENDS Setup, Catalogue, BuildContext, TLAPS

USE SetupAssumption DEF SetupAssumption

-----------------------------------------------------------------------------
(* Setup.                                                                  *)

Openers == Setups \union Readers

(* The row a step of the setup looks for. *)
ItemAt(n) == SetupSteps[n]
Places    == 1 .. 9

(* What the open transaction of a press fits the step it is at.            *)
FoundInv ==
  \A w \in Setups :
    /\ step[w] = 0 => found[w] = "nothing"
    /\ step[w] = 1 => found[w] \in {"nothing", "none", "old", "head"}
    /\ step[w] > 1 => found[w] \in {"nothing", "missing", "there"} /\ schema = "head"

(* a has looked for row i and has not found it. *)
Misses(a, i) ==
  /\ found[a] = "missing"
  /\ a \in Setups => step[a] # 0 /\ ItemAt(step[a]) = i
  /\ a \notin Setups => i = "config"

(* Two transactions that both miss a row have raced for it, and so has one *)
(* that misses a row that is there by now.                                 *)
RaceInv ==
  /\ \A i \in Items, a, b \in Openers : Misses(a, i) /\ Misses(b, i) /\ a # b => i \in raced
  /\ \A i \in Items, a \in Openers : Misses(a, i) /\ Count(i) > 0 => i \in raced
  /\ \A i \in Items : Count(i) > 1 => i \in raced /\ i \notin UniqueItems

SavedInv ==
  /\ Len(settings) = 0 => saved = DefaultSettings
  /\ Len(settings) = 1 => settings[1] = saved

(* Whoever is past a seed has left it done; a row that was missing and is  *)
(* there by now was seeded; nothing is seeded before the schema is there.  *)
SeededBefore(n) == {ItemAt(m) : m \in 2 .. (n - 1)}
DoneInv ==
  /\ \A w \in Setups : step[w] # 0 => SeededBefore(step[w]) \subseteq seeded
  /\ \A w \in Setups : \A i \in UniqueItems : Misses(w, i) /\ Count(i) > 0 => i \in seeded
  /\ schema # "head" => seeded = {}

(* As long as no seed failed of itself, somebody is at the first seed that *)
(* is not done.                                                            *)
LeadInv ==
  faults = 0 /\ schema = "head" =>
    \/ seeded = Items
    \/ \E w \in Setups : step[w] > 1 /\ seeded = SeededBefore(step[w])

SetupInv == SetupTypeOK /\ FoundInv /\ RaceInv /\ SavedInv /\ DoneInv /\ LeadInv

LEMMA StepsAreSeeds ==
  /\ Len(SetupSteps) = 9 /\ SetupSteps[1] = "upgrade"
  /\ \A n \in 2 .. 9 : ItemAt(n) \in Items /\ ItemAt(n) # "upgrade" /\ ItemAt(n) # "idle"
  /\ \A m, n \in 2 .. 9 : ItemAt(m) = ItemAt(n) => m = n
  /\ \A i \in Items : \E n \in 2 .. 9 : ItemAt(n) = i
  /\ ItemAt(9) = "config" /\ \A n \in 2 .. 9 : ItemAt(n) = "config" => n = 9
<1>1. /\ Len(SetupSteps) = 9 /\ SetupSteps[1] = "upgrade"
      /\ ItemAt(2) = "permissions" /\ ItemAt(3) = "role" /\ ItemAt(4) = "user" /\ ItemAt(5) = "menu"
      /\ ItemAt(6) = "change_types" /\ ItemAt(7) = "version_types" /\ ItemAt(8) = "ai" /\ ItemAt(9) = "config"
  BY DEF SetupSteps, ItemAt
<1>2. \A n \in 2 .. 9 : n = 2 \/ n = 3 \/ n = 4 \/ n = 5 \/ n = 6 \/ n = 7 \/ n = 8 \/ n = 9
  OBVIOUS
<1>3. \A n \in 2 .. 9 : ItemAt(n) \in Items /\ ItemAt(n) # "upgrade" /\ ItemAt(n) # "idle"
  BY <1>1, <1>2 DEF Items
<1>4. \A m, n \in 2 .. 9 : ItemAt(m) = ItemAt(n) => m = n
  BY <1>1, <1>2
<1>5. \A i \in Items : \E n \in 2 .. 9 : ItemAt(n) = i
  BY <1>1 DEF Items
<1>6. QED
  BY <1>1, <1>3, <1>4, <1>5

LEMMA SetupTypes ==
  ASSUME SetupInv
  PROVE  /\ SetupTypeOK /\ FoundInv /\ RaceInv /\ SavedInv /\ DoneInv /\ LeadInv
         /\ schema \in {"none", "old", "head"}
         /\ rows \in [Items -> Nat] /\ settings \in Seq(Values \cup {DefaultSettings})
         /\ saved \in Values \cup {DefaultSettings}
         /\ step \in [Setups -> 0 .. 9]
         /\ found \in [Openers -> {"nothing", "missing", "there", "none", "old", "head"}]
         /\ seeded \subseteq Items /\ raced \subseteq Items
         /\ Setups \subseteq Openers /\ Readers \subseteq Openers
         /\ Len(settings) \in Nat /\ \A i \in Items : Count(i) \in Nat
<1>1. SetupTypeOK /\ FoundInv /\ RaceInv /\ SavedInv /\ DoneInv /\ LeadInv
  BY DEF SetupInv
<1>2. rows \in [Items -> Nat] /\ settings \in Seq(Values \cup {DefaultSettings})
  BY <1>1 DEF SetupTypeOK
<1>3. Len(settings) \in Nat
  BY <1>2
<1>4. \A i \in Items : Count(i) \in Nat
  BY <1>2, <1>3 DEF Count
<1>5. QED
  BY <1>1, <1>2, <1>3, <1>4, StepsAreSeeds DEF SetupTypeOK, Openers

(* What a press is doing, in terms of its step. *)
LEMMA DoingIs ==
  ASSUME NEW w \in Setups, step[w] \in 0 .. 9
  PROVE  /\ Doing(w) = "upgrade" <=> step[w] = 1
         /\ \A n \in 2 .. 9 : Doing(w) = ItemAt(n) <=> step[w] = n
<1>1. CASE step[w] = 0
  BY <1>1, StepsAreSeeds DEF Doing
<1>2. CASE step[w] = 1
  BY <1>2, StepsAreSeeds DEF Doing
<1>3. CASE step[w] \in 2 .. 9
  <2>1. Doing(w) = ItemAt(step[w])
    BY <1>3 DEF Doing, ItemAt
  <2>2. QED
    BY <1>3, <2>1, StepsAreSeeds
<1>4. QED
  BY <1>1, <1>2, <1>3

(* Every seed looks for the row of its step, or commits it. *)
Seeds(w) == step[w] \in 2 .. 9 /\ (LookFor(w, ItemAt(step[w])) \/ Commit(w, ItemAt(step[w])))

LEMMA SetupCases ==
  ASSUME SetupTypeOK, [SetupNext]_setupVars
  PROVE  \/ \E w \in Setups : RunSetup(w) \/ StartUpgrade(w) \/ FinishUpgrade(w) \/ Seeds(w) \/ StepFails(w)
         \/ \E x \in Readers : ReadConfig(x) \/ CreateConfig(x)
         \/ SaveSettings \/ Ship \/ UNCHANGED setupVars
<1>1. /\ ItemAt(2) = "permissions" /\ ItemAt(3) = "role" /\ ItemAt(4) = "user" /\ ItemAt(5) = "menu"
      /\ ItemAt(6) = "change_types" /\ ItemAt(7) = "version_types" /\ ItemAt(8) = "ai" /\ ItemAt(9) = "config"
  BY DEF SetupSteps, ItemAt
<1>2. ASSUME NEW w \in Setups, NEW n \in 2 .. 9, Doing(w) = ItemAt(n), LookFor(w, ItemAt(n)) \/ Commit(w, ItemAt(n))
      PROVE  Seeds(w)
  <2>1. step[w] \in 0 .. 9
    BY StepsAreSeeds DEF SetupTypeOK
  <2>2. step[w] = n
    BY <1>2, <2>1, DoingIs
  <2>3. QED
    BY <1>2, <2>2 DEF Seeds
<1>a. /\ 2 \in 2 .. 9 /\ 3 \in 2 .. 9 /\ 4 \in 2 .. 9 /\ 5 \in 2 .. 9
      /\ 6 \in 2 .. 9 /\ 7 \in 2 .. 9 /\ 8 \in 2 .. 9 /\ 9 \in 2 .. 9
  OBVIOUS
<1>3. ASSUME NEW w \in Setups,
             \/ SeedPermissions(w) \/ SeedSuperAdminRole(w) \/ SeedSuperAdminUser(w) \/ SeedMenu(w)
             \/ SeedChangeTypes(w) \/ SeedVersionTypes(w) \/ SeedAIProvider(w) \/ SeedSystemConfig(w)
      PROVE  \E n \in 2 .. 9 : Doing(w) = ItemAt(n) /\ (LookFor(w, ItemAt(n)) \/ Commit(w, ItemAt(n)))
  BY <1>1, <1>3, <1>a, ZenonT(30) DEF SeedPermissions, SeedSuperAdminRole, SeedSuperAdminUser, SeedMenu, SeedChangeTypes,
                     SeedVersionTypes, SeedAIProvider, SeedSystemConfig
<1>4. QED
  BY <1>2, <1>3, ZenonT(30) DEF SetupNext

(* What a transaction that looked for row i, and one that commits, do. *)
Looks(a, i) ==
  /\ found[a] = "nothing" /\ schema = "head"
  /\ found' = [found EXCEPT ![a] = IF Count(i) = 0 THEN "missing" ELSE "there"]
  /\ raced' = IF AlsoLooked(a, i) THEN raced \cup {i} ELSE raced
  /\ UNCHANGED <<schema, rows, settings, saved, step, seeded, faults, releases, saves>>

Closes(a, i) ==
  /\ found[a] # "nothing" /\ found' = [found EXCEPT ![a] = "nothing"]
  /\ UNCHANGED <<schema, saved, raced, faults, releases, saves>>
  /\ \/ UNCHANGED <<rows, settings>>
     \/ found[a] = "missing" /\ Inserts(i) /\ (i \in UniqueItems => Count(i) = 0)

LEMMA CommitDoes ==
  ASSUME SetupInv, NEW w \in Setups, NEW i \in Items, Commit(w, i)
  PROVE  /\ Closes(w, i)
         /\ \/ GoOn(w) /\ seeded' = seeded \cup {i}
            \/ /\ GiveUp(w) /\ UNCHANGED <<seeded, rows, settings>>
               /\ found[w] = "missing" /\ i \in UniqueItems /\ Count(i) > 0
<1>1. Count(i) \in Nat
  BY SetupTypes
<1>2. CASE found[w] = "missing" /\ i \in UniqueItems /\ Count(i) > 0
  BY <1>2 DEF Commit, Closes
<1>3. CASE ~(found[w] = "missing" /\ i \in UniqueItems /\ Count(i) > 0)
  <2>1. GoOn(w) /\ GetOrCreate(w, i) /\ seeded' = seeded \cup {i}
    BY <1>3 DEF Commit
  <2>2. \/ UNCHANGED <<rows, settings>>
        \/ found[w] = "missing" /\ Inserts(i) /\ (i \in UniqueItems => Count(i) = 0)
    BY <1>1, <1>3, <2>1 DEF GetOrCreate
  <2>3. QED
    BY <2>1, <2>2 DEF Commit, Closes
<1>4. QED
  BY <1>2, <1>3

LEMMA CreateDoes ==
  ASSUME NEW x \in Readers, CreateConfig(x)
  PROVE  Closes(x, "config") /\ UNCHANGED <<step, seeded>>
  BY DEF CreateConfig, GetOrCreate, Closes, UniqueItems

LEMMA InsertCounts ==
  ASSUME SetupInv, NEW i \in Items, Inserts(i), NEW j \in Items
  PROVE  Count(j)' = IF j = i THEN Count(j) + 1 ELSE Count(j)
<1>1. rows \in [Items -> Nat] /\ settings \in Seq(Values \cup {DefaultSettings})
  BY SetupTypes
<1>2. CASE i = "config"
  <2>1. settings' = Append(settings, DefaultSettings) /\ rows' = rows
    BY <1>2 DEF Inserts
  <2>2. Len(settings') = Len(settings) + 1
    BY <1>1, <2>1
  <2>3. QED
    BY <1>2, <2>1, <2>2 DEF Count
<1>3. CASE i # "config"
  BY <1>1, <1>3 DEF Inserts, Count
<1>4. QED
  BY <1>2, <1>3

LEMMA SameCounts ==
  ASSUME UNCHANGED <<rows, settings>>, NEW j \in Items
  PROVE  Count(j)' = Count(j)
  BY DEF Count

-----------------------------------------------------------------------------
LEMMA StepSetupTypes ==
  ASSUME SetupInv, [SetupNext]_setupVars
  PROVE  SetupTypeOK'
<1>0. /\ SetupTypeOK
      /\ rows \in [Items -> Nat] /\ settings \in Seq(Values \cup {DefaultSettings})
      /\ step \in [Setups -> 0 .. 9]
      /\ found \in [Openers -> {"nothing", "missing", "there", "none", "old", "head"}]
      /\ seeded \subseteq Items /\ raced \subseteq Items /\ schema \in {"none", "old", "head"}
      /\ Setups \subseteq Openers /\ Readers \subseteq Openers /\ Len(SetupSteps) = 9
      /\ faults \in 0 .. MaxFaults /\ releases \in 0 .. MaxReleases /\ saves \in 0 .. MaxSaves
  BY SetupTypes, StepsAreSeeds DEF SetupTypeOK
<1>a. ASSUME NEW i \in Items, Inserts(i) \/ UNCHANGED <<rows, settings>>
      PROVE  rows' \in [Items -> Nat] /\ settings' \in Seq(Values \cup {DefaultSettings})
  <2>1. CASE i = "config" /\ Inserts(i)
    <3>1. settings' = Append(settings, DefaultSettings) /\ rows' = rows
      BY <2>1 DEF Inserts
    <3>2. DefaultSettings \in Values \cup {DefaultSettings}
      OBVIOUS
    <3>3. QED
      BY <1>0, <3>1, <3>2
  <2>2. CASE i # "config" /\ Inserts(i)
    <3>1. settings' = settings /\ rows' = [rows EXCEPT ![i] = rows[i] + 1]
      BY <2>2 DEF Inserts
    <3>2. QED
      BY <1>0, <3>1
  <2>3. QED
    BY <1>0, <1>a, <2>1, <2>2
<1>b. ASSUME NEW a \in Openers, NEW i \in Items, Looks(a, i) PROVE SetupTypeOK'
  <2>1. found' \in [Openers -> {"nothing", "missing", "there", "none", "old", "head"}] /\ raced' \subseteq Items
    BY <1>0, <1>b DEF Looks
  <2>2. QED
    BY <1>0, <1>b, <2>1 DEF Looks, SetupTypeOK, Openers
<1>c. ASSUME NEW a \in Openers, NEW i \in Items, Closes(a, i), seeded' \subseteq Items, step' \in [Setups -> 0 .. 9]
      PROVE  SetupTypeOK'
  <2>1. rows' \in [Items -> Nat] /\ settings' \in Seq(Values \cup {DefaultSettings})
    BY <1>a, <1>c DEF Closes
  <2>2. found' \in [Openers -> {"nothing", "missing", "there", "none", "old", "head"}]
    BY <1>0, <1>c DEF Closes
  <2>3. QED
    BY <1>0, <1>c, <2>1, <2>2 DEF Closes, SetupTypeOK, Openers
<1>d. ASSUME NEW w \in Setups, GoOn(w) \/ GiveUp(w) PROVE step' \in [Setups -> 0 .. 9]
  BY <1>0, <1>d DEF GoOn, GiveUp
<1>1. ASSUME NEW w \in Setups, RunSetup(w) PROVE SetupTypeOK'
  BY <1>0, <1>1 DEF RunSetup, SetupTypeOK
<1>2. ASSUME NEW w \in Setups, StartUpgrade(w) PROVE SetupTypeOK'
  BY <1>0, <1>2 DEF StartUpgrade, SetupTypeOK, Openers
<1>3. ASSUME NEW w \in Setups, FinishUpgrade(w) PROVE SetupTypeOK'
  BY <1>0, <1>3, <1>d DEF FinishUpgrade, SetupTypeOK, Openers
<1>4. ASSUME NEW w \in Setups, Seeds(w) PROVE SetupTypeOK'
  <2>1. ItemAt(step[w]) \in Items
    BY <1>4, StepsAreSeeds DEF Seeds
  <2>2. CASE LookFor(w, ItemAt(step[w]))
    BY <1>0, <1>b, <2>1, <2>2 DEF LookFor, Looks
  <2>3. CASE Commit(w, ItemAt(step[w]))
    BY <1>0, <1>c, <1>d, <2>1, <2>3, CommitDoes
  <2>4. QED
    BY <1>4, <2>2, <2>3 DEF Seeds
<1>5. ASSUME NEW w \in Setups, StepFails(w) PROVE SetupTypeOK'
  <2>1. faults' \in 0 .. MaxFaults
    BY <1>0, <1>5 DEF StepFails
  <2>2. QED
    BY <1>0, <1>5, <1>d, <2>1 DEF StepFails, SetupTypeOK, Openers
<1>6. ASSUME NEW x \in Readers, ReadConfig(x) \/ CreateConfig(x) PROVE SetupTypeOK'
  <2>1. "config" \in Items
    BY DEF Items
  <2>2. CASE ReadConfig(x)
    BY <1>0, <1>b, <2>1, <2>2 DEF ReadConfig, LookFor, Looks
  <2>3. CASE CreateConfig(x)
    BY <1>0, <1>c, <2>1, <2>3, CreateDoes
  <2>4. QED
    BY <1>6, <2>2, <2>3
<1>7. CASE SaveSettings
  <2>1. saves' \in 0 .. MaxSaves
    BY <1>0, <1>7 DEF SaveSettings
  <2>2. PICK k \in DOMAIN settings, v \in Values : settings' = [settings EXCEPT ![k] = v] /\ saved' = v
    BY <1>7 DEF SaveSettings
  <2>3. settings' \in Seq(Values \cup {DefaultSettings})
    BY <1>0, <2>2
  <2>4. QED
    BY <1>0, <1>7, <2>1, <2>2, <2>3 DEF SaveSettings, SetupTypeOK
<1>8. CASE Ship
  <2>1. releases' \in 0 .. MaxReleases
    BY <1>0, <1>8 DEF Ship
  <2>2. PICK i \in {"permissions", "menu"} : rows' = [rows EXCEPT ![i] = 0] /\ raced' = raced \ {i}
    BY <1>8 DEF Ship
  <2>3. QED
    BY <1>0, <1>8, <2>1, <2>2 DEF Ship, SetupTypeOK, Items
<1>9. CASE UNCHANGED setupVars
  BY <1>0, <1>9 DEF setupVars, SetupTypeOK
<1>10. QED
  BY <1>0, <1>1, <1>2, <1>3, <1>4, <1>5, <1>6, <1>7, <1>8, <1>9, SetupCases

LEMMA StepFound ==
  ASSUME SetupInv, [SetupNext]_setupVars
  PROVE  FoundInv'
<1>0. /\ FoundInv /\ RaceInv /\ SavedInv /\ DoneInv /\ LeadInv
      /\ step \in [Setups -> 0 .. 9]
      /\ found \in [Openers -> {"nothing", "missing", "there", "none", "old", "head"}]
      /\ Setups \subseteq Openers /\ Readers \subseteq Openers /\ Setups \intersect Readers = {}
      /\ Len(SetupSteps) = 9
      /\ schema \in {"none", "old", "head"} /\ Openers = Setups \union Readers
  BY SetupTypes, StepsAreSeeds DEF Openers
<1>1. ASSUME NEW w \in Setups, RunSetup(w) PROVE FoundInv'
  BY <1>0, <1>1 DEF RunSetup, FoundInv
<1>2. ASSUME NEW w \in Setups, StartUpgrade(w) PROVE FoundInv'
  <2>1. step[w] = 1
    BY <1>0, <1>2, DoingIs DEF StartUpgrade
  <2>2. QED
    BY <1>0, <1>2, <2>1 DEF StartUpgrade, FoundInv
<1>3. ASSUME NEW w \in Setups, FinishUpgrade(w) PROVE FoundInv'
  <2>1. step[w] = 1
    BY <1>0, <1>3, DoingIs DEF FinishUpgrade
  <2>2. /\ found' = [found EXCEPT ![w] = "nothing"]
        /\ \/ step' = [step EXCEPT ![w] = 2] /\ schema' = "head"
           \/ step' = [step EXCEPT ![w] = 0] /\ schema' = schema
    BY <1>0, <1>3, <2>1 DEF FinishUpgrade, GoOn, GiveUp
  <2>3. QED
    BY <1>0, <2>2 DEF FoundInv
<1>4. ASSUME NEW w \in Setups, Seeds(w) PROVE FoundInv'
  <2>1. ItemAt(step[w]) \in Items /\ step[w] \in 2 .. 9
    BY <1>4, StepsAreSeeds DEF Seeds
  <2>2. CASE LookFor(w, ItemAt(step[w]))
    <3>1. /\ UNCHANGED <<schema, step>>
          /\ \E what \in {"missing", "there"} : found' = [found EXCEPT ![w] = what]
      BY <2>2 DEF LookFor
    <3>2. QED
      BY <1>0, <2>1, <3>1 DEF FoundInv
  <2>3. CASE Commit(w, ItemAt(step[w]))
    <3>1. /\ found' = [found EXCEPT ![w] = "nothing"] /\ schema' = schema
          /\ \E n \in 0 .. 9 : step' = [step EXCEPT ![w] = n]
      BY <1>0, <2>1, <2>3, CommitDoes DEF Closes, GoOn, GiveUp
    <3>2. schema = "head"
      BY <1>0, <2>1 DEF FoundInv
    <3>3. QED
      BY <1>0, <3>1, <3>2 DEF FoundInv
  <2>4. QED
    BY <1>4, <2>2, <2>3 DEF Seeds
<1>5. ASSUME NEW w \in Setups, StepFails(w) PROVE FoundInv'
  BY <1>0, <1>5 DEF StepFails, GiveUp, FoundInv
<1>6. ASSUME NEW x \in Readers, ReadConfig(x) \/ CreateConfig(x) PROVE FoundInv'
  BY <1>0, <1>6 DEF ReadConfig, LookFor, CreateConfig, FoundInv
<1>7. CASE SaveSettings \/ UNCHANGED setupVars
  BY <1>0, <1>7 DEF SaveSettings, setupVars, FoundInv
<1>8. CASE Ship
  BY <1>0, <1>8 DEF Ship, FoundInv
<1>9. QED
  BY <1>0, <1>1, <1>2, <1>3, <1>4, <1>5, <1>6, <1>7, <1>8, SetupCases, SetupTypes

(* The item a transaction is about. *)
About(a, i) == (a \in Setups => step[a] \in 2 .. 9 /\ ItemAt(step[a]) = i) /\ (a \notin Setups => i = "config")

LEMMA LookRaces ==
  ASSUME SetupInv, NEW a \in Openers, NEW i \in Items, Looks(a, i), About(a, i)
  PROVE  RaceInv'
<1>0. /\ FoundInv /\ RaceInv /\ SavedInv /\ DoneInv /\ LeadInv
      /\ step \in [Setups -> 0 .. 9]
      /\ found \in [Openers -> {"nothing", "missing", "there", "none", "old", "head"}]
      /\ Setups \subseteq Openers /\ Readers \subseteq Openers /\ Setups \intersect Readers = {}
      /\ Len(SetupSteps) = 9
      /\ raced \subseteq Items /\ \A j \in Items : Count(j) \in Nat
  BY SetupTypes, StepsAreSeeds, SetupAssumption
<1>1. \A j \in Items : Count(j)' = Count(j)
  BY SameCounts DEF Looks
<1>2. raced \subseteq raced' /\ step' = step
  BY DEF Looks
<1>3. ASSUME NEW b \in Openers, NEW j \in Items, Misses(b, j)', b # a PROVE Misses(b, j)
  BY <1>0, <1>2, <1>3 DEF Misses, Looks
<1>4. ASSUME NEW j \in Items, Misses(a, j)' PROVE j = i /\ Count(i) = 0
  BY <1>0, <1>2, <1>4 DEF Misses, Looks, About
<1>5. ASSUME NEW b \in Openers, Misses(b, i), b # a PROVE i \in raced'
  <2>1. b \in Setups => Doing(b) = i
    <3>1. ASSUME b \in Setups PROVE Doing(b) = i
      <4>1. step[b] \in 2 .. 9 /\ ItemAt(step[b]) = i
        <5>1. step[b] \in 0 .. 9 /\ step[b] # 0 /\ step[b] # 1
          BY <1>0, <1>5, <3>1 DEF Misses, FoundInv
        <5>2. QED
          BY <1>5, <3>1, <5>1 DEF Misses
      <4>2. QED
        BY <1>0, <3>1, <4>1, DoingIs
    <3>2. QED
      BY <3>1
  <2>2. AlsoLooked(a, i)
    BY <1>0, <1>5, <2>1 DEF AlsoLooked, Misses, Openers
  <2>3. QED
    BY <2>2 DEF Looks
<1>6. \A j \in Items, b, c \in Openers : Misses(b, j)' /\ Misses(c, j)' /\ b # c => j \in raced'
  BY <1>0, <1>2, <1>3, <1>4, <1>5 DEF RaceInv
<1>7. \A j \in Items, b \in Openers : Misses(b, j)' /\ Count(j)' > 0 => j \in raced'
  BY <1>0, <1>1, <1>2, <1>3, <1>4 DEF RaceInv
<1>8. \A j \in Items : Count(j)' > 1 => j \in raced' /\ j \notin UniqueItems
  BY <1>0, <1>1, <1>2 DEF RaceInv
<1>9. QED
  BY <1>6, <1>7, <1>8 DEF RaceInv

LEMMA EndRaces ==
  ASSUME SetupInv, NEW a \in Openers, NEW i \in Items, Closes(a, i), About(a, i),
         \A w \in Setups \ {a} : step'[w] = step[w]
  PROVE  RaceInv'
<1>0. /\ FoundInv /\ RaceInv /\ SavedInv /\ DoneInv /\ LeadInv
      /\ step \in [Setups -> 0 .. 9]
      /\ found \in [Openers -> {"nothing", "missing", "there", "none", "old", "head"}]
      /\ Setups \subseteq Openers /\ Readers \subseteq Openers /\ Setups \intersect Readers = {}
      /\ Len(SetupSteps) = 9
      /\ raced \subseteq Items /\ \A j \in Items : Count(j) \in Nat
  BY SetupTypes, StepsAreSeeds, SetupAssumption
<1>1. raced' = raced /\ found' = [found EXCEPT ![a] = "nothing"]
  BY DEF Closes
<1>2. ASSUME NEW b \in Openers, NEW j \in Items, Misses(b, j)' PROVE b # a /\ Misses(b, j)
  BY <1>0, <1>1, <1>2 DEF Misses
<1>3. CASE UNCHANGED <<rows, settings>>
  <2>1. \A j \in Items : Count(j)' = Count(j)
    BY <1>3, SameCounts
  <2>2. QED
    BY <1>0, <1>1, <1>2, <2>1 DEF RaceInv
<1>4. CASE found[a] = "missing" /\ Inserts(i) /\ (i \in UniqueItems => Count(i) = 0)
  <2>1. \A j \in Items : Count(j)' = IF j = i THEN Count(j) + 1 ELSE Count(j)
    BY <1>4, InsertCounts
  <2>2. Misses(a, i)
    BY <1>4 DEF Misses, About
  <2>3. \A b \in Openers : Misses(b, i)' => i \in raced
    BY <1>0, <1>2, <2>2 DEF RaceInv
  <2>4. Count(i) > 0 => i \in raced
    BY <1>0, <2>2 DEF RaceInv
  <2>5. \A j \in Items, b \in Openers : Misses(b, j)' /\ Count(j)' > 0 => j \in raced'
    BY <1>0, <1>1, <1>2, <2>1, <2>3 DEF RaceInv
  <2>6. \A j \in Items : Count(j)' > 1 => j \in raced' /\ j \notin UniqueItems
    BY <1>0, <1>1, <1>4, <2>1, <2>4 DEF RaceInv
  <2>7. \A j \in Items, b, c \in Openers : Misses(b, j)' /\ Misses(c, j)' /\ b # c => j \in raced'
    BY <1>0, <1>1, <1>2 DEF RaceInv
  <2>8. QED
    BY <2>5, <2>6, <2>7 DEF RaceInv
<1>5. QED
  BY <1>3, <1>4 DEF Closes

LEMMA StepRaces ==
  ASSUME SetupInv, [SetupNext]_setupVars
  PROVE  RaceInv'
<1>0. /\ FoundInv /\ RaceInv /\ SavedInv /\ DoneInv /\ LeadInv /\ SetupTypeOK
      /\ step \in [Setups -> 0 .. 9]
      /\ rows \in [Items -> Nat] /\ settings \in Seq(Values \cup {DefaultSettings})
      /\ found \in [Openers -> {"nothing", "missing", "there", "none", "old", "head"}]
      /\ Setups \subseteq Openers /\ Readers \subseteq Openers /\ Setups \intersect Readers = {}
      /\ Openers = Setups \union Readers /\ Len(SetupSteps) = 9
      /\ \A j \in Items : Count(j) \in Nat
  BY SetupTypes, StepsAreSeeds, SetupAssumption DEF Openers
<1>a. ASSUME UNCHANGED <<rows, settings, raced>>,
             \A b \in Openers, j \in Items : Misses(b, j)' => Misses(b, j)
      PROVE  RaceInv'
  <2>1. \A j \in Items : Count(j)' = Count(j)
    BY <1>a, SameCounts
  <2>2. QED
    BY <1>0, <1>a, <2>1 DEF RaceInv
<1>1. ASSUME NEW w \in Setups, RunSetup(w) PROVE RaceInv'
  <2>1. \A b \in Openers, j \in Items : Misses(b, j)' => Misses(b, j)
    <3>1. found[w] = "nothing"
      BY <1>0, <1>1 DEF RunSetup, FoundInv
    <3>2. QED
      BY <1>0, <1>1, <3>1 DEF RunSetup, Misses
  <2>2. QED
    BY <1>a, <1>1, <2>1 DEF RunSetup
<1>2. ASSUME NEW w \in Setups, StartUpgrade(w) PROVE RaceInv'
  <2>1. \A b \in Openers, j \in Items : Misses(b, j)' => Misses(b, j)
    <3>1. found' = [found EXCEPT ![w] = schema] /\ step' = step /\ schema # "missing"
      BY <1>2, SetupTypes DEF StartUpgrade
    <3>2. QED
      BY <1>0, <3>1 DEF Misses
  <2>2. QED
    BY <1>a, <1>2, <2>1 DEF StartUpgrade
<1>3. ASSUME NEW w \in Setups, FinishUpgrade(w) \/ StepFails(w) PROVE RaceInv'
  <2>1. /\ found' = [found EXCEPT ![w] = "nothing"] /\ UNCHANGED <<rows, settings, raced>>
        /\ \A b \in Setups \ {w} : step'[b] = step[b]
    BY <1>0, <1>3 DEF FinishUpgrade, StepFails, GoOn, GiveUp
  <2>2. \A b \in Openers, j \in Items : Misses(b, j)' => Misses(b, j)
    BY <1>0, <2>1 DEF Misses
  <2>3. QED
    BY <1>a, <2>1, <2>2
<1>4. ASSUME NEW w \in Setups, Seeds(w) PROVE RaceInv'
  <2>1. ItemAt(step[w]) \in Items /\ About(w, ItemAt(step[w])) /\ w \in Openers
    BY <1>0, <1>4, StepsAreSeeds DEF Seeds, About
  <2>2. CASE LookFor(w, ItemAt(step[w]))
    <3>1. Looks(w, ItemAt(step[w]))
      BY <2>2 DEF LookFor, Looks
    <3>2. QED
      BY <2>1, <3>1, LookRaces
  <2>3. CASE Commit(w, ItemAt(step[w]))
    <3>1. Closes(w, ItemAt(step[w])) /\ (GoOn(w) \/ GiveUp(w))
      BY <2>1, <2>3, CommitDoes
    <3>2. \A b \in Setups \ {w} : step'[b] = step[b]
      BY <1>0, <3>1 DEF GoOn, GiveUp
    <3>3. QED
      BY <2>1, <3>1, <3>2, EndRaces
  <2>4. QED
    BY <1>4, <2>2, <2>3 DEF Seeds
<1>5. ASSUME NEW x \in Readers, ReadConfig(x) \/ CreateConfig(x) PROVE RaceInv'
  <2>1. "config" \in Items /\ About(x, "config") /\ x \in Openers
    BY <1>0 DEF Items, About
  <2>2. CASE ReadConfig(x)
    <3>1. Looks(x, "config")
      BY <2>2 DEF ReadConfig, LookFor, Looks
    <3>2. QED
      BY <2>1, <3>1, LookRaces
  <2>3. CASE CreateConfig(x)
    <3>1. Closes(x, "config") /\ step' = step
      BY <2>3, CreateDoes
    <3>2. QED
      BY <2>1, <3>1, EndRaces
  <2>4. QED
    BY <1>5, <2>2, <2>3
<1>6. CASE SaveSettings
  <2>1. UNCHANGED <<rows, found, step, raced>> /\ Len(settings') = Len(settings)
    BY <1>0, <1>6 DEF SaveSettings
  <2>2. \A j \in Items : Count(j)' = Count(j)
    BY <2>1 DEF Count
  <2>3. \A b \in Openers, j \in Items : Misses(b, j)' <=> Misses(b, j)
    BY <2>1 DEF Misses
  <2>4. QED
    BY <1>0, <2>1, <2>2, <2>3 DEF RaceInv
<1>7. CASE Ship
  <2>1. \A b \in Openers : found[b] = "nothing"
    BY <1>0, <1>7 DEF Ship, FoundInv
  <2>2. \A b \in Openers, j \in Items : ~Misses(b, j)'
    BY <1>7, <2>1 DEF Ship, Misses
  <2>3. PICK i \in {"permissions", "menu"} : rows' = [rows EXCEPT ![i] = 0] /\ raced' = raced \ {i}
    BY <1>7 DEF Ship
  <2>4. i \in Items /\ i # "config" /\ settings' = settings
    BY <1>7, <2>3 DEF Ship, Items
  <2>5. \A j \in Items : Count(j)' = IF j = i THEN 0 ELSE Count(j)
    BY <1>0, <2>3, <2>4 DEF Count
  <2>6. \A j \in Items : Count(j)' > 1 => j \in raced' /\ j \notin UniqueItems
    BY <1>0, <2>3, <2>5 DEF RaceInv
  <2>7. QED
    BY <2>2, <2>6 DEF RaceInv
<1>8. CASE UNCHANGED setupVars
  <2>1. \A b \in Openers, j \in Items : Misses(b, j)' => Misses(b, j)
    BY <1>8 DEF setupVars, Misses
  <2>2. QED
    BY <1>a, <1>8, <2>1 DEF setupVars
<1>9. QED
  BY <1>0, <1>1, <1>2, <1>3, <1>4, <1>5, <1>6, <1>7, <1>8, SetupCases

LEMMA StepSaved ==
  ASSUME SetupInv, [SetupNext]_setupVars
  PROVE  SavedInv'
<1>0. SavedInv /\ SetupTypeOK /\ settings \in Seq(Values \cup {DefaultSettings}) /\ Len(settings) \in Nat
  BY SetupTypes
<1>a. ASSUME NEW a, NEW i \in Items, Closes(a, i) PROVE SavedInv'
  <2>1. CASE settings' = settings
    BY <1>0, <1>a, <2>1 DEF Closes, SavedInv
  <2>2. CASE settings' = Append(settings, DefaultSettings)
    <3>1. Len(settings') = Len(settings) + 1 /\ settings'[Len(settings) + 1] = DefaultSettings
      BY <1>0, <2>2
    <3>2. QED
      BY <1>0, <1>a, <3>1 DEF Closes, SavedInv
  <2>3. QED
    BY <1>a, <2>1, <2>2 DEF Closes, Inserts
<1>1. ASSUME NEW w \in Setups, Seeds(w) PROVE SavedInv'
  <2>1. ItemAt(step[w]) \in Items
    BY <1>1, StepsAreSeeds DEF Seeds
  <2>2. QED
    BY <1>0, <1>a, <1>1, <2>1, CommitDoes DEF Seeds, LookFor, SavedInv
<1>2. ASSUME NEW x \in Readers, ReadConfig(x) \/ CreateConfig(x) PROVE SavedInv'
  <2>1. "config" \in Items
    BY DEF Items
  <2>2. QED
    BY <1>0, <1>a, <1>2, <2>1, CreateDoes DEF ReadConfig, LookFor, SavedInv
<1>3. CASE SaveSettings
  <2>1. PICK k \in DOMAIN settings, v \in Values : settings' = [settings EXCEPT ![k] = v] /\ saved' = v
    BY <1>3 DEF SaveSettings
  <2>2. Len(settings') = Len(settings) /\ k \in 1 .. Len(settings) /\ settings'[k] = v
    BY <1>0, <2>1
  <2>3. QED
    BY <1>0, <2>1, <2>2 DEF SavedInv
<1>4. QED
  BY <1>0, <1>1, <1>2, <1>3, SetupCases
  DEF RunSetup, StartUpgrade, FinishUpgrade, StepFails, Ship, setupVars, SavedInv

(* The seeds before a step, one more for every step.                       *)
LEMMA OneSeedMore ==
  /\ SeededBefore(2) = {}
  /\ \A n \in 2 .. 9 : /\ SeededBefore(n + 1) = SeededBefore(n) \cup {ItemAt(n)}
                       /\ ItemAt(n) \notin SeededBefore(n)
                       /\ SeededBefore(n) \subseteq Items
  /\ SeededBefore(10) = Items
  /\ SeededBefore(1) = {}
<1>1. SeededBefore(2) = {} /\ SeededBefore(1) = {}
  BY DEF SeededBefore
<1>2. ASSUME NEW n \in 2 .. 9
      PROVE  /\ SeededBefore(n + 1) = SeededBefore(n) \cup {ItemAt(n)}
             /\ ItemAt(n) \notin SeededBefore(n)
             /\ SeededBefore(n) \subseteq Items
  <2>1. 2 .. (n + 1 - 1) = (2 .. (n - 1)) \cup {n}
    OBVIOUS
  <2>2. SeededBefore(n + 1) = SeededBefore(n) \cup {ItemAt(n)}
    BY <2>1 DEF SeededBefore
  <2>3. \A m \in 2 .. (n - 1) : m \in 2 .. 9 /\ m # n
    OBVIOUS
  <2>4. ItemAt(n) \notin SeededBefore(n) /\ SeededBefore(n) \subseteq Items
    BY <2>3, StepsAreSeeds DEF SeededBefore
  <2>5. QED
    BY <2>2, <2>4
<1>3. SeededBefore(10) = Items
  <2>1. 2 .. (10 - 1) = 2 .. 9
    OBVIOUS
  <2>2. QED
    BY <2>1, StepsAreSeeds DEF SeededBefore
<1>4. QED
  BY <1>1, <1>2, <1>3

(* What a step does to the progress of the presses.                        *)
LEMMA CommitProgress ==
  ASSUME SetupInv, NEW w \in Setups, step[w] \in 2 .. 9, Commit(w, ItemAt(step[w]))
  PROVE  \/ /\ step' = [step EXCEPT ![w] = IF step[w] = 9 THEN 0 ELSE step[w] + 1]
            /\ seeded' = seeded \cup {ItemAt(step[w])}
         \/ /\ step' = [step EXCEPT ![w] = 0] /\ seeded' = seeded
            /\ UNCHANGED <<rows, settings>> /\ ItemAt(step[w]) \in seeded
<1>1. ItemAt(step[w]) \in Items /\ Len(SetupSteps) = 9
  BY StepsAreSeeds
<1>2. CASE GoOn(w) /\ seeded' = seeded \cup {ItemAt(step[w])}
  BY <1>1, <1>2 DEF GoOn
<1>3. CASE /\ GiveUp(w) /\ UNCHANGED <<seeded, rows, settings>> /\ found[w] = "missing"
           /\ ItemAt(step[w]) \in UniqueItems /\ Count(ItemAt(step[w])) > 0
  <2>1. Misses(w, ItemAt(step[w]))
    BY <1>3 DEF Misses
  <2>2. ItemAt(step[w]) \in seeded
    BY <1>3, <2>1, SetupTypes DEF DoneInv
  <2>3. QED
    BY <1>3, <2>2 DEF GiveUp
<1>4. QED
  BY <1>1, <1>2, <1>3, CommitDoes

LEMMA StepDone ==
  ASSUME SetupInv, [SetupNext]_setupVars
  PROVE  DoneInv'
<1>0. /\ FoundInv /\ DoneInv /\ SetupTypeOK
      /\ step \in [Setups -> 0 .. 9] /\ schema \in {"none", "old", "head"}
      /\ found \in [Openers -> {"nothing", "missing", "there", "none", "old", "head"}]
      /\ Setups \subseteq Openers /\ Readers \subseteq Openers /\ Setups \intersect Readers = {}
      /\ Openers = Setups \union Readers /\ Len(SetupSteps) = 9
      /\ \A j \in Items : Count(j) \in Nat
      /\ UniqueItems \subseteq Items /\ "config" \notin UniqueItems
  BY SetupTypes, StepsAreSeeds, SetupAssumption DEF Openers, UniqueItems, Items
<1>a. ASSUME seeded \subseteq seeded',
             \A b \in Setups : step'[b] # 0 => SeededBefore(step'[b]) \subseteq seeded',
             \A b \in Setups, j \in UniqueItems : Misses(b, j)' => Misses(b, j) \/ Count(j)' = 0,
             \A j \in UniqueItems : Count(j)' = Count(j) \/ j \in seeded' \/ Count(j)' = 0,
             schema' # "head" => seeded' = {}
      PROVE  DoneInv'
  <2>1. ASSUME NEW b \in Setups, NEW j \in UniqueItems, Misses(b, j)', Count(j)' > 0 PROVE j \in seeded'
    <3>1. Misses(b, j)
      BY <1>a, <2>1
    <3>2. QED
      BY <1>0, <1>a, <2>1, <3>1 DEF DoneInv
  <2>2. QED
    BY <1>a, <2>1 DEF DoneInv
<1>1. ASSUME NEW w \in Setups, RunSetup(w) PROVE DoneInv'
  <2>1. step' = [step EXCEPT ![w] = 1] /\ UNCHANGED <<seeded, schema, found, rows, settings>> /\ found[w] = "nothing"
    BY <1>0, <1>1 DEF RunSetup, FoundInv
  <2>2. \A j \in UniqueItems : Count(j)' = Count(j)
    BY <1>0, <2>1, SameCounts
  <2>3. \A b \in Setups, j \in UniqueItems : Misses(b, j)' => Misses(b, j)
    BY <1>0, <2>1 DEF Misses
  <2>4. \A b \in Setups : step'[b] # 0 => SeededBefore(step'[b]) \subseteq seeded'
    BY <1>0, <2>1, OneSeedMore DEF DoneInv
  <2>5. QED
    BY <1>0, <1>a, <2>1, <2>2, <2>3, <2>4 DEF DoneInv
<1>2. ASSUME NEW w \in Setups, StartUpgrade(w) PROVE DoneInv'
  <2>1. found' = [found EXCEPT ![w] = schema] /\ UNCHANGED <<seeded, schema, step, rows, settings>> /\ schema # "missing"
    BY <1>0, <1>2 DEF StartUpgrade
  <2>2. \A j \in UniqueItems : Count(j)' = Count(j)
    BY <1>0, <2>1, SameCounts
  <2>3. \A b \in Setups, j \in UniqueItems : Misses(b, j)' => Misses(b, j)
    BY <1>0, <2>1 DEF Misses
  <2>4. QED
    BY <1>0, <1>a, <2>1, <2>2, <2>3 DEF DoneInv
<1>3. ASSUME NEW w \in Setups, FinishUpgrade(w) \/ StepFails(w) PROVE DoneInv'
  <2>1. /\ found' = [found EXCEPT ![w] = "nothing"] /\ UNCHANGED <<rows, settings, seeded>>
        /\ \/ step' = [step EXCEPT ![w] = 2] /\ schema' = "head"
           \/ step' = [step EXCEPT ![w] = 0] /\ schema' = schema
    <3>1. CASE FinishUpgrade(w)
      <4>1. step[w] = 1
        BY <1>0, <3>1, DoingIs DEF FinishUpgrade
      <4>2. QED
        BY <1>0, <3>1, <4>1 DEF FinishUpgrade, GoOn, GiveUp
    <3>2. CASE StepFails(w)
      BY <3>2 DEF StepFails, GiveUp
    <3>3. QED
      BY <1>3, <3>1, <3>2
  <2>2. \A j \in UniqueItems : Count(j)' = Count(j)
    BY <1>0, <2>1, SameCounts
  <2>3. \A b \in Setups, j \in UniqueItems : Misses(b, j)' => Misses(b, j)
    BY <1>0, <2>1 DEF Misses
  <2>4. \A b \in Setups : step'[b] # 0 => SeededBefore(step'[b]) \subseteq seeded'
    BY <1>0, <2>1, OneSeedMore DEF DoneInv
  <2>5. QED
    BY <1>0, <1>a, <2>1, <2>2, <2>3, <2>4 DEF DoneInv
<1>4. ASSUME NEW w \in Setups, Seeds(w) PROVE DoneInv'
  <2>0. ItemAt(step[w]) \in Items /\ step[w] \in 2 .. 9 /\ schema = "head"
    BY <1>0, <1>4, StepsAreSeeds DEF Seeds, FoundInv
  <2>1. CASE LookFor(w, ItemAt(step[w]))
    <3>1. /\ UNCHANGED <<schema, step, seeded, rows, settings>>
          /\ found' = [found EXCEPT ![w] = IF Count(ItemAt(step[w])) = 0 THEN "missing" ELSE "there"]
      BY <2>1 DEF LookFor
    <3>2. \A j \in UniqueItems : Count(j)' = Count(j)
      BY <1>0, <3>1, SameCounts
    <3>3. \A b \in Setups, j \in UniqueItems : Misses(b, j)' => Misses(b, j) \/ Count(j)' = 0
      BY <1>0, <3>1, <3>2 DEF Misses
    <3>4. QED
      BY <1>0, <1>a, <3>1, <3>2, <3>3 DEF DoneInv
  <2>2. CASE Commit(w, ItemAt(step[w]))
    <3>1. Closes(w, ItemAt(step[w]))
      BY <2>0, <2>2, CommitDoes
    <3>2. \/ /\ step' = [step EXCEPT ![w] = IF step[w] = 9 THEN 0 ELSE step[w] + 1]
             /\ seeded' = seeded \cup {ItemAt(step[w])}
          \/ /\ step' = [step EXCEPT ![w] = 0] /\ seeded' = seeded
             /\ UNCHANGED <<rows, settings>> /\ ItemAt(step[w]) \in seeded
      BY <2>0, <2>2, CommitProgress
    <3>3. schema' = schema /\ found' = [found EXCEPT ![w] = "nothing"] /\ seeded \subseteq seeded'
      BY <3>1, <3>2 DEF Closes
    <3>4. \A b \in Setups, j \in UniqueItems : Misses(b, j)' => Misses(b, j)
      BY <1>0, <3>2, <3>3 DEF Misses
    <3>5. \A j \in UniqueItems : Count(j)' = Count(j) \/ j \in seeded'
      <4>1. CASE UNCHANGED <<rows, settings>>
        BY <1>0, <4>1, SameCounts
      <4>2. CASE Inserts(ItemAt(step[w])) /\ ~UNCHANGED <<rows, settings>>
        <5>1. \A j \in Items : Count(j)' = IF j = ItemAt(step[w]) THEN Count(j) + 1 ELSE Count(j)
          BY <2>0, <4>2, InsertCounts
        <5>2. QED
          BY <1>0, <3>2, <4>2, <5>1
      <4>3. QED
        BY <3>1, <4>1, <4>2 DEF Closes
    <3>6. \A b \in Setups : step'[b] # 0 => SeededBefore(step'[b]) \subseteq seeded'
      <4>1. ASSUME NEW b \in Setups, step'[b] # 0 PROVE SeededBefore(step'[b]) \subseteq seeded'
        <5>1. CASE b # w
          BY <1>0, <3>2, <4>1, <5>1 DEF DoneInv
        <5>2. CASE b = w
          <6>1. step'[w] = step[w] + 1 /\ seeded' = seeded \cup {ItemAt(step[w])}
            BY <1>0, <3>2, <4>1, <5>2
          <6>2. SeededBefore(step[w]) \subseteq seeded
            BY <1>0, <2>0 DEF DoneInv
          <6>3. QED
            BY <2>0, <5>2, <6>1, <6>2, OneSeedMore
        <5>3. QED
          BY <5>1, <5>2
      <4>2. QED
        BY <4>1
    <3>7. QED
      BY <1>a, <2>0, <3>3, <3>4, <3>5, <3>6
  <2>3. QED
    BY <1>4, <2>1, <2>2 DEF Seeds
<1>5. ASSUME NEW x \in Readers, ReadConfig(x) \/ CreateConfig(x) PROVE DoneInv'
  <2>1. /\ UNCHANGED <<schema, step, seeded>>
        /\ \A b \in Setups : found'[b] = found[b]
    BY <1>0, <1>5 DEF ReadConfig, LookFor, CreateConfig
  <2>2. \A j \in UniqueItems : Count(j)' = Count(j)
    BY <1>0, <1>5, CreateDoes DEF ReadConfig, LookFor, Closes, Inserts, Count
  <2>3. \A b \in Setups, j \in UniqueItems : Misses(b, j)' => Misses(b, j)
    BY <1>0, <2>1 DEF Misses
  <2>4. QED
    BY <1>0, <1>a, <2>1, <2>2, <2>3 DEF DoneInv
<1>6. CASE SaveSettings
  <2>1. UNCHANGED <<schema, rows, found, step, seeded>>
    BY <1>6 DEF SaveSettings
  <2>2. \A j \in UniqueItems : Count(j)' = Count(j)
    BY <1>0, <2>1 DEF Count
  <2>3. \A b \in Setups, j \in UniqueItems : Misses(b, j)' => Misses(b, j)
    BY <2>1 DEF Misses
  <2>4. QED
    BY <1>0, <1>a, <2>1, <2>2, <2>3 DEF DoneInv
<1>7. CASE Ship
  <2>1. /\ \A b \in Setups : found'[b] = "nothing" /\ step'[b] = 0
        /\ seeded' = {}
    BY <1>0, <1>7 DEF Ship, FoundInv
  <2>2. QED
    BY <2>1 DEF DoneInv, Misses
<1>8. CASE UNCHANGED setupVars
  <2>1. UNCHANGED <<schema, rows, settings, found, step, seeded>>
    BY <1>8 DEF setupVars
  <2>2. \A j \in UniqueItems : Count(j)' = Count(j)
    BY <1>0, <2>1, SameCounts
  <2>3. \A b \in Setups, j \in UniqueItems : Misses(b, j)' => Misses(b, j)
    BY <2>1 DEF Misses
  <2>4. QED
    BY <1>0, <1>a, <2>1, <2>2, <2>3 DEF DoneInv
<1>9. QED
  BY <1>0, <1>1, <1>2, <1>3, <1>4, <1>5, <1>6, <1>7, <1>8, SetupCases

LEMMA StepLead ==
  ASSUME SetupInv, [SetupNext]_setupVars
  PROVE  LeadInv'
<1>0. /\ FoundInv /\ DoneInv /\ LeadInv /\ SetupTypeOK
      /\ step \in [Setups -> 0 .. 9] /\ schema \in {"none", "old", "head"}
      /\ seeded \subseteq Items /\ Len(SetupSteps) = 9
  BY SetupTypes, StepsAreSeeds
<1>n. faults \in Nat
  <2>1. faults \in 0 .. MaxFaults /\ MaxFaults \in Nat
    BY <1>0, SetupAssumption DEF SetupTypeOK
  <2>2. QED
    BY <2>1
<1>a. ASSUME UNCHANGED <<schema, seeded, faults>>, \A b \in Setups : step[b] > 1 => step'[b] = step[b]
      PROVE  LeadInv'
  BY <1>0, <1>a DEF LeadInv
<1>1. ASSUME NEW w \in Setups, RunSetup(w) PROVE LeadInv'
  BY <1>0, <1>1, <1>a DEF RunSetup
<1>2. ASSUME NEW w \in Setups, StartUpgrade(w) PROVE LeadInv'
  BY <1>0, <1>2, <1>a DEF StartUpgrade
<1>3. ASSUME NEW w \in Setups, FinishUpgrade(w) PROVE LeadInv'
  <2>1. step[w] = 1
    BY <1>0, <1>3, DoingIs DEF FinishUpgrade
  <2>2. CASE schema = "head"
    <3>1. UNCHANGED <<schema, seeded, faults>> /\ \A b \in Setups \ {w} : step'[b] = step[b]
      BY <1>0, <1>3, <2>2 DEF FinishUpgrade, GoOn, GiveUp
    <3>2. QED
      BY <1>0, <1>a, <2>1, <3>1
  <2>3. CASE schema # "head" /\ found[w] = schema
    <3>1. step' = [step EXCEPT ![w] = 2] /\ seeded' = seeded /\ faults' = faults
      BY <1>0, <1>3, <2>1, <2>3 DEF FinishUpgrade, GoOn
    <3>2. seeded = {}
      BY <1>0, <2>3 DEF DoneInv
    <3>3. step'[w] > 1 /\ seeded' = SeededBefore(step'[w])
      BY <1>0, <3>1, <3>2, OneSeedMore
    <3>4. QED
      BY <3>3 DEF LeadInv
  <2>4. CASE schema # "head" /\ found[w] # schema
    BY <1>3, <2>4 DEF FinishUpgrade, LeadInv
  <2>5. QED
    BY <2>2, <2>3, <2>4
<1>4. ASSUME NEW w \in Setups, Seeds(w) PROVE LeadInv'
  <2>0. ItemAt(step[w]) \in Items /\ step[w] \in 2 .. 9 /\ schema = "head" /\ SeededBefore(step[w]) \subseteq seeded
    BY <1>0, <1>4, StepsAreSeeds DEF Seeds, FoundInv, DoneInv
  <2>1. CASE LookFor(w, ItemAt(step[w]))
    BY <1>0, <1>a, <2>1 DEF LookFor
  <2>2. CASE Commit(w, ItemAt(step[w])) /\ faults = 0
    <3>1. UNCHANGED <<schema, faults>>
      BY <2>2 DEF Commit
    <3>2. \/ /\ step' = [step EXCEPT ![w] = IF step[w] = 9 THEN 0 ELSE step[w] + 1]
             /\ seeded' = seeded \cup {ItemAt(step[w])}
          \/ /\ step' = [step EXCEPT ![w] = 0] /\ seeded' = seeded
             /\ ItemAt(step[w]) \in seeded
      BY <2>0, <2>2, CommitProgress
    <3>3. CASE seeded = Items
      BY <2>0, <3>2, <3>3 DEF LeadInv
    <3>4. ASSUME NEW l \in Setups, step[l] > 1, seeded = SeededBefore(step[l]) PROVE LeadInv'
      <4>1. CASE ItemAt(step[w]) \in seeded
        <5>1. l # w
          BY <2>0, <3>4, <4>1, OneSeedMore
        <5>2. seeded' = seeded /\ step'[l] = step[l]
          BY <1>0, <3>2, <4>1, <5>1
        <5>3. QED
          BY <3>4, <5>2 DEF LeadInv
      <4>2. CASE ItemAt(step[w]) \notin seeded
        <5>1. /\ step' = [step EXCEPT ![w] = IF step[w] = 9 THEN 0 ELSE step[w] + 1]
              /\ seeded' = seeded \cup {ItemAt(step[w])}
          BY <3>2, <4>2
        <5>2. seeded = SeededBefore(step[w])
          <6>1. step[l] \in 2 .. 9
            BY <1>0, <3>4
          <6>2. ~(step[w] < step[l])
            <7>1. ASSUME step[w] < step[l] PROVE FALSE
              <8>1. step[w] \in 2 .. (step[l] - 1)
                BY <2>0, <6>1, <7>1
              <8>2. QED
                BY <3>4, <4>2, <8>1 DEF SeededBefore
            <7>2. QED
              BY <7>1
          <6>3. ~(step[l] < step[w])
            <7>1. ASSUME step[l] < step[w] PROVE FALSE
              <8>1. step[l] \in 2 .. (step[w] - 1)
                BY <2>0, <6>1, <7>1
              <8>2. ItemAt(step[l]) \in SeededBefore(step[w])
                BY <8>1 DEF SeededBefore
              <8>3. QED
                BY <2>0, <3>4, <6>1, <8>2, OneSeedMore
            <7>2. QED
              BY <7>1
          <6>4. step[l] = step[w]
            BY <2>0, <6>1, <6>2, <6>3
          <6>5. QED
            BY <3>4, <6>4
        <5>3. seeded' = SeededBefore(step[w] + 1)
          BY <2>0, <5>1, <5>2, OneSeedMore
        <5>4. CASE step[w] = 9
          <6>1. seeded' = Items
            BY <5>3, <5>4, OneSeedMore
          <6>2. QED
            BY <6>1 DEF LeadInv
        <5>5. CASE step[w] # 9
          <6>1. step'[w] = step[w] + 1 /\ step[w] + 1 > 1
            BY <1>0, <2>0, <5>1, <5>5
          <6>2. QED
            BY <5>3, <6>1 DEF LeadInv
        <5>6. QED
          BY <5>4, <5>5
      <4>3. QED
        BY <4>1, <4>2
    <3>5. QED
      BY <1>0, <2>0, <2>2, <3>3, <3>4 DEF LeadInv
  <2>3. CASE Commit(w, ItemAt(step[w])) /\ faults # 0
    BY <2>3 DEF Commit, LeadInv
  <2>4. QED
    BY <1>4, <2>1, <2>2, <2>3 DEF Seeds
<1>5. ASSUME NEW w \in Setups, StepFails(w) PROVE LeadInv'
  <2>1. faults' # 0
    BY <1>n, <1>5 DEF StepFails
  <2>2. QED
    BY <2>1 DEF LeadInv
<1>6. CASE Ship
  BY <1>6 DEF Ship, LeadInv
<1>7. ASSUME NEW x \in Readers, ReadConfig(x) \/ CreateConfig(x) PROVE LeadInv'
  BY <1>a, <1>7 DEF ReadConfig, LookFor, CreateConfig
<1>8. CASE SaveSettings
  BY <1>a, <1>8 DEF SaveSettings
<1>9. CASE UNCHANGED setupVars
  BY <1>a, <1>9 DEF setupVars
<1>10. QED
  BY <1>0, <1>1, <1>2, <1>3, <1>4, <1>5, <1>6, <1>7, <1>8, <1>9, SetupCases

LEMMA InitSetup == SetupInit => SetupInv
<1> SUFFICES ASSUME SetupInit PROVE SetupInv
  OBVIOUS
<1>0. /\ schema = "none" /\ settings = << >> /\ saved = DefaultSettings /\ seeded = {}
      /\ \A w \in Setups : step[w] = 0
      /\ \A a \in Openers : found[a] = "nothing"
      /\ Setups \subseteq Openers /\ Len(SetupSteps) = 9
  BY StepsAreSeeds DEF SetupInit, Openers
<1>1. SetupTypeOK
  <2>1. MaxFaults \in Nat /\ MaxReleases \in Nat /\ MaxSaves \in Nat
    BY SetupAssumption
  <2>2. << >> \in Seq(Values \cup {DefaultSettings})
    OBVIOUS
  <2>3. QED
    BY <1>0, <2>1, <2>2 DEF SetupInit, SetupTypeOK
<1>2. FoundInv
  <2>1. ASSUME NEW w \in Setups PROVE found[w] = "nothing" /\ step[w] = 0
    BY <1>0
  <2>2. 0 # 1 /\ ~(0 > 1)
    OBVIOUS
  <2>3. QED
    BY <2>1, <2>2, Zenon DEF FoundInv
<1>3. RaceInv
  <2>1. \A j \in Items : Count(j) = 0
    BY <1>0 DEF SetupInit, Count
  <2>2. \A j \in Items, a \in Openers : ~Misses(a, j)
    BY <1>0 DEF Misses
  <2>3. QED
    BY <2>1, <2>2 DEF RaceInv
<1>4. SavedInv
  BY <1>0 DEF SavedInv
<1>5. DoneInv
  BY <1>0 DEF DoneInv, Misses
<1>6. LeadInv
  BY <1>0 DEF LeadInv
<1>7. QED
  BY <1>1, <1>2, <1>3, <1>4, <1>5, <1>6 DEF SetupInv

LEMMA AlwaysSetup == SetupSpec => []SetupInv
<1>1. SetupInit => SetupInv
  BY InitSetup
<1>2. SetupInv /\ [SetupNext]_setupVars => SetupInv'
  BY StepSetupTypes, StepFound, StepRaces, StepSaved, StepDone, StepLead DEF SetupInv
<1>3. QED
  BY <1>1, <1>2, PTL DEF SetupSpec

(* Through every interleaving of presses, readers, releases and failures   *)
(* the tables of the setup keep their types.                               *)
THEOREM SetupTypeCorrect == SetupSpec => []SetupTypeOK
<1>1. SetupInv => SetupTypeOK
  BY DEF SetupInv
<1>2. QED
  BY <1>1, AlwaysSetup, PTL

(* However many times, and by however many at once, the button is pressed: *)
(* a seeded row exists twice only after a race for it, never against a     *)
(* unique column; settings that exist once are the ones last saved; and,   *)
(* unless a seed failed of itself, a wizard that closed leaves every seed  *)
(* in the database.                                                        *)
THEOREM SeedsAreWhole == SetupSpec => []SeededOnceAndWhole
<1>1. SetupInv => SeededOnceAndWhole
  <2> SUFFICES ASSUME SetupInv PROVE SeededOnceAndWhole
    OBVIOUS
  <2>1. RaceInv /\ SavedInv /\ LeadInv /\ settings \in Seq(Values \cup {DefaultSettings})
    BY SetupTypes
  <2>2. \A i \in Items : Count(i) > 1 => i \in raced /\ i \notin UniqueItems
    BY <2>1 DEF RaceInv
  <2>3. \A k \in DOMAIN settings : Len(settings) = 1 => settings[k] = saved
    BY <2>1 DEF SavedInv
  <2>4. ASSUME faults = 0, IsSetupComplete, \A w \in Setups : step[w] = 0 PROVE seeded = Items
    BY <2>1, <2>4 DEF LeadInv, IsSetupComplete
  <2>5. QED
    BY <2>2, <2>3, <2>4 DEF SeededOnceAndWhole
<1>2. QED
  BY <1>1, AlwaysSetup, PTL

-----------------------------------------------------------------------------
(* The catalogue.                                                          *)

(* A reference that the delete of its target takes along, and that no      *)
(* route lets go on purpose, is counted before the delete.                 *)
Spared == LetGo \/ edge.on \in {"refuses", "ignores"}

(* A request gives a reference up unasked only where it is let go; one     *)
(* that is about to delete has counted every reference that is not late.   *)
KeptInv ==
  \A q \in Requests :
    /\ does[q] = "lose" => LetGo
    /\ does[q] = "delete" => Spared \/ refs \subseteq late[q]

CatalogueInv == CatalogueTypeOK /\ KeptInv

(* What a route does before its commit. *)
Begun(q) ==
  \E r \in Referrers :
    \/ Begin(q, "refer", r) \/ Begin(q, "drop", r)
    \/ LetGo /\ Begin(q, "lose", r)
    \/ (Spared \/ refs = {}) /\ Begin(q, "delete", r)

Still == target' \in {"active", "disabled"} /\ UNCHANGED <<edge, refs, does, subject, late, dropped>>

(* What the schema says of the references that a delete would take along.  *)
LEMMA CountedEdges ==
  ASSUME edge \in Edges, ~Spared
  PROVE  \/ edge.from = "builder" /\ edge.to = "dockerfile"
         \/ edge.from = "manifest" /\ edge.to = "server"
         \/ edge.from = "user" /\ edge.to = "role"
         \/ edge.from = "role" /\ edge.to = "permission"
         \/ edge.from = "menu" /\ edge.to = "menu"
<1>1. CASE edge \in BuilderEdges
  BY <1>1 DEF BuilderEdges, Edge, Spared, LetGo
<1>2. CASE edge \in BuildEdges \/ edge \in BatchEdges \/ edge \in VersionEdges \/ edge \in RepositoryEdges
  BY <1>2 DEF BuildEdges, BatchEdges, VersionEdges, RepositoryEdges, Edge, Spared
<1>3. CASE edge \in ManifestEdges \/ edge \in BindingEdges
  BY <1>3 DEF ManifestEdges, BindingEdges, Edge, Spared, LetGo
<1>4. CASE edge \in ExecutionEdges \/ edge \in RunEdges \/ edge \in ServerEdges
  BY <1>4 DEF ExecutionEdges, RunEdges, ServerEdges, Edge, Spared, LetGo
<1>5. CASE edge \in WorkflowEdges \/ edge \in StepEdges
  BY <1>5 DEF WorkflowEdges, StepEdges, Edge, Spared, LetGo
<1>6. CASE edge \in WorkflowRunEdges \/ edge \in StepRunEdges
  BY <1>6 DEF WorkflowRunEdges, StepRunEdges, Edge, Spared
<1>7. CASE edge \in UserEdges \/ edge \in LogEdges
  BY <1>7 DEF UserEdges, LogEdges, Edge, Spared, LetGo
<1>8. CASE edge \in RoleEdges \/ edge \in MenuEdges
  BY <1>8 DEF RoleEdges, MenuEdges, Edge, Spared, LetGo
<1>9. QED
  BY <1>1, <1>2, <1>3, <1>4, <1>5, <1>6, <1>7, <1>8 DEF Edges

(* What the form of a manifest holds: its servers, its user, its bindings. *)
LEMMA ManifestForm ==
  ASSUME edge \in Edges, edge.from \in {"manifest", "binding"}, edge.to # "server"
  PROVE  LetGo
<1>1. CASE edge \in BuilderEdges
  BY <1>1 DEF BuilderEdges, Edge
<1>2. CASE edge \in BuildEdges \/ edge \in BatchEdges \/ edge \in VersionEdges \/ edge \in RepositoryEdges
  BY <1>2 DEF BuildEdges, BatchEdges, VersionEdges, RepositoryEdges, Edge
<1>3. CASE edge \in ManifestEdges \/ edge \in BindingEdges
  BY <1>3 DEF ManifestEdges, BindingEdges, Edge, LetGo
<1>4. CASE edge \in ExecutionEdges \/ edge \in RunEdges \/ edge \in ServerEdges
  BY <1>4 DEF ExecutionEdges, RunEdges, ServerEdges, Edge
<1>5. CASE edge \in WorkflowEdges \/ edge \in StepEdges
  BY <1>5 DEF WorkflowEdges, StepEdges, Edge
<1>6. CASE edge \in WorkflowRunEdges \/ edge \in StepRunEdges
  BY <1>6 DEF WorkflowRunEdges, StepRunEdges, Edge
<1>7. CASE edge \in UserEdges \/ edge \in LogEdges
  BY <1>7 DEF UserEdges, LogEdges, Edge
<1>8. CASE edge \in RoleEdges \/ edge \in MenuEdges
  BY <1>8 DEF RoleEdges, MenuEdges, Edge
<1>9. QED
  BY <1>1, <1>2, <1>3, <1>4, <1>5, <1>6, <1>7, <1>8 DEF Edges

(* The three shapes of a route. *)
LEMMA SomeRowIs == SomeRow \in Referrers
  BY CatalogueAssumption DEF CatalogueAssumption, SomeRow

LEMMA CreateBegins ==
  ASSUME NEW q, NEW kind, NEW choices, Create(q, kind, choices)
  PROVE  Begun(q) \/ Still
  BY DEF Create, Begun, Still

LEMMA EditBegins ==
  ASSUME NEW q, NEW kind, NEW choices, Edit(q, kind, choices), CatalogueTypeOK,
         Owner = kind => LetGo \/ choices.kept = {"active", "disabled"}
  PROVE  Begun(q)
<1>1. Owner = kind /\ Exists /\ refs \subseteq Referrers
  BY DEF Edit, CatalogueTypeOK
<1>2. target \notin choices.kept => LetGo
  BY <1>1 DEF Exists
<1>3. QED
  BY <1>1, <1>2 DEF Edit, Begun

LEMMA DeleteBegins ==
  ASSUME NEW q, NEW kind, NEW counted, Delete(q, kind, counted), CatalogueTypeOK,
         edge.to = kind => Spared \/ edge.from \in counted
  PROVE  Begun(q)
<1>1. refs \subseteq Referrers /\ SomeRow \in Referrers
  BY SomeRowIs DEF CatalogueTypeOK
<1>2. CASE edge.to = kind /\ (edge.from \in counted => refs = {}) /\ Begin(q, "delete", SomeRow)
  <2>1. Spared \/ refs = {}
    BY <1>2
  <2>2. QED
    BY <1>1, <1>2, <2>1 DEF Begun
<1>3. CASE \E r \in refs : Begin(q, "drop", r)
  BY <1>1, <1>3 DEF Begun
<1>4. QED
  BY <1>2, <1>3 DEF Delete

LEMMA RouteBegins ==
  ASSUME CatalogueTypeOK, NEW q \in Requests, Route(q)
  PROVE  Begun(q) \/ Still
<1>0. edge \in Edges
  BY DEF CatalogueTypeOK
<1>1. CASE \/ CreateBuilder(q) \/ EnqueueBuild(q) \/ CreateVersion(q) \/ CreateDockerfile(q) \/ CreateRegistry(q)
           \/ CreateConnection(q) \/ RegisterRepository(q) \/ CreateServer(q) \/ CreateManifest(q)
  BY <1>1, CreateBegins DEF CreateBuilder, EnqueueBuild, CreateVersion, CreateDockerfile, CreateRegistry,
     CreateConnection, RegisterRepository, CreateServer, CreateManifest
<1>2. CASE \/ TriggerDeploy(q) \/ CreateWorkflow(q) \/ AddBuildStep(q) \/ AddDeployStep(q) \/ TriggerRun(q)
           \/ CreateRole(q) \/ CreateUser(q) \/ LogActivity(q) \/ CreatePermission(q) \/ CreateMenu(q)
  BY <1>2, CreateBegins DEF TriggerDeploy, CreateWorkflow, AddBuildStep, AddDeployStep, TriggerRun,
     CreateRole, CreateUser, LogActivity, CreatePermission, CreateMenu
<1>3. CASE EditBuilder(q)
  <2>1. Owner = "builder" => edge.from = "builder"
    BY DEF Owner
  <2>2. Owner = "builder" => LetGo \/ BuilderChoices.kept = {"active", "disabled"}
    BY <2>1 DEF BuilderChoices, LetGo, Active, AllRows, WithFallback
  <2>3. QED
    BY <1>3, <2>2, EditBegins DEF EditBuilder
<1>4. CASE EditManifest(q)
  <2>1. Owner = "manifest" => edge.from \in {"manifest", "binding"}
    BY DEF Owner
  <2>2. Owner = "manifest" => LetGo \/ ManifestChoices.kept = {"active", "disabled"}
    BY <1>0, <2>1, ManifestForm DEF ManifestChoices, ServerChoices, WithFallback
  <2>3. QED
    BY <1>4, <2>2, EditBegins DEF EditManifest
<1>5. CASE EditVersion(q) \/ EditServer(q) \/ EditWorkflow(q) \/ EditRole(q) \/ EditUser(q) \/ EditMenu(q)
  <2>1. LinkedVersionChoices.kept = {"active", "disabled"} /\ AllRows.kept = {"active", "disabled"}
    BY DEF LinkedVersionChoices, WithFallback, AllRows
  <2>2. QED
    BY <1>5, <2>1, EditBegins DEF EditVersion, EditServer, EditWorkflow, EditRole, EditUser, EditMenu
<1>6. CASE \/ DeleteBuilder(q) \/ DeleteVersion(q) \/ DeleteRegistry(q) \/ DeleteConnection(q) \/ RemoveRepository(q)
           \/ DropManifest(q) \/ DeleteWorkflow(q) \/ DropStep(q) \/ DeleteUser(q)
  <2>1. edge.to \in {"builder", "version", "registry", "connection", "repository", "manifest", "workflow", "step", "user"}
        => Spared
    BY <1>0, CountedEdges
  <2>2. QED
    BY <1>6, <2>1, DeleteBegins DEF DeleteBuilder, DeleteVersion, DeleteRegistry, DeleteConnection, RemoveRepository,
       DropManifest, DeleteWorkflow, DropStep, DeleteUser
<1>7. CASE DeleteDockerfile(q) \/ DeleteServer(q) \/ DeleteRole(q) \/ DeletePermission(q) \/ DeleteMenu(q)
  <2>1. /\ edge.to = "dockerfile" => Spared \/ edge.from \in {"builder"}
        /\ edge.to = "server" => Spared \/ edge.from \in {"manifest", "execution"}
        /\ edge.to = "role" => Spared \/ edge.from \in {"user"}
        /\ edge.to = "permission" => Spared \/ edge.from \in {"role", "menu"}
        /\ edge.to = "menu" => Spared \/ edge.from \in {"menu"}
    BY <1>0, CountedEdges
  <2>2. QED
    BY <1>7, <2>1, DeleteBegins DEF DeleteDockerfile, DeleteServer, DeleteRole, DeletePermission, DeleteMenu
<1>8. QED
  BY <1>1, <1>2, <1>3, <1>4, <1>5, <1>6, <1>7 DEF Route

LEMMA CatalogueCases ==
  ASSUME CatalogueTypeOK, [CatalogueNext]_catalogueVars
  PROVE  \/ \E q \in Requests : Begun(q) \/ CommitRefer(q) \/ CommitDrop(q) \/ CommitDelete(q)
         \/ Still \/ RenamePermission \/ ReorderMenus \/ UNCHANGED catalogueVars
<1>1. ASSUME NEW kind, Toggle(kind) PROVE Still
  BY <1>1 DEF Toggle, Still
<1>2. QED
  BY <1>1, RouteBegins DEF CatalogueNext, ToggleBuilder, ToggleVersion, ToggleDockerfile, ToggleRegistry,
     ToggleConnection, ResyncRepository, ToggleServer, ToggleManifest, ToggleWorkflow, ToggleUser

LEMMA StepCatalogue ==
  ASSUME CatalogueInv, [CatalogueNext]_catalogueVars
  PROVE  CatalogueInv'
<1>0. /\ CatalogueTypeOK /\ KeptInv /\ edge \in Edges
      /\ refs \subseteq Referrers /\ dropped \subseteq Referrers
      /\ does \in [Requests -> Doings] /\ subject \in [Requests -> Referrers]
      /\ late \in [Requests -> SUBSET Referrers] /\ target \in {"none", "active", "disabled", "gone"}
  BY DEF CatalogueInv, CatalogueTypeOK
<1>a. ASSUME edge' = edge PROVE (LetGo' <=> LetGo) /\ (Spared' <=> Spared)
  BY <1>a DEF LetGo, Spared
<1>1. ASSUME NEW q \in Requests, Begun(q) PROVE CatalogueInv'
  <2>1. PICK r \in Referrers, d \in Doings :
           /\ Begin(q, d, r) /\ (d = "lose" => LetGo) /\ (d = "delete" => Spared \/ refs = {})
    BY <1>1 DEF Begun, Doings
  <2>2. /\ does' = [does EXCEPT ![q] = d] /\ subject' = [subject EXCEPT ![q] = r]
        /\ late' = [late EXCEPT ![q] = {}] /\ UNCHANGED <<edge, target, refs, dropped>>
    BY <2>1 DEF Begin
  <2>3. CatalogueTypeOK'
    BY <1>0, <2>2 DEF CatalogueTypeOK
  <2>4. KeptInv'
    BY <1>0, <1>a, <2>1, <2>2 DEF KeptInv
  <2>5. QED
    BY <2>3, <2>4 DEF CatalogueInv
<1>2. ASSUME NEW q \in Requests, CommitRefer(q) PROVE CatalogueInv'
  <2>1. /\ does' = [does EXCEPT ![q] = "nothing"] /\ UNCHANGED <<edge, target, subject>>
        /\ subject[q] \in Referrers /\ "nothing" \in Doings
    BY <1>0, <1>2 DEF CommitRefer, Doings
  <2>2. CASE Exists
    <3>1. /\ refs' = refs \union {subject[q]} /\ dropped' = dropped \ {subject[q]}
          /\ late' = [p \in Requests |-> IF does[p] = "delete" THEN late[p] \union {subject[q]} ELSE late[p]]
      BY <1>2, <2>2 DEF CommitRefer
    <3>2. CatalogueTypeOK'
      BY <1>0, <2>1, <3>1 DEF CatalogueTypeOK
    <3>3. KeptInv'
      BY <1>0, <1>a, <2>1, <3>1 DEF KeptInv
    <3>4. QED
      BY <3>2, <3>3 DEF CatalogueInv
  <2>3. CASE ~Exists
    <3>1. UNCHANGED <<refs, dropped, late>>
      BY <1>2, <2>3 DEF CommitRefer
    <3>2. CatalogueTypeOK'
      BY <1>0, <2>1, <3>1 DEF CatalogueTypeOK
    <3>3. KeptInv'
      BY <1>0, <1>a, <2>1, <3>1 DEF KeptInv
    <3>4. QED
      BY <3>2, <3>3 DEF CatalogueInv
  <2>4. QED
    BY <2>2, <2>3
<1>3. ASSUME NEW q \in Requests, CommitDrop(q) \/ CommitDelete(q) PROVE CatalogueInv'
  <2>1. /\ does' = [does EXCEPT ![q] = "nothing"] /\ UNCHANGED <<edge, subject, late>>
        /\ refs' \subseteq refs /\ dropped' \subseteq Referrers
        /\ target' \in {"none", "active", "disabled", "gone"} /\ "nothing" \in Doings
    BY <1>0, <1>3 DEF CommitDrop, CommitDelete, Doings
  <2>2. CatalogueTypeOK'
    BY <1>0, <2>1 DEF CatalogueTypeOK
  <2>3. KeptInv'
    BY <1>0, <1>a, <2>1 DEF KeptInv
  <2>4. QED
    BY <2>2, <2>3 DEF CatalogueInv
<1>4. CASE Still
  <2>1. CatalogueTypeOK' /\ KeptInv'
    BY <1>0, <1>4, <1>a DEF Still, CatalogueTypeOK, KeptInv
  <2>2. QED
    BY <2>1 DEF CatalogueInv
<1>5. CASE RenamePermission
  <2>1. /\ does' = [p \in Requests |-> IF does[p] = "refer" THEN "nothing" ELSE does[p]]
        /\ UNCHANGED <<edge, target, refs, subject, late, dropped>>
    BY <1>5 DEF RenamePermission
  <2>2. CatalogueTypeOK'
    BY <1>0, <2>1 DEF CatalogueTypeOK, Doings
  <2>3. KeptInv'
    BY <1>0, <1>a, <2>1 DEF KeptInv
  <2>4. QED
    BY <2>2, <2>3 DEF CatalogueInv
<1>6. CASE ReorderMenus
  <2>1. /\ refs' \subseteq Referrers /\ dropped' = (dropped \union (refs \ refs')) \ refs'
        /\ late' = [p \in Requests |-> IF does[p] = "delete" THEN late[p] \union (refs' \ refs) ELSE late[p]]
        /\ UNCHANGED <<edge, target, does, subject>>
    BY <1>6 DEF ReorderMenus
  <2>2. CatalogueTypeOK'
    BY <1>0, <2>1 DEF CatalogueTypeOK
  <2>3. KeptInv'
    BY <1>0, <1>a, <2>1 DEF KeptInv
  <2>4. QED
    BY <2>2, <2>3 DEF CatalogueInv
<1>7. CASE UNCHANGED catalogueVars
  <2>1. CatalogueTypeOK' /\ KeptInv'
    BY <1>0, <1>7, <1>a DEF catalogueVars, CatalogueTypeOK, KeptInv
  <2>2. QED
    BY <2>1 DEF CatalogueInv
<1>8. QED
  BY <1>0, <1>1, <1>2, <1>3, <1>4, <1>5, <1>6, <1>7, CatalogueCases

LEMMA AlwaysCatalogue == CatalogueSpec => []CatalogueInv
<1>1. CatalogueInit => CatalogueInv
  <2> SUFFICES ASSUME CatalogueInit PROVE CatalogueInv
    OBVIOUS
  <2>1. CatalogueTypeOK
    BY SomeRowIs DEF CatalogueInit, CatalogueTypeOK, Doings
  <2>2. KeptInv
    BY DEF CatalogueInit, KeptInv
  <2>3. QED
    BY <2>1, <2>2 DEF CatalogueInv
<1>2. CatalogueInv /\ [CatalogueNext]_catalogueVars => CatalogueInv'
  BY StepCatalogue
<1>3. QED
  BY <1>1, <1>2, PTL DEF CatalogueSpec

(* The rows and the requests of the catalogue keep their types: nothing    *)
(* but a row of its table ever refers, is dropped or counted as late.      *)
THEOREM CatalogueTypeCorrect == CatalogueSpec => []CatalogueTypeOK
<1>1. CatalogueInv => CatalogueTypeOK
  BY DEF CatalogueInv
<1>2. QED
  BY <1>1, AlwaysCatalogue, PTL

(* For every reference of the schema and any requests in any order: a      *)
(* reference goes only when the row that has it is deleted or edited to    *)
(* that end, or when it was made after the target's delete had counted.    *)
THEOREM ReferencesAreKept == CatalogueSpec => ReferencesSurvive
<1> DEFINE Survives == \A r \in refs \ refs' :
              r \in dropped' \/ LetGo \/ \E q \in Requests : does[q] = "delete" /\ r \in late[q]
<1>1. CatalogueInv /\ [CatalogueNext]_catalogueVars => [Survives]_catalogueVars
  <2> SUFFICES ASSUME CatalogueInv, [CatalogueNext]_catalogueVars, NEW r \in refs \ refs'
               PROVE  r \in dropped' \/ LetGo \/ \E q \in Requests : does[q] = "delete" /\ r \in late[q]
    OBVIOUS
  <2>0. CatalogueTypeOK /\ KeptInv
    BY DEF CatalogueInv
  <2>1. ASSUME NEW q \in Requests, CommitDrop(q) PROVE r \in dropped' \/ LetGo
    BY <2>0, <2>1 DEF CommitDrop, KeptInv
  <2>2. ASSUME NEW q \in Requests, CommitDelete(q)
        PROVE  LetGo \/ (does[q] = "delete" /\ r \in late[q])
    BY <2>0, <2>2 DEF CommitDelete, KeptInv, Spared
  <2>3. CASE ReorderMenus
    BY <2>3 DEF ReorderMenus
  <2>4. QED
    BY <2>0, <2>1, <2>2, <2>3, CatalogueCases DEF Begun, Begin, CommitRefer, Still, RenamePermission, catalogueVars
<1>2. QED
  BY <1>1, AlwaysCatalogue, PTL DEF CatalogueSpec, ReferencesSurvive

-----------------------------------------------------------------------------
(* BuildContext: every set of builds, previews and re-syncs, every set of  *)
(* branches and every number of failures.                                  *)

USE ContextAssumption DEF ContextAssumption

(* Nothing happens in a clone that is not there yet; a build goes through  *)
(* its stages once, and its engine reads its context once.                 *)
Unread     == {"idle"} \union SyncPcs
Registers  ==
    ~Registered => (\A u \in CloneUsers : at[u] = "idle") /\ (\A b \in Builds : kjob[b] = "none")
StageOf(b) ==
    /\ row[b] = "queued" <=> at[b] = "idle"
    /\ row[b] \in Ended => at[b] \in {"done", "dead"}
    /\ at[b] \in Unread \union {"synced"} => sha[b] = None
    /\ at[b] \in Unread \union {"synced", "docker", "secret", "kjob"} => content[b] = None
    /\ at[b] \in Unread \union {"synced", "docker", "push", "secret", "kjob"} => kjob[b] = "none" /\ image[b] = None
    /\ kjob[b] = "pending" => content[b] = None
    /\ kjob[b] \in {"pending", "reading"} => image[b] = None
    /\ image[b] \in {None, content[b]}
StageInv ==
    /\ Registers
    /\ \A u \in Callers : at[u] \in Unread \union {"done"}
    /\ \A b \in Builds : StageOf(b)

(* As long as nobody got in the way of a build, its branch is checked out  *)
(* and stays as recorded until its engine has read it.                     *)
Reads(b) == at[b] \in {"synced", "docker", "secret", "kjob"} \/ kjob[b] = "pending"
CleanOf(b) ==
    /\ Reads(b) => head = BranchOf[b] /\ (sha[b] # None => sha[b] = local[BranchOf[b]])
    /\ content[b] # None /\ sha[b] # None => content[b] = sha[b]
    /\ ~mixed => content[b] \subseteq origin[BranchOf[b]]
CleanInv ==
    /\ \A u \in CloneUsers \ intruded : at[u] = "checked_out" => head = BranchOf[u]
    /\ \A b \in Builds \ intruded : CleanOf(b)
    /\ ~mixed => \A b \in Branches : local[b] \subseteq origin[b]

(* Whoever has a Job or a Secret in the cluster is on the way to its       *)
(* clean-up, or left it behind.                                            *)
LeftOf(b) ==
    /\ at[b] # "dead"
    /\ kjob[b] # "none" => at[b] \in {"stream", "wait", "final", "cleanup_ok", "cleanup_fail"}
    /\ b \in secret => at[b] \in {"kjob", "stream", "wait", "final", "cleanup_ok", "cleanup_fail"}
LeftInv == \A b \in Builds \ left : LeftOf(b)

ContextInv == ContextTypeOK /\ StageInv /\ CleanInv /\ LeftInv

UserPcs == {"idle", "synced", "docker", "push", "finish_ok", "finish_fail", "dead", "done"}
            \union SyncPcs \union EnginePcs

LEMMA ContextTypes ==
  ASSUME ContextInv
  PROVE  /\ ContextTypeOK /\ StageInv /\ CleanInv /\ LeftInv
         /\ origin \in [Branches -> SUBSET Int] /\ local \in [Branches -> SUBSET Int]
         /\ head \in Branches \union {NoBranch}
         /\ row \in [Builds -> {"queued", "running"} \union Ended]
         /\ at \in [CloneUsers -> UserPcs]
         /\ sha \in [Builds -> SUBSET Int] /\ content \in [Builds -> SUBSET Int] /\ image \in [Builds -> SUBSET Int]
         /\ kjob \in [Builds -> JobStates] /\ secret \subseteq Builds
         /\ intruded \subseteq CloneUsers /\ left \subseteq Builds
         /\ Builds \subseteq CloneUsers /\ Callers \subseteq CloneUsers /\ Builds \intersect Callers = {}
  BY DEF ContextInv, ContextTypeOK, UserPcs, CloneUsers, Callers

LEMMA StepContextTypes ==
  ASSUME ContextInv, [ContextNext]_contextVars
  PROVE  ContextTypeOK'
<1>0. /\ ContextTypeOK /\ StageInv /\ CleanInv /\ LeftInv
      /\ origin \in [Branches -> SUBSET Int] /\ local \in [Branches -> SUBSET Int]
      /\ head \in Branches \union {NoBranch}
      /\ row \in [Builds -> {"queued", "running"} \union Ended]
      /\ at \in [CloneUsers -> UserPcs]
      /\ sha \in [Builds -> SUBSET Int] /\ content \in [Builds -> SUBSET Int] /\ image \in [Builds -> SUBSET Int]
      /\ kjob \in [Builds -> JobStates] /\ secret \subseteq Builds
      /\ intruded \subseteq CloneUsers /\ left \subseteq Builds
      /\ Builds \subseteq CloneUsers /\ Callers \subseteq CloneUsers /\ Builds \intersect Callers = {}
  BY ContextTypes
<1>1. CASE RegisterRepo
  BY <1>0, <1>1 DEF RegisterRepo, cloneVars, engineVars, ContextTypeOK, Callers
<1>2. CASE CloneRepo
  BY <1>0, <1>2 DEF CloneRepo, AFault, engineVars, FreshClone, ContextTypeOK, None, CloneUsers, Callers
<1>3. ASSUME NEW x \in CloneUsers, OpenClone(x) PROVE ContextTypeOK'
  BY <1>0, <1>3 DEF OpenClone, Goto, engineVars, FreshClone, Disturbs, ContextTypeOK, None, SyncPcs, Ended,
     JobStates, CloneUsers, Callers
<1>4. ASSUME NEW x \in CloneUsers, Checkout(x) PROVE ContextTypeOK'
  BY <1>0, <1>4 DEF Checkout, Goto, engineVars, Disturbs, ContextTypeOK, SyncPcs, JobStates, CloneUsers, Callers
<1>5. ASSUME NEW x \in CloneUsers, Pull(x) PROVE ContextTypeOK'
  BY <1>0, <1>5 DEF Pull, Goto, engineVars, Disturbs, ContextTypeOK, JobStates, CloneUsers, Callers
<1>6. ASSUME NEW x \in CloneUsers, SyncFails(x) PROVE ContextTypeOK'
  BY <1>0, <1>6 DEF SyncFails, Goto, AFault, cloneVars, engineVars, ContextTypeOK, CloneUsers, Callers
<1>7. ASSUME NEW x \in Previews, StartPreview(x) PROVE ContextTypeOK'
  BY <1>0, <1>7 DEF StartPreview, Goto, cloneVars, engineVars, ContextTypeOK, SyncPcs, Callers
<1>8. ASSUME NEW x \in Resyncs, ResyncRepo(x) PROVE ContextTypeOK'
  BY <1>0, <1>8 DEF ResyncRepo, Goto, cloneVars, engineVars, ContextTypeOK, SyncPcs, Callers
<1>9. ASSUME NEW x \in Builds, ClaimBuild(x) PROVE ContextTypeOK'
  BY <1>0, <1>9 DEF ClaimBuild, Goto, cloneVars, engineVars, ContextTypeOK, SyncPcs, Callers
<1>10. ASSUME NEW x \in Builds, RecordCommitHistory(x) PROVE ContextTypeOK'
  BY <1>0, <1>10 DEF RecordCommitHistory, Goto, AFault, cloneVars, engineVars, ContextTypeOK, EnginePcs, Callers
<1>11. ASSUME NEW x \in Builds, DockerBuild(x) PROVE ContextTypeOK'
  BY <1>0, <1>11 DEF DockerBuild, Goto, AFault, cloneVars, ContextTypeOK, Callers
<1>12. ASSUME NEW x \in Builds, DockerPush(x) PROVE ContextTypeOK'
  BY <1>0, <1>12 DEF DockerPush, Goto, AFault, cloneVars, ContextTypeOK, Callers
<1>13. ASSUME NEW x \in Builds, FinishBuild(x) PROVE ContextTypeOK'
  BY <1>0, <1>13 DEF FinishBuild, Goto, cloneVars, engineVars, ContextTypeOK, Ended, Callers
<1>14. ASSUME NEW x \in Builds, WorkerDies(x) PROVE ContextTypeOK'
  BY <1>0, <1>14 DEF WorkerDies, Goto, AFault, cloneVars, ContextTypeOK, Callers
<1>15. ASSUME NEW x \in Builds, ReapBuild(x) PROVE ContextTypeOK'
  BY <1>0, <1>15 DEF ReapBuild, cloneVars, engineVars, ContextTypeOK, Ended, Callers
<1>16. ASSUME NEW x \in Builds, ApplySecret(x) PROVE ContextTypeOK'
  BY <1>0, <1>16 DEF ApplySecret, Goto, AFault, cloneVars, ContextTypeOK, EnginePcs, Callers
<1>17. ASSUME NEW x \in Builds, ApplyJob(x) PROVE ContextTypeOK'
  BY <1>0, <1>17 DEF ApplyJob, Goto, AFault, cloneVars, ContextTypeOK, EnginePcs, JobStates, Callers
<1>18. ASSUME NEW x \in Builds, StreamJobLogs(x) PROVE ContextTypeOK'
  BY <1>0, <1>18 DEF StreamJobLogs, Goto, AFault, cloneVars, LogFails, ContextTypeOK, EnginePcs, CloneUsers, Callers
<1>19. ASSUME NEW x \in Builds, WaitForJob(x) PROVE ContextTypeOK'
  BY <1>0, <1>19 DEF WaitForJob, Goto, AFault, cloneVars, LogFails, ContextTypeOK, EnginePcs, CloneUsers, Callers
<1>20. ASSUME NEW x \in Builds, CleanUp(x) PROVE ContextTypeOK'
  BY <1>0, <1>20 DEF CleanUp, Goto, AFault, cloneVars, ContextTypeOK, JobStates, Callers
<1>21. ASSUME NEW x \in Builds, JobReads(x) PROVE ContextTypeOK'
  BY <1>0, <1>21 DEF JobReads, cloneVars, ContextTypeOK, JobStates, Callers
<1>22. ASSUME NEW x \in Builds, JobEnds(x) PROVE ContextTypeOK'
  BY <1>0, <1>22 DEF JobEnds, AFault, cloneVars, ContextTypeOK, JobStates, Callers
<1>23. ASSUME NEW x \in Branches, Push(x) PROVE ContextTypeOK'
  BY <1>0, <1>23 DEF Push, AFault, engineVars, ContextTypeOK, Callers
<1>24. CASE CloneIsLost
  BY <1>0, <1>24 DEF CloneIsLost, AFault, engineVars, ContextTypeOK, None, CloneUsers, Callers
<1>25. CASE UNCHANGED contextVars
  BY <1>0, <1>25 DEF contextVars, ContextTypeOK
<1>26. QED
  BY <1>1, <1>2, <1>3, <1>4, <1>5, <1>6, <1>7, <1>8, <1>9, <1>10, <1>11, <1>12, <1>13, <1>14, <1>15, <1>16, <1>17,
     <1>18, <1>19, <1>20, <1>21, <1>22, <1>23, <1>24, <1>25 DEF ContextNext, BuildStep

LEMMA StepStages ==
  ASSUME ContextInv, [ContextNext]_contextVars
  PROVE  StageInv'
<1>0. /\ ContextTypeOK /\ StageInv /\ CleanInv /\ LeftInv
      /\ origin \in [Branches -> SUBSET Int] /\ local \in [Branches -> SUBSET Int]
      /\ head \in Branches \union {NoBranch}
      /\ row \in [Builds -> {"queued", "running"} \union Ended]
      /\ at \in [CloneUsers -> UserPcs]
      /\ sha \in [Builds -> SUBSET Int] /\ content \in [Builds -> SUBSET Int] /\ image \in [Builds -> SUBSET Int]
      /\ kjob \in [Builds -> JobStates] /\ secret \subseteq Builds
      /\ intruded \subseteq CloneUsers /\ left \subseteq Builds
      /\ Builds \subseteq CloneUsers /\ Callers \subseteq CloneUsers /\ Builds \intersect Callers = {}
  BY ContextTypes
<1>1. CASE RegisterRepo
  BY <1>0, <1>1 DEF RegisterRepo, engineVars, StageInv, Registers, Registered, StageOf, SyncPcs, EnginePcs, Ended,
     JobStates
<1>2. CASE CloneRepo
  BY <1>0, <1>2 DEF CloneRepo, engineVars, StageInv, Registers, Registered, StageOf, UserPcs, SyncPcs, EnginePcs,
     Ended, JobStates
<1>3. ASSUME NEW x \in CloneUsers, OpenClone(x) PROVE StageInv'
  BY <1>0, <1>3 DEF OpenClone, Goto, engineVars, StageInv, Registers, Registered, StageOf, Unread, None,
     NoBuildRuns, UserPcs, SyncPcs, EnginePcs, Ended, JobStates
<1>4. ASSUME NEW x \in CloneUsers, Checkout(x) PROVE StageInv'
  BY <1>0, <1>4 DEF Checkout, Goto, engineVars, StageInv, Registers, Registered, StageOf, Unread, NoBuildRuns,
     UserPcs, SyncPcs, EnginePcs, Ended, JobStates
<1>5. ASSUME NEW x \in CloneUsers, Pull(x) PROVE StageInv'
  BY <1>0, <1>5 DEF Pull, Goto, engineVars, StageInv, Registers, Registered, StageOf, Unread, NoBuildRuns, UserPcs,
     SyncPcs, EnginePcs, Ended, JobStates
<1>6. ASSUME NEW x \in CloneUsers, SyncFails(x) PROVE StageInv'
  BY <1>0, <1>6 DEF SyncFails, Goto, engineVars, StageInv, Registers, Registered, StageOf, Unread, UserPcs, SyncPcs,
     EnginePcs, Ended, JobStates
<1>7. ASSUME NEW x \in Previews, StartPreview(x) PROVE StageInv'
  BY <1>0, <1>7 DEF StartPreview, Goto, engineVars, StageInv, Registers, Registered, StageOf, Unread, SyncPcs,
     EnginePcs, Ended, JobStates
<1>8. ASSUME NEW x \in Resyncs, ResyncRepo(x) PROVE StageInv'
  BY <1>0, <1>8 DEF ResyncRepo, Goto, engineVars, StageInv, Registers, Registered, StageOf, Unread, SyncPcs,
     EnginePcs, Ended, JobStates
<1>9. ASSUME NEW x \in Builds, ClaimBuild(x) PROVE StageInv'
  BY <1>0, <1>9 DEF ClaimBuild, Goto, engineVars, StageInv, Registers, Registered, StageOf, Unread, SyncPcs,
     EnginePcs, Ended, JobStates
<1>10. ASSUME NEW x \in Builds, RecordCommitHistory(x) PROVE StageInv'
  BY <1>0, <1>10 DEF RecordCommitHistory, Goto, engineVars, StageInv, Registers, Registered, StageOf, Unread,
     SyncPcs, EnginePcs, Ended, JobStates
<1>11. ASSUME NEW x \in Builds, DockerBuild(x) PROVE StageInv'
  BY <1>0, <1>11 DEF DockerBuild, Goto, StageInv, Registers, Registered, StageOf, Unread, SyncPcs, EnginePcs, Ended,
     JobStates
<1>12. ASSUME NEW x \in Builds, DockerPush(x) PROVE StageInv'
  BY <1>0, <1>12 DEF DockerPush, Goto, StageInv, Registers, Registered, StageOf, Unread, SyncPcs, EnginePcs, Ended,
     JobStates
<1>13. ASSUME NEW x \in Builds, FinishBuild(x) PROVE StageInv'
  BY <1>0, <1>13 DEF FinishBuild, Goto, engineVars, StageInv, Registers, Registered, StageOf, Unread, SyncPcs,
     EnginePcs, Ended, JobStates
<1>14. ASSUME NEW x \in Builds, WorkerDies(x) PROVE StageInv'
  BY <1>0, <1>14 DEF WorkerDies, Goto, StageInv, Registers, Registered, StageOf, Unread, SyncPcs, EnginePcs, Ended,
     JobStates
<1>15. ASSUME NEW x \in Builds, ReapBuild(x) PROVE StageInv'
  BY <1>0, <1>15 DEF ReapBuild, engineVars, StageInv, Registers, Registered, StageOf, SyncPcs, EnginePcs, Ended,
     JobStates
<1>16. ASSUME NEW x \in Builds, ApplySecret(x) PROVE StageInv'
  BY <1>0, <1>16 DEF ApplySecret, Goto, StageInv, Registers, Registered, StageOf, Unread, SyncPcs, EnginePcs, Ended,
     JobStates
<1>17. ASSUME NEW x \in Builds, ApplyJob(x) PROVE StageInv'
  BY <1>0, <1>17 DEF ApplyJob, Goto, StageInv, Registers, Registered, StageOf, Unread, SyncPcs, EnginePcs, Ended,
     JobStates
<1>18. ASSUME NEW x \in Builds, StreamJobLogs(x) PROVE StageInv'
  BY <1>0, <1>18 DEF StreamJobLogs, Goto, LogFails, StageInv, Registers, Registered, StageOf, Unread, UserPcs,
     SyncPcs, EnginePcs, Ended, JobStates
<1>19. ASSUME NEW x \in Builds, WaitForJob(x) PROVE StageInv'
  BY <1>0, <1>19 DEF WaitForJob, Goto, LogFails, StageInv, Registers, Registered, StageOf, Unread, UserPcs, SyncPcs,
     EnginePcs, Ended, JobStates
<1>20. ASSUME NEW x \in Builds, CleanUp(x) PROVE StageInv'
  BY <1>0, <1>20 DEF CleanUp, Goto, StageInv, Registers, Registered, StageOf, Unread, SyncPcs, EnginePcs, Ended,
     JobStates
<1>21. ASSUME NEW x \in Builds, JobReads(x) PROVE StageInv'
  BY <1>0, <1>21 DEF JobReads, StageInv, Registers, Registered, StageOf, SyncPcs, EnginePcs, Ended, JobStates
<1>22. ASSUME NEW x \in Builds, JobEnds(x) PROVE StageInv'
  BY <1>0, <1>22 DEF JobEnds, StageInv, Registers, Registered, StageOf, SyncPcs, EnginePcs, Ended, JobStates
<1>23. ASSUME NEW x \in Branches, Push(x) PROVE StageInv'
  BY <1>0, <1>23 DEF Push, engineVars, StageInv, Registers, Registered, StageOf, SyncPcs, EnginePcs, Ended,
     JobStates
<1>24. CASE CloneIsLost
  BY <1>0, <1>24 DEF CloneIsLost, engineVars, StageInv, Registers, Registered, StageOf, UserPcs, SyncPcs, EnginePcs,
     Ended, JobStates
<1>25. CASE UNCHANGED contextVars
  BY <1>0, <1>25 DEF contextVars, StageInv, Registers, Registered, StageOf
<1>26. QED
  BY <1>1, <1>2, <1>3, <1>4, <1>5, <1>6, <1>7, <1>8, <1>9, <1>10, <1>11, <1>12, <1>13, <1>14, <1>15, <1>16, <1>17,
     <1>18, <1>19, <1>20, <1>21, <1>22, <1>23, <1>24, <1>25 DEF ContextNext, BuildStep

LEMMA StepLeft ==
  ASSUME ContextInv, [ContextNext]_contextVars
  PROVE  LeftInv'
<1>0. /\ ContextTypeOK /\ StageInv /\ CleanInv /\ LeftInv
      /\ origin \in [Branches -> SUBSET Int] /\ local \in [Branches -> SUBSET Int]
      /\ head \in Branches \union {NoBranch}
      /\ row \in [Builds -> {"queued", "running"} \union Ended]
      /\ at \in [CloneUsers -> UserPcs]
      /\ sha \in [Builds -> SUBSET Int] /\ content \in [Builds -> SUBSET Int] /\ image \in [Builds -> SUBSET Int]
      /\ kjob \in [Builds -> JobStates] /\ secret \subseteq Builds
      /\ intruded \subseteq CloneUsers /\ left \subseteq Builds
      /\ Builds \subseteq CloneUsers /\ Callers \subseteq CloneUsers /\ Builds \intersect Callers = {}
  BY ContextTypes
<1>1. CASE RegisterRepo
  BY <1>0, <1>1 DEF RegisterRepo, engineVars, LeftInv, LeftOf, StageOf
<1>2. CASE CloneRepo
  BY <1>0, <1>2 DEF CloneRepo, engineVars, LeftInv, LeftOf, StageInv, StageOf
<1>3. ASSUME NEW x \in CloneUsers, OpenClone(x) PROVE LeftInv'
  BY <1>0, <1>3 DEF OpenClone, Goto, engineVars, LeftInv, LeftOf, Ended, JobStates, StageInv, StageOf
<1>4. ASSUME NEW x \in CloneUsers, Checkout(x) PROVE LeftInv'
  BY <1>0, <1>4 DEF Checkout, Goto, engineVars, LeftInv, LeftOf, JobStates, StageInv, StageOf
<1>5. ASSUME NEW x \in CloneUsers, Pull(x) PROVE LeftInv'
  BY <1>0, <1>5 DEF Pull, Goto, engineVars, LeftInv, LeftOf, JobStates, StageInv, StageOf
<1>6. ASSUME NEW x \in CloneUsers, SyncFails(x) PROVE LeftInv'
  BY <1>0, <1>6 DEF SyncFails, Goto, engineVars, LeftInv, LeftOf, SyncPcs, StageInv, StageOf
<1>7. ASSUME NEW x \in Previews, StartPreview(x) PROVE LeftInv'
  BY <1>0, <1>7 DEF StartPreview, Goto, engineVars, LeftInv, LeftOf, StageOf
<1>8. ASSUME NEW x \in Resyncs, ResyncRepo(x) PROVE LeftInv'
  BY <1>0, <1>8 DEF ResyncRepo, Goto, engineVars, LeftInv, LeftOf, StageOf
<1>9. ASSUME NEW x \in Builds, ClaimBuild(x) PROVE LeftInv'
  BY <1>0, <1>9 DEF ClaimBuild, Goto, engineVars, LeftInv, LeftOf, StageInv, StageOf
<1>10. ASSUME NEW x \in Builds, RecordCommitHistory(x) PROVE LeftInv'
  BY <1>0, <1>10 DEF RecordCommitHistory, Goto, engineVars, LeftInv, LeftOf, StageOf
<1>11. ASSUME NEW x \in Builds, DockerBuild(x) PROVE LeftInv'
  BY <1>0, <1>11 DEF DockerBuild, Goto, LeftInv, LeftOf, StageOf
<1>12. ASSUME NEW x \in Builds, DockerPush(x) PROVE LeftInv'
  BY <1>0, <1>12 DEF DockerPush, Goto, LeftInv, LeftOf, StageOf
<1>13. ASSUME NEW x \in Builds, FinishBuild(x) PROVE LeftInv'
  BY <1>0, <1>13 DEF FinishBuild, Goto, engineVars, LeftInv, LeftOf, StageOf
<1>14. ASSUME NEW x \in Builds, WorkerDies(x) PROVE LeftInv'
  BY <1>0, <1>14 DEF WorkerDies, Goto, LeftInv, LeftOf, StageOf
<1>15. ASSUME NEW x \in Builds, ReapBuild(x) PROVE LeftInv'
  BY <1>0, <1>15 DEF ReapBuild, engineVars, LeftInv, LeftOf, StageOf
<1>16. ASSUME NEW x \in Builds, ApplySecret(x) PROVE LeftInv'
  BY <1>0, <1>16 DEF ApplySecret, Goto, LeftInv, LeftOf, StageOf
<1>17. ASSUME NEW x \in Builds, ApplyJob(x) PROVE LeftInv'
  BY <1>0, <1>17 DEF ApplyJob, Goto, LeftInv, LeftOf, StageOf
<1>18. ASSUME NEW x \in Builds, StreamJobLogs(x) PROVE LeftInv'
  BY <1>0, <1>18 DEF StreamJobLogs, Goto, LogFails, LeftInv, LeftOf, StageInv, StageOf
<1>19. ASSUME NEW x \in Builds, WaitForJob(x) PROVE LeftInv'
  BY <1>0, <1>19 DEF WaitForJob, Goto, LogFails, LeftInv, LeftOf, StageInv, StageOf
<1>20. ASSUME NEW x \in Builds, CleanUp(x) PROVE LeftInv'
  BY <1>0, <1>20 DEF CleanUp, Goto, LeftInv, LeftOf, StageOf
<1>21. ASSUME NEW x \in Builds, JobReads(x) PROVE LeftInv'
  BY <1>0, <1>21 DEF JobReads, LeftInv, LeftOf, StageOf
<1>22. ASSUME NEW x \in Builds, JobEnds(x) PROVE LeftInv'
  BY <1>0, <1>22 DEF JobEnds, LeftInv, LeftOf, StageOf
<1>23. ASSUME NEW x \in Branches, Push(x) PROVE LeftInv'
  BY <1>0, <1>23 DEF Push, engineVars, LeftInv, LeftOf, StageOf
<1>24. CASE CloneIsLost
  BY <1>0, <1>24 DEF CloneIsLost, engineVars, LeftInv, LeftOf, StageInv, StageOf
<1>25. CASE UNCHANGED contextVars
  BY <1>0, <1>25 DEF contextVars, LeftInv, LeftOf
<1>26. QED
  BY <1>1, <1>2, <1>3, <1>4, <1>5, <1>6, <1>7, <1>8, <1>9, <1>10, <1>11, <1>12, <1>13, <1>14, <1>15, <1>16, <1>17,
     <1>18, <1>19, <1>20, <1>21, <1>22, <1>23, <1>24, <1>25 DEF ContextNext, BuildStep

LEMMA StepClean ==
  ASSUME ContextInv, [ContextNext]_contextVars
  PROVE  CleanInv'
<1>0. /\ ContextTypeOK /\ StageInv /\ CleanInv /\ LeftInv
      /\ origin \in [Branches -> SUBSET Int] /\ local \in [Branches -> SUBSET Int]
      /\ head \in Branches \union {NoBranch}
      /\ row \in [Builds -> {"queued", "running"} \union Ended]
      /\ at \in [CloneUsers -> UserPcs]
      /\ sha \in [Builds -> SUBSET Int] /\ content \in [Builds -> SUBSET Int] /\ image \in [Builds -> SUBSET Int]
      /\ kjob \in [Builds -> JobStates] /\ secret \subseteq Builds
      /\ intruded \subseteq CloneUsers /\ left \subseteq Builds
      /\ Builds \subseteq CloneUsers /\ Callers \subseteq CloneUsers /\ Builds \intersect Callers = {}
  BY ContextTypes
<1>1. CASE RegisterRepo
  BY <1>0, <1>1 DEF RegisterRepo, cloneVars, engineVars, CleanInv, CleanOf, Reads, None, AtWork, UserPcs, SyncPcs,
     EnginePcs, Ended, JobStates
<1>2. CASE CloneRepo
  BY <1>0, <1>2 DEF CloneRepo, engineVars, FreshClone, CleanInv, CleanOf, Reads, StageInv, Registers, Registered,
     Unread, None, AtWork, UserPcs, SyncPcs, EnginePcs, Ended, JobStates
<1>3. ASSUME NEW x \in CloneUsers, OpenClone(x) PROVE CleanInv'
  BY <1>0, <1>3 DEF OpenClone, Goto, engineVars, FreshClone, Disturbs, CleanInv, CleanOf, Reads, Registers,
     Registered, Unread, None, AtWork, UserPcs, SyncPcs, EnginePcs, Ended, JobStates
<1>4. ASSUME NEW x \in CloneUsers, Checkout(x) PROVE CleanInv'
  BY <1>0, <1>4 DEF Checkout, Goto, engineVars, Disturbs, CleanInv, CleanOf, Reads, Registered, Unread, None,
     AtWork, UserPcs, SyncPcs, EnginePcs, Ended, JobStates
<1>5. ASSUME NEW x \in CloneUsers, Pull(x) PROVE CleanInv'
  <2>1. /\ at[x] = "checked_out" /\ head # NoBranch /\ head' = head
        /\ local' = [local EXCEPT ![head] = @ \union origin[BranchOf[x]]]
        /\ mixed' = (mixed \/ (head # BranchOf[x] /\ x \in intruded))
        /\ intruded' = intruded \union {o \in CloneUsers \ {x} : AtWork(o)}
        /\ at' = [at EXCEPT ![x] = IF x \in Builds THEN "synced" ELSE "done"]
        /\ UNCHANGED <<origin, row, sha, kjob, content, image>>
    BY <1>5 DEF Pull, Goto, Disturbs, engineVars
  <2>2. x \notin intruded => head = BranchOf[x]
    BY <1>0, <2>1 DEF CleanInv
  <2>3. \A u \in CloneUsers \ intruded' : at'[u] # "checked_out"
    BY <1>0, <2>1 DEF AtWork
  <2>4. ASSUME NEW b \in Builds, b \notin intruded' PROVE CleanOf(b)'
    <3>1. CASE b = x
      BY <1>0, <2>1, <2>4, <3>1 DEF CleanInv, CleanOf, StageInv, StageOf, Unread, SyncPcs
    <3>2. CASE b # x
      <4>1. ~Reads(b)
        BY <1>0, <2>1, <2>4, <3>2 DEF Reads, AtWork
      <4>2. ~Reads(b)'
        BY <2>1, <3>2, <4>1 DEF Reads
      <4>3. QED
        BY <1>0, <2>1, <2>4, <4>2 DEF CleanInv, CleanOf
    <3>3. QED
      BY <3>1, <3>2
  <2>5. ASSUME ~mixed', NEW b \in Branches PROVE local'[b] \subseteq origin'[b]
    BY <1>0, <2>1, <2>5 DEF CleanInv
  <2>6. QED
    BY <2>3, <2>4, <2>5 DEF CleanInv
<1>6. ASSUME NEW x \in CloneUsers, SyncFails(x) PROVE CleanInv'
  BY <1>0, <1>6 DEF SyncFails, Goto, cloneVars, engineVars, CleanInv, CleanOf, Reads, Unread, None, AtWork, UserPcs,
     SyncPcs, EnginePcs, Ended, JobStates
<1>7. ASSUME NEW x \in Previews, StartPreview(x) PROVE CleanInv'
  BY <1>0, <1>7 DEF StartPreview, Goto, cloneVars, engineVars, CleanInv, CleanOf, Reads, None, AtWork, UserPcs,
     SyncPcs, EnginePcs, Ended, JobStates
<1>8. ASSUME NEW x \in Resyncs, ResyncRepo(x) PROVE CleanInv'
  BY <1>0, <1>8 DEF ResyncRepo, Goto, cloneVars, engineVars, CleanInv, CleanOf, Reads, None, AtWork, UserPcs,
     SyncPcs, EnginePcs, Ended, JobStates
<1>9. ASSUME NEW x \in Builds, ClaimBuild(x) PROVE CleanInv'
  BY <1>0, <1>9 DEF ClaimBuild, Goto, cloneVars, engineVars, CleanInv, CleanOf, Reads, None, AtWork, UserPcs,
     SyncPcs, EnginePcs, Ended, JobStates
<1>10. ASSUME NEW x \in Builds, RecordCommitHistory(x) PROVE CleanInv'
  BY <1>0, <1>10 DEF RecordCommitHistory, Goto, cloneVars, engineVars, CleanInv, CleanOf, Reads, StageInv, StageOf,
     None, AtWork, UserPcs, SyncPcs, EnginePcs, Ended, JobStates
<1>11. ASSUME NEW x \in Builds, DockerBuild(x) PROVE CleanInv'
  BY <1>0, <1>11 DEF DockerBuild, Goto, cloneVars, CleanInv, CleanOf, Reads, None, AtWork, UserPcs, SyncPcs,
     EnginePcs, Ended, JobStates
<1>12. ASSUME NEW x \in Builds, DockerPush(x) PROVE CleanInv'
  BY <1>0, <1>12 DEF DockerPush, Goto, cloneVars, CleanInv, CleanOf, Reads, None, AtWork, UserPcs, SyncPcs,
     EnginePcs, Ended, JobStates
<1>13. ASSUME NEW x \in Builds, FinishBuild(x) PROVE CleanInv'
  BY <1>0, <1>13 DEF FinishBuild, Goto, cloneVars, engineVars, CleanInv, CleanOf, Reads, None, AtWork, UserPcs,
     SyncPcs, EnginePcs, Ended, JobStates
<1>14. ASSUME NEW x \in Builds, WorkerDies(x) PROVE CleanInv'
  BY <1>0, <1>14 DEF WorkerDies, Goto, cloneVars, CleanInv, CleanOf, Reads, None, AtWork, UserPcs, SyncPcs,
     EnginePcs, Ended, JobStates
<1>15. ASSUME NEW x \in Builds, ReapBuild(x) PROVE CleanInv'
  BY <1>0, <1>15 DEF ReapBuild, cloneVars, engineVars, CleanInv, CleanOf, Reads, None, AtWork, UserPcs, SyncPcs,
     EnginePcs, Ended, JobStates
<1>16. ASSUME NEW x \in Builds, ApplySecret(x) PROVE CleanInv'
  BY <1>0, <1>16 DEF ApplySecret, Goto, cloneVars, CleanInv, CleanOf, Reads, None, AtWork, UserPcs, SyncPcs,
     EnginePcs, Ended, JobStates
<1>17. ASSUME NEW x \in Builds, ApplyJob(x) PROVE CleanInv'
  BY <1>0, <1>17 DEF ApplyJob, Goto, cloneVars, CleanInv, CleanOf, Reads, None, AtWork, UserPcs, SyncPcs, EnginePcs,
     Ended, JobStates
<1>18. ASSUME NEW x \in Builds, StreamJobLogs(x) PROVE CleanInv'
  BY <1>0, <1>18 DEF StreamJobLogs, Goto, cloneVars, LogFails, CleanInv, CleanOf, Reads, Unread, None, AtWork,
     UserPcs, SyncPcs, EnginePcs, Ended, JobStates
<1>19. ASSUME NEW x \in Builds, WaitForJob(x) PROVE CleanInv'
  BY <1>0, <1>19 DEF WaitForJob, Goto, cloneVars, LogFails, CleanInv, CleanOf, Reads, Unread, None, AtWork, UserPcs,
     SyncPcs, EnginePcs, Ended, JobStates
<1>20. ASSUME NEW x \in Builds, CleanUp(x) PROVE CleanInv'
  BY <1>0, <1>20 DEF CleanUp, Goto, cloneVars, CleanInv, CleanOf, Reads, None, AtWork, UserPcs, SyncPcs, EnginePcs,
     Ended, JobStates
<1>21. ASSUME NEW x \in Builds, JobReads(x) PROVE CleanInv'
  BY <1>0, <1>21 DEF JobReads, cloneVars, CleanInv, CleanOf, Reads, None, AtWork, UserPcs, SyncPcs, EnginePcs, Ended,
     JobStates
<1>22. ASSUME NEW x \in Builds, JobEnds(x) PROVE CleanInv'
  BY <1>0, <1>22 DEF JobEnds, cloneVars, CleanInv, CleanOf, Reads, None, AtWork, UserPcs, SyncPcs, EnginePcs, Ended,
     JobStates
<1>23. ASSUME NEW x \in Branches, Push(x) PROVE CleanInv'
  BY <1>0, <1>23 DEF Push, engineVars, CleanInv, CleanOf, Reads, None, AtWork, UserPcs, SyncPcs, EnginePcs, Ended,
     JobStates
<1>24. CASE CloneIsLost
  BY <1>0, <1>24 DEF CloneIsLost, engineVars, CleanInv, CleanOf, Reads, Unread, None, AtWork, UserPcs, SyncPcs,
     EnginePcs, Ended, JobStates
<1>25. CASE UNCHANGED contextVars
  BY <1>0, <1>25 DEF contextVars, CleanInv, CleanOf, Reads, EnginePcs, Ended, JobStates
<1>26. QED
  BY <1>1, <1>2, <1>3, <1>4, <1>5, <1>6, <1>7, <1>8, <1>9, <1>10, <1>11, <1>12, <1>13, <1>14, <1>15, <1>16, <1>17,
     <1>18, <1>19, <1>20, <1>21, <1>22, <1>23, <1>24, <1>25 DEF ContextNext, BuildStep

LEMMA AlwaysContext == ContextSpec => []ContextInv
<1>1. ContextInit => ContextInv
  <2> SUFFICES ASSUME ContextInit PROVE ContextInv
    OBVIOUS
  <2>1. ContextTypeOK
    <3>1. origin \in [Branches -> SUBSET Int] /\ local \in [Branches -> SUBSET Int]
      BY DEF ContextInit, None
    <3>2. /\ row \in [Builds -> {"queued", "running"} \union Ended] /\ at \in [CloneUsers -> UserPcs]
          /\ kjob \in [Builds -> JobStates]
      BY DEF ContextInit, UserPcs, JobStates
    <3>3. sha \in [Builds -> SUBSET Int] /\ content \in [Builds -> SUBSET Int] /\ image \in [Builds -> SUBSET Int]
      BY DEF ContextInit, None
    <3>4. events \in 0 .. MaxEvents
      BY DEF ContextInit
    <3>5. mixed \in BOOLEAN
      BY DEF ContextInit
    <3>6. QED
      BY <3>2, <3>3, <3>5 DEF ContextInit, ContextTypeOK
  <2>2. StageInv
    BY DEF ContextInit, StageInv, Registers, StageOf, Unread, Ended, CloneUsers
  <2>3. CleanInv
    BY DEF ContextInit, CleanInv, CleanOf, Reads, None, CloneUsers
  <2>4. LeftInv
    BY DEF ContextInit, LeftInv, LeftOf, CloneUsers
  <2>5. QED
    BY <2>1, <2>2, <2>3, <2>4 DEF ContextInv
<1>2. ContextInv /\ [ContextNext]_contextVars => ContextInv'
  BY StepContextTypes, StepStages, StepClean, StepLeft DEF ContextInv
<1>3. QED
  BY <1>1, <1>2, PTL DEF ContextSpec

(* The clone, the rows of builds and their Jobs keep their types.          *)
THEOREM ContextTypeCorrect == ContextSpec => []ContextTypeOK
<1>1. ContextInv => ContextTypeOK
  BY DEF ContextInv
<1>2. QED
  BY <1>1, AlwaysContext, PTL

(* Whoever previews, re-syncs, pushes or fails meanwhile: the image of a   *)
(* build nobody got in the way of holds exactly the commits recorded for   *)
(* it, and nothing but its branch in a clone whose branches were kept      *)
(* apart.                                                                  *)
THEOREM ImagesAreTheirCommits == ContextSpec => []ImageIsItsCommitAlone
<1>1. ContextInv => ImageIsItsCommitAlone
  BY DEF ContextInv, StageInv, StageOf, CleanInv, CleanOf, ImageIsItsCommitAlone, None
<1>2. QED
  BY <1>1, AlwaysContext, PTL

(* On every path through an engine, Job and Secret of a build that has     *)
(* ended are gone, unless it is known to have left them behind.            *)
THEOREM JobsAreGone == ContextSpec => []JobsAreCleanedUp
<1>1. ContextInv => JobsAreCleanedUp
  BY DEF ContextInv, StageInv, StageOf, LeftInv, LeftOf, JobsAreCleanedUp
<1>2. QED
  BY <1>1, AlwaysContext, PTL
===============================================================================
