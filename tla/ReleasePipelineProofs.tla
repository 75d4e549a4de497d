------------------------ MODULE ReleasePipelineProofs ------------------------
(* Proofs about ReleasePipeline, for any list of components, any versions and
   any bounds: the migrations are never behind the application, and the tree of
   the exporter, but for a root that is half removed, is renderable, whole where
   it has an aggregate, current after a successful run, and carries the release
   of its images.                                                            *)
EXTENDS ReleasePipeline, TLAPS

Path(i) == Components[i].path

\* main is between the cleaning and the aggregates, at component comp.
GrafanaSteps == {"grafana", "rules", "volumes", "generators"}
GitlabSteps == {"gitlab", "release"}
Running == pc \in {"fetch", "index"} \cup GrafanaSteps \cup GitlabSteps

-----------------------------------------------------------------------------
MainInv ==
  /\ main.release \in [Keys -> Versions]
  /\ main = [release |-> main.release, jobs |-> main.jobs]
  /\ DriftAllowed(main.release["appVersion"], main.release["migrationVersion"])

TypeInv ==
  /\ pc \in {"start", "failed", "clean_apps", "clean_infra", "aggregate", "done", "fetch", "index"}
            \cup GrafanaSteps \cup GitlabSteps
  /\ comp \in DOMAIN Components /\ query \in Nat \ {0}
  /\ live \in [Objects -> Manifest \cup {None}] /\ steady \subseteq Objects
  /\ DOMAIN files = Paths /\ DOMAIN index = Paths /\ DOMAIN generator = Paths
  /\ torn \subseteq {"apps", "infrastructure"} /\ (pc = "clean_infra" => "apps" \notin torn)
  /\ pc \notin {"start", "failed", "clean_apps", "clean_infra"} => torn = {}

\* Nothing is left of the component.
Wiped(i) ==
  /\ Components[i].group \notin aggregates
  /\ generator[Path(i)] = None /\ DOMAIN files[Path(i)] = {}

\* All that the run does for the component is done.
Complete(i) ==
  /\ index[Path(i)] # None
  /\ Components[i].post # "" => generator[Path(i)] # None

\* The body of SuccessIsCurrent.
Current(i) == \A o \in (Resources(i) \cap steady) \ Generated :
  IF live[o] = None THEN Filename(o) \notin DOMAIN files[Path(i)]
  ELSE Filename(o) \in index[Path(i)] /\ Faithful(o, files[Path(i)][Filename(o)], live[o])

\* What the run has done and has not done yet, component by component.
Progress(i) ==
  /\ pc = "clean_infra" /\ Components[i].root = "apps" => Wiped(i)
  /\ Running =>
       /\ Components[i].group \notin aggregates
       /\ i > comp \/ (i = comp /\ pc = "fetch") => Wiped(i)
       /\ i = comp => generator[Path(i)] = None
  /\ (Running /\ i < comp) \/ pc \in {"aggregate", "done"} => Complete(i) /\ Current(i)

Fresh == pc \in {"clean_apps", "clean_infra"} => comp = 1 /\ query = 1 /\ DOMAIN collected = {}

\* What is in memory: manifests of this component, current where steady.
CollectedInv == Running =>
  /\ DOMAIN collected \subseteq Resources(comp)
  /\ \A o \in DOMAIN collected :
       /\ collected[o] \in Manifest
       /\ o \in steady => live[o] # None /\ collected[o] = Strip(o, live[o])
  /\ pc = "fetch" => \A j \in DOMAIN This.queries : j < query =>
       \A o \in This.queries[j] : o \in steady /\ live[o] # None => o \in DOMAIN collected
  /\ pc # "fetch" =>
       /\ \A o \in (Resources(comp) \cap steady) \ Generated : live[o] # None => o \in DOMAIN collected
       /\ This.post = "grafana" => DOMAIN collected \cap Generated = {}

\* What is written of it: postprocessing changes no more than the mount.
WrittenInv == Running /\ pc # "fetch" =>
  /\ \A o \in Resources(comp) : Filename(o) \in DOMAIN files[This.path] <=> o \in DOMAIN collected
  /\ \A o \in DOMAIN collected : LET file == files[This.path][Filename(o)] IN
       /\ file \in Manifest /\ file.tag = collected[o].tag /\ file.runtime = collected[o].runtime
       /\ file.template = collected[o].template /\ file.claims = collected[o].claims
  /\ pc # "index" => index[This.path] = {Filename(o) : o \in DOMAIN collected}

\* The postprocessing that is under way.
PostInv ==
  /\ pc \in GrafanaSteps => This.post = "grafana"
  /\ pc \in GitlabSteps => This.post = "gitlab"
  /\ pc \in {"rules", "volumes", "generators"} => <<"static">> \in DOMAIN files["grafana"]
  /\ pc \in {"volumes", "generators"} =>
       <<"rules">> \in DOMAIN files["grafana"] /\ Filename(Grafana) \in DOMAIN files["grafana"]
  /\ pc = "generators" => files["grafana"][Filename(Grafana)].mount = "plain"
  /\ pc = "release" => /\ Job \in DOMAIN files["gitlab"] /\ CngImages \subseteq DOMAIN collected
                       /\ \E v \in Tags : CngVersions = {v}

\* The release that was recorded, in whatever state the tree is.
CarriedInv == generator["gitlab"] # None => \E v \in Tags :
  /\ generator["gitlab"] = {v}
  /\ ~Torn("gitlab") => \A o \in CngImages : files["gitlab"][Filename(o)].tag = v

\* The inductive invariant.
IInv ==
  /\ MainInv /\ TypeInv /\ Fresh /\ \A i \in DOMAIN Components : Progress(i)
  /\ CollectedInv /\ WrittenInv /\ PostInv /\ CarriedInv
  /\ Renderable /\ AggregatesWhole

-----------------------------------------------------------------------------
(* The migration check.                                                      *)

\* What the check allows is what MigrationsAhead says of the order of releases.
LEMMA DriftIsAhead ==
  ASSUME NEW app \in Versions, NEW migration \in Versions, DriftAllowed(app, migration)
  PROVE  /\ Release(migration) - Release(app) \in {0, 1}
         /\ Release(migration) = Release(app) => migration[3] >= app[3]
<1>1. /\ app[1] \in Nat /\ app[2] \in 0 .. 11 /\ app[3] \in Nat
      /\ migration[1] \in Nat /\ migration[2] \in 0 .. 11 /\ migration[3] \in Nat
  BY VersionsAssumption
<1>2. ~Less(migration, app)
  BY DEF DriftAllowed
<1>3. CASE migration[1] = app[1] /\ migration[2] = app[2]
  BY <1>1, <1>2, <1>3 DEF Release, Less
<1>4. CASE migration[1] = app[1] /\ migration[2] = app[2] + 1
  BY <1>1, <1>4 DEF Release
<1>5. CASE app[2] = 11 /\ migration[1] = app[1] + 1 /\ migration[2] = 0
  BY <1>1, <1>5 DEF Release
<1> QED
  BY <1>3, <1>4, <1>5 DEF DriftAllowed, OneMinorAhead

\* A release with equal versions passes.
LEMMA NoDrift ==
  ASSUME NEW v \in Versions
  PROVE  DriftAllowed(v, v)
<1>1. v[1] \in Nat /\ v[2] \in 0 .. 11 /\ v[3] \in Nat /\ v # Malformed
  BY VersionsAssumption
<1> QED
  BY <1>1 DEF DriftAllowed, Less

\* Whatever kustomize renders of an accepted kustomization is what the check has
\* read: there is one generator, and one literal of each key.
LEMMA RenderedIsRead ==
  ASSUME NEW k, ReleaseAccepted(k), NEW r \in Rendered(k)
  PROVE  r = ReleaseOf(k)
<1> DEFINE lits == k.generators[1]
           One == /\ ~k.duplicateKey /\ Len(k.generators) = 1
                  /\ \A key \in Keys : \E i \in DOMAIN lits : ValuesOf(lits, key) = {i}
           Value(key) == LET i == CHOOSE i \in ValuesOf(lits, key) : TRUE IN lits[i][2]
<1>1. One
  BY DEF ReleaseAccepted, ReleaseOf, DriftAllowed, Keys
<1>2. ReleaseOf(k) = [key \in Keys |-> Value(key)]
  BY <1>1 DEF ReleaseOf
<1>3. ASSUME NEW key \in Keys
      PROVE  r[key] = Value(key)
  <2>1. PICK g \in 1 .. Len(k.generators) : \E i \in DOMAIN k.generators[g] :
          k.generators[g][i] = <<key, r[key]>>
    BY DEF Rendered
  <2>2. g = 1
    BY <1>1, <2>1
  <2>3. PICK i \in DOMAIN lits : lits[i] = <<key, r[key]>>
    BY <2>1, <2>2
  <2>4. i \in ValuesOf(lits, key)
    BY <2>3 DEF ValuesOf
  <2>5. PICK j \in DOMAIN lits : ValuesOf(lits, key) = {j}
    BY <1>1
  <2>6. (CHOOSE x \in ValuesOf(lits, key) : TRUE) = i
    BY <2>4, <2>5
  <2>7. lits[i][2] = r[key]
    BY <2>3
  <2> HIDE DEF lits
  <2> QED
    BY <2>6, <2>7
<1>4. r \in [Keys -> Versions \cup {Malformed}]
  BY DEF Rendered
<1> QED
  BY <1>2, <1>3, <1>4

\* Whatever kustomize may render of an accepted release obeys the version rule.
LEMMA MergeableIsAhead ==
  ASSUME NEW r \in MergeableReleases
  PROVE  r \in [Keys -> Versions] /\ DriftAllowed(r["appVersion"], r["migrationVersion"])
<1>1. PICK k : ReleaseAccepted(k) /\ r \in Rendered(k)
  BY DEF MergeableReleases
<1>2. r = ReleaseOf(k)
  BY <1>1, RenderedIsRead
<1>3. DriftAllowed(r["appVersion"], r["migrationVersion"])
  BY <1>1, <1>2 DEF ReleaseAccepted
<1>4. r \in [Keys -> Versions \cup {Malformed}]
  BY <1>1 DEF Rendered
<1>5. r["appVersion"] # Malformed /\ r["migrationVersion"] # Malformed
  BY <1>3 DEF DriftAllowed
<1> QED
  BY <1>3, <1>4, <1>5 DEF Keys

\* What the exporter writes for one version is read back as that version.
LEMMA ExportIsRead ==
  ASSUME NEW v, generator["gitlab"] = {v}
  PROVE  ReleaseOf(Exported) = [key \in Keys |-> v]
<1> DEFINE lits == [i \in 1 .. 2 |-> <<IF i = 1 THEN "appVersion" ELSE "migrationVersion", v>>]
<1>1. Exported = [duplicateKey |-> FALSE, generators |-> <<lits>>]
  <2>1. (CHOOSE w \in generator["gitlab"] : TRUE) = v
    OBVIOUS
  <2> QED
    BY <2>1 DEF Exported
<1>2. /\ ~Exported.duplicateKey /\ Len(Exported.generators) = 1
      /\ Exported.generators[1] = lits
  BY <1>1
<1>3. /\ DOMAIN lits = 1 .. 2
      /\ lits[1] = <<"appVersion", v>> /\ lits[2] = <<"migrationVersion", v>>
  OBVIOUS
<1>4. ValuesOf(lits, "appVersion") = {1} /\ ValuesOf(lits, "migrationVersion") = {2}
  <2> HIDE DEF lits
  <2>1. lits[1][1] = "appVersion" /\ lits[2][1] = "migrationVersion"
    BY <1>3
  <2> QED
    BY <1>3, <2>1 DEF ValuesOf
<1>5. \A key \in Keys : \E i \in DOMAIN lits : ValuesOf(lits, key) = {i} /\ lits[i][2] = v
  BY <1>3, <1>4 DEF Keys
<1> HIDE DEF lits
<1>6. ASSUME NEW key \in Keys
      PROVE  (LET i == CHOOSE i \in ValuesOf(lits, key) : TRUE IN lits[i][2]) = v
  BY <1>5
<1> QED
  <2>1. ReleaseOf(Exported) =
          [key \in Keys |-> LET i == CHOOSE i \in ValuesOf(lits, key) : TRUE IN lits[i][2]]
    BY <1>2, <1>5 DEF ReleaseOf
  <2> QED
    BY <1>6, <2>1

-----------------------------------------------------------------------------
(* Names and paths.                                                          *)

\* A component belongs to the tree, with its objects and its group.
LEMMA Placed ==
  ASSUME NEW i \in DOMAIN Components
  PROVE  /\ Path(i) \in Paths /\ Resources(i) \subseteq Objects
         /\ Components[i].group \in Groups
BY DEF Path, Paths, Objects, Groups

\* Components are numbered from 1.
LEMMA Numbered == 1 \in DOMAIN Components /\ DOMAIN Components \subseteq Nat \ {0}
<1>1. DOMAIN Components = 1 .. Len(Components) /\ Len(Components) \in Nat \ {0}
  BY ComponentsAssumption
<1> QED
  BY <1>1

\* So are the queries of a component.
LEMMA Queries ==
  ASSUME NEW i \in DOMAIN Components
  PROVE  /\ Len(Components[i].queries) \in Nat
         /\ DOMAIN Components[i].queries = 1 .. Len(Components[i].queries)
         /\ \A j \in DOMAIN Components[i].queries : j \in Nat \ {0}
<1>1. Len(Components[i].queries) \in Nat /\ DOMAIN Components[i].queries = 1 .. Len(Components[i].queries)
  BY ComponentsAssumption
<1> QED
  BY <1>1

\* No two components share a directory.
LEMMA PathsDiffer ==
  ASSUME NEW i \in DOMAIN Components, NEW j \in DOMAIN Components, Path(i) = Path(j)
  PROVE  i = j
BY ComponentsAssumption DEF Path

\* Every directory is that of a component.
LEMMA PathOf ==
  ASSUME NEW p \in Paths
  PROVE  \E i \in DOMAIN Components : p = Path(i)
BY DEF Path, Paths

\* The generated files of Grafana are no manifests.
LEMMA NamesDiffer ==
  /\ \A o : Filename(o) # <<"static">> /\ Filename(o) # <<"rules">>
  /\ <<"static">> # <<"rules">>
BY DEF Filename

\* Postprocessing happens in the directory of its name, beside the objects it needs.
LEMMA PostPath ==
  ASSUME NEW i \in DOMAIN Components
  PROVE  /\ Components[i].post \in {"", "grafana", "gitlab"}
         /\ Components[i].post # "" => Path(i) = Components[i].post
         /\ Components[i].root \in {"apps", "infrastructure"}
         /\ Components[i].post = "grafana" => Grafana \in Resources(i) /\ Generated \subseteq Resources(i)
         /\ Components[i].post = "gitlab" => \A o \in Resources(i) : Filename(o) # Job
BY ComponentsAssumption DEF Path

\* Within a component filename_for gives every object a file of its own.
LEMMA OneFile ==
  ASSUME NEW i \in DOMAIN Components, NEW o \in Resources(i), NEW p \in Resources(i),
         Filename(o) = Filename(p)
  PROVE  o = p
BY ExportAssumption

\* A component lies in one root.
LEMMA TornRoot ==
  ASSUME NEW i \in DOMAIN Components
  PROVE  /\ Torn(Path(i)) <=> Components[i].root \in torn
         /\ Torn(Path(i))' <=> Components[i].root \in torn'
<1>1. \A j \in DOMAIN Components : Components[j].path = Path(i) => j = i
  BY PathsDiffer DEF Path
<1> QED
  BY <1>1 DEF Torn, Path

\* As long as no removal begins or ends, the same directories are torn.
LEMMA TornSame ==
  ASSUME torn' = torn, NEW p
  PROVE  Torn(p)' <=> Torn(p)
BY DEF Torn

-----------------------------------------------------------------------------
(* Steps that leave parts of the state alone.                                *)

\* A step of the main branch alone.
LEMMA ExportUnchanged ==
  ASSUME IInv, UNCHANGED exportVars, MainInv'
  PROVE  IInv'
<1>1. /\ live' = live /\ files' = files /\ index' = index /\ generator' = generator
      /\ aggregates' = aggregates /\ pc' = pc /\ comp' = comp /\ query' = query
      /\ collected' = collected /\ steady' = steady /\ torn' = torn
  BY DEF exportVars, cluster, tree, removal
<1>2. TypeInv' /\ Fresh' /\ CarriedInv'
  BY <1>1, TornSame DEF IInv, TypeInv, Fresh, CarriedInv
<1>6. PostInv'
  BY <1>1 DEF IInv, PostInv, This, CngVersions
<1>3. ASSUME NEW i \in DOMAIN Components PROVE Progress(i)'
  BY <1>1 DEF IInv, Progress, Running, Wiped, Complete, Current
<1>4. CollectedInv' /\ WrittenInv'
  BY <1>1 DEF IInv, CollectedInv, WrittenInv, Running, This
<1>5. Renderable' /\ AggregatesWhole'
  BY <1>1, TornSame DEF IInv, Renderable, AggregatesWhole
<1> QED
  BY <1>2, <1>3, <1>4, <1>5, <1>6 DEF IInv

\* A step of the exporter or the cluster alone.
LEMMA MainUnchanged ==
  ASSUME MainInv, UNCHANGED releaseVars
  PROVE  MainInv'
BY DEF MainInv, releaseVars

\* A step that writes nothing keeps what is said of the tree.
LEMMA TreeUnchanged ==
  ASSUME CarriedInv, Renderable, AggregatesWhole, UNCHANGED tree, torn' = torn
  PROVE  CarriedInv' /\ Renderable' /\ AggregatesWhole'
<1>1. files' = files /\ index' = index /\ generator' = generator /\ aggregates' = aggregates
  BY DEF tree
<1>2. CarriedInv'
  BY <1>1, TornSame DEF CarriedInv
<1>3. Renderable' /\ AggregatesWhole'
  BY <1>1, TornSame DEF Renderable, AggregatesWhole
<1> QED
  BY <1>2, <1>3

\* A run that has not begun, or has failed, is bound to nothing but the tree.
LEMMA IdleStep ==
  ASSUME MainInv', TypeInv', Fresh', CarriedInv', Renderable', AggregatesWhole',
         pc' \in {"start", "failed", "clean_apps"}
  PROVE  IInv'
<1>1. ASSUME NEW i \in DOMAIN Components PROVE Progress(i)'
  BY DEF Progress, Running, GrafanaSteps, GitlabSteps
<1>2. CollectedInv' /\ WrittenInv' /\ PostInv'
  BY DEF CollectedInv, WrittenInv, PostInv, Running, GrafanaSteps, GitlabSteps
<1> QED
  BY <1>1, <1>2 DEF IInv

-----------------------------------------------------------------------------
(* The start of a run, and its cleaning.                                     *)

\* The initial states satisfy the invariant.
LEMMA InitIsSound ==
  ASSUME Init
  PROVE  IInv
<1> USE DEF Init, ReleaseInit, ExportInit
<1>1. MainInv
  <2>1. main.release = [key \in Keys |-> FirstVersion] /\ main = [release |-> main.release, jobs |-> main.jobs]
    OBVIOUS
  <2>2. DriftAllowed(FirstVersion, FirstVersion)
    BY NoDrift, VersionsAssumption
  <2> QED
    BY <2>1, <2>2, VersionsAssumption DEF MainInv, Keys
<1>2. TypeInv
  <2>1. PICK l \in Labels, t \in Tags : live = [o \in Objects |->
         [tag |-> t, meta |-> TRUE, template |-> l.template, claims |-> l.claims,
          selected |-> l.selected, mount |-> "hashed", single |-> TRUE, runtime |-> TRUE]]
    OBVIOUS
  <2>2. l.template \in BOOLEAN /\ l.claims \in BOOLEAN /\ l.selected \in BOOLEAN
    BY ExportAssumption
  <2>3. live \in [Objects -> Manifest \cup {None}]
    BY <2>1, <2>2 DEF Manifest
  <2> QED
    BY <2>3, Numbered DEF TypeInv
<1>3. ASSUME NEW i \in DOMAIN Components PROVE Progress(i)
  BY DEF Progress, Running, GrafanaSteps, GitlabSteps
<1>4. Fresh /\ CollectedInv /\ WrittenInv /\ PostInv
  BY DEF Fresh, CollectedInv, WrittenInv, PostInv, Running, GrafanaSteps, GitlabSteps
<1>5. CarriedInv
  BY ComponentsAssumption DEF CarriedInv
<1>6. Renderable /\ AggregatesWhole
  BY Placed DEF Renderable, AggregatesWhole, Path
<1> QED
  BY <1>1, <1>2, <1>3, <1>4, <1>5, <1>6 DEF IInv

\* A run starts on whatever tree the last one has left.
LEMMA StartStep ==
  ASSUME IInv, Start, UNCHANGED releaseVars
  PROVE  IInv'
<1>1. MainInv' /\ CarriedInv' /\ Renderable' /\ AggregatesWhole'
  BY MainUnchanged, TreeUnchanged DEF IInv, Start, removal
<1>2. TypeInv'
  BY Numbered DEF IInv, TypeInv, Start, cluster, tree, removal
<1> QED
  BY <1>1, <1>2, IdleStep DEF Start, Fresh

\* A run may end between any two of its steps.
LEMMA InterruptStep ==
  ASSUME IInv, Interrupt, UNCHANGED releaseVars
  PROVE  IInv'
<1>1. MainInv' /\ CarriedInv' /\ Renderable' /\ AggregatesWhole'
  BY MainUnchanged, TreeUnchanged DEF IInv, Interrupt
<1>2. TypeInv'
  BY Numbered DEF IInv, TypeInv, Interrupt, Fail, cluster, tree
<1> QED
  BY <1>1, <1>2, IdleStep DEF Interrupt, Fail, Fresh

\* Removing one entry touches one component or one aggregate of the root, and the
\* root is torn from then on.
LEMMA RemovalEffect ==
  ASSUME IInv, Cleaning, NEW i \in Below,
         \/ RemoveFile(Components[i].path) \/ RemoveIndex(Components[i].path)
         \/ RemoveAggregate(Components[i].group)
  PROVE  /\ i \in DOMAIN Components /\ Components[i].root = Root
         /\ torn' = torn \cup {Root} /\ aggregates' \subseteq aggregates
         /\ DOMAIN files' = Paths /\ DOMAIN index' = Paths /\ DOMAIN generator' = Paths
         /\ UNCHANGED <<cluster, pc, comp, query, collected, runs, steady>>
         /\ \A k \in DOMAIN Components : generator'[Path(k)] \in {generator[Path(k)], None}
         /\ \A k \in DOMAIN Components : k # i =>
              /\ files'[Path(k)] = files[Path(k)] /\ index'[Path(k)] = index[Path(k)]
              /\ generator'[Path(k)] = generator[Path(k)]
<1>1. i \in DOMAIN Components /\ Components[i].root = Root
  BY DEF Below
<1>2. DOMAIN files = Paths /\ DOMAIN index = Paths /\ DOMAIN generator = Paths
  BY DEF IInv, TypeInv
<1>3. \A k \in DOMAIN Components : Path(k) \in Paths /\ (k # i => Path(k) # Path(i))
  BY <1>1, Placed, PathsDiffer
<1>4. CASE RemoveFile(Components[i].path)
  BY <1>1, <1>2, <1>3, <1>4 DEF RemoveFile, Removal, Path
<1>5. CASE RemoveIndex(Components[i].path)
  BY <1>1, <1>2, <1>3, <1>5 DEF RemoveIndex, Removal, Path
<1>6. CASE RemoveAggregate(Components[i].group)
  BY <1>1, <1>2, <1>3, <1>6 DEF RemoveAggregate, Removal
<1> QED
  BY <1>4, <1>5, <1>6

\* Removing an entry says nothing new of the other root.
LEMMA RemovalKeeps ==
  ASSUME IInv, Cleaning, NEW i \in Below,
         \/ RemoveFile(Components[i].path) \/ RemoveIndex(Components[i].path)
         \/ RemoveAggregate(Components[i].group)
  PROVE  CarriedInv' /\ Renderable' /\ AggregatesWhole'
<1>1. ASSUME NEW k \in DOMAIN Components, Components[k].root \notin torn'
      PROVE  /\ Components[k].root \notin torn /\ files'[Path(k)] = files[Path(k)]
             /\ index'[Path(k)] = index[Path(k)] /\ generator'[Path(k)] = generator[Path(k)]
  <2>1. Components[k].root # Root /\ Components[k].root \notin torn
    BY <1>1, RemovalEffect
  <2>2. k # i
    BY <2>1, RemovalEffect
  <2> QED
    BY <2>1, <2>2, RemovalEffect
<1>2. CarriedInv'
  <2>1. PICK k \in DOMAIN Components : Path(k) = "gitlab"
    BY ComponentsAssumption, PathOf
  <2>2. generator'["gitlab"] \in {generator["gitlab"], None}
    BY <2>1, RemovalEffect
  <2>3. ASSUME generator'["gitlab"] # None
        PROVE  \E v \in Tags : /\ generator'["gitlab"] = {v}
                               /\ ~Torn("gitlab")' => \A o \in CngImages : files'["gitlab"][Filename(o)].tag = v
    <3>1. PICK v \in Tags : /\ generator["gitlab"] = {v}
                            /\ ~Torn("gitlab") => \A o \in CngImages : files["gitlab"][Filename(o)].tag = v
      BY <2>2, <2>3 DEF IInv, CarriedInv
    <3>2. ASSUME ~Torn("gitlab")' PROVE ~Torn("gitlab") /\ files'["gitlab"] = files["gitlab"]
      BY <1>1, <2>1, <3>2, TornRoot
    <3> QED
      BY <2>2, <2>3, <3>1, <3>2
  <2> QED
    BY <2>3 DEF CarriedInv
<1>3. Renderable'
  <2>1. ASSUME NEW p \in Paths, ~Torn(p)'
        PROVE  /\ ~Torn(p) /\ files'[p] = files[p] /\ index'[p] = index[p]
               /\ generator'[p] = generator[p]
    <3>1. PICK k \in DOMAIN Components : p = Path(k)
      BY PathOf
    <3> QED
      BY <1>1, <2>1, <3>1, TornRoot
  <2> QED
    BY <2>1 DEF IInv, Renderable
<1>4. AggregatesWhole'
  <2>1. ASSUME NEW k \in DOMAIN Components, Components[k].group \in aggregates', Components[k].root \notin torn'
        PROVE  Complete(k)'
    <3>1. Components[k].group \in aggregates
      BY <2>1, RemovalEffect
    <3> QED
      BY <1>1, <2>1, <3>1 DEF IInv, AggregatesWhole, Complete, Path
  <2> QED
    BY <2>1 DEF AggregatesWhole, Complete, Path
<1> QED
  BY <1>2, <1>3, <1>4

\* rmtree takes one entry.
LEMMA RemovalStep ==
  ASSUME IInv, Cleaning, NEW i \in Below, UNCHANGED releaseVars,
         \/ RemoveFile(Components[i].path) \/ RemoveIndex(Components[i].path)
         \/ RemoveAggregate(Components[i].group)
  PROVE  IInv'
<1>1. /\ pc' = pc /\ comp' = comp /\ query' = query /\ collected' = collected
      /\ live' = live /\ steady' = steady /\ torn' = torn \cup {Root}
      /\ DOMAIN files' = Paths /\ DOMAIN index' = Paths /\ DOMAIN generator' = Paths
  BY RemovalEffect DEF cluster
<1>2. TypeInv'
  BY <1>1 DEF IInv, TypeInv, Root, Cleaning
<1>3. ASSUME NEW k \in DOMAIN Components PROVE Progress(k)'
  <2>1. ~Running' /\ pc' \notin {"aggregate", "done"}
    BY <1>1 DEF Cleaning, Running, GrafanaSteps, GitlabSteps
  <2>2. ASSUME pc' = "clean_infra", Components[k].root = "apps"
        PROVE  Wiped(k)'
    <3>1. Wiped(k)
      BY <1>1, <2>2 DEF IInv, Progress
    <3>2. k # i
      BY <1>1, <2>2, RemovalEffect DEF Root
    <3> QED
      BY <3>1, <3>2, RemovalEffect DEF Wiped
  <2> QED
    BY <2>1, <2>2 DEF Progress
<1>4. Fresh' /\ CollectedInv' /\ WrittenInv' /\ PostInv'
  BY <1>1 DEF IInv, Fresh, Cleaning, CollectedInv, WrittenInv, PostInv, Running, GrafanaSteps, GitlabSteps
<1>5. MainInv' /\ CarriedInv' /\ Renderable' /\ AggregatesWhole'
  BY MainUnchanged, RemovalKeeps DEF IInv
<1> QED
  BY <1>2, <1>3, <1>4, <1>5 DEF IInv

\* A root that was removed holds nothing that could be torn.
LEMMA RootRemovedStep ==
  ASSUME IInv, RootRemoved, UNCHANGED releaseVars
  PROVE  IInv'
<1>1. /\ Cleaning /\ files' = files /\ index' = index /\ generator' = generator
      /\ aggregates' = aggregates /\ comp' = comp /\ query' = query /\ collected' = collected
      /\ steady' = steady /\ live' = live /\ torn' = torn \ {Root}
      /\ pc = "clean_apps" => pc' = "clean_infra"
      /\ pc = "clean_infra" => pc' = "fetch"
  BY DEF RootRemoved, cluster, tree, Cleaning
<1>2. ASSUME NEW i \in DOMAIN Components, Components[i].root = Root
      PROVE  Wiped(i) /\ index[Path(i)] = None
  BY <1>2 DEF RootRemoved, Below, Gone, Wiped, Path
<1>3. CarriedInv' /\ Renderable' /\ AggregatesWhole'
  <2>1. ASSUME NEW i \in DOMAIN Components, Components[i].root # Root
        PROVE  (Components[i].root \in torn' <=> Components[i].root \in torn) /\ (Torn(Path(i))' <=> Torn(Path(i)))
    BY <1>1, <2>1, TornRoot
  <2>2. ASSUME NEW p \in Paths
        PROVE  (index[p] = None /\ generator[p] = None) \/ (Torn(p)' <=> Torn(p))
    <3>1. PICK i \in DOMAIN Components : p = Path(i)
      BY PathOf
    <3> QED
      BY <1>2, <2>1, <3>1 DEF Wiped
  <2>3. CarriedInv'
    BY <1>1, <2>2, ComponentsAssumption DEF IInv, CarriedInv
  <2>4. Renderable'
    BY <1>1, <2>2 DEF IInv, Renderable
  <2>5. AggregatesWhole'
    BY <1>1, <1>2, <2>1 DEF IInv, AggregatesWhole, Wiped, Path
  <2> QED
    BY <2>3, <2>4, <2>5
<1>4. MainInv'
  BY MainUnchanged DEF IInv
<1>5. TypeInv'
  BY <1>1 DEF IInv, TypeInv, Cleaning, Root
<1>6. CASE pc = "clean_apps"
  <2>1. pc' = "clean_infra" /\ Root = "apps"
    BY <1>1, <1>6 DEF Root
  <2>2. ASSUME NEW i \in DOMAIN Components PROVE Progress(i)'
    BY <1>1, <1>2, <2>1 DEF Progress, Wiped, Running, GrafanaSteps, GitlabSteps
  <2>3. Fresh' /\ CollectedInv' /\ WrittenInv' /\ PostInv'
    BY <1>1, <1>6, <2>1 DEF IInv, Fresh, CollectedInv, WrittenInv, PostInv, Running, GrafanaSteps, GitlabSteps
  <2> QED
    BY <1>3, <1>4, <1>5, <2>2, <2>3 DEF IInv
<1>7. CASE pc = "clean_infra"
  <2>1. pc' = "fetch" /\ Root = "infrastructure"
    BY <1>1, <1>7 DEF Root
  <2>2. ASSUME NEW i \in DOMAIN Components PROVE Wiped(i)'
    <3>1. CASE Components[i].root = "infrastructure"
      BY <1>1, <1>2, <2>1, <3>1 DEF Wiped
    <3>2. CASE Components[i].root = "apps"
      BY <1>1, <1>7, <3>2 DEF IInv, Progress, Wiped
    <3> QED
      BY <3>1, <3>2, PostPath
  <2>3. comp = 1 /\ query = 1 /\ DOMAIN collected = {} /\ Fresh'
    BY <1>7, <2>1 DEF IInv, Fresh
  <2>4. ASSUME NEW i \in DOMAIN Components PROVE Progress(i)'
    <3>1. ~(i < comp')
      BY <1>1, <2>3, Numbered
    <3> QED
      BY <2>1, <2>2, <3>1 DEF Progress, Wiped
  <2>5. CollectedInv' /\ WrittenInv' /\ PostInv'
    <3>1. \A j \in DOMAIN This.queries' : ~(j < query')
      BY <1>1, <2>3, Numbered, Queries DEF This
    <3> QED
      BY <1>1, <2>1, <2>3, <3>1 DEF CollectedInv, WrittenInv, PostInv, Running, GrafanaSteps, GitlabSteps
  <2> QED
    BY <1>3, <1>4, <1>5, <2>3, <2>4, <2>5 DEF IInv
<1> QED
  BY <1>1, <1>6, <1>7 DEF Cleaning

\* clean_outputs leaves nothing of the roots it has removed.
LEMMA CleanStep ==
  ASSUME IInv, CleanOutputs, UNCHANGED releaseVars
  PROVE  IInv'
<1>1. CASE RootRemoved
  BY <1>1, RootRemovedStep
<1>2. CASE ~RootRemoved
  <2>1. PICK i \in Below : /\ Cleaning
                           /\ \/ RemoveFile(Components[i].path) \/ RemoveIndex(Components[i].path)
                              \/ RemoveAggregate(Components[i].group)
    BY <1>2 DEF CleanOutputs
  <2> QED
    BY <2>1, RemovalStep
<1> QED
  BY <1>1, <1>2

-----------------------------------------------------------------------------
(* The cluster changes.                                                      *)

\* What is said of objects that are steady does not change.
LEMMA ChangeStep ==
  ASSUME IInv, NEW o \in Objects, NEW m \in Manifest \cup {None}, Change(o, m), UNCHANGED releaseVars
  PROVE  IInv'
<1>1. /\ files' = files /\ index' = index /\ generator' = generator /\ aggregates' = aggregates
      /\ pc' = pc /\ comp' = comp /\ query' = query /\ collected' = collected
      /\ torn' = torn
  BY DEF Change, tree, removal
<1>2. steady' \subseteq steady /\ \A x \in steady' : x \in Objects /\ live'[x] = live[x]
  BY DEF Change, IInv, TypeInv
<1>3. MainInv' /\ CarriedInv' /\ Renderable' /\ AggregatesWhole'
  BY MainUnchanged, TreeUnchanged DEF IInv, Change, removal
<1>4. TypeInv' /\ Fresh'
  <2>1. live' \in [Objects -> Manifest \cup {None}]
    BY DEF Change, IInv, TypeInv
  <2> QED
    BY <1>1, <1>2, <2>1 DEF IInv, TypeInv, Fresh
<1>5. ASSUME NEW i \in DOMAIN Components PROVE Progress(i)'
  <2>1. Current(i) => Current(i)'
    BY <1>1, <1>2 DEF Current
  <2>2. (Wiped(i) => Wiped(i)') /\ (Complete(i) => Complete(i)') /\ (Running <=> Running')
    BY <1>1 DEF Wiped, Complete, Running
  <2>3. Progress(i)
    BY DEF IInv
  <2> QED
    BY <1>1, <2>1, <2>2, <2>3 DEF Progress
<1>6. CollectedInv'
  <2> SUFFICES ASSUME Running' PROVE CollectedInv'
    BY DEF CollectedInv
  <2>1. Running /\ This' = This
    BY <1>1 DEF Running, This
  <2>2. /\ DOMAIN collected \subseteq Resources(comp)
        /\ \A x \in DOMAIN collected :
             /\ collected[x] \in Manifest
             /\ x \in steady' => live'[x] # None /\ collected[x] = Strip(x, live'[x])
    BY <1>2, <2>1 DEF IInv, CollectedInv
  <2>3. pc = "fetch" => \A j \in DOMAIN This.queries : j < query =>
          \A x \in This.queries[j] : x \in steady' /\ live'[x] # None => x \in DOMAIN collected
    BY <1>2, <2>1 DEF IInv, CollectedInv
  <2>4. pc # "fetch" =>
          /\ \A x \in (Resources(comp) \cap steady') \ Generated : live'[x] # None => x \in DOMAIN collected
          /\ This.post = "grafana" => DOMAIN collected \cap Generated = {}
    BY <1>2, <2>1 DEF IInv, CollectedInv
  <2> QED
    BY <1>1, <2>1, <2>2, <2>3, <2>4 DEF CollectedInv
<1>7. WrittenInv'
  BY <1>1 DEF IInv, WrittenInv, Running, This
<1>8. PostInv'
  BY <1>1 DEF IInv, PostInv, This, CngVersions
<1> QED
  BY <1>3, <1>4, <1>5, <1>6, <1>7, <1>8 DEF IInv

-----------------------------------------------------------------------------
(* One component.                                                            *)

\* strip_resource returns a manifest that stands for its object.
LEMMA Stripped ==
  ASSUME NEW o, NEW m \in Manifest
  PROVE  Strip(o, m) \in Manifest /\ Faithful(o, Strip(o, m), m)
BY DEF Strip, Manifest, Faithful

\* fetch_component_resources: an object that is found twice is kept once.
LEMMA FetchStep ==
  ASSUME IInv, Fetch, UNCHANGED releaseVars
  PROVE  IInv'
<1> DEFINE found == {o \in This.queries[query] : live[o] # None}
<1>1. /\ files' = files /\ index' = index /\ generator' = generator /\ aggregates' = aggregates
      /\ pc = "fetch" /\ pc' = pc /\ comp' = comp /\ query' = query + 1 /\ live' = live /\ steady' = steady /\ torn' = torn
      /\ collected' = Over(collected, [o \in found |-> Strip(o, live[o])])
      /\ query <= Len(This.queries)
  BY DEF Fetch, cluster, tree, removal
<1>2. /\ comp \in DOMAIN Components /\ query \in Nat \ {0} /\ Running /\ Running' /\ This' = This
      /\ live \in [Objects -> Manifest \cup {None}]
  BY <1>1 DEF IInv, TypeInv, Running, This
<1>3. query \in DOMAIN This.queries
  BY <1>1, <1>2, Queries DEF This
<1>4. This.queries[query] \subseteq Resources(comp) /\ Resources(comp) \subseteq Objects
  BY <1>2, <1>3, Placed DEF Resources, This
<1>5. DOMAIN collected' = DOMAIN collected \cup found
  BY <1>1 DEF Over
<1>6. \A o \in DOMAIN collected : collected'[o] = collected[o]
  BY <1>1 DEF Over
<1>7. \A o \in found \ DOMAIN collected : collected'[o] = Strip(o, live[o])
  BY <1>1 DEF Over
<1>8. \A o \in found : o \in Resources(comp) /\ live[o] \in Manifest /\ live[o] # None
  BY <1>2, <1>4
<1> HIDE DEF found
<1>9. MainInv' /\ CarriedInv' /\ Renderable' /\ AggregatesWhole'
  BY MainUnchanged, TreeUnchanged DEF IInv, Fetch, removal
<1>10. TypeInv' /\ Fresh'
  BY <1>1, <1>2 DEF IInv, TypeInv, Fresh
<1>11. ASSUME NEW i \in DOMAIN Components PROVE Progress(i)'
  BY <1>1 DEF IInv, Progress, Running, Wiped, Complete, Current
<1>12. CollectedInv'
  <2>1. DOMAIN collected' \subseteq Resources(comp)
    BY <1>2, <1>5, <1>8 DEF IInv, CollectedInv
  <2>2. ASSUME NEW o \in DOMAIN collected'
        PROVE  /\ collected'[o] \in Manifest
               /\ o \in steady => live[o] # None /\ collected'[o] = Strip(o, live[o])
    <3>1. CASE o \in DOMAIN collected
      BY <1>2, <1>6, <3>1 DEF IInv, CollectedInv
    <3>2. CASE o \in found \ DOMAIN collected
      BY <1>7, <1>8, <3>2, Stripped
    <3> QED
      BY <1>5, <3>1, <3>2
  <2>3. ASSUME NEW j \in DOMAIN This.queries, j < query + 1, NEW o \in This.queries[j],
               o \in steady, live[o] # None
        PROVE  o \in DOMAIN collected'
    <3>1. CASE j < query
      BY <1>1, <1>2, <1>5, <2>3, <3>1 DEF IInv, CollectedInv
    <3>2. CASE j = query
      BY <1>5, <2>3, <3>2 DEF found
    <3> QED
      BY <1>2, <2>3, <3>1, <3>2, Queries DEF This
  <2> QED
    BY <1>1, <1>2, <2>1, <2>2, <2>3 DEF CollectedInv
<1>13. WrittenInv' /\ PostInv'
  BY <1>1 DEF WrittenInv, PostInv, GrafanaSteps, GitlabSteps
<1> QED
  BY <1>9, <1>10, <1>11, <1>12, <1>13 DEF IInv

\* write_aggregate: every component was completed before.
LEMMA AggregateStep ==
  ASSUME IInv, Aggregate, UNCHANGED releaseVars
  PROVE  IInv'
<1>1. /\ files' = files /\ index' = index /\ generator' = generator /\ pc = "aggregate"
      /\ pc' \in {"aggregate", "done"} /\ comp' = comp /\ query' = query /\ live' = live
      /\ steady' = steady /\ collected' = collected /\ torn' = torn
  BY DEF Aggregate, cluster, removal
<1>2. \A i \in DOMAIN Components : Complete(i) /\ Current(i)
  BY <1>1 DEF IInv, Progress
<1>3. MainInv' /\ TypeInv' /\ Fresh'
  BY <1>1, MainUnchanged DEF IInv, TypeInv, Fresh
<1>4. CarriedInv' /\ Renderable'
  BY <1>1, TornSame DEF IInv, CarriedInv, Renderable
<1>5. AggregatesWhole'
  BY <1>1, <1>2 DEF AggregatesWhole, Complete, Path
<1>6. ASSUME NEW i \in DOMAIN Components PROVE Progress(i)'
  <2>1. Complete(i)' /\ Current(i)' /\ ~Running'
    BY <1>1, <1>2 DEF Complete, Current, Running, GrafanaSteps, GitlabSteps
  <2> QED
    BY <1>1, <2>1 DEF Progress
<1>7. CollectedInv' /\ WrittenInv' /\ PostInv'
  BY <1>1 DEF CollectedInv, WrittenInv, PostInv, Running, GrafanaSteps, GitlabSteps
<1> QED
  BY <1>3, <1>4, <1>5, <1>6, <1>7 DEF IInv

\* A step that writes files of the component only, and no index yet.
LEMMA FilesStep ==
  ASSUME IInv, Running,
         UNCHANGED <<cluster, index, generator, aggregates, comp, query, runs, steady, removal>>,
         DOMAIN files' = Paths,
         \A i \in DOMAIN Components : i # comp => files'[Path(i)] = files[Path(i)],
         DOMAIN files[This.path] \subseteq DOMAIN files'[This.path],
         pc' \in {"failed", "index"} \cup GrafanaSteps \cup GitlabSteps
  PROVE  /\ TypeInv' /\ Fresh' /\ CarriedInv' /\ Renderable' /\ AggregatesWhole'
         /\ \A i \in DOMAIN Components : Progress(i)'
<1>1. /\ live' = live /\ index' = index /\ generator' = generator /\ aggregates' = aggregates
      /\ comp' = comp /\ query' = query /\ steady' = steady /\ torn' = torn
  BY DEF cluster, removal
<1>2. comp \in DOMAIN Components /\ generator[Path(comp)] = None /\ Path(comp) = This.path
  BY DEF IInv, TypeInv, Progress, Path, This
<1>3. TypeInv' /\ Fresh'
  BY <1>1 DEF IInv, TypeInv, Fresh, Running, GrafanaSteps, GitlabSteps
<1>4. \A p \in Paths : p # Path(comp) => files'[p] = files[p]
  BY PathOf
<1>5. CarriedInv'
  <2>1. CASE Path(comp) = "gitlab"
    BY <1>1, <1>2, <2>1 DEF CarriedInv
  <2>2. CASE Path(comp) # "gitlab"
    <3>1. files'["gitlab"] = files["gitlab"]
      BY <1>4, <2>2, ComponentsAssumption
    <3> QED
      BY <1>1, <3>1, TornSame DEF IInv, CarriedInv
  <2> QED
    BY <2>1, <2>2
<1>6. Renderable'
  <2>1. ASSUME NEW p \in Paths, p # Path(comp)
        PROVE  files'[p] = files[p] /\ index'[p] = index[p] /\ generator'[p] = generator[p]
    BY <1>1, <1>4, <2>1
  <2>2. ~Torn(Path(comp)) /\ index'[Path(comp)] # None => index'[Path(comp)] \subseteq DOMAIN files'[Path(comp)]
    BY <1>1, <1>2, Placed DEF IInv, Renderable
  <2> QED
    BY <1>1, <1>2, <2>1, <2>2, TornSame DEF IInv, Renderable
<1>7. AggregatesWhole'
  BY <1>1 DEF IInv, AggregatesWhole
<1>8. ASSUME NEW i \in DOMAIN Components PROVE Progress(i)'
  <2>1. Progress(i)
    BY DEF IInv
  <2>2. CASE i = comp
    <3>1. Components[i].group \notin aggregates
      BY <2>1 DEF Progress
    <3> QED
      BY <1>1, <1>2, <2>2, <3>1, Numbered DEF Progress, GrafanaSteps, GitlabSteps
  <2>3. CASE i # comp
    <3>1. (Wiped(i) => Wiped(i)') /\ (Complete(i) => Complete(i)') /\ (Current(i) => Current(i)')
      BY <1>1, <2>3 DEF Wiped, Complete, Current
    <3> QED
      BY <1>1, <2>1, <2>3, <3>1 DEF Progress, GrafanaSteps, GitlabSteps
  <2> QED
    BY <2>2, <2>3
<1> QED
  BY <1>3, <1>5, <1>6, <1>7, <1>8

\* When the run goes on to the next component, this one is complete and current.
LEMMA Advance ==
  ASSUME IInv, Running, pc # "fetch", NextComponent,
         UNCHANGED <<cluster, files, aggregates, runs, steady, removal>>,
         DOMAIN index' = Paths, DOMAIN generator' = Paths,
         \A i \in DOMAIN Components : i # comp =>
            index'[Path(i)] = index[Path(i)] /\ generator'[Path(i)] = generator[Path(i)],
         NEW c \in DOMAIN Components, c = comp, Complete(c)', Current(c)'
  PROVE  /\ TypeInv' /\ Fresh' /\ CollectedInv' /\ WrittenInv' /\ PostInv' /\ AggregatesWhole'
         /\ \A i \in DOMAIN Components : Progress(i)'
<1>1. /\ live' = live /\ files' = files /\ aggregates' = aggregates /\ steady' = steady
      /\ torn' = torn
  BY DEF cluster, removal
<1>2. Len(Components) \in Nat \ {0} /\ DOMAIN Components = 1 .. Len(Components)
  BY ComponentsAssumption
<1>3. /\ \/ pc' = "fetch" /\ comp' = comp + 1
         \/ pc' = "aggregate" /\ comp' = comp /\ comp = Len(Components)
      /\ comp' \in DOMAIN Components /\ query' = 1 /\ DOMAIN collected' = {}
  BY <1>2 DEF NextComponent
<1>4. TypeInv' /\ Fresh'
  BY <1>1, <1>3 DEF IInv, TypeInv, Fresh, Running, GrafanaSteps, GitlabSteps
<1>5. AggregatesWhole'
  BY <1>1 DEF IInv, Progress, AggregatesWhole
<1>6. CollectedInv' /\ WrittenInv' /\ PostInv'
  <2>1. \A j \in DOMAIN This'.queries : ~(j < query')
    BY <1>3, Queries DEF This
  <2> QED
    BY <1>3, <2>1 DEF CollectedInv, WrittenInv, PostInv, Running, GrafanaSteps, GitlabSteps
<1>7. ASSUME NEW i \in DOMAIN Components PROVE Progress(i)'
  <2>1. Progress(i)
    BY DEF IInv
  <2>2. i < comp => Complete(i)' /\ Current(i)'
    <3>1. SUFFICES ASSUME i < comp PROVE Complete(i)' /\ Current(i)'
      OBVIOUS
    <3>2. Complete(i) /\ Current(i) /\ i # comp
      BY <1>2, <2>1, <3>1 DEF Progress
    <3> QED
      BY <1>1, <3>2 DEF Complete, Current
  <2>3. i > comp => Wiped(i)'
    <3>1. SUFFICES ASSUME i > comp PROVE Wiped(i)'
      OBVIOUS
    <3>2. Wiped(i) /\ i # comp
      BY <1>2, <2>1, <3>1 DEF Progress
    <3> QED
      BY <1>1, <3>2 DEF Wiped
  <2>4. Components[i].group \notin aggregates'
    BY <1>1, <2>1 DEF Progress
  <2>5. CASE pc' = "fetch" /\ comp' = comp + 1
    <3>1. i < comp' => i < comp \/ i = comp
      BY <1>2, <2>5
    <3>2. i > comp' \/ i = comp' => i > comp
      BY <1>2, <2>5
    <3> QED
      BY <2>2, <2>3, <2>4, <2>5, <3>1, <3>2 DEF Progress, Wiped
  <2>6. CASE pc' = "aggregate" /\ comp = Len(Components)
    <3>1. i < comp \/ i = comp
      BY <1>2, <2>6
    <3>2. ~Running'
      BY <2>6 DEF Running, GrafanaSteps, GitlabSteps
    <3> QED
      BY <2>2, <2>6, <3>1, <3>2 DEF Progress
  <2> QED
    BY <1>3, <2>5, <2>6
<1> QED
  BY <1>4, <1>5, <1>6, <1>7

\* write_component writes exactly what was collected.
LEMMA WriteFilesStep ==
  ASSUME IInv, WriteFiles, UNCHANGED releaseVars
  PROVE  IInv'
<1> DEFINE kept == DOMAIN collected \ (IF This.post = "grafana" THEN Generated ELSE {})
           names == {Filename(o) : o \in kept}
           texts == [f \in names |-> collected[CHOOSE o \in kept : Filename(o) = f]]
<1>1. /\ pc = "fetch" /\ pc' = "index" /\ query > Len(This.queries)
      /\ collected' = [o \in kept |-> collected[o]]
      /\ files' = [files EXCEPT ![This.path] = Over(texts, @)]
      /\ UNCHANGED <<cluster, index, generator, aggregates, comp, query, runs, steady, removal>>
  BY DEF WriteFiles
<1>2. /\ comp \in DOMAIN Components /\ query \in Nat \ {0} /\ Running /\ Running'
      /\ This.path = Path(comp) /\ Path(comp) \in Paths /\ DOMAIN files = Paths
      /\ This' = This /\ comp' = comp /\ live' = live /\ steady' = steady
  BY <1>1, Placed DEF IInv, TypeInv, Running, This, Path, cluster
<1>3. /\ kept \subseteq Resources(comp) /\ DOMAIN collected' = kept
      /\ \A o \in kept : collected'[o] = collected[o]
  BY <1>1, <1>2 DEF IInv, CollectedInv
<1>4. \A o \in kept : Filename(o) \in names /\ texts[Filename(o)] = collected[o]
  <2> TAKE o \in kept
  <2>1. Filename(o) \in names
    OBVIOUS
  <2>2. (CHOOSE p \in kept : Filename(p) = Filename(o)) = o
    BY <1>2, <1>3, OneFile
  <2> QED
    BY <2>1, <2>2
<1>5. DOMAIN files[This.path] = {}
  BY <1>1, <1>2 DEF IInv, Progress, Wiped, Path
<1>6. DOMAIN texts = names
  OBVIOUS
<1> HIDE DEF texts
<1>7. files'[This.path] = Over(texts, files[This.path])
  BY <1>1, <1>2
<1>8. DOMAIN files'[This.path] = names /\ \A f \in names : files'[This.path][f] = texts[f]
  BY <1>5, <1>6, <1>7 DEF Over
<1>9. /\ TypeInv' /\ Fresh' /\ CarriedInv' /\ Renderable' /\ AggregatesWhole'
      /\ \A i \in DOMAIN Components : Progress(i)'
  <2>1. DOMAIN files' = Paths
    BY <1>1, <1>2
  <2>2. \A i \in DOMAIN Components : i # comp => files'[Path(i)] = files[Path(i)]
    BY <1>1, <1>2, PathsDiffer, Placed
  <2>3. pc' \in {"failed", "index"} \cup GrafanaSteps \cup GitlabSteps
    BY <1>1
  <2> QED
    BY <1>1, <1>2, <1>5, <2>1, <2>2, <2>3, FilesStep
<1>10. CollectedInv'
  <2>1. \A o \in kept : /\ collected'[o] \in Manifest
                        /\ o \in steady => live[o] # None /\ collected'[o] = Strip(o, live[o])
    BY <1>2, <1>3 DEF IInv, CollectedInv
  <2>2. ASSUME NEW o \in (Resources(comp) \cap steady) \ Generated, live[o] # None
        PROVE  o \in kept
    <3>1. PICK j \in DOMAIN This.queries : o \in This.queries[j]
      BY <1>2 DEF Resources, This
    <3>2. j < query
      BY <1>1, <1>2, <3>1, Queries DEF This
    <3>3. o \in DOMAIN collected
      BY <1>1, <1>2, <2>2, <3>1, <3>2 DEF IInv, CollectedInv
    <3> QED
      BY <3>3
  <2>3. This.post = "grafana" => kept \cap Generated = {}
    OBVIOUS
  <2> HIDE DEF kept
  <2> QED
    BY <1>1, <1>2, <1>3, <2>1, <2>2, <2>3 DEF CollectedInv
<1>11. WrittenInv'
  <2>1. ASSUME NEW o \in Resources(comp)
        PROVE  Filename(o) \in DOMAIN files'[This.path] <=> o \in kept
    BY <1>2, <1>3, <1>4, <1>8, OneFile
  <2>2. ASSUME NEW o \in kept
        PROVE  /\ files'[This.path][Filename(o)] = collected'[o]
               /\ collected'[o] \in Manifest
    BY <1>2, <1>3, <1>4, <1>8 DEF IInv, CollectedInv
  <2> HIDE DEF kept, names
  <2> QED
    BY <1>1, <1>2, <1>3, <2>1, <2>2 DEF WrittenInv
<1>12. PostInv'
  BY <1>1 DEF PostInv, GrafanaSteps, GitlabSteps
<1>13. MainInv'
  BY MainUnchanged DEF IInv
<1> QED
  BY <1>9, <1>10, <1>11, <1>12, <1>13 DEF IInv

\* An object of the component that is steady and not generated is shown by its
\* file, or has none.
LEMMA FileIsCurrent ==
  ASSUME IInv, Running, pc # "fetch", NEW o \in (Resources(comp) \cap steady) \ Generated
  PROVE  /\ live[o] = None => Filename(o) \notin DOMAIN files[This.path]
         /\ live[o] # None => o \in DOMAIN collected /\ Faithful(o, files[This.path][Filename(o)], live[o])
<1>1. ASSUME o \in DOMAIN collected PROVE live[o] # None
  BY <1>1 DEF IInv, CollectedInv
<1>2. Filename(o) \in DOMAIN files[This.path] <=> o \in DOMAIN collected
  BY DEF IInv, WrittenInv
<1>3. ASSUME live[o] # None
      PROVE  o \in DOMAIN collected /\ Faithful(o, files[This.path][Filename(o)], live[o])
  <2>1. o \in DOMAIN collected
    BY <1>3 DEF IInv, CollectedInv
  <2>2. collected[o] = Strip(o, live[o])
    BY <2>1 DEF IInv, CollectedInv
  <2>3. live[o] \in Manifest
    BY <1>3 DEF IInv, TypeInv
  <2>4. Faithful(o, collected[o], live[o])
    BY <2>2, <2>3, Stripped
  <2>5. LET file == files[This.path][Filename(o)] IN
          /\ file.tag = collected[o].tag /\ file.runtime = collected[o].runtime
          /\ file.template = collected[o].template /\ file.claims = collected[o].claims
    BY <2>1 DEF IInv, WrittenInv
  <2> QED
    BY <2>1, <2>4, <2>5 DEF Faithful
<1> QED
  BY <1>1, <1>2, <1>3

\* write_component names exactly what it wrote.
LEMMA WriteIndexStep ==
  ASSUME IInv, WriteIndex, UNCHANGED releaseVars
  PROVE  IInv'
<1> DEFINE names == {Filename(o) : o \in DOMAIN collected}
<1>1. /\ pc = "index" /\ index' = [index EXCEPT ![This.path] = names]
      /\ UNCHANGED <<cluster, files, generator, aggregates, runs, steady, removal>>
      /\ live' = live /\ files' = files /\ generator' = generator /\ aggregates' = aggregates
      /\ steady' = steady /\ torn' = torn
  BY DEF WriteIndex, cluster, removal
<1>2. /\ comp \in DOMAIN Components /\ Running /\ pc # "fetch" /\ This.path = Path(comp)
      /\ Path(comp) \in Paths /\ DOMAIN index = Paths /\ DOMAIN generator = Paths
  BY <1>1, Placed DEF IInv, TypeInv, Running, This, Path
<1>3. /\ DOMAIN index' = Paths /\ index'[Path(comp)] = names
      /\ \A p \in Paths : p # Path(comp) => index'[p] = index[p]
  BY <1>1, <1>2
<1>4. \A i \in DOMAIN Components : i # comp => index'[Path(i)] = index[Path(i)]
  BY <1>2, <1>3, PathsDiffer, Placed
<1>5. generator[Path(comp)] = None
  BY <1>2 DEF IInv, Progress
<1>6. names # None
  <2>1. DOMAIN collected \subseteq Objects
    BY <1>2, Placed DEF IInv, CollectedInv
  <2>2. names \in SUBSET ({Filename(o) : o \in Objects} \cup {Job})
    BY <2>1
  <2> QED
    BY <2>2, AbsenceAssumption
<1>7. names \subseteq DOMAIN files[Path(comp)]
  BY <1>2 DEF IInv, WrittenInv, CollectedInv
<1>8. MainInv' /\ CarriedInv'
  BY <1>1, MainUnchanged, TornSame DEF IInv, CarriedInv
<1>9. Renderable'
  BY <1>1, <1>2, <1>3, <1>5, <1>7, TornSame DEF IInv, Renderable
<1> HIDE DEF names
<1>10. CASE This.post = ""
  <2>1. NextComponent
    BY <1>10 DEF WriteIndex
  <2>2. PICK d \in DOMAIN Components : d = comp
    BY <1>2
  <2>3. Complete(d)'
    BY <1>3, <1>6, <1>10, <2>2 DEF Complete, This
  <2>4. Current(d)'
    <3>1. ASSUME NEW o \in (Resources(d) \cap steady) \ Generated
          PROVE  IF live[o] = None THEN Filename(o) \notin DOMAIN files[Path(d)]
                 ELSE Filename(o) \in index'[Path(d)] /\ Faithful(o, files[Path(d)][Filename(o)], live[o])
      BY <1>2, <1>3, <2>2, FileIsCurrent DEF names
    <3> QED
      BY <1>1, <3>1 DEF Current
  <2>5. /\ TypeInv' /\ Fresh' /\ CollectedInv' /\ WrittenInv' /\ PostInv' /\ AggregatesWhole'
        /\ \A i \in DOMAIN Components : Progress(i)'
    BY <1>1, <1>2, <1>3, <1>4, <2>1, <2>2, <2>3, <2>4, Advance
  <2> QED
    BY <1>8, <1>9, <2>5 DEF IInv
<1>11. CASE This.post # ""
  <2>1. pc' = This.post /\ comp' = comp /\ query' = query /\ collected' = collected
    BY <1>11 DEF WriteIndex
  <2>2. This.post \in {"grafana", "gitlab"} /\ This' = This
    BY <1>2, <1>11, <2>1, PostPath DEF This
  <2>3. Running' /\ pc' \notin {"index", "fetch"}
    BY <2>1, <2>2 DEF Running, GrafanaSteps, GitlabSteps
  <2>4. TypeInv' /\ Fresh'
    BY <1>1, <1>3, <2>1, <2>2 DEF IInv, TypeInv, Fresh, GrafanaSteps, GitlabSteps
  <2>5. ASSUME NEW i \in DOMAIN Components PROVE Progress(i)'
    <3>1. Progress(i)
      BY DEF IInv
    <3>2. i # comp => /\ (Wiped(i) => Wiped(i)') /\ (Complete(i) => Complete(i)')
                      /\ (Current(i) => Current(i)')
      BY <1>1, <1>4 DEF Wiped, Complete, Current
    <3>3. ~(comp > comp) /\ ~(comp < comp)
      BY <1>2, Numbered
    <3> QED
      BY <1>1, <1>2, <1>5, <2>1, <2>2, <2>3, <3>1, <3>2, <3>3 DEF Progress
  <2>6. CollectedInv'
    BY <1>1, <1>2, <2>1, <2>2, <2>3 DEF IInv, CollectedInv
  <2>7. WrittenInv'
    BY <1>1, <1>2, <1>3, <2>1, <2>2, <2>3 DEF IInv, WrittenInv, names
  <2>8. PostInv'
    BY <2>1, <2>2 DEF PostInv, GrafanaSteps, GitlabSteps
  <2>9. AggregatesWhole'
    BY <1>1, <1>2 DEF IInv, Progress, AggregatesWhole
  <2> QED
    BY <1>8, <1>9, <2>4, <2>5, <2>6, <2>7, <2>8, <2>9 DEF IInv
<1> QED
  BY <1>10, <1>11

-----------------------------------------------------------------------------
(* The postprocessing.                                                       *)

\* A postprocessing step that keeps the files of the collected objects, but for
\* the mount, and adds none that could be taken for one of them.
LEMMA PostStep ==
  ASSUME IInv, Running, pc \notin {"fetch", "index"}, UNCHANGED releaseVars,
         UNCHANGED <<cluster, index, generator, aggregates, comp, query, collected, runs, steady, removal>>,
         DOMAIN files' = Paths,
         \A p \in Paths : p # This.path => files'[p] = files[p],
         DOMAIN files[This.path] \subseteq DOMAIN files'[This.path],
         \A o \in Resources(comp) : Filename(o) \in DOMAIN files'[This.path]
                                    => Filename(o) \in DOMAIN files[This.path],
         \A o \in DOMAIN collected : LET file == files'[This.path][Filename(o)]
                                         old == files[This.path][Filename(o)] IN
            /\ file \in Manifest /\ file.tag = old.tag /\ file.runtime = old.runtime
            /\ file.template = old.template /\ file.claims = old.claims,
         pc' \in {"failed"} \cup GrafanaSteps \cup GitlabSteps, PostInv'
  PROVE  IInv'
<1>1. /\ live' = live /\ index' = index /\ comp' = comp /\ steady' = steady
      /\ collected' = collected /\ This' = This
  BY DEF cluster, This
<1>2. comp \in DOMAIN Components /\ This.path = Path(comp)
  BY DEF IInv, TypeInv, This, Path
<1>3. \A i \in DOMAIN Components : i # comp => files'[Path(i)] = files[Path(i)]
  BY <1>2, PathsDiffer, Placed
<1>4. /\ TypeInv' /\ Fresh' /\ CarriedInv' /\ Renderable' /\ AggregatesWhole'
      /\ \A i \in DOMAIN Components : Progress(i)'
  BY <1>3, FilesStep
<1>5. CASE pc' = "failed"
  <2>1. MainInv'
    BY MainUnchanged DEF IInv
  <2> QED
    BY <1>4, <1>5, <2>1, IdleStep
<1>6. CASE pc' # "failed"
  <2>1. pc' \in GrafanaSteps \cup GitlabSteps /\ pc' \notin {"fetch", "index"} /\ Running'
    BY <1>6 DEF Running, GrafanaSteps, GitlabSteps
  <2>2. CollectedInv'
    BY <1>1, <2>1 DEF IInv, CollectedInv
  <2>3. WrittenInv'
    <3>1. ASSUME NEW o \in Resources(comp)
          PROVE  Filename(o) \in DOMAIN files'[This.path] <=> o \in DOMAIN collected
      BY <3>1 DEF IInv, WrittenInv
    <3>2. ASSUME NEW o \in DOMAIN collected
          PROVE  LET file == files'[This.path][Filename(o)] IN
                 /\ file \in Manifest /\ file.tag = collected[o].tag /\ file.runtime = collected[o].runtime
                 /\ file.template = collected[o].template /\ file.claims = collected[o].claims
      BY <3>2 DEF IInv, WrittenInv
    <3>3. index[This.path] = {Filename(o) : o \in DOMAIN collected}
      BY DEF IInv, WrittenInv
    <3> QED
      BY <1>1, <3>1, <3>2, <3>3 DEF WrittenInv
  <2>4. MainInv'
    BY MainUnchanged DEF IInv
  <2> QED
    BY <1>4, <2>2, <2>3, <2>4 DEF IInv
<1> QED
  BY <1>5, <1>6

\* Adding a file of which only the name matters.
LEMMA PlainStep ==
  ASSUME IInv, Running, pc \notin {"fetch", "index"}, UNCHANGED releaseVars,
         UNCHANGED <<cluster, index, generator, aggregates, comp, query, collected, runs, steady, removal>>,
         NEW name, \A o \in Resources(comp) : Filename(o) # name,
         \/ files' = [files EXCEPT ![This.path] = Over(@, Plain(name))]
         \/ files' = [files EXCEPT ![This.path] = Over(Plain(name), @)],
         pc' \in {"failed"} \cup GrafanaSteps \cup GitlabSteps, PostInv'
  PROVE  IInv'
<1>1. /\ comp \in DOMAIN Components /\ This.path = Path(comp) /\ This.path \in Paths
      /\ DOMAIN files = Paths /\ DOMAIN collected \subseteq Resources(comp)
  BY Placed DEF IInv, TypeInv, CollectedInv, This, Path
<1>2. /\ DOMAIN files' = Paths /\ \A p \in Paths : p # This.path => files'[p] = files[p]
      /\ files'[This.path] \in {Over(files[This.path], Plain(name)), Over(Plain(name), files[This.path])}
  BY <1>1
<1>3. /\ DOMAIN files'[This.path] = DOMAIN files[This.path] \cup {name}
      /\ \A f \in DOMAIN files[This.path] : f # name => files'[This.path][f] = files[This.path][f]
  BY <1>2 DEF Over, Plain
<1>4. ASSUME NEW o \in DOMAIN collected
      PROVE  /\ files'[This.path][Filename(o)] = files[This.path][Filename(o)]
             /\ files[This.path][Filename(o)] \in Manifest
  BY <1>1, <1>3 DEF IInv, WrittenInv
<1>5. ASSUME NEW o \in Resources(comp), Filename(o) \in DOMAIN files'[This.path]
      PROVE  Filename(o) \in DOMAIN files[This.path]
  BY <1>3, <1>5
<1> QED
  BY <1>2, <1>3, <1>4, <1>5, PostStep

\* write_grafana_files: the static files.
LEMMA GrafanaFilesStep ==
  ASSUME IInv, GrafanaFiles, UNCHANGED releaseVars
  PROVE  IInv'
<1>1. /\ pc = "grafana" /\ pc' = "rules" /\ Running /\ This.post = "grafana"
      /\ comp \in DOMAIN Components /\ DOMAIN files = Paths
  BY DEF IInv, TypeInv, PostInv, GrafanaFiles, Running, GrafanaSteps
<1>2. This.path = "grafana" /\ This.path \in Paths
  BY <1>1, PostPath, Placed DEF This, Path
<1>3. files' = [files EXCEPT ![This.path] = Over(@, Plain(<<"static">>))]
  BY <1>2 DEF GrafanaFiles
<1>4. <<"static">> \in DOMAIN files'["grafana"]
  <2>1. files'["grafana"] = Over(files["grafana"], Plain(<<"static">>))
    BY <1>1, <1>2, <1>3
  <2> QED
    BY <2>1 DEF Over, Plain
<1>5. PostInv'
  BY <1>1, <1>4 DEF PostInv, GrafanaSteps, GitlabSteps, GrafanaFiles, This
<1> QED
  BY <1>1, <1>3, <1>5, NamesDiffer, PlainStep DEF GrafanaFiles, GrafanaSteps

\* write_grafana_files: the rules.
LEMMA GrafanaRulesStep ==
  ASSUME IInv, GrafanaRules, UNCHANGED releaseVars
  PROVE  IInv'
<1>1. /\ pc = "rules" /\ pc' \in {"volumes", "failed"} /\ Running /\ This.post = "grafana"
      /\ comp \in DOMAIN Components /\ DOMAIN files = Paths
      /\ <<"static">> \in DOMAIN files["grafana"]
      /\ pc' = "volumes" => Filename(Grafana) \in DOMAIN files["grafana"]
  BY DEF IInv, TypeInv, PostInv, GrafanaRules, Running, GrafanaSteps, Fail
<1>2. This.path = "grafana" /\ This.path \in Paths
  BY <1>1, PostPath, Placed DEF This, Path
<1>3. files' = [files EXCEPT ![This.path] = Over(@, Plain(<<"rules">>))]
  BY <1>2 DEF GrafanaRules
<1>4. DOMAIN files'["grafana"] = DOMAIN files["grafana"] \cup {<<"rules">>}
  <2>1. files'["grafana"] = Over(files["grafana"], Plain(<<"rules">>))
    BY <1>1, <1>2, <1>3
  <2> QED
    BY <2>1 DEF Over, Plain
<1>5. PostInv'
  BY <1>1, <1>4 DEF PostInv, GrafanaSteps, GitlabSteps, GrafanaRules, This
<1>6. pc' \in {"failed"} \cup GrafanaSteps \cup GitlabSteps
  BY <1>1 DEF GrafanaSteps
<1> QED
  BY <1>1, <1>3, <1>5, <1>6, NamesDiffer, PlainStep DEF GrafanaRules

\* write_grafana_files: the Deployment mounts the plain names.
LEMMA GrafanaVolumesStep ==
  ASSUME IInv, GrafanaVolumes, UNCHANGED releaseVars
  PROVE  IInv'
<1> DEFINE name == Filename(Grafana)
           folder == files["grafana"]
<1>1. /\ pc = "volumes" /\ pc' = "generators" /\ Running /\ This.post = "grafana"
      /\ comp \in DOMAIN Components /\ DOMAIN files = Paths /\ comp' = comp
      /\ <<"static">> \in DOMAIN folder /\ <<"rules">> \in DOMAIN folder /\ name \in DOMAIN folder
      /\ files' = [files EXCEPT !["grafana"][Filename(Grafana)].mount = "plain"]
      /\ UNCHANGED <<cluster, index, generator, aggregates, comp, query, collected, runs, steady, removal>>
  BY DEF IInv, TypeInv, PostInv, GrafanaVolumes, Running, GrafanaSteps
<1>2. This.path = "grafana" /\ This.path \in Paths /\ Grafana \in Resources(comp)
  BY <1>1, PostPath, Placed DEF This, Path
<1>3. folder[name] \in Manifest
  BY <1>1, <1>2 DEF IInv, WrittenInv
<1>4. /\ DOMAIN files' = Paths /\ \A p \in Paths : p # This.path => files'[p] = files[p]
      /\ files'["grafana"] = [folder EXCEPT ![name] = [folder[name] EXCEPT !.mount = "plain"]]
  BY <1>1, <1>2
<1>5. /\ DOMAIN files'["grafana"] = DOMAIN folder
      /\ files'["grafana"][name] = [folder[name] EXCEPT !.mount = "plain"]
      /\ \A f \in DOMAIN folder : f # name => files'["grafana"][f] = folder[f]
  BY <1>1, <1>4
<1>6. LET file == files'["grafana"][name] IN
        /\ file \in Manifest /\ file.tag = folder[name].tag /\ file.runtime = folder[name].runtime
        /\ file.template = folder[name].template /\ file.claims = folder[name].claims
        /\ file.mount = "plain"
  BY <1>3, <1>5 DEF Manifest
<1>7. ASSUME NEW o \in DOMAIN collected
      PROVE  LET file == files'["grafana"][Filename(o)]
                 old == folder[Filename(o)] IN
             /\ file \in Manifest /\ file.tag = old.tag /\ file.runtime = old.runtime
             /\ file.template = old.template /\ file.claims = old.claims
  <2>1. folder[Filename(o)] \in Manifest /\ Filename(o) \in DOMAIN folder
    BY <1>1, <1>2 DEF IInv, WrittenInv, CollectedInv
  <2>2. CASE Filename(o) = name
    BY <1>6, <2>2
  <2>3. CASE Filename(o) # name
    BY <1>5, <2>1, <2>3
  <2> QED
    BY <2>2, <2>3
<1>8. PostInv'
  BY <1>1, <1>5, <1>6 DEF PostInv, GrafanaSteps, GitlabSteps, This
<1>9. pc' \in {"failed"} \cup GrafanaSteps \cup GitlabSteps
  BY <1>1 DEF GrafanaSteps
<1> QED
  BY <1>1, <1>2, <1>4, <1>5, <1>7, <1>8, <1>9, PostStep

\* A step that completes the component: its generator is set, and names may be
\* added to its index.
LEMMA IndexStep ==
  ASSUME IInv, Running, pc \notin {"fetch", "index"}, NextComponent, UNCHANGED releaseVars,
         UNCHANGED <<cluster, files, aggregates, runs, steady, removal>>,
         DOMAIN index' = Paths, DOMAIN generator' = Paths,
         \A p \in Paths : p # This.path => index'[p] = index[p] /\ generator'[p] = generator[p],
         index[This.path] \subseteq index'[This.path],
         index'[This.path] # None, generator'[This.path] # None,
         CarriedInv', Renderable'
  PROVE  IInv'
<1>1. live' = live /\ files' = files /\ steady' = steady
  BY DEF cluster
<1>2. comp \in DOMAIN Components /\ This.path = Path(comp)
  BY DEF IInv, TypeInv, This, Path
<1>3. \A i \in DOMAIN Components : i # comp =>
         index'[Path(i)] = index[Path(i)] /\ generator'[Path(i)] = generator[Path(i)]
  BY <1>2, PathsDiffer, Placed
<1>4. PICK c \in DOMAIN Components : c = comp
  BY <1>2
<1>5. Complete(c)'
  BY <1>2, <1>4 DEF Complete
<1>6. index[This.path] = {Filename(o) : o \in DOMAIN collected}
  BY DEF IInv, WrittenInv
<1>7. Current(c)'
  <2>1. ASSUME NEW o \in (Resources(c) \cap steady) \ Generated
        PROVE  IF live[o] = None THEN Filename(o) \notin DOMAIN files[Path(c)]
               ELSE Filename(o) \in index'[Path(c)] /\ Faithful(o, files[Path(c)][Filename(o)], live[o])
    BY <1>2, <1>4, <1>6, FileIsCurrent
  <2> QED
    BY <1>1, <2>1 DEF Current
<1>8. /\ TypeInv' /\ Fresh' /\ CollectedInv' /\ WrittenInv' /\ PostInv' /\ AggregatesWhole'
      /\ \A i \in DOMAIN Components : Progress(i)'
  BY <1>3, <1>4, <1>5, <1>7, Advance
<1>9. MainInv'
  BY MainUnchanged DEF IInv
<1> QED
  BY <1>8, <1>9 DEF IInv

\* write_grafana_files: the generators come after all they name.
LEMMA GrafanaIndexStep ==
  ASSUME IInv, GrafanaIndex, UNCHANGED releaseVars
  PROVE  IInv'
<1>1. /\ pc = "generators" /\ Running /\ This.post = "grafana" /\ comp \in DOMAIN Components
      /\ DOMAIN index = Paths /\ DOMAIN generator = Paths
      /\ <<"static">> \in DOMAIN files["grafana"] /\ <<"rules">> \in DOMAIN files["grafana"]
      /\ files["grafana"][Filename(Grafana)].mount = "plain"
      /\ UNCHANGED <<cluster, files, index, aggregates, runs, steady, removal>>
      /\ files' = files /\ index' = index /\ torn' = torn
  BY DEF IInv, TypeInv, PostInv, GrafanaIndex, Running, GrafanaSteps, removal
<1>2. /\ This.path = "grafana" /\ "grafana" \in Paths /\ Generated \subseteq Resources(comp)
  BY <1>1, PostPath, Placed DEF This, Path
<1>3. /\ DOMAIN generator' = Paths /\ generator'["grafana"] = {<<"static">>, <<"rules">>}
      /\ \A p \in Paths : p # "grafana" => generator'[p] = generator[p]
  BY <1>1, <1>2 DEF GrafanaIndex
<1>4. index["grafana"] = {Filename(o) : o \in DOMAIN collected}
  BY <1>1, <1>2 DEF IInv, WrittenInv
<1>5. DOMAIN collected \subseteq Resources(comp) /\ DOMAIN collected \cap Generated = {}
  BY <1>1 DEF IInv, CollectedInv
<1>6. \A o \in Generated : Filename(o) \notin index["grafana"]
  BY <1>1, <1>2, <1>4, <1>5, OneFile
<1>7. index["grafana"] # None
  <2>1. index["grafana"] \in SUBSET ({Filename(o) : o \in Objects} \cup {Job})
    BY <1>1, <1>4, <1>5, Placed
  <2> QED
    BY <2>1, AbsenceAssumption
<1>8. CarriedInv'
  BY <1>1, <1>3, ComponentsAssumption, TornSame DEF IInv, CarriedInv
<1>9. Renderable'
  BY <1>1, <1>3, <1>6, TornSame DEF IInv, Renderable
<1>10. NextComponent /\ generator'["grafana"] # None
  BY <1>3, AbsenceAssumption DEF GrafanaIndex
<1> QED
  BY <1>1, <1>2, <1>3, <1>7, <1>8, <1>9, <1>10, IndexStep

\* write_gitlab_files refuses images of two versions and writes the Job.
LEMMA GitlabJobStep ==
  ASSUME IInv, GitlabJob, UNCHANGED releaseVars
  PROVE  IInv'
<1>1. /\ pc = "gitlab" /\ pc' \in {"release", "failed"} /\ Running /\ This.post = "gitlab"
      /\ comp \in DOMAIN Components /\ DOMAIN files = Paths
      /\ UNCHANGED <<cluster, index, generator, aggregates, comp, query, collected, runs, steady, removal>>
      /\ comp' = comp /\ collected' = collected /\ torn' = torn
  BY DEF IInv, TypeInv, PostInv, GitlabJob, Running, GitlabSteps, Fail, removal
<1>2. This.path = "gitlab" /\ This.path \in Paths /\ \A o \in Resources(comp) : Filename(o) # Job
  BY <1>1, PostPath, Placed DEF This, Path
<1>3. CASE pc' = "release"
  <2>1. /\ files' = [files EXCEPT ![This.path] = Over(Plain(Job), @)]
        /\ CngImages \subseteq DOMAIN collected /\ \E v \in Tags : CngVersions = {v}
    BY <1>2, <1>3 DEF GitlabJob, Fail
  <2>2. Job \in DOMAIN files'["gitlab"]
    <3>1. files'["gitlab"] = Over(Plain(Job), files["gitlab"])
      BY <1>1, <1>2, <2>1
    <3> QED
      BY <3>1 DEF Over, Plain
  <2>3. CngVersions' = CngVersions
    BY <1>1 DEF CngVersions
  <2>4. PostInv'
    BY <1>1, <1>3, <2>1, <2>2, <2>3 DEF PostInv, GrafanaSteps, GitlabSteps, This
  <2>5. pc' \in {"failed"} \cup GrafanaSteps \cup GitlabSteps
    BY <1>3 DEF GitlabSteps
  <2> QED
    BY <1>1, <1>2, <2>1, <2>4, <2>5, PlainStep
<1>4. CASE pc' = "failed"
  <2>1. files' = files
    BY <1>4 DEF GitlabJob
  <2>2. MainInv' /\ CarriedInv' /\ Renderable' /\ AggregatesWhole'
    BY <1>1, <2>1, MainUnchanged, TreeUnchanged DEF IInv, tree
  <2>3. TypeInv' /\ Fresh'
    BY <1>1, <1>4, <2>1 DEF IInv, TypeInv, Fresh, cluster
  <2> QED
    BY <1>4, <2>2, <2>3, IdleStep
<1> QED
  BY <1>1, <1>3, <1>4

\* write_gitlab_files: the release comes after all it names.
LEMMA GitlabIndexStep ==
  ASSUME IInv, GitlabIndex, UNCHANGED releaseVars
  PROVE  IInv'
<1>1. /\ pc = "release" /\ Running /\ This.post = "gitlab" /\ comp \in DOMAIN Components
      /\ DOMAIN index = Paths /\ DOMAIN generator = Paths
      /\ Job \in DOMAIN files["gitlab"] /\ CngImages \subseteq DOMAIN collected
      /\ UNCHANGED <<cluster, files, aggregates, runs, steady, removal>> /\ files' = files
      /\ torn' = torn
  BY DEF IInv, TypeInv, PostInv, GitlabIndex, Running, GitlabSteps, removal
<1>2. This.path = "gitlab" /\ "gitlab" \in Paths
  BY <1>1, PostPath, Placed DEF This, Path
<1>3. /\ DOMAIN generator' = Paths /\ generator'["gitlab"] = CngVersions
      /\ DOMAIN index' = Paths /\ index'["gitlab"] = index["gitlab"] \cup {Job}
      /\ \A p \in Paths : p # "gitlab" => generator'[p] = generator[p] /\ index'[p] = index[p]
  BY <1>1, <1>2 DEF GitlabIndex
<1>4. PICK v \in Tags : CngVersions = {v}
  BY <1>1 DEF IInv, PostInv
<1>5. index["gitlab"] = {Filename(o) : o \in DOMAIN collected}
  BY <1>1, <1>2 DEF IInv, WrittenInv
<1>6. index["gitlab"] \subseteq DOMAIN files["gitlab"]
  BY <1>1, <1>2, <1>5 DEF IInv, WrittenInv, CollectedInv
<1>7. index'["gitlab"] # None
  <2>1. index'["gitlab"] \in SUBSET ({Filename(o) : o \in Objects} \cup {Job})
    BY <1>1, <1>3, <1>5, Placed DEF IInv, CollectedInv
  <2> QED
    BY <2>1, AbsenceAssumption
<1>8. generator'["gitlab"] # None
  <2>1. {v} \in SUBSET Tags
    OBVIOUS
  <2> QED
    BY <1>3, <1>4, <2>1, AbsenceAssumption
<1>9. CarriedInv'
  <2>1. ASSUME NEW o \in CngImages
        PROVE  files["gitlab"][Filename(o)].tag = v
    <3>1. collected[o].tag = v
      BY <1>1, <1>4 DEF CngVersions
    <3> QED
      BY <1>1, <1>2, <3>1 DEF IInv, WrittenInv
  <2> QED
    BY <1>1, <1>3, <1>4, <2>1 DEF CarriedInv
<1>10. Renderable'
  BY <1>1, <1>3, <1>6, TornSame DEF IInv, Renderable
<1>11. NextComponent
  BY DEF GitlabIndex
<1> QED
  BY <1>1, <1>2, <1>3, <1>7, <1>8, <1>9, <1>10, <1>11, IndexStep

-----------------------------------------------------------------------------
(* The main branch, and the next-state relation.                             *)

\* Merging a release that obeys the version rule.
LEMMA ReleaseSet ==
  ASSUME MainInv, NEW r \in [Keys -> Versions], DriftAllowed(r["appVersion"], r["migrationVersion"]),
         main' = [main EXCEPT !.release = r]
  PROVE  MainInv'
<1>1. main' = [release |-> r, jobs |-> main.jobs]
  BY DEF MainInv
<1> QED
  BY <1>1 DEF MainInv

\* The check lets nothing else in.
LEMMA MergeStep ==
  ASSUME IInv, MergeRelease \/ MergeJobs, UNCHANGED exportVars
  PROVE  IInv'
<1>1. CASE MergeRelease
  <2>1. PICK r \in MergeableReleases : main' = [main EXCEPT !.release = r]
    BY <1>1 DEF MergeRelease
  <2>2. MainInv'
    BY <2>1, MergeableIsAhead, ReleaseSet DEF IInv
  <2> QED
    BY <2>2, ExportUnchanged
<1>2. CASE MergeJobs
  <2>1. PICK j : main' = [main EXCEPT !.jobs = j]
    BY <1>2 DEF MergeJobs
  <2>2. main' = [release |-> main.release, jobs |-> j]
    BY <2>1 DEF IInv, MainInv
  <2>3. MainInv'
    BY <2>2 DEF IInv, MainInv
  <2> QED
    BY <2>3, ExportUnchanged
<1> QED
  BY <1>1, <1>2

\* The migration check accepts a run's release if it is one, and what is merged
\* then has equal versions.
LEMMA MergeExportStep ==
  ASSUME IInv, MergeExport
  PROVE  IInv'
<1>1. generator["gitlab"] # None
  <2>1. PICK i \in DOMAIN Components : Path(i) = "gitlab"
    BY ComponentsAssumption, PathOf
  <2>2. Complete(i)
    BY DEF IInv, Progress, MergeExport
  <2>3. Components[i].post # ""
    BY <2>1, ComponentsAssumption DEF Path
  <2> QED
    BY <2>1, <2>2, <2>3 DEF Complete
<1>2. PICK v \in Tags : generator["gitlab"] = {v}
  BY <1>1 DEF IInv, CarriedInv
<1>3. ReleaseOf(Exported) = [key \in Keys |-> v]
  BY <1>2, ExportIsRead
<1>4. DriftAllowed(v, v)
  BY <1>3 DEF MergeExport, ReleaseAccepted, Keys
<1>5. v \in Versions
  BY <1>4, TagsAssumption DEF DriftAllowed
<1>6. MainInv'
  <2>1. main' = [main EXCEPT !.release = [key \in Keys |-> v]]
    BY <1>3 DEF MergeExport
  <2>2. [key \in Keys |-> v] \in [Keys -> Versions]
    BY <1>5
  <2> QED
    BY <1>4, <2>1, <2>2, ReleaseSet DEF IInv, Keys
<1> QED
  BY <1>6, ExportUnchanged DEF MergeExport

\* Rollouts and edits take what they change out of the steady objects.
LEMMA ClusterStep ==
  ASSUME IInv, Rollout \/ Edit
  PROVE  IInv'
<1>1. live \in [Objects -> Manifest \cup {None}] /\ main.release["appVersion"] \in Tags /\ Malformed \in Tags
  BY TagsAssumption DEF IInv, TypeInv, MainInv, Keys
<1>2. \A m \in Manifest : \A t \in Tags : [m EXCEPT !.tag = t] \in Manifest /\ [m EXCEPT !.single = FALSE] \in Manifest
  BY DEF Manifest
<1>3. CASE Rollout
  <2>1. PICK o \in CngImages : /\ live[o] # None
                               /\ Change(o, [live[o] EXCEPT !.tag = main.release["appVersion"]])
    BY <1>3 DEF Rollout
  <2>2. o \in Objects /\ live[o] \in Manifest
    BY <1>1, <2>1, ExportAssumption
  <2> QED
    BY <1>1, <1>2, <1>3, <2>1, <2>2, ChangeStep DEF Rollout
<1>4. CASE Edit
  <2>1. PICK o \in Objects :
          LET old == IF live[o] = None THEN live[Grafana] ELSE live[o] IN
          IF live[o] = None THEN old # None /\ Change(o, old)
          ELSE \/ Change(o, None)
               \/ o \in CngImages /\ \/ Change(o, [old EXCEPT !.single = FALSE])
                                     \/ Change(o, [old EXCEPT !.tag = Malformed])
    BY <1>4 DEF Edit
  <2>2. Grafana \in Objects
    BY ExportAssumption
  <2>3. \E m \in Manifest \cup {None} : Change(o, m)
    <3>1. CASE live[o] = None
      BY <1>1, <2>1, <2>2, <3>1
    <3>2. CASE live[o] # None
      <4>1. live[o] \in Manifest
        BY <1>1, <3>2
      <4>2. [live[o] EXCEPT !.single = FALSE] \in Manifest /\ [live[o] EXCEPT !.tag = Malformed] \in Manifest
        BY <1>1, <1>2, <4>1
      <4> QED
        BY <2>1, <3>2, <4>2
    <3> QED
      BY <3>1, <3>2
  <2> QED
    BY <1>4, <2>3, ChangeStep DEF Edit
<1> QED
  BY <1>3, <1>4

\* Every step preserves the invariant.
LEMMA NextStep ==
  ASSUME IInv, [Next]_vars
  PROVE  IInv'
<1>1. CASE (MergeRelease \/ MergeJobs) /\ UNCHANGED exportVars
  BY <1>1, MergeStep
<1>2. CASE ExportNext /\ UNCHANGED releaseVars
  BY <1>2, StartStep, CleanStep, FetchStep, WriteFilesStep, WriteIndexStep,
     GrafanaFilesStep, GrafanaRulesStep, GrafanaVolumesStep, GrafanaIndexStep,
     GitlabJobStep, GitlabIndexStep, AggregateStep, InterruptStep DEF ExportNext
<1>3. CASE Rollout \/ Edit
  BY <1>3, ClusterStep
<1>4. CASE MergeExport
  BY <1>4, MergeExportStep
<1>5. CASE UNCHANGED vars
  BY <1>5, MainUnchanged, ExportUnchanged DEF vars, IInv
<1> QED
  BY <1>1, <1>2, <1>3, <1>4, <1>5 DEF Next

-----------------------------------------------------------------------------
\* The inductive invariant holds in every behaviour.
THEOREM Invariance == Spec => []IInv
BY InitIsSound, NextStep, PTL DEF Spec

\* Neither a change of apps/gitlab that the check accepts nor an export that is
\* merged puts the application ahead of its migrations, or these more than one
\* minor release ahead.
THEOREM NeverBehind == Spec => []MigrationsAhead
<1>1. IInv => MigrationsAhead
  <2> SUFFICES ASSUME IInv PROVE MigrationsAhead
    OBVIOUS
  <2> DEFINE app == main.release["appVersion"]
             migration == main.release["migrationVersion"]
  <2>1. app \in Versions /\ migration \in Versions /\ DriftAllowed(app, migration)
    BY DEF IInv, MainInv, Keys
  <2>2. app # Malformed /\ migration # Malformed
    BY <2>1 DEF DriftAllowed
  <2> HIDE DEF app, migration
  <2>3. /\ Release(migration) - Release(app) \in {0, 1}
        /\ Release(migration) = Release(app) => migration[3] >= app[3]
    BY <2>1, DriftIsAhead
  <2> QED
    BY <2>2, <2>3 DEF MigrationsAhead, app, migration
<1> QED
  BY <1>1, Invariance, PTL

\* Wherever a run stops, no kustomization.yaml names what is not there, unless it
\* lies in a root whose removal was cut short.
THEOREM AlwaysRenderable == Spec => []Renderable
<1>1. IInv => Renderable
  BY DEF IInv
<1> QED
  BY <1>1, Invariance, PTL

\* Outside a root whose removal was cut short, an aggregate stands for complete
\* components only.
THEOREM AggregatesAreWhole == Spec => []AggregatesWhole
<1>1. IInv => AggregatesWhole
  BY DEF IInv
<1> QED
  BY <1>1, Invariance, PTL

\* A successful run shows every object that did not change while it ran.
THEOREM SuccessShowsCluster == Spec => []SuccessIsCurrent
<1>1. IInv => SuccessIsCurrent
  BY DEF IInv, TypeInv, Progress, Current, Path, SuccessIsCurrent
<1> QED
  BY <1>1, Invariance, PTL

\* The recorded release is that of every GitLab manifest, and passes the check
\* if it is a release.
THEOREM ReleaseIsCarried == Spec => []ReleaseCarried
<1>1. IInv => ReleaseCarried
  <2> SUFFICES ASSUME IInv, ~Torn("gitlab"), generator["gitlab"] # None PROVE ReleaseCarried
    BY DEF ReleaseCarried
  <2>1. PICK v \in Tags : /\ generator["gitlab"] = {v}
                          /\ \A o \in CngImages : files["gitlab"][Filename(o)].tag = v
    BY DEF IInv, CarriedInv
  <2>2. ASSUME v # Malformed PROVE ReleaseAccepted(Exported)
    <3>1. DriftAllowed(v, v)
      BY <2>2, NoDrift, TagsAssumption
    <3> QED
      BY <2>1, <3>1, ExportIsRead DEF ReleaseAccepted, Keys
  <2> QED
    BY <2>1, <2>2 DEF ReleaseCarried
<1> QED
  BY <1>1, Invariance, PTL
=============================================================================
