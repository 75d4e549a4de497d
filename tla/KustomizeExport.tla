--------------------------- MODULE KustomizeExport ---------------------------
(* scripts/export_to_kustomize.py: the exporter removes the generated trees,
   then reads one component after the other from the live cluster and writes
   its manifests, its kustomization.yaml and, for Grafana and GitLab, what is
   generated; the aggregates come last.  The cluster changes between any two
   reads, and a kubectl call, a download or a write may end the run.

   An object is its resource key, a record of api, kind, ns and name.  A
   manifest keeps what the properties tell apart: the image tag, the labels
   managed-by=terraform of the metadata, the pod template and the volume claim
   templates, whether the selector of the object asks for one (selected), a
   mounted ConfigMap, and whether runtime state is in it.  A query is the set
   of objects one kubectl get may return.  A file is written in one step (a
   write that is cut leaves a kustomization.yaml that names less), but a tree is
   removed entry by entry.                                                   *)
EXTENDS Integers, Sequences

CONSTANTS
    Components,   \* sequence of [path, root, group, queries, post]
    SafeName,     \* name |-> name without "/" and ":"
    CngImages,    \* Deployments that carry the GitLab version
    Grafana,      \* the Deployment of Grafana
    Generated,    \* ConfigMaps that the Grafana kustomization generates
    Tags,         \* image tags
    Labels,       \* where the objects carry the label: [template, claims, selected]
    MaxRuns, MaxChanges,   \* bounds
    None

Paths   == {Components[i].path : i \in DOMAIN Components}
Groups  == {Components[i].group : i \in DOMAIN Components}
\* What the queries of a component may return.
Resources(i) == UNION {Components[i].queries[j] : j \in DOMAIN Components[i].queries}
Objects == UNION {Resources(i) : i \in DOMAIN Components}

\* filename_for: neither the API group nor ":" and "/" of a name are kept.
Filename(o) == <<o.kind, o.ns, SafeName[o.name]>>
Job == <<"Job", "default", "gitlab-migrations">>

\* The entries of f, and those of g that f has no entry for.
Over(f, g) == [x \in DOMAIN f \cup DOMAIN g |-> IF x \in DOMAIN f THEN f[x] ELSE g[x]]
\* A file of which only the name matters.
Plain(name) == [f \in {name} |-> None]

ASSUME ExportAssumption ==
    /\ \A i \in DOMAIN Components :
         \A o, p \in Resources(i) : Filename(o) = Filename(p) => o = p
    /\ Grafana \in Objects /\ CngImages \subseteq Objects /\ Generated \subseteq Objects
    /\ Labels \subseteq [template : BOOLEAN, claims : BOOLEAN, selected : BOOLEAN]
    /\ MaxRuns \in Nat /\ MaxChanges \in Nat

\* The list of components that main goes through.  One with a postprocessing
\* lies in the directory of that name, with what the postprocessing is about;
\* Jobs are not exported (the queries ask for cronjobs.batch only).
ASSUME ComponentsAssumption ==
    /\ Len(Components) \in Nat \ {0} /\ DOMAIN Components = 1 .. Len(Components)
    /\ "gitlab" \in Paths
    /\ \A i \in DOMAIN Components : Components[i].path = "gitlab" => Components[i].post = "gitlab"
    /\ \A i, j \in DOMAIN Components : Components[i].path = Components[j].path => i = j
    /\ \A i \in DOMAIN Components : LET c == Components[i] IN
         /\ Len(c.queries) \in Nat /\ DOMAIN c.queries = 1 .. Len(c.queries)
         /\ c.root \in {"apps", "infrastructure"}
         /\ c.post \in {"", "grafana", "gitlab"} /\ (c.post # "" => c.path = c.post)
         /\ c.post = "grafana" => Grafana \in Resources(i) /\ Generated \subseteq Resources(i)
         /\ c.post = "gitlab" => \A o \in Resources(i) : Filename(o) # Job

\* None is none of the values that a kustomization.yaml can hold.
ASSUME AbsenceAssumption ==
    /\ \A names \in SUBSET ({Filename(o) : o \in Objects} \cup {Job}) : names # None
    /\ \A tags \in SUBSET Tags : tags # None
    /\ {<<"static">>, <<"rules">>} # None

VARIABLES
    live,              \* object |-> manifest or None
    files,             \* path |-> filename |-> manifest (a partial function)
    index, generator,  \* path |-> resources, and what is generated, or None
    aggregates,        \* groups that have a kustomization.yaml
    pc, comp, query,   \* next step of main
    collected,         \* object |-> manifest, in memory
    dir,               \* component directory that rmtree has entered, or None
    runs, changes,
    steady,            \* history: objects that have not changed in this run
    torn               \* history: roots whose removal has begun and not ended

cluster == <<live, changes>>
tree == <<files, index, generator, aggregates>>
removal == <<dir, torn>>
exportVars == <<cluster, tree, pc, comp, query, collected, runs, steady, removal>>

Manifest == [tag : Tags, meta : BOOLEAN, template : BOOLEAN, claims : BOOLEAN,
             selected : BOOLEAN, mount : {"hashed", "plain"}, single : BOOLEAN,
             runtime : BOOLEAN]
This == Components[comp]

-----------------------------------------------------------------------------
\* Mutant: volume claim templates are scrubbed like everything else.
StripClaims(o, m) ==
    [m EXCEPT !.meta = FALSE, !.template = m.template /\ m.selected,
              !.claims = m.claims /\ m.selected, !.runtime = FALSE]

\* strip_resource: the label goes everywhere unless a selector of the object
\* needs it, from the metadata always, and comes back on the volume claim
\* templates of a StatefulSet, which cannot be changed.
Strip(o, m) ==
    [m EXCEPT !.meta = FALSE, !.template = m.template /\ m.selected,
              !.claims = m.claims /\ (m.selected \/ o.kind = "StatefulSet"),
              !.runtime = FALSE]

ExportInit ==
    /\ \E l \in Labels, t \in Tags : live = [o \in Objects |->
         [tag |-> t, meta |-> TRUE, template |-> l.template, claims |-> l.claims,
          selected |-> l.selected, mount |-> "hashed", single |-> TRUE, runtime |-> TRUE]]
    /\ files = [p \in Paths |-> << >>]
    /\ index = [p \in Paths |-> None] /\ generator = [p \in Paths |-> None]
    /\ aggregates = {} /\ pc = "start" /\ comp = 1 /\ query = 1
    /\ collected = << >> /\ runs = 0 /\ changes = 0 /\ steady = {}
    /\ dir = None /\ torn = {}

Fail == pc' = "failed"

\* Somebody runs the script, on whatever tree the last run has left.
Start ==
    /\ pc \in {"start", "failed", "done"} /\ runs < MaxRuns
    /\ pc' = "clean_apps" /\ runs' = runs + 1
    /\ comp' = 1 /\ query' = 1 /\ collected' = << >> /\ steady' = Objects
    /\ UNCHANGED <<cluster, tree, removal>>

-----------------------------------------------------------------------------
\* clean_outputs removes apps, then infrastructure.
Root == IF pc = "clean_apps" THEN "apps" ELSE "infrastructure"
Below == {i \in DOMAIN Components : Components[i].root = Root}
Cleaning == pc \in {"clean_apps", "clean_infra"}
Gone(p) == DOMAIN files[p] = {} /\ index[p] = None /\ generator[p] = None

\* rmtree takes the entries of a directory in the order of the listing, whatever
\* that is, and empties a directory it has entered before it goes on.
InReach(p) == dir \notin {None, p} => Gone(dir)
Removal(p) == /\ dir' = p /\ torn' = torn \cup {Root}
              /\ UNCHANGED <<cluster, pc, comp, query, collected, runs, steady>>

RemoveFile(p) == \E f \in DOMAIN files[p] :
    /\ InReach(p) /\ Removal(p)
    /\ files' = [files EXCEPT ![p] = [g \in DOMAIN files[p] \ {f} |-> files[p][g]]]
    /\ UNCHANGED <<index, generator, aggregates>>

\* The kustomization.yaml of a component.
RemoveIndex(p) ==
    /\ ~(index[p] = None /\ generator[p] = None) /\ InReach(p) /\ Removal(p)
    /\ index' = [index EXCEPT ![p] = None] /\ generator' = [generator EXCEPT ![p] = None]
    /\ UNCHANGED <<files, aggregates>>

\* That of a group, beside the directories of its components.
RemoveAggregate(group) ==
    /\ group \in aggregates /\ InReach(None) /\ Removal(None)
    /\ aggregates' = aggregates \ {group}
    /\ UNCHANGED <<files, index, generator>>

RootRemoved ==
    /\ Cleaning
    /\ \A i \in Below : Gone(Components[i].path) /\ Components[i].group \notin aggregates
    /\ pc' = (IF pc = "clean_apps" THEN "clean_infra" ELSE "fetch")
    /\ dir' = None /\ torn' = torn \ {Root}
    /\ UNCHANGED <<cluster, tree, comp, query, collected, runs, steady>>

CleanOutputs ==
    \/ Cleaning /\ \E i \in Below : LET c == Components[i] IN
          RemoveFile(c.path) \/ RemoveIndex(c.path) \/ RemoveAggregate(c.group)
    \/ RootRemoved
-----------------------------------------------------------------------------
\* get_yaml and add: what is not there is passed over, and a key that was seen
\* in an earlier answer keeps its first manifest.
Fetch == LET found == {o \in This.queries[query] : live[o] # None} IN
    /\ pc = "fetch" /\ query <= Len(This.queries)
    /\ collected' = Over(collected, [o \in found |-> Strip(o, live[o])])
    /\ query' = query + 1
    /\ UNCHANGED <<cluster, tree, pc, comp, runs, steady, removal>>

\* Mutant: the ConfigMaps that will be generated are written as well.
WriteFilesAll ==
    /\ pc = "fetch" /\ query > Len(This.queries) /\ pc' = "index"
    /\ files' = [files EXCEPT ![This.path] =
         Over([f \in {Filename(o) : o \in DOMAIN collected} |->
                 collected[CHOOSE o \in DOMAIN collected : Filename(o) = f]], @)]
    /\ UNCHANGED <<cluster, index, generator, aggregates, comp, query, collected, runs, steady, removal>>

\* The end of fetch_component_resources, and the manifests of write_component.
WriteFiles == LET kept == DOMAIN collected \ (IF This.post = "grafana" THEN Generated ELSE {})
              IN
    /\ pc = "fetch" /\ query > Len(This.queries) /\ pc' = "index"
    /\ collected' = [o \in kept |-> collected[o]]
    /\ files' = [files EXCEPT ![This.path] =
         Over([f \in {Filename(o) : o \in kept} |->
                 collected[CHOOSE o \in kept : Filename(o) = f]], @)]
    /\ UNCHANGED <<cluster, index, generator, aggregates, comp, query, runs, steady, removal>>

\* Mutant: a component that fails is left out and the run goes on.
NextComponentSkip == \E skip \in {1, 2} :
    /\ comp' = IF comp + skip <= Len(Components) THEN comp + skip ELSE comp
    /\ query' = 1 /\ collected' = << >>
    /\ pc' = IF comp + skip <= Len(Components) THEN "fetch" ELSE "aggregate"

NextComponent ==
    /\ comp' = IF comp < Len(Components) THEN comp + 1 ELSE comp
    /\ query' = 1 /\ collected' = << >>
    /\ pc' = IF comp < Len(Components) THEN "fetch" ELSE "aggregate"

WriteIndex ==
    /\ pc = "index"
    /\ index' = [index EXCEPT ![This.path] = {Filename(o) : o \in DOMAIN collected}]
    /\ IF This.post = "" THEN NextComponent
       ELSE pc' = This.post /\ UNCHANGED <<comp, query, collected>>
    /\ UNCHANGED <<cluster, files, generator, aggregates, runs, steady, removal>>

-----------------------------------------------------------------------------
\* write_grafana_files: the constant files, then the secret and the download,
\* which may fail; the Deployment is then read back from its file.
GrafanaFiles ==
    /\ pc = "grafana" /\ pc' = "rules"
    /\ files' = [files EXCEPT !["grafana"] = Over(@, Plain(<<"static">>))]
    /\ UNCHANGED <<cluster, index, generator, aggregates, comp, query, collected, runs, steady, removal>>

GrafanaRules ==
    /\ pc = "rules"
    /\ files' = [files EXCEPT !["grafana"] = Over(@, Plain(<<"rules">>))]
    /\ IF Filename(Grafana) \in DOMAIN files["grafana"] THEN pc' = "volumes" ELSE Fail
    /\ UNCHANGED <<cluster, index, generator, aggregates, comp, query, collected, runs, steady, removal>>

GrafanaVolumes ==
    /\ pc = "volumes" /\ pc' = "generators"
    /\ files' = [files EXCEPT !["grafana"][Filename(Grafana)].mount = "plain"]
    /\ UNCHANGED <<cluster, index, generator, aggregates, comp, query, collected, runs, steady, removal>>

GrafanaIndex ==
    /\ pc = "generators"
    /\ generator' = [generator EXCEPT !["grafana"] = {<<"static">>, <<"rules">>}]
    /\ NextComponent
    /\ UNCHANGED <<cluster, files, index, aggregates, runs, steady, removal>>

\* Mutant: only the last image decides about the version.
CngVersionsLast == {collected[CHOOSE o \in CngImages \cap DOMAIN collected : TRUE].tag}

\* write_gitlab_files: all the Deployments, one container each, one version.
CngVersions == {collected[o].tag : o \in CngImages \cap DOMAIN collected}

GitlabJob ==
    /\ pc = "gitlab"
    /\ IF /\ CngImages \subseteq DOMAIN collected
          /\ \A o \in CngImages : collected[o].single
          /\ \E v \in Tags : CngVersions = {v}
       THEN /\ pc' = "release"
            /\ files' = [files EXCEPT !["gitlab"] = Over(Plain(Job), @)]
       ELSE Fail /\ UNCHANGED files
    /\ UNCHANGED <<cluster, index, generator, aggregates, comp, query, collected, runs, steady, removal>>

GitlabIndex ==
    /\ pc = "release"
    /\ index' = [index EXCEPT !["gitlab"] = @ \cup {Job}]
    /\ generator' = [generator EXCEPT !["gitlab"] = CngVersions]
    /\ NextComponent
    /\ UNCHANGED <<cluster, files, aggregates, runs, steady, removal>>

\* write_aggregate, in the order of main.
Aggregate == LET missing == {i \in DOMAIN Components : Components[i].group \notin aggregates} IN
    /\ pc = "aggregate"
    /\ IF missing = {}
       THEN pc' = "done" /\ UNCHANGED aggregates
       ELSE LET i == CHOOSE i \in missing : \A j \in missing : i <= j IN
            aggregates' = aggregates \cup {Components[i].group} /\ UNCHANGED pc
    /\ UNCHANGED <<cluster, files, index, generator, comp, query, collected, runs, steady, removal>>

\* A call, a write or a removal fails, or the run is interrupted: what it had in
\* memory is lost, and what it has removed or written stays.
Interrupt ==
    /\ pc \notin {"start", "failed", "done"} /\ Fail
    /\ comp' = 1 /\ query' = 1 /\ collected' = << >> /\ dir' = None /\ steady' = {}
    /\ UNCHANGED <<cluster, tree, runs, torn>>

-----------------------------------------------------------------------------
\* Other people and controllers: o appears, goes, or gets another manifest.
Change(o, m) ==
    /\ changes < MaxChanges /\ changes' = changes + 1
    /\ live[o] # m /\ live' = [live EXCEPT ![o] = m]
    /\ steady' = steady \ {o}
    /\ UNCHANGED <<tree, pc, comp, query, collected, runs, removal>>

ExportNext ==
    \/ Start \/ CleanOutputs \/ Fetch \/ WriteFiles \/ WriteIndex
    \/ GrafanaFiles \/ GrafanaRules \/ GrafanaVolumes \/ GrafanaIndex
    \/ GitlabJob \/ GitlabIndex \/ Aggregate \/ Interrupt
=============================================================================
