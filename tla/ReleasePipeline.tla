--------------------------- MODULE ReleasePipeline ---------------------------
(* The exporter and the versioned migration check around one repository: what
   is merged is rolled out to the live Deployments one by one, the exporter
   reads them back whenever somebody runs it, and its tree is proposed for the
   main branch like any other change.                                        *)
EXTENDS MigrationRelease, KustomizeExport

\* An image tag is a version or something else.
ASSUME TagsAssumption == Tags = Versions \cup {Malformed}

vars == <<releaseVars, exportVars>>

Init ==
    /\ ReleaseInit /\ ExportInit
    /\ \A o \in Objects : live[o].tag = main.release["appVersion"]

\* Flux applies the rendered Deployments; each is updated on its own.
Rollout == \E o \in CngImages :
    /\ live[o] # None
    /\ Change(o, [live[o] EXCEPT !.tag = main.release["appVersion"]])
    /\ UNCHANGED releaseVars

\* Changes by hand: an object goes or comes back, a Deployment gets a second
\* container or an image that is no release.
Edit == \E o \in Objects :
    /\ LET old == IF live[o] = None THEN live[Grafana] ELSE live[o] IN
       IF live[o] = None THEN old # None /\ Change(o, old)
       ELSE \/ Change(o, None)
            \/ o \in CngImages /\ \/ Change(o, [old EXCEPT !.single = FALSE])
                                  \/ Change(o, [old EXCEPT !.tag = Malformed])
    /\ UNCHANGED releaseVars

\* The exported apps/gitlab/kustomization.yaml.
Exported == [duplicateKey |-> FALSE, generators |->
    << [i \in 1 .. 2 |-> <<IF i = 1 THEN "appVersion" ELSE "migrationVersion",
                           CHOOSE v \in generator["gitlab"] : TRUE>>] >>]

\* The check of the Jobs would fail while apps/feedback, which the exporter has
\* removed with the rest of apps, is missing; whoever proposes the tree restores
\* it first, so only the check of the release stands in the way.
MergeExport ==
    /\ pc = "done" /\ ReleaseAccepted(Exported)
    /\ merges < MaxMerges /\ merges' = merges + 1
    /\ main' = [main EXCEPT !.release = ReleaseOf(Exported)]
    /\ UNCHANGED exportVars

Next ==
    \/ (MergeRelease \/ MergeJobs) /\ UNCHANGED exportVars
    \/ ExportNext /\ UNCHANGED releaseVars
    \/ Rollout \/ Edit \/ MergeExport

Spec == Init /\ [][Next]_vars
-----------------------------------------------------------------------------
\* The root that p lies in is half removed.
Torn(p) == \E i \in DOMAIN Components : Components[i].path = p /\ Components[i].root \in torn

\* Wherever a run was interrupted, a kustomization.yaml never names what its
\* directory does not hold: manifests, sources of generators, and the ConfigMaps
\* that the Grafana Deployment mounts, each of which is defined once.  Only a root
\* whose removal was cut short is out (rmtree of clean_outputs takes the files
\* of a kustomization.yaml before or after it), until a later run has removed it.
Renderable == \A p \in Paths : ~Torn(p) =>
    /\ index[p] # None => index[p] \subseteq DOMAIN files[p]
    /\ p = "grafana" /\ generator[p] # None =>
         /\ generator[p] \subseteq DOMAIN files[p]
         /\ files[p][Filename(Grafana)].mount = "plain"
         /\ \A o \in Generated : Filename(o) \notin index[p]

\* An aggregate is there only when every component below it is complete, what
\* its postprocessing generates included: what a run leaves that failed after
\* the removal of a root, or before it, cannot be mistaken for a whole tree.
AggregatesWhole == \A i \in DOMAIN Components :
    Components[i].group \in aggregates /\ Components[i].root \notin torn =>
      /\ index[Components[i].path] # None
      /\ Components[i].post # "" => generator[Components[i].path] # None

\* What a file says of an object is what the cluster says: the runtime state is
\* gone, a selector of the object still finds the labels it asks for, and the
\* volume claim templates are not touched.
Faithful(o, file, m) ==
    /\ ~file.runtime /\ file.tag = m.tag
    /\ m.selected => file.template = m.template
    /\ o.kind = "StatefulSet" => file.claims = m.claims

\* After a successful run the tree shows every object that did not change while
\* it ran, and nothing that was not there, whatever earlier runs had left or
\* half removed.
SuccessIsCurrent == pc = "done" => torn = {} /\ \A i \in DOMAIN Components :
    LET p == Components[i].path IN
    \A o \in (Resources(i) \cap steady) \ Generated :
        IF live[o] = None THEN Filename(o) \notin DOMAIN files[p]
        ELSE Filename(o) \in index[p] /\ Faithful(o, files[p][Filename(o)], live[o])

\* The release the exporter records is the tag of every GitLab manifest it wrote,
\* in the middle of a rollout too; the migration check accepts it, unless the
\* cluster itself ran an image that is no release.
ReleaseCarried == ~Torn("gitlab") /\ generator["gitlab"] # None =>
    /\ \A o \in CngImages : generator["gitlab"] = {files["gitlab"][Filename(o)].tag}
    /\ generator["gitlab"] # {Malformed} => ReleaseAccepted(Exported)
=============================================================================
