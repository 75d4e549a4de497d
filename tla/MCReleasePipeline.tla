-------------------------- MODULE MCReleasePipeline --------------------------
(* Three components of the exporter's list: one with the same names in two
   namespaces and a cluster object both of its selectors return, and the two
   that have a postprocessing.                                               *)
EXTENDS ReleasePipeline

Obj(kind, ns, name) == [api |-> "v1", kind |-> kind, ns |-> ns, name |-> name]

Webhook == Obj("Deployment", "default", "gitlab-webservice")
Sidekiq == Obj("Deployment", "default", "gitlab-sidekiq")
MCImages == {Webhook, Sidekiq}
MCGrafana == Obj("Deployment", "default", "grafana")
MCGenerated == {Obj("ConfigMap", "default", "grafana-alerting")}
Role == Obj("ClusterRole", None, "webhook:reviews")
Sts(ns) == Obj("StatefulSet", ns, "webhook")

MCComponents == <<
    [path |-> "cert-manager", root |-> "infrastructure", group |-> "platform", post |-> "",
     queries |-> << {Sts("cert-manager"), Role}, {Sts("kube-system"), Role} >>],
    [path |-> "grafana", root |-> "infrastructure", group |-> "observability-ui", post |-> "grafana",
     queries |-> << {MCGrafana}, MCGenerated >>],
    [path |-> "gitlab", root |-> "apps", group |-> "apps", post |-> "gitlab",
     queries |-> << MCImages >>] >>

MCSafeName == [n \in {o.name : o \in Objects} |-> IF n = "webhook:reviews" THEN "webhook-reviews" ELSE n]
MCVersions == { <<1, 10, 3>>, <<1, 11, 0>>, <<1, 11, 1>>, <<2, 0, 0>> }
MCTags == MCVersions \cup {Malformed}

MCFirst == <<1, 11, 0>>
MCLabels == {[template |-> TRUE, claims |-> TRUE, selected |-> TRUE],
             [template |-> TRUE, claims |-> TRUE, selected |-> FALSE]}

\* A target has one Job, or a second one after a Job that is seen or cut.  One
\* name has two tags in it, one has three dashes; one image has no tag, and one a
\* tag that is cut.
Places == {"", "annotations", "command"}
Name(tag) == <<"job", "-">> \o tag
Image(tag) == <<"app", ":">> \o tag
Both == <<"1", "-", "2">>
CutName == <<"job">> \o Dashes \o <<"1">>
CutImage == Image(<<"1">> \o Dashes \o <<"2">>)
MCTargets ==
    {<<j>> : j \in [name : {Name(<<"1">>), Name(Both), CutName}, dashes : Places,
                    image : {Image(<<"1">>), Image(<<"2">>), Image(Both), CutImage, <<"app">>}]}
    \cup [name : {Name(Both)}, image : {Image(<<"2">>)}, dashes : {"", "command"}]
         \X ([name : {Name(<<"1">>)}, image : {Image(<<"1">>), Image(<<"2">>), <<"app">>}, dashes : {"", "command"}]
             \cup [name : {CutName}, image : {Image(<<"2">>)}, dashes : {""}])
MCJobs == {[name |-> Name(<<"1">>), image |-> Image(<<"1">>), dashes |-> ""]}

\* The exporter sees neither the feedback Jobs nor the migration version.  With it
\* go one Job, the first release, and one that is rolled out and whose versions
\* differ; an export that is merged is the end.
Ahead == [appVersion |-> <<1, 11, 1>>, migrationVersion |-> <<2, 0, 0>>]
Apart == \/ runs = 0 /\ changes = 0
         \/ main.jobs = MCJobs /\ (merges > 0 => main.release = Ahead)

\* A removal reads nothing of the cluster or the main branch: what changes there
\* while a root is being removed may as well change after the removal, and what
\* changes while one lies half removed, before the run that left it so.
\* Removals are cut short, and go on in any order, before the first change; after
\* it they go on to their end in one order.  The third run is there for what a
\* removal that was cut short has left.
InOrder == aggregates' # aggregates \/ pc' # pc \/ \A i, j \in Below :
    /\ Components[i].group \notin aggregates
    /\ i < j /\ dir' = Components[j].path => Gone(Components[i].path)
Quiet ==
    /\ Cleaning \/ torn # {} => UNCHANGED <<releaseVars, cluster>>
    /\ Cleaning /\ changes > 0 => pc' # "failed" /\ InOrder
    /\ Cleaning /\ pc' = "failed" => runs < MaxRuns
    /\ runs' = MaxRuns /\ runs # runs' => torn # {}
=============================================================================
