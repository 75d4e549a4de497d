-------------------------- MODULE MigrationRelease --------------------------
(* The versioned migration check of CI
   (scripts/validate_versioned_migration_jobs.py) and what it lets through: a
   change of apps/gitlab or apps/feedback is merged only if the check accepts
   it, and Flux then applies what kustomize renders from it.

   A version is <<major, minor, patch>>, or Malformed.  A text (the name of a
   Job, an image) is a sequence of words, "-" and ":".  A rendered target is a
   sequence of lines, each a key and the text that follows it.               *)
EXTENDS Integers, Sequences, SequencesExt

CONSTANTS
    Versions,       \* versions that are written into gitlab-release
    FirstVersion,   \* of GitLab and its migrations when we start
    Malformed,      \* any other text
    MaxLiterals,    \* bound: version literals of the gitlab-release generators
    Targets,        \* the Jobs that a target may render, in their order
    MaxMerges       \* bound

ASSUME VersionsAssumption ==
    /\ Versions \subseteq (Nat \ {0}) \X (0 .. 11) \X Nat
    /\ FirstVersion \in Versions /\ Malformed \notin Versions
    /\ MaxLiterals \in Nat /\ MaxMerges \in Nat

VARIABLES
    main,       \* release and Jobs of the main branch, as rendered
    merges
releaseVars == <<main, merges>>

Keys == {"appVersion", "migrationVersion"}

-----------------------------------------------------------------------------
\* Tuples compare from the left.
Less(v, w) ==
    \/ v[1] < w[1]
    \/ v[1] = w[1] /\ v[2] < w[2]
    \/ v[1] = w[1] /\ v[2] = w[2] /\ v[3] < w[3]

\* Mutant: the last minor of a major has no successor of its own.
OneMinorAheadWraps(app, migration) ==
    \/ migration[1] = app[1] /\ migration[2] = app[2] + 1
    \/ migration[1] = app[1] + 1 /\ migration[2] = 0

OneMinorAhead(app, migration) ==
    \/ migration[1] = app[1] /\ migration[2] = app[2] + 1
    \/ app[2] = 11 /\ migration[1] = app[1] + 1 /\ migration[2] = 0

DriftAllowed(app, migration) ==
    /\ app # Malformed /\ migration # Malformed
    /\ ~Less(migration, app)
    /\ (migration[1] = app[1] /\ migration[2] = app[2]) \/ OneMinorAhead(app, migration)

\* Where the literals give a key its value; one without a version key is passed
\* over.
ValuesOf(literals, key) == {i \in DOMAIN literals : literals[i][1] = key}

\* parse_gitlab_release_versions: a repeated mapping key, generator or literal
\* is refused, so there is nothing to choose from.
ReleaseOf(k) ==
    IF /\ ~k.duplicateKey /\ Len(k.generators) = 1
       /\ \A key \in Keys : \E i \in DOMAIN k.generators[1] : ValuesOf(k.generators[1], key) = {i}
    THEN [key \in Keys |-> LET i == CHOOSE i \in ValuesOf(k.generators[1], key) : TRUE
                           IN k.generators[1][i][2]]
    ELSE [key \in Keys |-> Malformed]

-----------------------------------------------------------------------------
\* parse_job_documents: what is seen of a document, and the Jobs found before it.
Blank == [kind |-> <<>>, metadata |-> FALSE, name |-> <<>>, image |-> <<>>]

\* Mutant: the next document starts with what was seen of this one.
FlushKeeps(p) ==
    [p EXCEPT !.jobs = IF p.seen.kind = <<"Job">> /\ p.seen.name # <<>> /\ p.seen.image # <<>>
        THEN Append(@, [name |-> p.seen.name, image |-> p.seen.image]) ELSE @]

Flush(p) ==
    [seen |-> Blank,
     jobs |-> IF p.seen.kind = <<"Job">> /\ p.seen.name # <<>> /\ p.seen.image # <<>>
              THEN Append(p.jobs, [name |-> p.seen.name, image |-> p.seen.image]) ELSE p.jobs]

\* What one line, or the part of it before three dashes, adds to a document.
See(d, key, text) ==
    CASE key = "kind" -> [d EXCEPT !.kind = text, !.metadata = FALSE]
      [] key = "metadata" -> [d EXCEPT !.metadata = TRUE]
      [] key = "name" /\ d.metadata /\ d.name = <<>> -> [d EXCEPT !.name = text]
      [] key = "spec" -> [d EXCEPT !.metadata = FALSE]
      [] key = "image" /\ d.image = <<>> -> [d EXCEPT !.image = text]
      [] OTHER -> d

\* rendered.split cuts at any three dashes, inside a line too; what follows them
\* belongs to a document without a kind.
Dashes == <<"-", "-", "-">>
Cuts(text) == {i \in 1 .. Len(text) - 2 : SubSeq(text, i, i + 2) = Dashes}
ParseLine(p, line) == LET cuts == Cuts(line[2]) IN
    IF cuts = {} THEN [p EXCEPT !.seen = See(@, line[1], line[2])]
    ELSE LET first == CHOOSE i \in cuts : \A j \in cuts : i <= j IN
         Flush([p EXCEPT !.seen = See(@, line[1], SubSeq(line[2], 1, first - 1))])

ParseJobs(lines) == Flush(FoldLeft(ParseLine, [seen |-> Blank, jobs |-> <<>>], lines)).jobs

\* image.rsplit(":", 1)[1], where there is one.
Tagged(image) == \E i \in DOMAIN image : image[i] = ":"
TagOf(image) == LET i == CHOOSE i \in DOMAIN image :
                          image[i] = ":" /\ \A j \in DOMAIN image : image[j] = ":" => j <= i
                IN SubSeq(image, i + 1, Len(image))

\* f"-{tag}-" in name or name.endswith(f"-{tag}").
NameMatches(name, tag) == \E i \in 1 .. Len(name) - Len(tag) : LET end == i + Len(tag) IN
    /\ name[i] = "-" /\ SubSeq(name, i + 1, end) = tag
    /\ end = Len(name) \/ name[end + 1] = "-"

\* validate_job_name_matches_image.
Matches(job) == Tagged(job.image) /\ NameMatches(job.name, TagOf(job.image))

\* What kustomize renders for a Job, up to its first image: the parser passes over
\* any other.  There may be three dashes in a text before the name or the image.
JobText(job) == LET Text(place) == <<place, IF job.dashes = place THEN Dashes ELSE <<>> >> IN
    << <<"kind", <<"Job">> >>, <<"metadata", <<>> >>, Text("annotations"), <<"name", job.name>>,
       <<"spec", <<>> >>, Text("command"), <<"image", job.image>>, <<"", Dashes>> >>

\* main of the script: the release, then the Jobs of the targets.
ReleaseAccepted(k) == LET r == ReleaseOf(k) IN
    DriftAllowed(r["appVersion"], r["migrationVersion"])

\* Every Job that the parser finds in a target is checked, and there is one.
JobsAccepted(target) == LET jobs == ParseJobs(FlattenSeq([i \in DOMAIN target |-> JobText(target[i])])) IN
    jobs # <<>> /\ \A i \in 1 .. Len(jobs) : Matches(jobs[i])

-----------------------------------------------------------------------------
Literals == UNION {[1 .. n -> Keys \X (Versions \cup {Malformed})] : n \in 0 .. MaxLiterals}
\* No generator gitlab-release, one, or two that share the literals.
Kustomizations == [duplicateKey : BOOLEAN, generators : {<<>>} \cup {<<l>> : l \in Literals}
    \cup UNION {{<<SubSeq(l, 1, i), SubSeq(l, i + 1, Len(l))>> : i \in 0 .. Len(l)} : l \in Literals}]

\* Whatever literal kustomize would use, where there is more than one.
Rendered(k) == {r \in [Keys -> Versions \cup {Malformed}] :
    \A key \in Keys : \E g \in 1 .. Len(k.generators) : \E i \in DOMAIN k.generators[g] :
        k.generators[g][i] = <<key, r[key]>>}

\* What a change of the two targets can bring to the main branch.
MergeableReleases == UNION {Rendered(k) : k \in {k \in Kustomizations : ReleaseAccepted(k)}}
MergeableJobs == {Range(t) : t \in {t \in Targets : JobsAccepted(t)}}

ReleaseInit ==
    /\ merges = 0
    /\ main \in [release : {[key \in Keys |-> FirstVersion]}, jobs : MergeableJobs]

\* Changes of apps/gitlab and of apps/feedback.
MergeRelease == \E r \in MergeableReleases :
    /\ merges < MaxMerges /\ merges' = merges + 1
    /\ main' = [main EXCEPT !.release = r]

MergeJobs == \E jobs \in MergeableJobs :
    /\ merges < MaxMerges /\ merges' = merges + 1
    /\ main' = [main EXCEPT !.jobs = jobs]

-----------------------------------------------------------------------------
\* Releases in their order: a major has the minors 0 to 11.
Release(v) == 12 * v[1] + v[2]

\* The application on the main branch never runs ahead of its migrations, and
\* these are at most one minor release ahead, whichever literal is rendered and
\* whatever was merged before (validate_gitlab_version_drift against the order
\* of the releases).
MigrationsAhead == LET app == main.release["appVersion"]
                       migration == main.release["migrationVersion"] IN
    /\ app # Malformed /\ migration # Malformed
    /\ Release(migration) - Release(app) \in {0, 1}
    /\ Release(migration) = Release(app) => migration[3] >= app[3]

\* A Job is immutable: when the image of one changes its name has to change with
\* it, unless the name has both tags in it (validate_job_name_matches_image, for
\* every Job that parse_job_documents finds).  That goes for a Job without three
\* dashes in its text, whatever the text of the other Jobs has; where the text of
\* the Job itself has them TLC refutes it: see the observations in the README.
Whole(job) == job.dashes = "" /\ Cuts(job.name) = {} /\ Cuts(job.image) = {}
JobRenamed == [][\A old \in main.jobs, new \in main'.jobs :
    Whole(old) /\ Whole(new) /\ old.name = new.name /\ old.image # new.image =>
        Matches(old) /\ Matches(new)]_main
=============================================================================
