---------------------------- MODULE MCBucketAudit ----------------------------
(* Evidence of every place that counts, and one value that does not. *)
EXTENDS BucketAudit

Live(kind, field, hint) ==
    [place |-> "live", kind |-> kind, field |-> field, token |-> TRUE, hint |-> hint]
Line(hint, form) ==
    [place |-> "repo", text |-> TRUE, token |-> TRUE, hint |-> hint, form |-> form]

MCEvidence == {Live("ConfigMap", "data", "value"), Live("Secret", "data", "name"),
               Live("Workload", "args", "none"), Live("CronJob", "env", "value"),
               Line("line", "field"), Line("near", "field")}
=============================================================================
