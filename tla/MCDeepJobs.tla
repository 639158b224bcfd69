----------------------------- MODULE MCDeepJobs -----------------------------
(* DeepJobs on one job, and on a cycle and a promotion. *)
EXTENDS DeepJobs

MCOneJob == {"cycle"}
MCJobs == {"cycle", "promotion"}
=============================================================================
