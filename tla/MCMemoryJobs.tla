---------------------------- MODULE MCMemoryJobs ----------------------------
(* MemoryJobs on two summary jobs of one conversation.                      *)
EXTENDS MemoryJobs

MCJobs == {"s", "t"}
MCSummaries == [j \in MCJobs |-> "summary"]
=============================================================================
