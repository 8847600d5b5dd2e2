---------------------------- MODULE MCRecService ----------------------------
(* Users and workloads for the runs of RecService: ann runs and may        *)
(* approve, bob reviews and may approve, cy is in operations, root is an   *)
(* administrator and dee approves for another asset.                       *)
EXTENDS RecService, TLC

CONSTANTS ann, bob, cy, dee, root     \* users

MCUsers == {ann, bob, cy, dee, root}
MCScoped == {ann, bob, cy, root}

\* One user per duty: the whole lifecycle and everything beside it.
Staff ==
  { [user |-> ann, role |-> "engineer"], [user |-> ann, role |-> "approver"],
    [user |-> bob, role |-> "reviewer"], [user |-> cy, role |-> "operations"],
    [user |-> dee, role |-> "approver"] }

Everything == [n \in 1..MaxRequests |-> Kinds \ {"policy"}]

\* The administrator in the reviewer's place, who may change the policy before
\* the approval.
Management ==
  { [user |-> ann, role |-> "engineer"], [user |-> ann, role |-> "approver"],
    [user |-> cy, role |-> "operations"], [user |-> dee, role |-> "approver"],
    [user |-> root, role |-> "admin"] }

Administered ==
  << {"create"}, {"review", "reject"}, {"policy", "approve", "reject"},
     {"approve", "implement", "reject", "writeback"},
     {"implement", "evaluate", "writeback"}, {"evaluate", "writeback"} >>

\* The whole lifecycle for two threads, with less choice at each step: what is
\* ready by then and what may race with it.
Racing ==
  << {"create", "review"}, {"review", "reject"}, {"approve", "reject"},
     {"reject", "implement", "writeback"},
     {"implement", "evaluate", "writeback"}, {"evaluate", "writeback"} >>

ThreadSymmetry == Permutations(Threads)
=============================================================================
