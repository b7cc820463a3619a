----------------------------- MODULE MCApproval -----------------------------
(***************************************************************************)
(* The instance of Approval that TLC checks.  The calls differ in what the *)
(* binding does with them: a deploy of a registered service, a deploy      *)
(* nobody registered a repository for, a capital file write bound to the   *)
(* directory it is made in, a pre-blessed one, and a read.  The reviewer   *)
(* may come back with any three lines.                                     *)
(***************************************************************************)
EXTENDS Approval, SequencesExt, TLC

MCWorktrees == {[p \in Paths |-> c] : c \in Contents}

Call(action, cwd, bound) ==
    [action_type |-> "shell", exact_action |-> action, cwd |-> cwd, repo_id |-> "",
     host |-> "local", target |-> cwd, risk_class |-> "capital-high",
     is_capital |-> TRUE, is_read_only |-> FALSE, state_bound |-> bound]

MCClassify ==
    [deploy  |-> Call("deploy", "work", TRUE),
     orphan  |-> Call("orphan", "work", TRUE),
     edit    |-> Call("edit", "work", FALSE),
     blessed |-> Call("blessed", "svc", FALSE),
     read    |-> [Call("read", "work", FALSE) EXCEPT !.is_read_only = TRUE]]

MCServiceRepo == [e \in Events |-> IF e = "deploy" THEN "svc" ELSE NoRepo]

MCOutputs == [failed : BOOLEAN, lines : BoundedSeq(Lines, 3)]
============================================================================
