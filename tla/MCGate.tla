------------------------------- MODULE MCGate -------------------------------
(***************************************************************************)
(* The instance of CapitalGate that TLC checks: a deploy, bound to the     *)
(* repository of its service, and a capital edit, bound to the directory   *)
(* it is made in if that is a repository.                                  *)
(***************************************************************************)
EXTENDS CapitalGate, TLC

CONSTANTS h1, h2, f1, f2, v1, v2

Symmetric == Permutations(Hooks) \cup Permutations(Paths) \cup Permutations(Contents)

\* An edit changes all files; a tree that mixes two contents is one that a hash
\* has torn.
MCWorktrees == {[p \in Paths |-> c] : c \in Contents}

Call(action, bound) ==
    [action_type |-> "shell", exact_action |-> action, cwd |-> "svc", repo_id |-> "",
     host |-> "local", target |-> "svc", risk_class |-> "capital-high",
     is_capital |-> TRUE, is_read_only |-> FALSE, state_bound |-> bound]

MCClassify == [deploy |-> Call("deploy", TRUE), edit |-> Call("edit", FALSE)]

MCServiceRepo == [e \in Events |-> IF e = "deploy" THEN "svc" ELSE NoRepo]

\* A clear approval and one that is taken back.
MCOutputs == {[failed |-> FALSE, lines |-> <<"approve">>],
              [failed |-> FALSE, lines |-> <<"approve", "reject">>]}

\* What decides how the gate goes on.  No step looks at what an earlier run of a
\* hook has left in its process, nor at what the reviewer was shown.
View ==
    <<minted, allows, worldVars,
      [r \in Requests |-> [req[r] EXCEPT !.reviewed = NoTree]],
      [h \in Hooks |-> IF HookAt(h, "idle") THEN NoRequest ELSE hook[h]]>>
============================================================================
