------------------------------- MODULE MCHook -------------------------------
(***************************************************************************)
(* The instance of Hook that TLC checks on its own.  In place of the       *)
(* approval command the environment drops files into the pending           *)
(* directory: intents that fit, that have drifted, that are for another    *)
(* call, expired, of another signer, of the older form without state_repo, *)
(* and garbage; and runs in other processes take them away.                *)
(***************************************************************************)
EXTENDS Hook

CONSTANTS h1, OtherKey

\* The content that the files are bound to; the worktree is that, or no repository.
t1 == [p \in Paths |-> "a"]

MCWorktrees == {t1}

Call(action, bound) ==
    [action_type |-> "shell", exact_action |-> action, cwd |-> "svc", repo_id |-> "",
     host |-> "local", target |-> "svc", risk_class |-> "capital-high",
     is_capital |-> TRUE, is_read_only |-> FALSE, state_bound |-> bound]

MCClassify ==
    [deploy |-> Call("deploy", TRUE),
     read   |-> [Call("read", FALSE) EXCEPT !.is_read_only = TRUE]]

MCServiceRepo == [e \in Events |-> IF e = "deploy" THEN "svc" ELSE NoRepo]

Payload(e, sha, repo, expires_at) ==
    [action_type |-> "shell", exact_action |-> MCClassify[e].exact_action, cwd |-> "svc",
     repo_id |-> "unknown", host |-> "local", target |-> "svc",
     risk_class |-> "capital-high", tree_sha |-> sha, state_repo |-> repo,
     timestamp |-> 0, nonce |-> 1, expires_at |-> expires_at]

Signed(e, sha, repo, expires_at) == sign_intent(Payload(e, sha, repo, expires_at), GatekeeperKey)

\* The first file of the directory may be anything, the second fits a call.
Files ==
    {Signed("deploy", t1, "svc", 1),
     Signed("deploy", t1, "svc", 0),
     Signed("deploy", t1, NoRepo, 1),
     Signed("deploy", NoTree, NoRepo, 1),
     Signed("read", t1, "svc", 1),
     sign_intent(Payload("deploy", t1, "svc", 1), OtherKey),
     [signature |-> << >>]}

FitFiles == {Signed("deploy", t1, "svc", 1)}

\* A file appears under its final name, and is whole some time later.
Open(r) ==
    /\ pending[r] = "absent" /\ intent[r] = EmptyFile
    /\ pending' = [pending EXCEPT ![r] = "torn"]
    /\ UNCHANGED <<clock, tree, hashing, intent, hookVars>>

Write(r) ==
    /\ pending[r] = "torn"
    /\ \E si \in IF r = 1 THEN Files ELSE FitFiles : intent' = [intent EXCEPT ![r] = si]
    /\ pending' = [pending EXCEPT ![r] = "whole"]
    /\ UNCHANGED <<clock, tree, hashing, hookVars>>

\* A run in another process consumes a file; invalidating it looks the same.
Take(r) ==
    /\ pending[r] = "whole"
    /\ pending' = [pending EXCEPT ![r] = "absent"]
    /\ UNCHANGED <<clock, tree, hashing, intent, hookVars>>

all == <<hookVars, worldVars>>

Next ==
    \/ \E h \in Hooks : HookStep(h)
    \/ \E r \in Requests : Open(r) \/ Write(r) \/ Take(r)
    \/ Environment /\ UNCHANGED hookVars

Init == WorldInit /\ HookInit

Spec == Init /\ [][Next]_all

\* A run is a process; it runs.  Nobody has to call, write or wait.
FairSpec == Spec /\ \A h \in Hooks : WF_all(Proceed(h))
============================================================================
