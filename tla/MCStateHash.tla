---------------------------- MODULE MCStateHash ----------------------------
(***************************************************************************)
(* The instance of StateHash that TLC checks: one directory that is hashed *)
(* while it is edited, and another that is not edited but in whose         *)
(* environment a call may be made.                                         *)
(***************************************************************************)
EXTENDS StateHash

CONSTANTS d1, d2, p1, p2, v1, v2, k1, k2

\* What a hook of the other repository runs in, the worst of environments: an
\* environment without these variables is what _git_env makes of it.
MCInherited == {[GIT_WORK_TREE |-> d2, GIT_INDEX_FILE |-> d2]}

MCInit ==
    /\ Init
    /\ content = [d \in Dirs |-> [p \in Paths |-> IF d = d1 THEN v1 ELSE v2]]
    /\ ignored \in {[d \in Dirs |-> {}], [d \in Dirs |-> IF d = d1 THEN {p2} ELSE {}]}
    /\ repos = {d1}

MCSpec == MCInit /\ [][Next]_vars /\ \A k \in Runs : WF_vars(Fail(k))
============================================================================
