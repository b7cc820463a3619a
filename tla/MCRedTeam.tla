----------------------------- MODULE MCRedTeam -----------------------------
(***************************************************************************)
(* The instance of RedTeam that TLC checks: both scripts over every corpus *)
(* of up to three cases, with two ids, a capital call and a call that is   *)
(* none, approved or not, marked as one to block or not.                   *)
(***************************************************************************)
EXTENDS RedTeam

Call(action, capital) ==
    [action_type |-> "shell", exact_action |-> action, cwd |-> "work", repo_id |-> "",
     host |-> "local", target |-> "work", risk_class |-> "capital-high",
     is_capital |-> capital, is_read_only |-> FALSE]

MCCases == [case_id : {"a", "b"}, call : {Call("restart", TRUE), Call("ls", FALSE)},
            opus_approved : BOOLEAN, should_block : BOOLEAN]

MCCorpora == BoundedSeq(MCCases, 3)
============================================================================
