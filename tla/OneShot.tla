------------------------------ MODULE OneShot ------------------------------
(***************************************************************************)
(* What an authorisation promises, whoever enforces it.  A token is issued *)
(* at most once, is used at most once, and a token that was used or voided *)
(* stays so.  The nonce store of src/src/model_routing/intents.py and the  *)
(* pending directory of src/scripts/pretooluse_hook.py are two             *)
(* implementations of it: Broker and CapitalGate each state a refinement   *)
(* mapping to this module.                                                 *)
(***************************************************************************)
CONSTANT Tokens

VARIABLE state      \* state[t]: what has become of token t

Init == state \in [Tokens -> {"none", "live"}]

Move(t, from, to) ==
    /\ state[t] = from
    /\ state' = [state EXCEPT ![t] = to]

Issue(t) == Move(t, "none", "live")
Use(t)   == Move(t, "live", "used")
Void(t)  == Move(t, "live", "void")

Next == \E t \in Tokens : Issue(t) \/ Use(t) \/ Void(t)

Spec == Init /\ [][Next]_state
============================================================================
