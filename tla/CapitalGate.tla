----------------------------- MODULE CapitalGate -----------------------------
(***************************************************************************)
(* The armed gate: approval commands and hook runs over one pending        *)
(* directory, one clock and one set of worktrees.  The two sides never     *)
(* call each other; what makes the gate correct is what each leaves on     *)
(* disk for the other at any moment.                                       *)
(***************************************************************************)
EXTENDS Approval, Hook

\* Commands and hooks are different processes.
ASSUME GateAssumption == Requests \cap Hooks = {}

gateVars == <<approvalVars, hookVars, worldVars>>

GateInit == ApprovalInit /\ HookInit

GateNext ==
    \/ \E r \in Requests : ApprovalStep(r) /\ UNCHANGED hookVars
    \/ \E h \in Hooks : HookStep(h) /\ UNCHANGED approvalVars
    \/ Environment /\ UNCHANGED <<approvalVars, hookVars>>

GateSpec == GateInit /\ [][GateNext]_gateVars

----------------------------------------------------------------------------
\* Types of the whole gate; what lies in the pending directory, whole or
\* invalidated, or a run has picked from it, is what the gatekeeper signed for
\* that request: nothing that happens to the file, to the command or between runs
\* makes it say anything else.
GateTypeOK ==
    /\ ApprovalTypeOK
    /\ HookTypeOK
    /\ \A r \in Requests :
        pending[r] \in {"whole", "invalidated"} \/ req[r].rc = "authorized" => SignedFile(r)
    /\ \A h \in Hooks : hook[h].cand # NoRequest => SignedFile(hook[h].cand)

SameCall(e, f) ==
    expected_from_classification(Classify[e]) = expected_from_classification(Classify[f])

\* End to end: a run that is about to allow a capital call does so on a request
\* for that very call, which the reviewer approved (or the owner pre-blessed)
\* and a human confirmed, at most TTL before the run read the clock.
ConsumedWasAuthorized ==
    \A h \in Hooks :
        HookAt(h, "unlink") =>
            LET r == hook[h].cand IN
            /\ SameCall(req[r].ev, hook[h].ev)
            /\ requires_approval(Class(r))
            /\ req[r].approved /\ req[r].token = "CONFIRM"
            /\ req[r].said = "approve" \/ req[r].ev \in PreBlessed
            /\ hook[h].now <= req[r].approved_at + TTL

\* When a run is satisfied with the state, every file of the bound directory has
\* held, at some time during the run's hash, what it held at some time while the
\* request was being bound, however the worktree was edited during either hash
\* and between them.  The exception is a call that needs no binding and was made
\* in a directory in which git found no repository then.
ExecutedStateIsBound ==
    [][\A h \in Hooks :
        hook[h].pc \in {"drift", "hash"} /\ hook'[h].pc = "unlink" =>
            LET q == req[hook[h].cand] IN
            \/ /\ hashing[h].dir = BoundDir(q.ev)
               /\ \A p \in Paths :
                    \E was \in q.seen \ {NotGit}, is \in hashing[h].had \ {NotGit} :
                        is[p] = was[p]
            \/ q.tree_sha = NoTree /\ ~Classify[q.ev].state_bound]_gateVars

\* The runs that have listed or picked the intent of r.
Holds(h, r) == r \in hook[h].todo \/ hook[h].cand = r

\* An intent that has allowed a call, or was invalidated, and that no run
\* still holds is dead: no later run will see it, whatever the approval commands
\* and the other runs do.
Dead(r) ==
    /\ allows[r] > 0 \/ pending[r] = "invalidated"
    /\ \A h \in Hooks : ~Holds(h, r)

DeadStaysDead ==
    [][\A r \in Requests :
        Dead(r) => Dead(r)' /\ allows'[r] = allows[r]]_gateVars

\* "single-use, consumed on match" (pretooluse_hook.py:7): an intent allows one
\* call.
SingleUse == \A r \in Requests : allows[r] <= 1

\* The refinement mapping: what has become of the intent of each request.
IntentStateOf(r) ==
    IF allows[r] = 0
    THEN IF pending[r] = "whole" THEN "live"
         ELSE IF pending[r] = "invalidated" THEN "void" ELSE "none"
    ELSE IF allows[r] = 1 /\ pending[r] = "absent" THEN "used" ELSE "conflict"

IntentState == [r \in Requests |-> IntentStateOf(r)]

Abstract == INSTANCE OneShot WITH Tokens <- Requests, state <- IntentState

\* When the harness runs one hook at a time and the file system does not fail,
\* the pending directory is a set of one-shot tokens.
ImplementsOneShot == Abstract!Spec

\* The state an approval of event e would be bound to if it were asked for now,
\* with the worktree at rest.
BoundNow(e) ==
    IF ~Classify[e].state_bound /\ tree[BoundDir(e)] = NotGit
    THEN NoTree
    ELSE tree[BoundDir(e)]

\* "Reverting the drift byte-for-byte restores the hash and the intent works
\* again" (README.md:61): an intent whose worktree is what was bound, and which
\* has not been used and has not expired, is there to be used.
RevertedIntentWorks ==
    \A r \in Requests :
        (/\ req[r].rc = "authorized"
         /\ allows[r] = 0
         /\ req[r].tree_sha = BoundNow(req[r].ev)
         /\ clock <= req[r].approved_at + TTL)
            => pending[r] = "whole"
============================================================================
