-------------------------------- MODULE Hook --------------------------------
(***************************************************************************)
(* The PreToolUse hook, src/scripts/pretooluse_hook.py.  The harness runs  *)
(* it once for every tool call, in a process of its own, so several run at *)
(* once; they share only the pending directory and the worktrees.  A run   *)
(* that has to look for an intent takes one step per system call that      *)
(* another process can interfere with: list the directory, read one file,  *)
(* hash the repository, rename or unlink the file.                         *)
(***************************************************************************)
EXTENDS World

CONSTANTS
    Hooks,         \* the processes the harness runs hooks in
    Modes,         \* the values of MODEL_ROUTING_MODE in use
    Inputs,        \* what may happen to the event before it is classified
    Streams,       \* the state of the standard streams the harness gives a run
    NoRequest      \* no pending file has been picked

ASSUME HookAssumption ==
    /\ Modes \subseteq {"shadow", "enforce"}
    /\ Inputs \subseteq {"readable", "unreadable", "unclassifiable"}
    /\ Streams \subseteq {"open", "no-stderr", "bad-stderr", "bad-stdout"}
    /\ NoRequest \notin Requests
    /\ Hooks \subseteq Hashers

VARIABLES
    hook,          \* hook[h]: the local state of the run in h, or of the last one
    allows         \* history: runs that allowed on the intent of r, counted up to 2

hookVars == <<hook, allows>>

Allowing == {"stdin-unreadable", "classify-failed-shadow", "not-capital-mutation",
             "shadow", "valid-intent-consumed"}

Blocking == {"classify-failed-fail-closed", "intent-check-error",
             "no-valid-pending-intent", "state-drift-since-review"}

Run ==
    [pc     : {"idle", "glob", "scan", "drift", "hash", "invalidate", "unlink"},
     ev     : Events \cup {NoEvent},
     mode   : Modes \cup {"none"},
     input  : Inputs \cup {"none"},
     out    : Streams \cup {"none"},
     now    : 0..MaxClock,
     todo   : SUBSET Requests,              \* the files listed and not read yet
     ready  : SUBSET Requests,              \* history: those of them whole then, but
                                            \* for the ones a key error hid
     cand   : Requests \cup {NoRequest},    \* the file picked
     ans    : Allowing \cup Blocking \cup {"in-progress", "none"}]

Resting(e, mode, input, out, ans) ==
    [pc |-> "idle", ev |-> e, mode |-> mode, input |-> input, out |-> out, now |-> 0,
     todo |-> {}, ready |-> {}, cand |-> NoRequest, ans |-> ans]

HookInit ==
    /\ hook = [h \in Hooks |-> Resting(NoEvent, "none", "none", "none", "none")]
    /\ allows = [r \in Requests |-> 0]

HookAt(h, stage) == hook[h].pc = stage

Answer(h, ans) ==
    hook' = [hook EXCEPT ![h] = Resting(@.ev, @.mode, @.input, @.out, ans)]

\* What the harness sees of a run: it stops the call on exit code 2 alone.
\* block writes to stderr first; with no stderr, or a broken one, that raises,
\* and the backstop exits with 0, which the interpreter turns into 120 when it
\* cannot flush a stream.
ExitCode(ans, out) ==
    CASE ans \in Allowing   -> 0
      [] out = "no-stderr"  -> 0
      [] out \in {"bad-stderr", "bad-stdout"} -> 120
      [] OTHER              -> 2

----------------------------------------------------------------------------
\* Mutated: a call that cannot be classified is let through, as the docstring
\* of the hook has it.
EarlyAnswer_FailOpen(e, mode, input) ==
    IF input = "unreadable" THEN "stdin-unreadable"
    ELSE IF input = "unclassifiable" THEN "classify-failed-shadow"
    ELSE IF ~requires_approval(Classify[e]) THEN "not-capital-mutation"
    ELSE IF mode # "enforce" THEN "shadow"
    ELSE "none"

\* The answers main gives without looking for an intent: it fails open on an
\* event it cannot read and, in shadow mode, on one it cannot classify, and
\* closed on the latter in enforce mode.
EarlyAnswer(e, mode, input) ==
    IF input = "unreadable" THEN "stdin-unreadable"
    ELSE IF input = "unclassifiable"
    THEN IF mode = "enforce" THEN "classify-failed-fail-closed" ELSE "classify-failed-shadow"
    ELSE IF ~requires_approval(Classify[e]) THEN "not-capital-mutation"
    ELSE IF mode # "enforce" THEN "shadow"
    ELSE "none"

StartAndAnswer(h, e, mode, input, out) ==
    /\ HookAt(h, "idle")
    /\ EarlyAnswer(e, mode, input) # "none"
    /\ hook' = [hook EXCEPT ![h] =
            Resting(e, mode, input, out, EarlyAnswer(e, mode, input))]
    /\ UNCHANGED <<allows, worldVars>>

\* A capital call in enforce mode: _find_valid_intent begins and reads the clock.
Start(h, e, mode, input, out) ==
    /\ HookAt(h, "idle")
    /\ EarlyAnswer(e, mode, input) = "none"
    /\ hook' = [hook EXCEPT ![h] =
            [Resting(e, mode, input, out, "in-progress") EXCEPT !.pc = "glob", !.now = clock]]
    /\ UNCHANGED <<allows, worldVars>>

\* sorted(PENDING.glob("*.json")): a file being written is listed, one that was
\* invalidated is not.
Glob(h) ==
    /\ HookAt(h, "glob")
    /\ hook' = [hook EXCEPT ![h].pc = "scan",
                            ![h].todo = {r \in Requests : pending[r] \in {"torn", "whole"}},
                            ![h].ready = {r \in Requests : pending[r] = "whole"}]
    /\ UNCHANGED <<allows, worldVars>>

\* is_dir, glob or the import raises.
FindRaises(h) ==
    /\ FsFaults
    /\ HookAt(h, "glob")
    /\ Answer(h, "intent-check-error")
    /\ UNCHANGED <<allows, worldVars>>

\* Is r the next file to read, in the order of the names?
IsNext(h, r) == \A q \in hook[h].todo : r <= q

Peek(h, r, public_key) ==
    verify_peek(intent[r], public_key,
                expected_from_classification(Classify[hook[h].ev]), hook[h].now)

PublicKeys == {GatekeeperKey} \cup (IF FsFaults THEN {NoKey} ELSE {})

\* Mutated: the peek is dropped and any file that can be read fits.
Match_Any(h) ==
    /\ HookAt(h, "scan")
    /\ \E r \in hook[h].todo :
        /\ IsNext(h, r)
        /\ pending[r] = "whole"
        /\ "payload" \in DOMAIN intent[r]
        /\ hook' = [hook EXCEPT ![h].pc = "drift", ![h].cand = r, ![h].todo = {}]
    /\ UNCHANGED <<allows, worldVars>>

\* Mutated: the file picked is not remembered.
Match_Forgets(h) ==
    /\ HookAt(h, "scan")
    /\ \E r \in hook[h].todo :
        /\ IsNext(h, r)
        /\ pending[r] = "whole"
        /\ Peek(h, r, GatekeeperKey) = "ok"
        /\ hook' = [hook EXCEPT ![h].pc = "invalidate", ![h].todo = {}]
    /\ UNCHANGED <<allows, worldVars>>

\* One file is read and fits: the search ends with it.
Match(h) ==
    /\ HookAt(h, "scan")
    /\ \E r \in hook[h].todo :
        /\ IsNext(h, r)
        /\ pending[r] = "whole"
        /\ Peek(h, r, GatekeeperKey) = "ok"
        /\ hook' = [hook EXCEPT ![h].pc = "drift", ![h].cand = r, ![h].todo = {}]
    /\ UNCHANGED <<allows, worldVars>>

\* Mutated: an unreadable file ends the search.
Skip_GivesUp(h) ==
    /\ HookAt(h, "scan")
    /\ \E r \in hook[h].todo :
        /\ IsNext(h, r)
        /\ \/ pending[r] # "whole"
           \/ \E public_key \in PublicKeys : Peek(h, r, public_key) # "ok"
        /\ hook' = [hook EXCEPT ![h].todo = {}]
    /\ UNCHANGED <<allows, worldVars>>

\* Mutated: the search waits for a file that is being written.
Skip_Waits(h) ==
    /\ HookAt(h, "scan")
    /\ \E r \in hook[h].todo :
        /\ IsNext(h, r)
        /\ pending[r] # "torn"
        /\ \/ pending[r] # "whole"
           \/ \E public_key \in PublicKeys : Peek(h, r, public_key) # "ok"
        /\ hook' = [hook EXCEPT ![h].todo = @ \ {r}]
    /\ UNCHANGED <<allows, worldVars>>

\* One file is gone, half written, unreadable, or does not fit: the next one.
Skip(h) ==
    /\ HookAt(h, "scan")
    /\ \E r \in hook[h].todo :
        /\ IsNext(h, r)
        /\ \E public_key \in PublicKeys :
            /\ pending[r] # "whole" \/ Peek(h, r, public_key) # "ok"
            /\ hook' = [hook EXCEPT ![h].todo = @ \ {r},
                                    ![h].ready = IF public_key = NoKey THEN @ \ {r} ELSE @]
    /\ UNCHANGED <<allows, worldVars>>

NoMatch(h) ==
    /\ HookAt(h, "scan")
    /\ hook[h].todo = {}
    /\ Answer(h, "no-valid-pending-intent")
    /\ UNCHANGED <<allows, worldVars>>

\* _state_binding_has_drift, the part without a hash: what it may return for a
\* payload that names no tree or no repository.  An intent bound to nothing has
\* drifted only if it had to be bound and its directory is found to be a
\* repository.
DriftsUnhashed(c, payload) ==
    IF payload.tree_sha # NoTree THEN {TRUE}
    ELSE IF ~c.state_bound THEN {FALSE}
    ELSE FoundGit(payload.cwd) \cup (IF HashFaults THEN {TRUE} ELSE {})

ToHash(payload) == payload.tree_sha # NoTree /\ payload.state_repo # NoRepo

CheckDrift(h) ==
    /\ HookAt(h, "drift")
    /\ LET payload == intent[hook[h].cand].payload IN
        /\ ~ToHash(payload)
        /\ \E drift \in DriftsUnhashed(Classify[hook[h].ev], payload) :
            hook' = [hook EXCEPT ![h].pc = IF drift THEN "invalidate" ELSE "unlink"]
    /\ UNCHANGED <<allows, worldVars>>

\* The other part begins to hash the repository that the payload names.
BeginCheck(h) ==
    /\ HookAt(h, "drift")
    /\ LET payload == intent[hook[h].cand].payload IN
        /\ ToHash(payload)
        /\ BeginHash(h, payload.state_repo)
    /\ hook' = [hook EXCEPT ![h].pc = "hash"]
    /\ UNCHANGED <<allows, clock, tree, pending, intent>>

\* Mutated: the refusal comes before the rename.
Compare_NoRename(h) ==
    /\ HookAt(h, "hash")
    /\ \E hash \in Hashed(h) :
        IF hash # intent[hook[h].cand].payload.tree_sha
        THEN Answer(h, "state-drift-since-review")
        ELSE hook' = [hook EXCEPT ![h].pc = "unlink"]
    /\ EndHash(h)
    /\ UNCHANGED <<allows, clock, tree, pending, intent>>

\* Mutated: a hash that fails is no drift.
Compare_FailOpen(h) ==
    /\ HookAt(h, "hash")
    /\ \E hash \in Hashed(h) :
        hook' = [hook EXCEPT ![h].pc =
            IF hash \in {intent[hook[h].cand].payload.tree_sha, HashError} THEN "unlink"
                                                                       ELSE "invalidate"]
    /\ EndHash(h)
    /\ UNCHANGED <<allows, clock, tree, pending, intent>>

\* The hash comes back and is compared; a failure is drift.
Compare(h) ==
    /\ HookAt(h, "hash")
    /\ \E hash \in Hashed(h) :
        hook' = [hook EXCEPT ![h].pc =
            IF hash # intent[hook[h].cand].payload.tree_sha THEN "invalidate" ELSE "unlink"]
    /\ EndHash(h)
    /\ UNCHANGED <<allows, clock, tree, pending, intent>>

\* Mutated: the drifted file is deleted instead of renamed.
Invalidate_Deletes(h) ==
    /\ HookAt(h, "invalidate")
    /\ LET r == hook[h].cand IN
        \/ pending' = [pending EXCEPT ![r] = IF @ = "whole" THEN "absent" ELSE @]
        \/ FsFaults /\ UNCHANGED pending
    /\ Answer(h, "state-drift-since-review")
    /\ UNCHANGED <<allows, clock, tree, hashing, intent>>

\* _invalidate_intent, then block.  The rename fails if another run has taken
\* the file, or for a reason of the file system; the failure is only logged.
Invalidate(h) ==
    /\ HookAt(h, "invalidate")
    /\ LET r == hook[h].cand IN
        \/ pending' = [pending EXCEPT ![r] = IF @ = "whole" THEN "invalidated" ELSE @]
        \/ FsFaults /\ UNCHANGED pending
    /\ Answer(h, "state-drift-since-review")
    /\ UNCHANGED <<allows, clock, tree, hashing, intent>>

\* Mutated: the file is left after use.
Unlink_Keeps(h) ==
    /\ HookAt(h, "unlink")
    /\ LET r == hook[h].cand IN
        allows' = [allows EXCEPT ![r] = IF @ < 2 THEN @ + 1 ELSE @]
    /\ Answer(h, "valid-intent-consumed")
    /\ UNCHANGED worldVars

\* The file is unlinked, then the call is allowed.  A failure to unlink, for
\* the same reasons, is passed over.
Unlink(h) ==
    /\ HookAt(h, "unlink")
    /\ LET r == hook[h].cand IN
        /\ \/ pending' = [pending EXCEPT ![r] = IF @ = "whole" THEN "absent" ELSE @]
           \/ FsFaults /\ UNCHANGED pending
        /\ allows' = [allows EXCEPT ![r] = IF @ < 2 THEN @ + 1 ELSE @]
    /\ Answer(h, "valid-intent-consumed")
    /\ UNCHANGED <<clock, tree, hashing, intent>>

\* The steps of a run that has begun.
Proceed(h) ==
    \/ Glob(h) \/ FindRaises(h) \/ Match(h) \/ Skip(h) \/ NoMatch(h)
    \/ CheckDrift(h) \/ BeginCheck(h) \/ Compare(h) \/ Invalidate(h) \/ Unlink(h)

HookStep(h) ==
    \/ \E e \in Events, mode \in Modes, input \in Inputs, out \in Streams :
        StartAndAnswer(h, e, mode, input, out) \/ Start(h, e, mode, input, out)
    \/ Proceed(h)
----------------------------------------------------------------------------
\* Types; a run has picked a file exactly when it has one to act on.
HookTypeOK ==
    /\ WorldTypeOK
    /\ hook \in [Hooks -> Run]
    /\ allows \in [Requests -> 0..2]
    /\ \A h \in Hooks :
        /\ HookAt(h, "idle") <=> hook[h].ans # "in-progress"
        /\ hook[h].pc \in {"drift", "hash", "invalidate", "unlink"} <=> hook[h].cand # NoRequest
        /\ ~HookAt(h, "idle") => hook[h].ev \in Events

Capital(run) == run.input = "readable" /\ requires_approval(Classify[run.ev])

Stops(run) == ExitCode(run.ans, run.out) = 2

\* The fail posture, over all the ways a run can end, as the harness sees it.
\* Shadow mode never stops a call; nothing but a capital call, or one that
\* cannot be classified, is ever stopped; and in enforce mode such a call passes
\* only on an intent, or because the refusal could not be written.
FailPosture ==
    \A h \in Hooks :
        LET run == hook[h]
            suspect == Capital(run) \/ run.input = "unclassifiable"
        IN  run.ans \notin {"none", "in-progress"} =>
            /\ Stops(run) => run.mode = "enforce" /\ suspect
            /\ run.mode = "enforce" /\ suspect /\ ~Stops(run) =>
                \/ Capital(run) /\ run.ans = "valid-intent-consumed"
                \/ run.ans \in Blocking /\ run.out # "open"

\* In enforce mode a capital call goes through only on an intent that its run holds
\* as it ends: signed by the gatekeeper, for this call, from this directory and
\* host, unexpired at the clock the run read, and never with a tree and no
\* repository, whatever else lies in the pending directory.  The exception is a
\* refusal that could not be written.
AllowNeedsIntent ==
    [][\A h \in Hooks :
        LET run == hook'[h]
            si  == intent[hook[h].cand]
            c   == Classify[run.ev]
        IN  /\ run # hook[h] /\ run.pc = "idle"
            /\ run.mode = "enforce" /\ Capital(run) /\ ~Stops(run)
            /\ ~(run.ans \in Blocking /\ run.out # "open")
            => /\ HookAt(h, "unlink")
               /\ si.signature = <<GatekeeperKey, si.payload>>
               /\ si.payload.exact_action = c.exact_action
               /\ si.payload.cwd = c.cwd
               /\ si.payload.host = c.host
               /\ si.payload.expires_at >= hook[h].now
               /\ si.payload.tree_sha = NoTree \/ si.payload.state_repo # NoRepo]_hookVars

\* The search misses nothing: a file that was whole when the directory was
\* listed, is whole still and has been passed over does not fit, however many
\* files around it are torn, garbled, unreadable or vanish meanwhile.
ScanMissesNothing ==
    \A h \in Hooks :
        HookAt(h, "scan") =>
            \A r \in hook[h].ready \ hook[h].todo :
                pending[r] = "whole" => Peek(h, r, GatekeeperKey) # "ok"

\* A run that has begun comes to an answer.
HookEnds == \A h \in Hooks : ~HookAt(h, "idle") ~> HookAt(h, "idle")

DriftBlock(h) == ~HookAt(h, "idle") /\ hook'[h].ans = "state-drift-since-review"

RenameFails(h) ==
    HookAt(h, "invalidate") /\ pending[hook[h].cand] = "whole" /\ pending' = pending

\* A call retried for ever is not blocked by drift for ever: every such block
\* takes one drifted file out of the way of the fresh ones behind it, unless
\* the renames keep failing.
DriftBlocksEnd ==
    \A h \in Hooks : []<><<DriftBlock(h)>>_hookVars => []<><<RenameFails(h)>>_hookVars
============================================================================
