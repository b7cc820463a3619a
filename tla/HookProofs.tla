----------------------------- MODULE HookProofs -----------------------------
(***************************************************************************)
(* The hook inside the gate, for any number of runs, files, calls and      *)
(* streams: its fail posture, what it allows on, and that its search       *)
(* passes over nothing that fits.                                          *)
(***************************************************************************)
EXTENDS GateProofs

\* How a run stands to its mode and its call: one that searches is a capital
\* call in enforce mode, and an answer is one its mode and call admit.
Upright(h) ==
    LET run == hook[h]
        suspect == Capital(run) \/ run.input = "unclassifiable"
    IN  /\ ~HookAt(h, "idle") => run.mode = "enforce" /\ Capital(run)
        /\ run.ans \in Blocking => run.mode = "enforce" /\ suspect
        /\ run.ans \in Allowing /\ run.mode = "enforce" /\ suspect =>
            Capital(run) /\ run.ans = "valid-intent-consumed"

\* What a search has listed is finished with by the commands, and what it has
\* passed over does not fit or is gone for good.
Searched(h) ==
    HookAt(h, "scan") =>
        \A r \in hook[h].ready :
            /\ Past(r)
            /\ r \in hook[h].todo \/ pending[r] # "whole" \/ Peek(h, r, GatekeeperKey) # "ok"

HInv == GInv /\ \A h \in Hooks : Upright(h) /\ Searched(h)

----------------------------------------------------------------------------
LEMMA AnswersDiffer ==
    /\ Allowing \cap Blocking = {}
    /\ "in-progress" \notin Allowing \cup Blocking
    /\ "none" \notin Allowing \cup Blocking
    BY DEF Allowing, Blocking

\* A run begins: the answers of main before the search, or a search for a
\* capital call in enforce mode.
LEMMA StartUpright ==
    ASSUME HookTypeOK, NEW h \in Hooks, NEW e \in Events, NEW mode \in Modes,
           NEW input \in Inputs, NEW out \in Streams,
           StartAndAnswer(h, e, mode, input, out) \/ Start(h, e, mode, input, out)
    PROVE  Upright(h)' /\ Searched(h)'
<1>1. CASE StartAndAnswer(h, e, mode, input, out)
    <2>1. hook'[h] = Resting(e, mode, input, out, EarlyAnswer(e, mode, input))
        BY <1>1 DEF StartAndAnswer, HookTypeOK
    <2>2. /\ hook'[h].pc = "idle" /\ hook'[h].ev = e /\ hook'[h].mode = mode
          /\ hook'[h].input = input /\ hook'[h].ans = EarlyAnswer(e, mode, input)
        BY <2>1 DEF Resting
    <2>3. input \in {"readable", "unreadable", "unclassifiable"}
        BY HookAssumption
    <2> QED
        BY <1>1, <2>2, <2>3
           DEF StartAndAnswer, EarlyAnswer, Upright, Searched, HookAt, Capital, Allowing, Blocking
<1>2. CASE Start(h, e, mode, input, out)
    <2> DEFINE call == Resting(e, mode, input, out, "in-progress")
    <2>1. hook'[h] = [call EXCEPT !.pc = "glob", !.now = clock]
        BY <1>2 DEF Start, HookTypeOK
    <2>2. /\ hook'[h].pc = "glob" /\ hook'[h].ev = e /\ hook'[h].mode = mode
          /\ hook'[h].input = input /\ hook'[h].ans = "in-progress"
        BY <2>1 DEF Resting
    <2>3. input = "readable" /\ requires_approval(Classify[e]) /\ mode = "enforce"
        BY <1>2, HookAssumption DEF Start, EarlyAnswer
    <2> QED
        BY <2>2, <2>3, AnswersDiffer DEF Upright, Searched, HookAt, Capital
<1> QED
    BY <1>1, <1>2

\* A run ends: every refusal is one of a capital call in enforce mode, and the
\* only other end of a search is the use of an intent.
LEMMA EndUpright ==
    ASSUME HookTypeOK, NEW h \in Hooks, Upright(h),
           FindRaises(h) \/ NoMatch(h) \/ Invalidate(h) \/ Unlink(h)
    PROVE  Upright(h)' /\ Searched(h)'
<1>1. PICK ans \in Blocking \cup {"valid-intent-consumed"} : Answer(h, ans)
    BY DEF FindRaises, NoMatch, Invalidate, Unlink, Blocking
<1>2. ~HookAt(h, "idle")
    BY DEF FindRaises, NoMatch, Invalidate, Unlink, HookAt
<1>3. hook[h].mode = "enforce" /\ Capital(hook[h])
    BY <1>2 DEF Upright
<1>4. hook'[h] = Resting(hook[h].ev, hook[h].mode, hook[h].input, hook[h].out, ans)
    BY <1>1 DEF Answer, HookTypeOK
<1>5. /\ hook'[h].pc = "idle" /\ hook'[h].ev = hook[h].ev /\ hook'[h].mode = hook[h].mode
      /\ hook'[h].input = hook[h].input /\ hook'[h].ans = ans
    BY <1>4 DEF Resting
<1> QED
    BY <1>1, <1>3, <1>5, AnswersDiffer DEF Upright, Searched, HookAt, Capital

\* What Upright speaks of is as it was.
Kept(h) ==
    /\ hook'[h].mode = hook[h].mode /\ hook'[h].ev = hook[h].ev
    /\ hook'[h].input = hook[h].input /\ hook'[h].ans = hook[h].ans

\* The steps between leave the run as it stands.
LEMMA MidUpright ==
    ASSUME HookTypeOK, NEW h \in Hooks, Upright(h),
           Glob(h) \/ Match(h) \/ Skip(h) \/ Checks(h)
    PROVE  Upright(h)'
<1>1. hook[h] \in Run /\ ~HookAt(h, "idle")
    BY DEF HookTypeOK, Glob, Match, Skip, Checks, CheckDrift, BeginCheck, Compare, HookAt
<1>2. ASSUME Glob(h)
      PROVE  Kept(h)
    <2>1. PICK T, W : hook'[h] = [hook[h] EXCEPT !.pc = "scan", !.todo = T, !.ready = W]
        BY <1>2 DEF Glob, HookTypeOK
    <2> QED
        BY ONLY <1>1, <2>1 DEF Run, Kept
<1>3. ASSUME Match(h)
      PROVE  Kept(h)
    <2>1. PICK r : hook'[h] = [hook[h] EXCEPT !.pc = "drift", !.cand = r, !.todo = {}]
        BY <1>3 DEF Match, HookTypeOK
    <2> QED
        BY ONLY <1>1, <2>1 DEF Run, Kept
<1>4. ASSUME Skip(h)
      PROVE  Kept(h)
    <2>1. PICK T, W : hook'[h] = [hook[h] EXCEPT !.todo = T, !.ready = W]
        BY <1>4, SkipEffect
    <2> QED
        BY ONLY <1>1, <2>1 DEF Run, Kept
<1>5. ASSUME Checks(h)
      PROVE  Kept(h)
    BY <1>5, DriftTypes DEF Kept
<1>6. Kept(h)
    BY <1>2, <1>3, <1>4, <1>5
<1> QED
    BY <1>1, <1>6 DEF Upright, Capital, Kept

\* The search itself: what it lists has been written by its command, and what it passes over does
\* not fit or is gone.
LEMMA MidSearched ==
    ASSUME GInv, NEW h \in Hooks, Searched(h), HookTypeOK', UNCHANGED <<req, intent, pending>>,
           Glob(h) \/ Match(h) \/ Skip(h) \/ Checks(h)
    PROVE  Searched(h)'
<1>1. hook[h] \in Run /\ hook'[h] \in Run
    BY DEF GInv, HookTypeOK
<1>2. CASE Glob(h)
    <2> DEFINE T == {r \in Requests : pending[r] \in {"torn", "whole"}}
    <2> DEFINE W == {r \in Requests : pending[r] = "whole"}
    <2>1. hook'[h] = [hook[h] EXCEPT !.pc = "scan", !.todo = T, !.ready = W]
        BY <1>2 DEF Glob, GInv, HookTypeOK
    <2> HIDE DEF T, W
    <2>2. hook'[h].todo = T /\ hook'[h].ready = W
        BY ONLY <1>1, <2>1 DEF Run
    <2>3. \A r \in W : r \in T /\ Past(r)
        BY DEF T, W, GInv, AInv, Outcome, At, Past
    <2> QED
        BY <2>2, <2>3 DEF Searched, Past
<1>3. CASE Match(h) \/ Checks(h)
    <2>1. hook'[h].pc \in {"drift", "hash", "invalidate", "unlink"}
        <3>1. CASE Match(h)
            <4>1. PICK r : hook'[h] = [hook[h] EXCEPT !.pc = "drift", !.cand = r, !.todo = {}]
                BY <3>1 DEF Match, GInv, HookTypeOK
            <4> QED
                BY ONLY <1>1, <4>1 DEF Run
        <3>2. CASE Checks(h)
            BY <3>2, DriftTypes DEF GInv
        <3> QED
            BY <1>3, <3>1, <3>2
    <2> QED
        BY <2>1 DEF Searched, HookAt
<1>4. CASE Skip(h)
    <2>1. HookAt(h, "scan")
        BY <1>4 DEF Skip
    <2>2. PICK r \in hook[h].todo, public_key \in PublicKeys :
            /\ pending[r] # "whole" \/ Peek(h, r, public_key) # "ok"
            /\ hook'[h] = [hook[h] EXCEPT !.todo = @ \ {r},
                                          !.ready = IF public_key = NoKey THEN @ \ {r} ELSE @]
        BY <1>4 DEF Skip, GInv, HookTypeOK
    <2> DEFINE W == IF public_key = NoKey THEN hook[h].ready \ {r} ELSE hook[h].ready
    <2>3. hook'[h] = [hook[h] EXCEPT !.todo = hook[h].todo \ {r}, !.ready = W]
        BY <2>2
    <2> HIDE DEF W
    <2>4. /\ hook'[h].todo = hook[h].todo \ {r} /\ hook'[h].ready = W
          /\ hook'[h].ev = hook[h].ev /\ hook'[h].now = hook[h].now
        BY ONLY <1>1, <2>3 DEF Run
    <2>5. W \subseteq hook[h].ready /\ (r \in W => public_key = GatekeeperKey)
        BY <2>2, IntentsAssumption DEF W, PublicKeys
    <2>6. \A q : Peek(h, q, GatekeeperKey)' = Peek(h, q, GatekeeperKey)
        BY <2>4 DEF Peek
    <2> QED
        BY <2>1, <2>2, <2>4, <2>5, <2>6 DEF Searched, Past
<1> QED
    BY <1>2, <1>3, <1>4

\* A run that rests while files go away, or commands that have yet to write move.
LEMMA OthersSearched ==
    ASSUME GInv, NEW h \in Hooks, Searched(h), hook'[h] = hook[h],
           \A r \in Requests : Past(r) =>
               /\ Past(r)' /\ intent'[r] = intent[r]
               /\ pending'[r] = pending[r] \/ pending'[r] # "whole"
    PROVE  Searched(h)'
<1>1. hook[h].ready \subseteq Requests
    BY DEF GInv, HookTypeOK, Run
<1> QED
    BY <1>1 DEF Searched, HookAt, Peek

LEMMA OthersUpright ==
    ASSUME NEW h, Upright(h), hook'[h] = hook[h]
    PROVE  Upright(h)'
    BY DEF Upright, HookAt, Capital

LEMMA HStep ==
    ASSUME HInv, [GateNext]_gateVars
    PROVE  HInv'
<1>1. GInv /\ GInv'
    BY GStep DEF HInv
<1>2. ASSUME NEW r \in Requests, ApprovalStep(r), UNCHANGED hookVars, NEW h \in Hooks
      PROVE  Upright(h)' /\ Searched(h)'
    <2>1. hook' = hook
        BY <1>2 DEF hookVars
    <2>2. \A q \in Requests : Past(q) =>
            Past(q)' /\ intent'[q] = intent[q] /\ pending'[q] = pending[q]
        BY <1>1, <1>2, PastStays DEF GInv
    <2> QED
        BY <1>1, <2>1, <2>2, OthersSearched, OthersUpright DEF HInv
<1>3. ASSUME NEW g \in Hooks, HookStep(g), UNCHANGED approvalVars, NEW h \in Hooks
      PROVE  Upright(h)' /\ Searched(h)'
    <2>1. /\ HookTypeOK /\ HookTypeOK' /\ Upright(h) /\ Searched(h)
          /\ OnlyHook(g) /\ FilesGo /\ UNCHANGED <<req, intent>>
        BY <1>1, <1>3, HookStepTypes DEF HInv, GInv, approvalVars
    <2>2. CASE h # g
        <3>1. hook'[h] = hook[h]
            BY <2>1, <2>2 DEF OnlyHook
        <3>2. \A q \in Requests : pending'[q] = pending[q] \/ pending'[q] # "whole"
            BY <2>1 DEF FilesGo
        <3> QED
            BY <1>1, <2>1, <3>1, <3>2, OthersSearched, OthersUpright DEF Past
    <2>3. CASE h = g
        <3>1. ASSUME NEW e \in Events, NEW mode \in Modes, NEW input \in Inputs,
                     NEW out \in Streams,
                     StartAndAnswer(h, e, mode, input, out) \/ Start(h, e, mode, input, out)
              PROVE  Upright(h)' /\ Searched(h)'
            BY <2>1, <3>1, StartUpright
        <3>2. CASE FindRaises(h) \/ NoMatch(h) \/ Invalidate(h) \/ Unlink(h)
            BY <2>1, <3>2, EndUpright
        <3>3. CASE Glob(h) \/ Match(h) \/ Skip(h) \/ Checks(h)
            <4>1. UNCHANGED pending
                BY <3>3 DEF Glob, Match, Skip, Checks, CheckDrift, BeginCheck, Compare, worldVars
            <4> QED
                BY <1>1, <2>1, <3>3, <4>1, MidUpright, MidSearched
        <3> QED
            BY <1>3, <2>3, <3>1, <3>2, <3>3 DEF HookStep, Proceed, Checks
    <2> QED
        BY <2>2, <2>3
<1>4. ASSUME Environment, UNCHANGED <<approvalVars, hookVars>>, NEW h \in Hooks
      PROVE  Upright(h)' /\ Searched(h)'
    <2>1. UNCHANGED <<req, intent, pending, hook>>
        BY <1>4 DEF Environment, Tick, Edit, approvalVars, hookVars
    <2> QED
        BY <1>1, <2>1, OthersSearched, OthersUpright DEF HInv, Past
<1>5. ASSUME UNCHANGED gateVars, NEW h \in Hooks
      PROVE  Upright(h)' /\ Searched(h)'
    <2>1. UNCHANGED <<req, intent, pending, hook>>
        BY <1>5 DEF gateVars, approvalVars, hookVars, worldVars
    <2> QED
        BY <1>1, <2>1, OthersSearched, OthersUpright DEF HInv, Past
<1> QED
    BY <1>1, <1>2, <1>3, <1>4, <1>5 DEF HInv, GateNext

LEMMA InitHInv ==
    ASSUME GateInit
    PROVE  HInv
<1>1. ASSUME NEW h \in Hooks
      PROVE  Upright(h) /\ Searched(h)
    <2>1. hook[h] = Resting(NoEvent, "none", "none", "none", "none")
        BY DEF GateInit, HookInit
    <2>2. hook[h].pc = "idle" /\ hook[h].ans = "none"
        BY <2>1 DEF Resting
    <2> QED
        BY <2>2, AnswersDiffer DEF Upright, Searched, HookAt
<1> QED
    BY <1>1, InitGInv DEF HInv

----------------------------------------------------------------------------
\* The invariant of the hooks in the gate.
THEOREM HookInvariance == GateSpec => []HInv
<1>1. HInv /\ [GateNext]_gateVars => HInv'
    BY HStep
<1> QED
    BY <1>1, InitHInv, PTL DEF GateSpec

\* Types of the hooks (pretooluse_hook.py: the stages of _find_valid_intent).
THEOREM HookTypeCorrect == GateSpec => []HookTypeOK
<1>1. HInv => HookTypeOK
    BY DEF HInv, GInv
<1> QED
    BY <1>1, HookInvariance, PTL

\* The fail posture by exit code (pretooluse_hook.py:143-239): the harness is told
\* to stop nothing but a capital call or one that cannot be classified, only in
\* enforce mode; and there such a call passes only on an intent, or because the
\* refusal could not be written.
THEOREM PostureHolds == GateSpec => []FailPosture
<1>1. ASSUME HInv, NEW h \in Hooks, hook[h].ans \notin {"none", "in-progress"}
      PROVE  LET run == hook[h]
                 suspect == Capital(run) \/ run.input = "unclassifiable"
             IN  /\ Stops(run) => run.mode = "enforce" /\ suspect
                 /\ run.mode = "enforce" /\ suspect /\ ~Stops(run) =>
                     \/ Capital(run) /\ run.ans = "valid-intent-consumed"
                     \/ run.ans \in Blocking /\ run.out # "open"
    <2>1. hook[h].ans \in Allowing \cup Blocking
        BY <1>1 DEF HInv, GInv, HookTypeOK, Run
    <2>2. hook[h].ans \in Allowing => ~Stops(hook[h])
        BY DEF Stops, ExitCode
    <2>3. hook[h].ans \in Blocking /\ hook[h].out = "open" => Stops(hook[h])
        BY AnswersDiffer DEF Stops, ExitCode
    <2> QED
        BY <1>1, <2>1, <2>2, <2>3 DEF HInv, Upright
<1>2. HInv => FailPosture
    BY <1>1 DEF FailPosture
<1> QED
    BY <1>2, HookInvariance, PTL

\* What a run at the unlink holds.
LEMMA UnlinkHolds ==
    ASSUME GInv, NEW h \in Hooks, HookAt(h, "unlink")
    PROVE  LET si == intent[hook[h].cand]
               c  == Classify[hook[h].ev]
           IN  /\ si.signature = <<GatekeeperKey, si.payload>>
               /\ si.payload.exact_action = c.exact_action
               /\ si.payload.cwd = c.cwd
               /\ si.payload.host = c.host
               /\ si.payload.expires_at >= hook[h].now
               /\ si.payload.tree_sha = NoTree \/ si.payload.state_repo # NoRepo
<1> DEFINE r == hook[h].cand
<1> DEFINE p == action_intent(r)
<1>1. r # NoRequest
    BY DEF GInv, HookTypeOK, HookAt
<1>2. /\ r \in Requests /\ r \in minted /\ Path(r)
      /\ intent[r] = sign_intent(p, GatekeeperKey)
      /\ SameCall(req[r].ev, hook[h].ev)
      /\ ~ req[r].approved_at + TTL < hook[h].now
    BY <1>1, FitsMeans
<1>3. intent[r].payload = p /\ intent[r].signature = <<GatekeeperKey, p>>
    BY <1>2 DEF sign_intent
<1>4. /\ p.exact_action = Class(r).exact_action /\ p.cwd = Class(r).cwd
      /\ p.host = Class(r).host /\ p.expires_at = req[r].approved_at + TTL
      /\ p.tree_sha = req[r].tree_sha /\ p.state_repo = req[r].state_repo
    BY DEF action_intent, expected_from_classification
<1>5. /\ Class(r).exact_action = Classify[hook[h].ev].exact_action
      /\ Class(r).cwd = Classify[hook[h].ev].cwd
      /\ Class(r).host = Classify[hook[h].ev].host
    BY <1>2 DEF SameCall, expected_from_classification, Class
<1>6. req[r].approved_at \in Nat /\ hook[h].now \in Nat /\ TTL \in Nat
    BY <1>2, WorldAssumption, ApprovalAssumption
       DEF GInv, AInv, ApprovalTypeOK, HookTypeOK, Request, Run
<1>7. p.expires_at >= hook[h].now
    BY <1>2, <1>4, <1>6
<1>8. Bound(r)
    BY <1>2 DEF Path
<1> HIDE DEF p
<1> QED
    BY <1>3, <1>4, <1>5, <1>7, <1>8 DEF Bound

\* The steps that end a run, and what they leave of it.
LEMMA EndingSteps ==
    ASSUME GInv, NEW h \in Hooks, [GateNext]_gateVars,
           hook'[h] # hook[h], hook'[h].pc = "idle",
           hook'[h].mode = "enforce", Capital(hook'[h])
    PROVE  /\ hook'[h].ev = hook[h].ev
           /\ hook'[h].ans \in Blocking \/ HookAt(h, "unlink")
<1>1. HookTypeOK
    BY DEF GInv
<1>2. PICK g \in Hooks : HookStep(g)
    BY DEF GateNext, gateVars, hookVars
<1>3. g = h
    BY <1>2, HookStepTypes DEF OnlyHook
<1>4. ASSUME NEW e \in Events, NEW mode \in Modes, NEW input \in Inputs, NEW out \in Streams,
             StartAndAnswer(h, e, mode, input, out)
      PROVE  FALSE
    <2>1. hook'[h] = Resting(e, mode, input, out, EarlyAnswer(e, mode, input))
        BY <1>1, <1>4 DEF StartAndAnswer, HookTypeOK
    <2>2. hook'[h].ev = e /\ hook'[h].mode = mode /\ hook'[h].input = input
        BY <2>1 DEF Resting
    <2> QED
        BY <1>4, <2>2 DEF StartAndAnswer, EarlyAnswer, Capital
<1>5. ASSUME NEW e \in Events, NEW mode \in Modes, NEW input \in Inputs, NEW out \in Streams,
             Start(h, e, mode, input, out)
      PROVE  FALSE
    <2>1. hook'[h] = [Resting(e, mode, input, out, "in-progress") EXCEPT
                        !.pc = "glob", !.now = clock]
        BY <1>1, <1>5 DEF Start, HookTypeOK
    <2> QED
        BY <2>1 DEF Resting
<1>6. ASSUME Glob(h) \/ Match(h) \/ Skip(h) \/ Checks(h)
      PROVE  FALSE
    <2>1. hook[h] \in Run
        BY <1>1 DEF HookTypeOK
    <2>2. CASE Glob(h)
        BY <1>1, <2>1, <2>2 DEF Glob, HookTypeOK, Run
    <2>3. CASE Match(h)
        BY <1>1, <2>1, <2>3 DEF Match, HookTypeOK, Run
    <2>4. CASE Skip(h)
        BY <1>1, <2>1, <2>4 DEF Skip, HookAt, HookTypeOK, Run
    <2>5. CASE Checks(h)
        BY <1>1, <2>5, DriftTypes
    <2> QED
        BY <1>6, <2>2, <2>3, <2>4, <2>5
<1>7. ASSUME FindRaises(h) \/ NoMatch(h) \/ Invalidate(h) \/ Unlink(h)
      PROVE  /\ hook'[h].ev = hook[h].ev
             /\ hook'[h].ans \in Blocking \/ HookAt(h, "unlink")
    <2>1. PICK ans \in Blocking \cup {"valid-intent-consumed"} :
            Answer(h, ans) /\ (ans \in Blocking \/ HookAt(h, "unlink"))
        BY <1>7 DEF FindRaises, NoMatch, Invalidate, Unlink, Blocking
    <2>2. hook'[h] = Resting(hook[h].ev, hook[h].mode, hook[h].input, hook[h].out, ans)
        BY <1>1, <2>1 DEF Answer, HookTypeOK
    <2> QED
        BY <2>1, <2>2 DEF Resting
<1> QED
    BY <1>2, <1>3, <1>4, <1>5, <1>6, <1>7 DEF HookStep, Proceed, Checks

\* In enforce mode a capital call goes through only on an intent of the gatekeeper
\* for this very call, unexpired at the clock its run read, and never one with a
\* tree and no repository, or because the refusal could not be written
\* (pretooluse_hook.py:94-127, 187-239).
THEOREM AllowsRestOnIntents == GateSpec => AllowNeedsIntent
<1>1. ASSUME GInv, GInv', [GateNext]_gateVars, NEW h \in Hooks,
             hook'[h] # hook[h], hook'[h].pc = "idle",
             hook'[h].mode = "enforce", Capital(hook'[h]), ~Stops(hook'[h]),
             ~(hook'[h].ans \in Blocking /\ hook'[h].out # "open")
      PROVE  LET si == intent[hook[h].cand]
                 c  == Classify[hook'[h].ev]
             IN  /\ HookAt(h, "unlink")
                 /\ si.signature = <<GatekeeperKey, si.payload>>
                 /\ si.payload.exact_action = c.exact_action
                 /\ si.payload.cwd = c.cwd
                 /\ si.payload.host = c.host
                 /\ si.payload.expires_at >= hook[h].now
                 /\ si.payload.tree_sha = NoTree \/ si.payload.state_repo # NoRepo
    <2>1. hook'[h].ev = hook[h].ev /\ (hook'[h].ans \in Blocking \/ HookAt(h, "unlink"))
        BY <1>1, EndingSteps
    <2>2. hook'[h].ans \in Blocking /\ hook'[h].out = "open" => Stops(hook'[h])
        BY AnswersDiffer DEF Stops, ExitCode
    <2>3. HookAt(h, "unlink")
        BY <1>1, <2>1, <2>2
    <2> QED
        BY <1>1, <2>1, <2>3, UnlinkHolds
<1>2. GInv /\ GInv' /\ [GateNext]_gateVars =>
        \A h \in Hooks :
            LET run == hook'[h]
                si  == intent[hook[h].cand]
                c   == Classify[run.ev]
            IN  /\ run # hook[h] /\ run.pc = "idle"
                /\ run.mode = "enforce" /\ Capital(run) /\ ~Stops(run)
                /\ ~(run.ans \in Blocking /\ run.out # "open")
                => /\ HookAt(h, "unlink")
                   /\ si.signature = <<GatekeeperKey, si.payload>>
                   /\ si.payload.exact_action = c.exact_action
                   /\ si.payload.cwd = c.cwd
                   /\ si.payload.host = c.host
                   /\ si.payload.expires_at >= hook[h].now
                   /\ si.payload.tree_sha = NoTree \/ si.payload.state_repo # NoRepo
    BY <1>1
<1> QED
    BY <1>2, GateInvariance, PTL DEF GateSpec, AllowNeedsIntent

\* The search passes over no file that was whole when it was listed, is whole
\* still and fits (pretooluse_hook.py:81-104).
THEOREM SearchIsComplete == GateSpec => []ScanMissesNothing
<1>1. HInv => ScanMissesNothing
    BY DEF HInv, Searched, ScanMissesNothing
<1> QED
    BY <1>1, HookInvariance, PTL
=============================================================================
