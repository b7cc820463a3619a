----------------------------- MODULE GateProofs -----------------------------
(***************************************************************************)
(* What the armed gate guarantees for any number of commands, hooks, calls *)
(* and directories.  The commands bring their invariant AInv; the hooks    *)
(* add that the file a run has picked was written completely by its        *)
(* command, and fits, and that a hash which is being taken is of the       *)
(* directory the file names.  Each side disturbs the other's part in one   *)
(* way only: a command that has written its file never touches it again,   *)
(* and a hook only takes whole files away.                                 *)
(***************************************************************************)
EXTENDS CapitalGate, ApprovalProofs

\* The part of HookTypeOK that is about one run.
Coherent(h) ==
    /\ HookAt(h, "idle") <=> hook[h].ans # "in-progress"
    /\ hook[h].pc \in {"drift", "hash", "invalidate", "unlink"} <=> hook[h].cand # NoRequest
    /\ ~HookAt(h, "idle") => hook[h].ev \in Events

\* The command of r has written its file, or ended without.
Past(r) == req[r].pc \in {"announce", "done"}

\* What a run has picked is what the gatekeeper signed, and fits the call of the
\* run.
Picked(h) ==
    hook[h].cand # NoRequest =>
        /\ Past(hook[h].cand) /\ SignedFile(hook[h].cand)
        /\ pending[hook[h].cand] # "torn"
        /\ Peek(h, hook[h].cand, GatekeeperKey) = "ok"

\* A run hashes the repository named in what it has picked.
Checking(h) ==
    HookAt(h, "hash") =>
        LET payload == intent[hook[h].cand].payload IN
        ToHash(payload) /\ hashing[h].dir = payload.state_repo

GInv ==
    /\ AInv
    /\ HookTypeOK
    /\ \A h \in Hooks : Picked(h) /\ Checking(h)

\* Nothing of the other runs changes.
OnlyHook(h) ==
    /\ hook' = [g \in Hooks |-> hook'[g]]
    /\ \A g \in Hooks : g # h => hook'[g] = hook[g]

\* Nothing of the other hashes changes.
OnlyHash(k) == \A j \in Hashers : j # k => hashing'[j] = hashing[j]

\* The steps of the comparison with the worktree.
Checks(h) == CheckDrift(h) \/ BeginCheck(h) \/ Compare(h)

\* Files only go away, and only whole ones.
FilesGo ==
    \A r \in Requests :
        \/ pending'[r] = pending[r]
        \/ pending[r] = "whole" /\ pending'[r] \in {"absent", "invalidated"}

\* What one step of a run leaves the invariant of the hooks to be checked for.
LEMMA OneHook ==
    ASSUME HookTypeOK, NEW h \in Hooks, OnlyHook(h), WorldTypeOK',
           allows' \in [Requests -> 0..2], hook'[h] \in Run, Coherent(h)'
    PROVE  HookTypeOK'
<1>1. \A g \in Hooks : hook'[g] \in Run
    BY DEF OnlyHook, HookTypeOK
<1>2. hook' \in [Hooks -> Run]
    BY ONLY <1>1, OnlyHook(h) DEF OnlyHook
<1>3. \A g \in Hooks : Coherent(g)'
    BY DEF OnlyHook, HookTypeOK, Coherent, HookAt
<1> QED
    BY <1>2, <1>3 DEF HookTypeOK, Coherent

\* A run that answers holds nothing any more.
LEMMA Rests ==
    ASSUME HookTypeOK, NEW h \in Hooks, NEW ans \in Allowing \cup Blocking, Answer(h, ans)
    PROVE  /\ OnlyHook(h)
           /\ hook'[h] \in Run
           /\ Coherent(h)'
           /\ hook'[h].pc = "idle" /\ hook'[h].cand = NoRequest /\ hook'[h].todo = {}
<1>1. hook[h] \in Run
    BY DEF HookTypeOK
<1>2. OnlyHook(h)
    BY DEF Answer, OnlyHook, HookTypeOK
<1>3. hook'[h] = [pc |-> "idle", ev |-> hook[h].ev, mode |-> hook[h].mode,
                  input |-> hook[h].input, out |-> hook[h].out, now |-> 0, todo |-> {},
                  ready |-> {}, cand |-> NoRequest, ans |-> ans]
    BY DEF Answer, Resting, HookTypeOK
<1>4. hook'[h] \in Run
    BY ONLY ans \in Allowing \cup Blocking, WorldAssumption, <1>1, <1>3 DEF Run
<1>5. ans # "in-progress"
    BY DEF Allowing, Blocking
<1>6. Coherent(h)'
    BY <1>3, <1>5 DEF Coherent, HookAt
<1> QED
    BY <1>2, <1>3, <1>4, <1>6

LEMMA StartTypes ==
    ASSUME HookTypeOK, NEW h \in Hooks, NEW e \in Events, NEW mode \in Modes,
           NEW input \in Inputs, NEW out \in Streams,
           StartAndAnswer(h, e, mode, input, out) \/ Start(h, e, mode, input, out)
    PROVE  /\ OnlyHook(h)
           /\ hook'[h] \in Run
           /\ Coherent(h)'
           /\ hook'[h].cand = NoRequest /\ hook'[h].todo = {}
<1>1. OnlyHook(h)
    BY DEF StartAndAnswer, Start, OnlyHook, HookTypeOK
<1>2. CASE StartAndAnswer(h, e, mode, input, out)
    <2> DEFINE ans == EarlyAnswer(e, mode, input)
    <2>1. ans \in Allowing \cup Blocking
        BY <1>2 DEF StartAndAnswer, EarlyAnswer, Allowing, Blocking
    <2>2. hook'[h] = [pc |-> "idle", ev |-> e, mode |-> mode, input |-> input, out |-> out,
                      now |-> 0, todo |-> {}, ready |-> {}, cand |-> NoRequest, ans |-> ans]
        BY <1>2 DEF StartAndAnswer, Resting, HookTypeOK
    <2> HIDE DEF ans
    <2>3. hook'[h] \in Run
        BY ONLY <2>1, <2>2, e \in Events, mode \in Modes, input \in Inputs, out \in Streams,
                WorldAssumption DEF Run
    <2>4. ans # "in-progress"
        BY <2>1 DEF Allowing, Blocking
    <2> QED
        BY <1>1, <2>2, <2>3, <2>4 DEF Coherent, HookAt
<1>3. CASE Start(h, e, mode, input, out)
    <2>1. hook'[h] = [pc |-> "glob", ev |-> e, mode |-> mode, input |-> input, out |-> out,
                      now |-> clock, todo |-> {}, ready |-> {}, cand |-> NoRequest, ans |-> "in-progress"]
        BY <1>3 DEF Start, Resting, HookTypeOK
    <2>2. clock \in 0..MaxClock
        BY DEF HookTypeOK, WorldTypeOK
    <2>3. hook'[h] \in Run
        BY ONLY <2>1, <2>2, e \in Events, mode \in Modes, input \in Inputs, out \in Streams DEF Run
    <2> QED
        BY <1>1, <2>1, <2>3 DEF Coherent, HookAt
<1> QED
    BY <1>2, <1>3

\* Passing over a file changes nothing of a run but the files it has left, and
\* the history of those it could have read.
LEMMA SkipEffect ==
    ASSUME HookTypeOK, NEW h \in Hooks, Skip(h)
    PROVE  \E r \in hook[h].todo, W \in SUBSET Requests :
                hook'[h] = [hook[h] EXCEPT !.todo = @ \ {r}, !.ready = W]
<1>1. PICK r \in hook[h].todo, key \in PublicKeys :
        hook'[h] = [hook[h] EXCEPT !.todo = @ \ {r},
                                   !.ready = IF key = NoKey THEN @ \ {r} ELSE @]
    BY DEF Skip, HookTypeOK
<1> DEFINE W == IF key = NoKey THEN hook[h].ready \ {r} ELSE hook[h].ready
<1>2. W \in SUBSET Requests
    BY DEF HookTypeOK, Run
<1>3. hook'[h] = [hook[h] EXCEPT !.todo = @ \ {r}, !.ready = W]
    BY <1>1
<1> QED
    BY <1>2, <1>3

\* Listing and reading.
LEMMA SearchTypes ==
    ASSUME HookTypeOK, NEW h \in Hooks, Glob(h) \/ Match(h) \/ Skip(h)
    PROVE  /\ OnlyHook(h)
           /\ hook'[h] \in Run
           /\ Coherent(h)'
<1>1. OnlyHook(h)
    BY DEF Glob, Match, Skip, OnlyHook, HookTypeOK
<1>2. hook[h] \in Run /\ Coherent(h)
    BY DEF HookTypeOK, Coherent
<1>3. CASE Glob(h)
    <2>1. PICK T \in SUBSET Requests, W \in SUBSET Requests :
            hook'[h] = [hook[h] EXCEPT !.pc = "scan", !.todo = T, !.ready = W]
        BY <1>3 DEF Glob, HookTypeOK
    <2>2. hook'[h] \in Run
        BY ONLY <1>2, <2>1 DEF Run
    <2>3. /\ hook'[h].pc = "scan" /\ hook'[h].ans = hook[h].ans
          /\ hook'[h].cand = hook[h].cand /\ hook'[h].ev = hook[h].ev
        BY ONLY <1>2, <2>1 DEF Run
    <2>4. HookAt(h, "glob")
        BY <1>3 DEF Glob
    <2> QED
        BY <1>1, <1>2, <2>2, <2>3, <2>4 DEF Coherent, HookAt
<1>4. CASE Match(h)
    <2>1. PICK r \in hook[h].todo :
            hook'[h] = [hook[h] EXCEPT !.pc = "drift", !.cand = r, !.todo = {}]
        BY <1>4 DEF Match, HookTypeOK
    <2>2. r \in Requests
        BY <1>2, <2>1 DEF Run
    <2>3. hook'[h] \in Run
        BY ONLY <1>2, <2>1, <2>2 DEF Run
    <2>4. /\ hook'[h].pc = "drift" /\ hook'[h].ans = hook[h].ans
          /\ hook'[h].cand = r /\ hook'[h].ev = hook[h].ev
        BY ONLY <1>2, <2>1 DEF Run
    <2>5. HookAt(h, "scan")
        BY <1>4 DEF Match
    <2> QED
        BY <1>1, <1>2, <2>2, <2>3, <2>4, <2>5, HookAssumption DEF Coherent, HookAt
<1>5. CASE Skip(h)
    <2>1. PICK r \in hook[h].todo, W \in SUBSET Requests :
            hook'[h] = [hook[h] EXCEPT !.todo = @ \ {r}, !.ready = W]
        BY <1>5, SkipEffect
    <2>2. hook'[h] \in Run
        BY ONLY <1>2, <2>1 DEF Run
    <2>3. /\ hook'[h].pc = hook[h].pc /\ hook'[h].ans = hook[h].ans
          /\ hook'[h].cand = hook[h].cand /\ hook'[h].ev = hook[h].ev
        BY ONLY <1>2, <2>1 DEF Run
    <2> QED
        BY <1>1, <1>2, <2>2, <2>3 DEF Coherent, HookAt
<1> QED
    BY <1>3, <1>4, <1>5

LEMMA DriftTypes ==
    ASSUME HookTypeOK, NEW h \in Hooks, Checks(h)
    PROVE  /\ OnlyHook(h)
           /\ hook'[h] \in Run
           /\ Coherent(h)'
           /\ hook'[h].cand = hook[h].cand /\ hook'[h].todo = hook[h].todo
           /\ hook'[h].ev = hook[h].ev /\ hook'[h].now = hook[h].now
           /\ hook'[h].pc \in {"hash", "invalidate", "unlink"}
           /\ hook'[h].mode = hook[h].mode /\ hook'[h].input = hook[h].input
           /\ hook'[h].ans = hook[h].ans
<1>1. hook[h] \in Run /\ Coherent(h)
    BY DEF HookTypeOK, Coherent
<1>2. PICK pc \in {"hash", "invalidate", "unlink"} : hook' = [hook EXCEPT ![h].pc = pc]
    BY DEF Checks, CheckDrift, BeginCheck, Compare
<1>3. hook'[h] = [hook[h] EXCEPT !.pc = pc] /\ OnlyHook(h)
    BY <1>2 DEF OnlyHook, HookTypeOK
<1>4. hook'[h] \in Run
    BY ONLY <1>1, <1>2, <1>3 DEF Run
<1>5. /\ hook'[h].pc = pc /\ hook'[h].ans = hook[h].ans
      /\ hook'[h].cand = hook[h].cand /\ hook'[h].todo = hook[h].todo
      /\ hook'[h].ev = hook[h].ev /\ hook'[h].now = hook[h].now
      /\ hook'[h].mode = hook[h].mode /\ hook'[h].input = hook[h].input
    BY ONLY <1>1, <1>3 DEF Run
<1>6. hook[h].pc \in {"drift", "hash"}
    BY DEF Checks, CheckDrift, BeginCheck, Compare, HookAt
<1>7. Coherent(h)'
    BY <1>1, <1>2, <1>5, <1>6 DEF Coherent, HookAt
<1> QED
    BY <1>2, <1>3, <1>4, <1>5, <1>7

\* What a run has picked names a directory, if any.
LEMMA PickedDir ==
    ASSUME GInv, NEW h \in Hooks, hook[h].cand # NoRequest
    PROVE  LET r == hook[h].cand IN
           /\ r \in Requests /\ Path(r) /\ Bound(r) /\ SignedFile(r) /\ Past(r)
           /\ req[r].state_repo \in Dirs \cup {NoRepo}
           /\ intent[r].payload = action_intent(r)
           /\ intent[r].payload.tree_sha = req[r].tree_sha
           /\ intent[r].payload.state_repo = req[r].state_repo
<1> DEFINE r == hook[h].cand
<1>1. r \in Requests
    BY DEF GInv, HookTypeOK, Run
<1>2. SignedFile(r) /\ Past(r)
    BY DEF GInv, Picked
<1>3. Path(r) /\ Bound(r)
    BY <1>1, <1>2 DEF GInv, AInv, Path, SignedFile
<1>4. req[r].state_repo \in Dirs \cup {NoRepo}
    BY <1>1 DEF GInv, AInv, ApprovalTypeOK, Request
<1>5. intent[r].payload = action_intent(r)
    BY <1>2 DEF SignedFile, sign_intent
<1>6. /\ intent[r].payload.tree_sha = req[r].tree_sha
      /\ intent[r].payload.state_repo = req[r].state_repo
    BY <1>5 DEF action_intent
<1> QED
    BY <1>1, <1>2, <1>3, <1>4, <1>5, <1>6

\* A step of a run is about no other hash than its own.
LEMMA HookHashes ==
    ASSUME GInv, NEW h \in Hooks, HookStep(h)
    PROVE  hashing' \in [Hashers -> Hash] /\ OnlyHash(h)
<1>1. WorldTypeOK /\ h \in Hashers
    BY HookAssumption DEF GInv, HookTypeOK
<1>2. CASE Compare(h)
    BY <1>1, <1>2, HashTypes DEF Compare, OnlyHash
<1>3. CASE BeginCheck(h)
    <2>1. hook[h].cand # NoRequest
        BY <1>3 DEF BeginCheck, HookAt, GInv, HookTypeOK
    <2>2. intent[hook[h].cand].payload.state_repo \in Dirs
        BY <1>3, <2>1, PickedDir DEF BeginCheck, ToHash
    <2> QED
        BY <1>1, <1>3, <2>2, HashTypes DEF BeginCheck, OnlyHash
<1>4. CASE UNCHANGED hashing
    BY <1>1, <1>4 DEF WorldTypeOK, OnlyHash
<1>5. Compare(h) \/ BeginCheck(h) \/ UNCHANGED hashing
    BY DEF HookStep, Proceed, StartAndAnswer, Start, Glob, FindRaises, Match, Skip, NoMatch,
       CheckDrift, Invalidate, Unlink, worldVars
<1> QED
    BY <1>2, <1>3, <1>4, <1>5

\* Every step of a run keeps the types, and only takes whole files away.
LEMMA HookStepTypes ==
    ASSUME GInv, NEW h \in Hooks, HookStep(h)
    PROVE  /\ HookTypeOK' /\ OnlyHook(h) /\ OnlyHash(h) /\ FilesGo
           /\ UNCHANGED <<clock, tree, intent>>
<1>1. HookTypeOK /\ WorldTypeOK
    BY DEF GInv, HookTypeOK
<1>2. hashing' \in [Hashers -> Hash] /\ OnlyHash(h)
    BY HookHashes
<1>3. ASSUME NEW e \in Events, NEW mode \in Modes, NEW input \in Inputs, NEW out \in Streams,
             StartAndAnswer(h, e, mode, input, out) \/ Start(h, e, mode, input, out)
      PROVE  HookTypeOK' /\ OnlyHook(h) /\ FilesGo /\ UNCHANGED <<clock, tree, intent>>
    <2>1. UNCHANGED <<allows, clock, tree, pending, intent>>
        BY <1>3 DEF StartAndAnswer, Start, worldVars
    <2>2. OnlyHook(h) /\ hook'[h] \in Run /\ Coherent(h)'
        BY <1>1, <1>3, StartTypes
    <2>3. WorldTypeOK' /\ allows' \in [Requests -> 0..2]
        BY <1>1, <1>2, <2>1 DEF HookTypeOK, WorldTypeOK
    <2> QED
        BY <1>1, <2>1, <2>2, <2>3, OneHook DEF FilesGo
<1>4. ASSUME Glob(h) \/ Match(h) \/ Skip(h) \/ Checks(h)
      PROVE  HookTypeOK' /\ OnlyHook(h) /\ FilesGo /\ UNCHANGED <<clock, tree, intent>>
    <2>1. UNCHANGED <<allows, clock, tree, pending, intent>>
        BY <1>4 DEF Glob, Match, Skip, Checks, CheckDrift, BeginCheck, Compare, worldVars
    <2>2. OnlyHook(h) /\ hook'[h] \in Run /\ Coherent(h)'
        BY <1>1, <1>4, SearchTypes, DriftTypes
    <2>3. WorldTypeOK' /\ allows' \in [Requests -> 0..2]
        BY <1>1, <1>2, <2>1 DEF HookTypeOK, WorldTypeOK
    <2> QED
        BY <1>1, <2>1, <2>2, <2>3, OneHook DEF FilesGo
<1>5. ASSUME FindRaises(h) \/ NoMatch(h) \/ Invalidate(h) \/ Unlink(h)
      PROVE  HookTypeOK' /\ OnlyHook(h) /\ FilesGo /\ UNCHANGED <<clock, tree, intent>>
    <2>1. PICK ans \in Allowing \cup Blocking : Answer(h, ans)
        BY <1>5 DEF FindRaises, NoMatch, Invalidate, Unlink, Allowing, Blocking
    <2>2. OnlyHook(h) /\ hook'[h] \in Run /\ Coherent(h)'
        BY <1>1, <2>1, Rests
    <2>3. UNCHANGED <<clock, tree, intent>>
        BY <1>5 DEF FindRaises, NoMatch, Invalidate, Unlink, worldVars
    <2>4. FilesGo
        BY <1>1, <1>5 DEF FindRaises, NoMatch, Invalidate, Unlink, worldVars, FilesGo, WorldTypeOK
    <2>5. pending' = [r \in Requests |-> pending'[r]]
        BY <1>1, <1>5 DEF FindRaises, NoMatch, Invalidate, Unlink, worldVars, WorldTypeOK
    <2>6. WorldTypeOK'
        BY <1>1, <1>2, <2>3, <2>4, <2>5 DEF FilesGo, WorldTypeOK, FileStates
    <2>7. allows' \in [Requests -> 0..2]
        BY <1>1, <1>5 DEF FindRaises, NoMatch, Invalidate, Unlink, HookTypeOK
    <2> QED
        BY <1>1, <2>2, <2>3, <2>4, <2>6, <2>7, OneHook
<1> QED
    BY <1>2, <1>3, <1>4, <1>5 DEF HookStep, Proceed, Checks

\* The commands' invariant survives whole files going away.
LEMMA FilesGoKeepsAInv ==
    ASSUME AInv, WorldTypeOK', FilesGo, UNCHANGED <<approvalVars, intent>>,
           \A r \in Requests : hashing'[r].dir = hashing[r].dir
    PROVE  AInv'
<1>1. req' = req /\ minted' = minted /\ intent' = intent
    BY DEF approvalVars
<1>2. ASSUME NEW r \in Requests
      PROVE  Path(r)' /\ Outcome(r)'
    <2>1. Path(r)'
        BY <1>1, PathKept DEF AInv
    <2>2. CASE pending'[r] = pending[r]
        BY <1>1, <2>2, Untouched DEF AInv
    <2>3. CASE pending[r] = "whole" /\ pending'[r] \in {"absent", "invalidated"}
        <3>1. SignedFile(r)' <=> SignedFile(r)
            BY <1>1 DEF SignedFile, action_intent, Class
        <3>2. Outcome(r) /\ SignedFile(r) /\ Past(r)
            BY <2>3 DEF AInv, Outcome, At, Past
        <3> QED
            BY ONLY <1>1, <2>1, <2>3, <3>1, <3>2 DEF Outcome, At, Refusals, Past
    <2> QED
        BY <2>2, <2>3 DEF FilesGo
<1>3. ApprovalTypeOK'
    BY <1>1 DEF AInv, ApprovalTypeOK
<1> QED
    BY <1>1, <1>2, <1>3 DEF AInv

\* A step of a command is about no request and no hash but its own.
LEMMA CommandOnly ==
    ASSUME AInv, NEW r \in Requests, ApprovalStep(r)
    PROVE  /\ OnlyHash(r)
           /\ \A q \in Requests : q # r =>
                req'[q] = req[q] /\ intent'[q] = intent[q] /\ pending'[q] = pending[q]
           /\ minted \subseteq minted'
<1> USE DEF AInv, ApprovalTypeOK, WorldTypeOK
<1>1. CASE Code(r)
    BY <1>1 DEF Code, BeginBind, BindNothing, RefuseBinding, Bind, BindTo, Bless, Fetch, Review,
       Sign, SignReplyLost, OpenPending, WritePending, Announce, Exit, worldVars, OnlyHash,
       BeginHash, EndHash
<1>2. CASE ~Code(r)
    BY <1>2 DEF ApprovalStep, Submit, Confirm, Die, Exit, worldVars, OnlyHash, EndHash
<1> QED
    BY <1>1, <1>2

\* A command that has written its file only goes on to say so; what it wrote stays
\* as it was, and so does what it had recorded.
LEMMA PastStays ==
    ASSUME AInv, NEW r \in Requests, ApprovalStep(r), NEW q \in Requests, Past(q)
    PROVE  /\ Past(q)'
           /\ intent'[q] = intent[q] /\ pending'[q] = pending[q]
           /\ SignedFile(q) => SignedFile(q)'
<1>1. CASE q # r
    <2>1. /\ req'[q] = req[q] /\ intent'[q] = intent[q] /\ pending'[q] = pending[q]
          /\ minted \subseteq minted'
        BY <1>1, CommandOnly
    <2> QED
        BY <2>1 DEF Past, SignedFile, action_intent, Class
<1>2. CASE q = r
    <2>1. Announce(r) \/ Die(r)
        BY <1>2 DEF Past, ApprovalStep, Code, At, Submit, BeginBind, BindNothing, RefuseBinding,
           Bind, Bless, Fetch, Review, Confirm, Sign, SignReplyLost, OpenPending, WritePending
    <2>2. PICK rc \in ExitCodes : Exit(r, rc)
        BY <2>1 DEF Announce, Die, ExitCodes
    <2>3. UNCHANGED <<minted, pending, intent>>
        BY <2>1 DEF Announce, Die, worldVars
    <2>4. req'[r].pc = "done" /\ (SignedFile(r)' <=> SignedFile(r))
        BY <2>2, <2>3, ExitStep
    <2> QED
        BY <1>2, <2>3, <2>4 DEF Past
<1> QED
    BY <1>1, <1>2

\* What a command does leaves every run with what it has picked.
LEMMA CommandPicked ==
    ASSUME GInv, NEW r \in Requests, ApprovalStep(r), UNCHANGED hookVars, NEW h \in Hooks
    PROVE  Picked(h)' /\ Checking(h)'
<1> DEFINE q == hook[h].cand
<1>1. AInv /\ Picked(h) /\ Checking(h) /\ hook' = hook
    BY DEF GInv, hookVars
<1>2. CASE q = NoRequest
    <2>1. ~HookAt(h, "hash")
        BY <1>2 DEF GInv, HookTypeOK, HookAt
    <2> QED
        BY <1>1, <1>2, <2>1 DEF Picked, Checking, HookAt
<1>3. CASE q # NoRequest
    <2>1. q \in Requests /\ Past(q)
        BY <1>3, PickedDir
    <2>2. /\ Past(q)' /\ intent'[q] = intent[q] /\ pending'[q] = pending[q]
          /\ SignedFile(q) => SignedFile(q)'
        BY <1>1, <2>1, PastStays
    <2>3. hashing'[h] = hashing[h]
        BY <1>1, CommandOnly, GateAssumption, HookAssumption DEF OnlyHash
    <2> QED
        BY <1>1, <1>3, <2>2, <2>3 DEF Picked, Checking, HookAt, Peek
<1> QED
    BY <1>2, <1>3

\* What Picked says of a run that keeps what it has picked.
LEMMA StillPicked ==
    ASSUME NEW h, Picked(h), UNCHANGED <<req, minted, intent>>, FilesGo,
           hook[h].cand # NoRequest => hook[h].cand \in Requests,
           hook'[h].cand = hook[h].cand, hook'[h].ev = hook[h].ev, hook'[h].now = hook[h].now
    PROVE  Picked(h)'
    BY DEF Picked, Past, SignedFile, action_intent, Class, Peek, FilesGo

\* What a run does leaves every run with a file that was signed and fits.
LEMMA HookPicked ==
    ASSUME GInv, NEW g \in Hooks, HookStep(g), UNCHANGED approvalVars, NEW h \in Hooks
    PROVE  Picked(h)'
<1>1. /\ HookTypeOK /\ Picked(h) /\ UNCHANGED <<req, minted, intent>> /\ OnlyHook(g) /\ FilesGo
      /\ hook[h].cand # NoRequest => hook[h].cand \in Requests
    BY HookStepTypes, PickedDir DEF GInv, approvalVars
<1>2. CASE h # g
    BY <1>1, <1>2, StillPicked DEF OnlyHook
<1>3. CASE h = g
    <2>1. ASSUME NEW e \in Events, NEW mode \in Modes, NEW input \in Inputs, NEW out \in Streams,
                 StartAndAnswer(h, e, mode, input, out) \/ Start(h, e, mode, input, out)
          PROVE  Picked(h)'
        BY <1>1, <2>1, StartTypes DEF Picked
    <2>2. ASSUME FindRaises(h) \/ NoMatch(h) \/ Invalidate(h) \/ Unlink(h)
          PROVE  Picked(h)'
        <3>1. PICK ans \in Allowing \cup Blocking : Answer(h, ans)
            BY <2>2 DEF FindRaises, NoMatch, Invalidate, Unlink, Allowing, Blocking
        <3> QED
            BY <1>1, <3>1, Rests DEF Picked
    <2>3. hook[h] \in Run
        BY <1>1 DEF HookTypeOK
    <2>4. CASE Glob(h)
        <3>1. PICK T \in SUBSET Requests, W \in SUBSET Requests :
                hook'[h] = [hook[h] EXCEPT !.pc = "scan", !.todo = T, !.ready = W]
            BY <1>1, <2>4 DEF Glob, HookTypeOK
        <3>2. /\ hook'[h].cand = hook[h].cand /\ hook'[h].ev = hook[h].ev
              /\ hook'[h].now = hook[h].now
            BY ONLY <2>3, <3>1 DEF Run
        <3> QED
            BY <1>1, <3>2, StillPicked
    <2>5. CASE Skip(h)
        <3>1. PICK r \in hook[h].todo, W \in SUBSET Requests :
                hook'[h] = [hook[h] EXCEPT !.todo = @ \ {r}, !.ready = W]
            BY <1>1, <2>5, SkipEffect
        <3>2. /\ hook'[h].cand = hook[h].cand /\ hook'[h].ev = hook[h].ev
              /\ hook'[h].now = hook[h].now
            BY ONLY <2>3, <3>1 DEF Run
        <3> QED
            BY <1>1, <3>2, StillPicked
    <2>6. CASE Checks(h)
        BY <1>1, <2>6, DriftTypes, StillPicked
    <2>7. CASE Match(h)
        <3>1. PICK r \in hook[h].todo :
                /\ pending[r] = "whole" /\ Peek(h, r, GatekeeperKey) = "ok"
                /\ hook'[h] = [hook[h] EXCEPT !.pc = "drift", !.cand = r, !.todo = {}]
            BY <1>1, <2>7 DEF Match, HookTypeOK
        <3>2. /\ hook'[h].cand = r /\ hook'[h].ev = hook[h].ev /\ hook'[h].now = hook[h].now
            BY ONLY <2>3, <3>1 DEF Run
        <3>3. r \in Requests
            BY <2>3, <3>1 DEF Run
        <3>4. Past(r) /\ SignedFile(r)
            BY <3>1, <3>3 DEF GInv, AInv, Outcome, At, Past
        <3>5. Past(r)' /\ SignedFile(r)' /\ Peek(h, r, GatekeeperKey)' = Peek(h, r, GatekeeperKey)
            BY <1>1, <3>2, <3>4 DEF Past, SignedFile, action_intent, Class, Peek
        <3>6. pending'[r] # "torn"
            BY <1>1, <3>1, <3>3 DEF FilesGo
        <3> QED
            BY <3>1, <3>2, <3>5, <3>6 DEF Picked
    <2> QED
        BY <1>3, <2>1, <2>2, <2>4, <2>5, <2>6, <2>7 DEF HookStep, Proceed, Checks
<1> QED
    BY <1>2, <1>3

\* A run hashes nothing but the repository named in what it has picked.
LEMMA HookChecking ==
    ASSUME GInv, NEW g \in Hooks, HookStep(g), UNCHANGED approvalVars, NEW h \in Hooks
    PROVE  Checking(h)'
<1>1. /\ HookTypeOK /\ Checking(h) /\ UNCHANGED intent /\ OnlyHook(g) /\ OnlyHash(g)
      /\ h \in Hashers /\ WorldTypeOK
    BY HookStepTypes, HookAssumption DEF GInv, HookTypeOK
<1>2. CASE h # g
    BY <1>1, <1>2 DEF OnlyHook, OnlyHash, Checking, HookAt
<1>3. CASE h = g /\ BeginCheck(h)
    <2>1. hook'[h].cand = hook[h].cand
        BY <1>1, <1>3, DriftTypes DEF Checks
    <2>2. /\ ToHash(intent[hook[h].cand].payload)
          /\ hashing'[h].dir = intent[hook[h].cand].payload.state_repo
        BY <1>1, <1>3 DEF BeginCheck, BeginHash, WorldTypeOK
    <2> QED
        BY <1>1, <2>1, <2>2 DEF Checking, ToHash
<1>4. CASE h = g /\ ~BeginCheck(h)
    <2>1. hook'[h].pc # "hash"
        <3>1. ASSUME NEW e \in Events, NEW mode \in Modes, NEW input \in Inputs,
                     NEW out \in Streams,
                     StartAndAnswer(h, e, mode, input, out) \/ Start(h, e, mode, input, out)
              PROVE  hook'[h].pc # "hash"
            <4>1. CASE StartAndAnswer(h, e, mode, input, out)
                <5>1. hook'[h] = Resting(e, mode, input, out, EarlyAnswer(e, mode, input))
                    BY <1>1, <4>1 DEF StartAndAnswer, HookTypeOK
                <5> QED
                    BY <5>1 DEF Resting
            <4>2. CASE Start(h, e, mode, input, out)
                <5>1. hook'[h] = [Resting(e, mode, input, out, "in-progress") EXCEPT
                                    !.pc = "glob", !.now = clock]
                    BY <1>1, <4>2 DEF Start, HookTypeOK
                <5> QED
                    BY <5>1 DEF Resting
            <4> QED
                BY <3>1, <4>1, <4>2
        <3>2. ASSUME FindRaises(h) \/ NoMatch(h) \/ Invalidate(h) \/ Unlink(h)
              PROVE  hook'[h].pc # "hash"
            BY <1>1, <3>2 DEF FindRaises, NoMatch, Invalidate, Unlink, Answer, Resting, HookTypeOK
        <3>3. ASSUME Glob(h) \/ Match(h) \/ CheckDrift(h) \/ Compare(h)
              PROVE  hook'[h].pc # "hash"
            <4>1. hook[h] \in Run
                BY <1>1 DEF HookTypeOK
            <4>2. CASE Glob(h)
                BY <1>1, <4>1, <4>2 DEF Glob, HookTypeOK, Run
            <4>3. CASE Match(h)
                BY <1>1, <4>1, <4>3 DEF Match, HookTypeOK, Run
            <4>4. CASE CheckDrift(h) \/ Compare(h)
                <5>1. PICK pc \in {"invalidate", "unlink"} : hook' = [hook EXCEPT ![h].pc = pc]
                    BY <4>4 DEF CheckDrift, Compare
                <5> QED
                    BY <1>1, <4>1, <5>1 DEF HookTypeOK, Run
            <4> QED
                BY <3>3, <4>2, <4>3, <4>4
        <3>4. ASSUME Skip(h)
              PROVE  hook'[h].pc # "hash"
            BY <1>1, <3>4 DEF Skip, HookAt, HookTypeOK, Run
        <3> QED
            BY <1>4, <3>1, <3>2, <3>3, <3>4 DEF HookStep, Proceed
    <2> QED
        BY <2>1 DEF Checking, HookAt
<1> QED
    BY <1>2, <1>3, <1>4

LEMMA GStep ==
    ASSUME GInv, [GateNext]_gateVars
    PROVE  GInv'
<1>1. ASSUME NEW r \in Requests, ApprovalStep(r), UNCHANGED hookVars
      PROVE  GInv'
    <2>1. AInv'
        BY <1>1, CommandStep DEF GInv
    <2>2. HookTypeOK'
        BY <1>1, <2>1 DEF GInv, AInv, ApprovalTypeOK, HookTypeOK, HookAt, hookVars
    <2> QED
        BY <1>1, <2>1, <2>2, CommandPicked DEF GInv
<1>2. ASSUME NEW g \in Hooks, HookStep(g), UNCHANGED approvalVars
      PROVE  GInv'
    <2>1. HookTypeOK' /\ OnlyHash(g) /\ FilesGo /\ UNCHANGED <<clock, tree, intent>>
        BY <1>2, HookStepTypes
    <2>2. \A r \in Requests : hashing'[r].dir = hashing[r].dir
        BY <1>2, <2>1, GateAssumption, ApprovalAssumption DEF OnlyHash
    <2>3. AInv'
        BY <1>2, <2>1, <2>2, FilesGoKeepsAInv DEF GInv, HookTypeOK
    <2> QED
        BY <1>2, <2>1, <2>3, HookPicked, HookChecking DEF GInv
<1>3. ASSUME Environment, UNCHANGED <<approvalVars, hookVars>>
      PROVE  GInv'
    <2>1. AInv'
        BY <1>3, EnvironmentStep DEF GInv
    <2>2. HookTypeOK'
        BY <1>3, <2>1 DEF GInv, AInv, ApprovalTypeOK, HookTypeOK, HookAt, hookVars
    <2>3. UNCHANGED <<req, minted, intent, pending, hook>>
        BY <1>3 DEF Environment, Tick, Edit, approvalVars, hookVars
    <2>4. \A h \in Hooks : hashing'[h].dir = hashing[h].dir
        BY <1>3, EditHashes, HookAssumption DEF GInv, HookTypeOK
    <2>5. \A h \in Hooks : Picked(h)'
        BY <2>3 DEF GInv, Picked, Past, SignedFile, action_intent, Class, Peek
    <2>6. \A h \in Hooks : Checking(h)'
        BY <2>3, <2>4 DEF GInv, Checking, HookAt
    <2> QED
        BY <2>1, <2>2, <2>5, <2>6 DEF GInv
<1>4. ASSUME UNCHANGED gateVars
      PROVE  GInv'
    <2>1. AInv'
        BY <1>4, StutterStep DEF GInv, gateVars, approvalAll
    <2>2. HookTypeOK'
        BY <1>4, <2>1 DEF GInv, AInv, ApprovalTypeOK, HookTypeOK, HookAt, hookVars, gateVars
    <2>3. UNCHANGED <<req, minted, intent, pending, hook, hashing>>
        BY <1>4 DEF gateVars, approvalVars, hookVars, worldVars
    <2>4. \A h \in Hooks : Picked(h)' /\ Checking(h)'
        BY <2>3 DEF GInv, Picked, Past, SignedFile, action_intent, Class, Peek, Checking, HookAt
    <2> QED
        BY <2>1, <2>2, <2>4 DEF GInv
<1> QED
    BY <1>1, <1>2, <1>3, <1>4 DEF GateNext

LEMMA InitGInv ==
    ASSUME GateInit
    PROVE  GInv
<1>1. AInv
    BY InitAInv DEF GateInit
<1>2. HookTypeOK
    BY <1>1, WorldAssumption DEF GateInit, HookInit, Resting, HookTypeOK, Run, HookAt, AInv,
       ApprovalTypeOK, WorldTypeOK
<1>3. \A h \in Hooks : hook[h].cand = NoRequest /\ hook[h].pc = "idle"
    BY DEF GateInit, HookInit, Resting
<1> QED
    BY <1>1, <1>2, <1>3 DEF GInv, Picked, Checking, HookAt

\* The invariant of the whole gate.
THEOREM GateInvariance == GateSpec => []GInv
<1>1. GInv /\ [GateNext]_gateVars => GInv'
    BY GStep
<1> QED
    BY <1>1, InitGInv, PTL DEF GateSpec

\* Every reachable state of the gate is well typed, and what lies whole or
\* invalidated in the pending directory, or has been picked from it, is what the
\* gatekeeper signed for that request, whether or not its command lived to say so.
THEOREM GateTypeCorrect == GateSpec => []GateTypeOK
<1>1. GInv => GateTypeOK
    BY DEF GInv, AInv, Outcome, Picked, GateTypeOK
<1> QED
    BY <1>1, GateInvariance, PTL

\* What fitting means once the file is known to be the gatekeeper's.
LEMMA FitsMeans ==
    ASSUME GInv, NEW h \in Hooks, hook[h].cand # NoRequest
    PROVE  LET r == hook[h].cand IN
           /\ r \in Requests /\ r \in minted /\ Path(r)
           /\ intent[r] = sign_intent(action_intent(r), GatekeeperKey)
           /\ SameCall(req[r].ev, hook[h].ev)
           /\ ~ req[r].approved_at + TTL < hook[h].now
<1> DEFINE r == hook[h].cand
<1> DEFINE p == action_intent(r)
<1> DEFINE c == Classify[hook[h].ev]
<1>1. r \in Requests
    BY DEF GInv, HookTypeOK, Run
<1>2. /\ r \in minted /\ Path(r)
      /\ intent[r] = sign_intent(p, GatekeeperKey)
    BY PickedDir DEF SignedFile
<1>3. intent[r].payload = p /\ "payload" \in DOMAIN intent[r]
    BY <1>2 DEF sign_intent
<1>4. verify_peek(intent[r], GatekeeperKey, expected_from_classification(c), hook[h].now) = "ok"
    BY DEF GInv, Picked, Peek
<1>5. /\ Binds(p, expected_from_classification(c))
      /\ ~ Get(p, "expires_at", 0) < hook[h].now
    BY <1>3, <1>4 DEF verify_peek, verify_signed_payload
<1>6. /\ p.action_type = c.action_type /\ p.exact_action = c.exact_action /\ p.cwd = c.cwd
      /\ p.repo_id = (IF c.repo_id = "" THEN "unknown" ELSE c.repo_id)
      /\ p.host = c.host /\ p.target = c.target /\ p.risk_class = c.risk_class
    BY <1>5 DEF Binds, expected_from_classification
<1>7. SameCall(req[r].ev, hook[h].ev)
    BY <1>6 DEF SameCall, action_intent, expected_from_classification, Class
<1>8. Get(p, "expires_at", 0) = req[r].approved_at + TTL
    BY DEF Get, action_intent
<1> QED
    BY <1>1, <1>2, <1>5, <1>7, <1>8

\* End to end: a run about to allow does so on a request for that very call,
\* approved, confirmed and unexpired (pretooluse_hook.py:187-221).
THEOREM ConsumedOnlyIfAuthorized == GateSpec => []ConsumedWasAuthorized
<1>1. ASSUME GInv
      PROVE  ConsumedWasAuthorized
    <2>1. SUFFICES ASSUME NEW h \in Hooks, HookAt(h, "unlink")
                   PROVE  LET r == hook[h].cand IN
                          /\ SameCall(req[r].ev, hook[h].ev)
                          /\ requires_approval(Class(r))
                          /\ req[r].approved /\ req[r].token = "CONFIRM"
                          /\ req[r].said = "approve" \/ req[r].ev \in PreBlessed
                          /\ hook[h].now <= req[r].approved_at + TTL
        BY DEF ConsumedWasAuthorized
    <2> DEFINE r == hook[h].cand
    <2>2. hook[h].cand # NoRequest
        BY <1>1, <2>1 DEF GInv, HookTypeOK, HookAt
    <2>3. /\ r \in Requests /\ r \in minted /\ Path(r)
          /\ SameCall(req[r].ev, hook[h].ev)
          /\ ~ req[r].approved_at + TTL < hook[h].now
        BY <1>1, <2>2, FitsMeans
    <2>4. req[r].approved_at \in Nat /\ hook[h].now \in Nat /\ TTL \in Nat
        BY <1>1, <2>3, WorldAssumption, ApprovalAssumption
           DEF GInv, AInv, ApprovalTypeOK, HookTypeOK, Request, Run
    <2>5. hook[h].now <= req[r].approved_at + TTL
        BY <2>3, <2>4
    <2> QED
        BY <2>3, <2>5 DEF Path, Approved
<1> QED
    BY <1>1, GateInvariance, PTL

\* When a run is satisfied with the state, every file of the bound directory was
\* found by its hash as it was found when the request was bound, the two hashes
\* reading the files one by one while anybody edits them
\* (pretooluse_hook.py:107-127 against request_capital_approval.py:65-82).
THEOREM ExecutedIsBound == GateSpec => ExecutedStateIsBound
<1> DEFINE Good ==
        \A h \in Hooks :
            hook[h].pc \in {"drift", "hash"} /\ hook'[h].pc = "unlink" =>
                LET q == req[hook[h].cand] IN
                \/ /\ hashing[h].dir = BoundDir(q.ev)
                   /\ \A p \in Paths :
                        \E was \in q.seen \ {NotGit}, is \in hashing[h].had \ {NotGit} :
                            is[p] = was[p]
                \/ q.tree_sha = NoTree /\ ~Classify[q.ev].state_bound
<1>1. ASSUME GInv, [GateNext]_gateVars
      PROVE  Good
    <2>1. SUFFICES ASSUME NEW h \in Hooks, hook[h].pc \in {"drift", "hash"},
                          hook'[h].pc = "unlink"
                   PROVE  LET q == req[hook[h].cand] IN
                          \/ /\ hashing[h].dir = BoundDir(q.ev)
                             /\ \A p \in Paths :
                                  \E was \in q.seen \ {NotGit}, is \in hashing[h].had \ {NotGit} :
                                      is[p] = was[p]
                          \/ q.tree_sha = NoTree /\ ~Classify[q.ev].state_bound
        OBVIOUS
    <2> DEFINE r == hook[h].cand
    <2> DEFINE payload == intent[r].payload
    <2>2. hook' # hook
        BY <2>1
    <2>3. PICK g \in Hooks : HookStep(g)
        BY <1>1, <2>2 DEF GateNext, gateVars, hookVars
    <2>4. g = h
        BY <1>1, <2>1, <2>3, HookStepTypes DEF OnlyHook
    <2>5. CheckDrift(h) \/ Compare(h)
        <3>1. ~(FindRaises(h) \/ NoMatch(h) \/ Glob(h) \/ Match(h) \/ Skip(h) \/ Invalidate(h)
                  \/ Unlink(h))
            BY <2>1 DEF HookAt, FindRaises, NoMatch, Glob, Match, Skip, Invalidate, Unlink
        <3>2. ~ \E e \in Events, mode \in Modes, input \in Inputs, out \in Streams :
                  StartAndAnswer(h, e, mode, input, out) \/ Start(h, e, mode, input, out)
            BY <2>1 DEF HookAt, StartAndAnswer, Start
        <3>3. ~BeginCheck(h)
            BY <1>1, <2>1 DEF BeginCheck, GInv, HookTypeOK, Run
        <3> QED
            BY <2>3, <2>4, <3>1, <3>2, <3>3 DEF HookStep, Proceed
    <2>6. hook[h].cand # NoRequest /\ hook[h] \in Run
        BY <1>1, <2>1 DEF GInv, HookTypeOK, HookAt
    <2>7. /\ Bound(r) /\ payload.tree_sha = req[r].tree_sha
          /\ payload.state_repo = req[r].state_repo
        BY <1>1, <2>6, PickedDir
    <2>8. CASE CheckDrift(h)
        <3>1. PICK drift \in DriftsUnhashed(Classify[hook[h].ev], payload) :
                hook' = [hook EXCEPT ![h].pc = IF drift THEN "invalidate" ELSE "unlink"]
            BY <2>8 DEF CheckDrift
        <3>2. hook'[h].pc = IF drift THEN "invalidate" ELSE "unlink"
            BY <1>1, <3>1 DEF GInv, HookTypeOK, Run
        <3>3. drift # TRUE
            BY <2>1, <3>2
        <3>4. payload.tree_sha = NoTree
            BY <3>1, <3>3 DEF DriftsUnhashed
        <3> QED
            BY <2>7, <3>4, WorldAssumption DEF Bound, Class
    <2>9. CASE Compare(h)
        <3>1. PICK hash \in Hashed(h) :
                hook' = [hook EXCEPT ![h].pc =
                    IF hash # payload.tree_sha THEN "invalidate" ELSE "unlink"]
            BY <2>9 DEF Compare
        <3>2. hook'[h].pc = IF hash # payload.tree_sha THEN "invalidate" ELSE "unlink"
            BY <1>1, <3>1 DEF GInv, HookTypeOK, Run
        <3>3. hash = req[r].tree_sha
            BY <2>1, <2>7, <3>2
        <3>4. ToHash(payload) /\ hashing[h].dir = payload.state_repo
            BY <1>1, <2>9 DEF GInv, Checking, Compare
        <3>5. /\ req[r].tree_sha \in Trees /\ req[r].state_repo = BoundDir(req[r].ev)
              /\ ReadDuring(req[r].seen, hash)
            BY <2>7, <3>3, <3>4 DEF Bound, ToHash
        <3>6. ReadDuring(hashing[h].had, hash)
            BY <3>1, <3>3, <3>5, WorldAssumption DEF Hashed
        <3>7. ASSUME NEW p \in Paths
              PROVE  \E was \in req[r].seen \ {NotGit}, is \in hashing[h].had \ {NotGit} :
                        is[p] = was[p]
            <4>1. PICK was \in req[r].seen \ {NotGit} : was[p] = hash[p]
                BY <3>5 DEF ReadDuring
            <4>2. PICK is \in hashing[h].had \ {NotGit} : is[p] = hash[p]
                BY <3>6 DEF ReadDuring
            <4> QED
                BY <4>1, <4>2
        <3> QED
            BY <2>7, <3>4, <3>5, <3>7
    <2> QED
        BY <2>5, <2>8, <2>9
<1> QED
    BY <1>1, GateInvariance, PTL DEF GateSpec, ExecutedStateIsBound

----------------------------------------------------------------------------
\* With a file system that does not fail, an intent that has allowed a call or
\* was invalidated has left the directory, and its command will not write it again.
Spent(r) ==
    /\ allows[r] > 0 => pending[r] \in {"absent", "invalidated"} /\ Past(r)
    /\ pending[r] = "invalidated" => Past(r)

SpentInv == \A r \in Requests : Spent(r)

\* A command neither takes files away nor invalidates them.
LEMMA CommandFiles ==
    ASSUME AInv, NEW r \in Requests, ApprovalStep(r), NEW q \in Requests
    PROVE  pending'[q] \in {pending[q], "torn", "whole"}
    BY DEF AInv, ApprovalTypeOK, WorldTypeOK, ApprovalStep, Code, Submit, BeginBind, BindNothing,
       RefuseBinding, Bind, Bless, Fetch, Review, Confirm, Sign, SignReplyLost, OpenPending,
       WritePending, Announce, Die, worldVars

\* What the counter of allows records: a run that unlinks has picked the file.
LEMMA AllowsStep ==
    ASSUME HookTypeOK, NEW h \in Hooks, HookStep(h), NEW r \in Requests,
           allows'[r] # allows[r]
    PROVE  Unlink(h) /\ hook[h].cand = r
<1>1. Unlink(h)
    BY DEF HookStep, Proceed, StartAndAnswer, Start, Glob, FindRaises, Match, Skip, NoMatch,
       CheckDrift, BeginCheck, Compare, Invalidate
<1> QED
    BY <1>1 DEF Unlink, HookTypeOK

LEMMA SpentStep ==
    ASSUME ~FsFaults, GInv, SpentInv, [GateNext]_gateVars
    PROVE  SpentInv'
<1>1. ASSUME NEW r \in Requests, ApprovalStep(r), UNCHANGED hookVars, NEW q \in Requests
      PROVE  Spent(q)'
    <2>1. CASE Past(q)
        BY <1>1, <2>1, PastStays DEF GInv, SpentInv, Spent, hookVars
    <2>2. CASE ~Past(q)
        <3>1. pending[q] # "invalidated" /\ ~(allows[q] > 0)
            BY <2>2 DEF SpentInv, Spent
        <3>2. pending'[q] # "invalidated"
            BY <1>1, <3>1, CommandFiles DEF GInv
        <3> QED
            BY <1>1, <3>1, <3>2 DEF Spent, hookVars
    <2> QED
        BY <2>1, <2>2
<1>2. ASSUME NEW h \in Hooks, HookStep(h), UNCHANGED approvalVars, NEW q \in Requests
      PROVE  Spent(q)'
    <2>1. FilesGo /\ req' = req
        BY <1>2, HookStepTypes DEF approvalVars
    <2>2. pending[q] = "whole" => Past(q)
        BY DEF GInv, AInv, Outcome, At, Past
    <2>3. CASE allows'[q] = allows[q]
        BY <2>1, <2>2, <2>3 DEF FilesGo, SpentInv, Spent, Past
    <2>4. CASE allows'[q] # allows[q]
        <3>1. Unlink(h) /\ hook[h].cand = q
            BY <1>2, <2>4, AllowsStep DEF GInv
        <3>2. Past(q) /\ pending[q] # "torn"
            BY <3>1, HookAssumption DEF GInv, Picked
        <3>3. pending[q] \in FileStates
            BY DEF GInv, HookTypeOK, WorldTypeOK
        <3>4. pending'[q] = IF pending[q] = "whole" THEN "absent" ELSE pending[q]
            BY <3>1 DEF Unlink, GInv, HookTypeOK, WorldTypeOK
        <3> QED
            BY <2>1, <3>2, <3>3, <3>4 DEF Spent, Past, FileStates
    <2> QED
        BY <2>3, <2>4
<1>3. ASSUME UNCHANGED <<approvalVars, hookVars, pending>>
      PROVE  SpentInv'
    BY <1>3 DEF SpentInv, Spent, Past, approvalVars, hookVars
<1>4. CASE Environment /\ UNCHANGED <<approvalVars, hookVars>>
    BY <1>3, <1>4 DEF Environment, Tick, Edit
<1>5. CASE UNCHANGED gateVars
    BY <1>3, <1>5 DEF gateVars, worldVars
<1> QED
    BY <1>1, <1>2, <1>4, <1>5 DEF GateNext, SpentInv

LEMMA InitSpent ==
    ASSUME GateInit
    PROVE  SpentInv
    BY DEF GateInit, ApprovalInit, WorldInit, HookInit, SpentInv, Spent

\* A run that does not hold an intent can only come to hold it by listing it.
LEMMA HoldsStep ==
    ASSUME GInv, NEW h \in Hooks, HookStep(h), NEW r \in Requests,
           pending[r] \in {"absent", "invalidated"}, ~Holds(h, r)
    PROVE  ~Holds(h, r)'
<1>1. hook[h] \in Run /\ HookTypeOK /\ NoRequest # r
    BY HookAssumption DEF GInv, HookTypeOK
<1>2. ASSUME NEW e \in Events, NEW mode \in Modes, NEW input \in Inputs, NEW out \in Streams,
             StartAndAnswer(h, e, mode, input, out) \/ Start(h, e, mode, input, out)
      PROVE  ~Holds(h, r)'
    BY <1>1, <1>2, StartTypes DEF Holds
<1>3. ASSUME FindRaises(h) \/ NoMatch(h) \/ Invalidate(h) \/ Unlink(h)
      PROVE  ~Holds(h, r)'
    <2>1. PICK ans \in Allowing \cup Blocking : Answer(h, ans)
        BY <1>3 DEF FindRaises, NoMatch, Invalidate, Unlink, Allowing, Blocking
    <2> QED
        BY <1>1, <2>1, Rests DEF Holds
<1>4. CASE Checks(h)
    BY <1>1, <1>4, DriftTypes DEF Holds
<1>5. CASE Glob(h)
    <2> DEFINE T == {q \in Requests : pending[q] \in {"torn", "whole"}}
    <2> DEFINE W == {q \in Requests : pending[q] = "whole"}
    <2>1. hook'[h] = [hook[h] EXCEPT !.pc = "scan", !.todo = T, !.ready = W]
        BY <1>1, <1>5 DEF Glob, HookTypeOK
    <2>2. r \notin T
        OBVIOUS
    <2> HIDE DEF T, W
    <2>3. hook'[h].todo = T /\ hook'[h].cand = hook[h].cand
        BY ONLY <1>1, <2>1 DEF Run
    <2> QED
        BY <2>2, <2>3 DEF Holds
<1>6. CASE Match(h)
    <2>1. PICK q \in hook[h].todo :
            hook'[h] = [hook[h] EXCEPT !.pc = "drift", !.cand = q, !.todo = {}]
        BY <1>1, <1>6 DEF Match, HookTypeOK
    <2>2. hook'[h].cand = q /\ hook'[h].todo = {}
        BY ONLY <1>1, <2>1 DEF Run
    <2> QED
        BY <2>1, <2>2 DEF Holds
<1>7. CASE Skip(h)
    <2>1. PICK q \in hook[h].todo, W \in SUBSET Requests :
            hook'[h] = [hook[h] EXCEPT !.todo = @ \ {q}, !.ready = W]
        BY <1>1, <1>7, SkipEffect
    <2>2. hook'[h].cand = hook[h].cand /\ hook'[h].todo = hook[h].todo \ {q}
        BY ONLY <1>1, <2>1 DEF Run
    <2> QED
        BY <2>1, <2>2 DEF Holds
<1> QED
    BY <1>2, <1>3, <1>4, <1>5, <1>6, <1>7 DEF HookStep, Proceed, Checks

\* An intent that has allowed a call or was invalidated, and that no run holds,
\* is never used again, when files can be renamed and unlinked
\* (pretooluse_hook.py:94, 136-139, 221-225).
THEOREM DeadIntentsStayDead == ASSUME ~FsFaults PROVE GateSpec => DeadStaysDead
<1> DEFINE Good == \A r \in Requests : Dead(r) => Dead(r)' /\ allows'[r] = allows[r]
<1>1. ASSUME GInv, SpentInv, [GateNext]_gateVars
      PROVE  Good
    <2>1. SUFFICES ASSUME NEW r \in Requests, Dead(r)
                   PROVE  Dead(r)' /\ allows'[r] = allows[r]
        OBVIOUS
    <2>2. pending[r] \in {"absent", "invalidated"} /\ Past(r)
        BY <1>1, <2>1 DEF SpentInv, Spent, Dead
    <2>3. ASSUME NEW q \in Requests, ApprovalStep(q), UNCHANGED hookVars
          PROVE  Dead(r)' /\ allows'[r] = allows[r]
        BY <1>1, <2>1, <2>2, <2>3, PastStays DEF GInv, Dead, Holds, hookVars
    <2>4. ASSUME NEW h \in Hooks, HookStep(h)
          PROVE  Dead(r)' /\ allows'[r] = allows[r]
        <3>1. HookTypeOK /\ OnlyHook(h) /\ FilesGo
            BY <1>1, <2>4, HookStepTypes DEF GInv
        <3>2. allows'[r] = allows[r]
            BY <2>1, <2>4, <3>1, AllowsStep DEF Dead, Holds
        <3>3. pending'[r] = pending[r]
            BY <2>2, <3>1 DEF FilesGo
        <3>4. ~Holds(h, r)'
            BY <1>1, <2>1, <2>2, <2>4, HoldsStep DEF Dead
        <3>5. \A g \in Hooks : ~Holds(g, r)'
            BY <2>1, <3>1, <3>4 DEF Dead, Holds, OnlyHook
        <3> QED
            BY <2>1, <3>2, <3>3, <3>5 DEF Dead
    <2>5. ASSUME UNCHANGED <<hookVars, pending>>
          PROVE  Dead(r)' /\ allows'[r] = allows[r]
        BY <2>1, <2>5 DEF Dead, Holds, hookVars
    <2>6. CASE Environment /\ UNCHANGED <<approvalVars, hookVars>>
        BY <2>5, <2>6 DEF Environment, Tick, Edit
    <2>7. CASE UNCHANGED gateVars
        BY <2>5, <2>7 DEF gateVars, worldVars
    <2> QED
        BY <1>1, <2>3, <2>4, <2>6, <2>7 DEF GateNext
<1>2. GInv /\ SpentInv /\ [GateNext]_gateVars => GInv' /\ SpentInv'
    BY GStep, SpentStep
<1>3. GateInit => GInv /\ SpentInv
    BY InitGInv, InitSpent
<1> QED
    BY <1>1, <1>2, <1>3, PTL DEF GateSpec, DeadStaysDead

----------------------------------------------------------------------------
\* With one run at a time, the file it has picked is still there, and an intent
\* that has allowed a call is gone for good.
Serial(r) ==
    /\ allows[r] <= 1
    /\ allows[r] = 1 => pending[r] = "absent"
    /\ \A h \in Hooks : hook[h].cand = r => pending[r] = "whole"

SerialInv == \A r \in Requests : Serial(r)

\* The only steps that pick a file, and the file they pick.
LEMMA PicksWhole ==
    ASSUME HookTypeOK, NEW h \in Hooks, HookStep(h), NEW r \in Requests,
           hook'[h].cand = r
    PROVE  /\ hook[h].cand = r \/ pending[r] = "whole"
           /\ pending' = pending /\ allows' = allows
<1>1. hook[h] \in Run /\ NoRequest # r
    BY HookAssumption DEF HookTypeOK
<1>2. ASSUME NEW e \in Events, NEW mode \in Modes, NEW input \in Inputs, NEW out \in Streams,
             StartAndAnswer(h, e, mode, input, out) \/ Start(h, e, mode, input, out)
      PROVE  FALSE
    BY <1>1, <1>2, StartTypes
<1>3. ASSUME FindRaises(h) \/ NoMatch(h) \/ Invalidate(h) \/ Unlink(h)
      PROVE  FALSE
    <2>1. PICK ans \in Allowing \cup Blocking : Answer(h, ans)
        BY <1>3 DEF FindRaises, NoMatch, Invalidate, Unlink, Allowing, Blocking
    <2> QED
        BY <1>1, <2>1, Rests
<1>4. CASE Checks(h)
    BY <1>4, DriftTypes DEF Checks, CheckDrift, BeginCheck, Compare, worldVars
<1>5. CASE Glob(h)
    <2>1. PICK T \in SUBSET Requests, W \in SUBSET Requests :
            hook'[h] = [hook[h] EXCEPT !.pc = "scan", !.todo = T, !.ready = W]
        BY <1>5 DEF Glob, HookTypeOK
    <2>2. hook'[h].cand = hook[h].cand
        BY ONLY <1>1, <2>1 DEF Run
    <2> QED
        BY <1>5, <2>2 DEF Glob, worldVars
<1>6. CASE Match(h)
    <2>1. PICK q \in hook[h].todo :
            /\ pending[q] = "whole"
            /\ hook'[h] = [hook[h] EXCEPT !.pc = "drift", !.cand = q, !.todo = {}]
        BY <1>6 DEF Match, HookTypeOK
    <2>2. hook'[h].cand = q
        BY ONLY <1>1, <2>1 DEF Run
    <2> QED
        BY <1>6, <2>1, <2>2 DEF Match, worldVars
<1>7. CASE Skip(h)
    <2>1. PICK q \in hook[h].todo, W \in SUBSET Requests :
            hook'[h] = [hook[h] EXCEPT !.todo = @ \ {q}, !.ready = W]
        BY <1>7, SkipEffect
    <2>2. hook'[h].cand = hook[h].cand
        BY ONLY <1>1, <2>1 DEF Run
    <2> QED
        BY <1>7, <2>2 DEF Skip, worldVars
<1> QED
    BY <1>2, <1>3, <1>4, <1>5, <1>6, <1>7 DEF HookStep, Proceed, Checks

\* What a step of a run does to the file and the counter of a request.
LEMMA TokenStep ==
    ASSUME ~FsFaults, GInv, NEW h \in Hooks, HookStep(h), NEW r \in Requests
    PROVE  \/ pending'[r] = pending[r] /\ allows'[r] = allows[r]
           \/ /\ hook[h].cand = r /\ allows'[r] = allows[r]
              /\ pending'[r] = IF pending[r] = "whole" THEN "invalidated" ELSE pending[r]
           \/ /\ hook[h].cand = r
              /\ allows'[r] = (IF allows[r] < 2 THEN allows[r] + 1 ELSE allows[r])
              /\ pending'[r] = IF pending[r] = "whole" THEN "absent" ELSE pending[r]
<1>1. ASSUME NEW e \in Events, NEW mode \in Modes, NEW input \in Inputs, NEW out \in Streams,
             StartAndAnswer(h, e, mode, input, out) \/ Start(h, e, mode, input, out)
      PROVE  pending' = pending /\ allows' = allows
    BY <1>1 DEF StartAndAnswer, Start, worldVars
<1>2. ASSUME Glob(h) \/ Match(h) \/ Skip(h) \/ Checks(h) \/ FindRaises(h) \/ NoMatch(h)
      PROVE  pending' = pending /\ allows' = allows
    BY <1>2 DEF Glob, Match, Skip, Checks, CheckDrift, BeginCheck, Compare, FindRaises, NoMatch,
       worldVars
<1>3. CASE Invalidate(h)
    BY <1>3 DEF Invalidate, GInv, HookTypeOK, WorldTypeOK
<1>4. CASE Unlink(h)
    BY <1>4 DEF Unlink, GInv, HookTypeOK, WorldTypeOK
<1> QED
    BY <1>1, <1>2, <1>3, <1>4 DEF HookStep, Proceed, Checks

LEMMA SerialStep ==
    ASSUME ~FsFaults, NEW one, Hooks = {one},
           GInv, SpentInv, SerialInv, [GateNext]_gateVars
    PROVE  SerialInv'
<1>1. ASSUME NEW r \in Requests, ApprovalStep(r), UNCHANGED hookVars, NEW q \in Requests
      PROVE  Serial(q)'
    <2>1. CASE Past(q)
        BY <1>1, <2>1, PastStays DEF GInv, SerialInv, Serial, hookVars
    <2>2. CASE ~Past(q)
        <3>1. allows[q] # 1
            BY <2>2 DEF SpentInv, Spent
        <3>2. \A h \in Hooks : hook[h].cand # q
            BY <2>2, HookAssumption DEF GInv, Picked
        <3> QED
            BY <1>1, <3>1, <3>2 DEF SerialInv, Serial, hookVars
    <2> QED
        BY <2>1, <2>2
<1>2. ASSUME HookStep(one), UNCHANGED approvalVars, NEW q \in Requests
      PROVE  Serial(q)'
    <2>1. HookTypeOK /\ one \in Hooks /\ NoRequest # q
        BY HookAssumption DEF GInv
    <2>2. CASE hook'[one].cand = q
        BY <1>2, <2>1, <2>2, PicksWhole DEF SerialInv, Serial
    <2>3. CASE hook'[one].cand # q
        <3>1. allows[q] \in 0..2 /\ allows[q] <= 1
            BY <2>1 DEF HookTypeOK, SerialInv, Serial
        <3>2. allows[q] = 1 => pending[q] = "absent"
            BY DEF SerialInv, Serial
        <3>3. hook[one].cand = q => pending[q] = "whole"
            BY <2>1 DEF SerialInv, Serial
        <3>4. allows'[q] <= 1 /\ (allows'[q] = 1 => pending'[q] = "absent")
            BY <1>2, <2>1, <3>1, <3>2, <3>3, TokenStep
        <3> QED
            BY <2>3, <3>4 DEF Serial
    <2> QED
        BY <2>2, <2>3
<1>3. ASSUME UNCHANGED <<hookVars, pending>>
      PROVE  SerialInv'
    BY <1>3 DEF SerialInv, Serial, hookVars
<1>4. CASE Environment /\ UNCHANGED <<approvalVars, hookVars>>
    BY <1>3, <1>4 DEF Environment, Tick, Edit
<1>5. CASE UNCHANGED gateVars
    BY <1>3, <1>5 DEF gateVars, worldVars
<1> QED
    BY <1>1, <1>2, <1>4, <1>5 DEF GateNext, SerialInv

LEMMA InitSerial ==
    ASSUME GateInit
    PROVE  SerialInv
    BY HookAssumption
       DEF GateInit, ApprovalInit, WorldInit, HookInit, Resting, SerialInv, Serial

\* A step that leaves all but one token alone is a step of that token.
LEMMA TokenMoves ==
    ASSUME NEW r \in Requests,
           \A q \in Requests : q # r => IntentStateOf(q)' = IntentStateOf(q),
           \/ IntentStateOf(r)' = IntentStateOf(r)
           \/ IntentStateOf(r) = "none" /\ IntentStateOf(r)' = "live"
           \/ IntentStateOf(r) = "live" /\ IntentStateOf(r)' = "used"
           \/ IntentStateOf(r) = "live" /\ IntentStateOf(r)' = "void"
    PROVE  [Abstract!Next]_IntentState
<1>1. IntentState' = [IntentState EXCEPT ![r] = IntentStateOf(r)'] /\ IntentState[r] = IntentStateOf(r)
    BY DEF IntentState
<1>2. CASE IntentStateOf(r)' = IntentStateOf(r)
    BY <1>1, <1>2 DEF IntentState
<1>3. CASE IntentStateOf(r) = "none" /\ IntentStateOf(r)' = "live"
    BY <1>1, <1>3 DEF Abstract!Next, Abstract!Issue, Abstract!Move
<1>4. CASE IntentStateOf(r) = "live" /\ IntentStateOf(r)' = "used"
    BY <1>1, <1>4 DEF Abstract!Next, Abstract!Use, Abstract!Move
<1>5. CASE IntentStateOf(r) = "live" /\ IntentStateOf(r)' = "void"
    BY <1>1, <1>5 DEF Abstract!Next, Abstract!Void, Abstract!Move
<1> QED
    BY <1>2, <1>3, <1>4, <1>5

LEMMA GateRefines ==
    ASSUME ~FsFaults, NEW one, Hooks = {one},
           GInv, SpentInv, SerialInv, [GateNext]_gateVars
    PROVE  [Abstract!Next]_IntentState
<1>1. ASSUME NEW r \in Requests, ApprovalStep(r), UNCHANGED hookVars
      PROVE  [Abstract!Next]_IntentState
    <2>1. \A q \in Requests : q # r => pending'[q] = pending[q]
        BY <1>1, CommandOnly DEF GInv
    <2>2. \A q \in Requests : q # r => IntentStateOf(q)' = IntentStateOf(q)
        BY <1>1, <2>1 DEF IntentStateOf, hookVars
    <2>3. CASE Past(r)
        BY <1>1, <2>2, <2>3, PastStays, TokenMoves DEF GInv, IntentStateOf, hookVars
    <2>4. CASE ~Past(r)
        <3>1. allows[r] = 0 /\ pending[r] # "invalidated" /\ pending[r] # "whole"
            BY <2>4 DEF SpentInv, Spent, GInv, HookTypeOK, AInv, Outcome, At, Past
        <3>2. pending'[r] \in {pending[r], "torn", "whole"} /\ allows' = allows
            BY <1>1, CommandFiles DEF GInv, hookVars
        <3>3. IntentStateOf(r) = "none" /\ IntentStateOf(r)' \in {"none", "live"}
            BY <3>1, <3>2 DEF IntentStateOf
        <3> QED
            BY <2>2, <3>3, TokenMoves
    <2> QED
        BY <2>3, <2>4
<1>2. ASSUME HookStep(one)
      PROVE  [Abstract!Next]_IntentState
    <2>1. one \in Hooks
        OBVIOUS
    <2>2. CASE hook[one].cand = NoRequest
        <3>1. \A q \in Requests : IntentStateOf(q)' = IntentStateOf(q)
            BY <1>2, <2>1, <2>2, TokenStep, HookAssumption DEF IntentStateOf
        <3> QED
            BY <3>1 DEF IntentState
    <2>3. CASE hook[one].cand # NoRequest
        <3>1. PICK r \in Requests : hook[one].cand = r
            BY <2>1, <2>3 DEF GInv, HookTypeOK, Run
        <3>2. \A q \in Requests : q # r => pending'[q] = pending[q] /\ allows'[q] = allows[q]
            BY <1>2, <2>1, <3>1, TokenStep
        <3>3. \A q \in Requests : q # r => IntentStateOf(q)' = IntentStateOf(q)
            BY <3>2 DEF IntentStateOf
        <3>4. pending[r] = "whole" /\ allows[r] \in 0..2 /\ allows[r] # 1 /\ allows[r] <= 1
            BY <2>1, <3>1 DEF SerialInv, Serial, GInv, HookTypeOK
        <3>5. allows[r] = 0
            BY <3>4
        <3>6. \/ pending'[r] = pending[r] /\ allows'[r] = allows[r]
              \/ pending'[r] = "invalidated" /\ allows'[r] = 0
              \/ pending'[r] = "absent" /\ allows'[r] = 1
            BY <1>2, <2>1, <3>1, <3>4, <3>5, TokenStep
        <3>7. /\ IntentStateOf(r) = "live"
              /\ IntentStateOf(r)' \in {"live", "void", "used"}
            BY <3>4, <3>5, <3>6 DEF IntentStateOf
        <3> QED
            BY <3>1, <3>3, <3>7, TokenMoves
    <2> QED
        BY <2>2, <2>3
<1>3. ASSUME UNCHANGED <<hookVars, pending>>
      PROVE  UNCHANGED IntentState
    BY <1>3 DEF IntentState, IntentStateOf, hookVars
<1>4. CASE Environment /\ UNCHANGED <<approvalVars, hookVars>>
    BY <1>3, <1>4 DEF Environment, Tick, Edit
<1>5. CASE UNCHANGED gateVars
    BY <1>3, <1>5 DEF gateVars, worldVars
<1> QED
    BY <1>1, <1>2, <1>4, <1>5 DEF GateNext

LEMMA GateInitRefines ==
    ASSUME GateInit
    PROVE  Abstract!Init
    BY DEF GateInit, ApprovalInit, WorldInit, HookInit, IntentState, IntentStateOf, Abstract!Init

\* When the harness runs one hook at a time and renames and unlinks do not fail,
\* the pending directory implements one-shot tokens, for any number of requests.
THEOREM SerialGateIsOneShot ==
    ASSUME ~FsFaults, NEW one, Hooks = {one} PROVE GateSpec => ImplementsOneShot
<1>1. /\ GInv /\ SpentInv /\ SerialInv /\ [GateNext]_gateVars
      => GInv' /\ SpentInv' /\ SerialInv' /\ [Abstract!Next]_IntentState
    BY GStep, SpentStep, SerialStep, GateRefines
<1>2. GateInit => GInv /\ SpentInv /\ SerialInv /\ Abstract!Init
    BY InitGInv, InitSpent, InitSerial, GateInitRefines
<1> QED
    BY <1>1, <1>2, PTL DEF GateSpec, ImplementsOneShot, Abstract!Spec
=============================================================================
