--------------------------- MODULE ApprovalProofs ---------------------------
(***************************************************************************)
(* What the approval command guarantees for any number of requests, calls, *)
(* directories and deaths.  The inductive invariant follows a request      *)
(* along its stages: what each stage has established is still true at the  *)
(* next, so it is true of whatever has been signed.  It is stated for one  *)
(* step of one command and then used twice: here for commands alone, in    *)
(* GateProofs for commands with hooks running.                             *)
(***************************************************************************)
EXTENDS Approval, TLAPS

Refusals == {"not-capital", "refused", "rejected", "not-confirmed"}

\* Nothing has been bound yet; the hash, if it is being taken, is of the directory
\* that the call asks for.
Unbound(r) ==
    /\ req[r].tree_sha = NoTree /\ req[r].state_repo = NoRepo
    /\ At(r, "hash") => /\ BoundDir(req[r].ev) \in Dirs
                        /\ hashing[r].dir = BoundDir(req[r].ev)

\* The binding of r is the one its call asks for.
Bound(r) ==
    /\ Class(r).state_bound => req[r].tree_sha \in Trees
    /\ req[r].tree_sha = NoTree <=> req[r].state_repo = NoRepo
    /\ req[r].tree_sha # NoTree =>
        /\ req[r].tree_sha \in Trees /\ req[r].state_repo = BoundDir(req[r].ev)
        /\ ReadDuring(req[r].seen, req[r].tree_sha)

Approved(r) ==
    /\ req[r].approved
    /\ req[r].said = "approve" \/ (req[r].said = "pre-blessed" /\ req[r].ev \in PreBlessed)

\* What has been established when r is at its stage, and of what is signed.
Path(r) ==
    /\ ~At(r, "new") => req[r].ev \in Events
    /\ req[r].pc \notin {"new", "done"} => requires_approval(Class(r))
    /\ req[r].pc \in {"new", "bind", "hash"} => Unbound(r)
    /\ req[r].pc \in {"fetch", "review", "confirm", "sign", "open", "write", "announce"} => Bound(r)
    /\ req[r].pc \in {"confirm", "sign", "open", "write", "announce"} => Approved(r)
    /\ req[r].pc \in {"sign", "open", "write", "announce"} => req[r].token = "CONFIRM"
    /\ req[r].pc \in {"open", "write", "announce"} => r \in minted
    /\ r \in minted =>
        /\ req[r].pc \in {"open", "write", "announce", "done"}
        /\ requires_approval(Class(r)) /\ Bound(r) /\ Approved(r)
        /\ req[r].token = "CONFIRM"

\* The file of r at each stage, and what each exit code says of it.
Outcome(r) ==
    /\ req[r].rc # "none" => At(r, "done")
    /\ req[r].pc \notin {"write", "announce", "done"} => pending[r] = "absent"
    /\ At(r, "write") => pending[r] = "torn"
    /\ req[r].rc \in Refusals => r \notin minted /\ pending[r] = "absent"
    /\ pending[r] = "torn" => At(r, "write") \/ req[r].rc = "raised"
    /\ pending[r] = "whole" => At(r, "announce") \/ req[r].rc \in {"authorized", "raised"}
    /\ At(r, "announce") => SignedFile(r)
    /\ req[r].rc = "authorized" => SignedFile(r)
    /\ pending[r] \in {"whole", "invalidated"} => SignedFile(r)

AInv ==
    /\ ApprovalTypeOK
    /\ intent = [r \in Requests |-> intent[r]]
    /\ \A r \in Requests : Path(r) /\ Outcome(r)

\* Nothing of the other requests changes.
OnlyRequest(r) ==
    \A q \in Requests : q # r =>
        /\ req'[q] = req[q] /\ (q \in minted' <=> q \in minted)
        /\ hashing'[q].dir = hashing[q].dir
        /\ pending'[q] = pending[q] /\ intent'[q] = intent[q]

\* What has been bound, and what was signed, depend on nothing but the record of
\* the request.
LEMMA SameRecord ==
    ASSUME NEW q \in Requests,
           req'[q].ev = req[q].ev, req'[q].tree_sha = req[q].tree_sha,
           req'[q].state_repo = req[q].state_repo, req'[q].seen = req[q].seen
    PROVE  Bound(q)' <=> Bound(q)
    BY DEF Bound, BoundDir, Class, ReadDuring

\* A request none of whose own state changes keeps what is true of it, whatever
\* becomes of its file.
LEMMA PathKept ==
    ASSUME NEW q \in Requests, Path(q),
           req'[q] = req[q], q \in minted' <=> q \in minted,
           hashing'[q].dir = hashing[q].dir
    PROVE  Path(q)'
<1>1. Bound(q)' <=> Bound(q)
    BY SameRecord
<1>2. Unbound(q)' <=> Unbound(q)
    BY DEF Unbound, At, BoundDir
<1> QED
    BY <1>1, <1>2 DEF Path, Approved, At, Class

LEMMA Untouched ==
    ASSUME NEW q \in Requests, Path(q), Outcome(q),
           req'[q] = req[q], q \in minted' <=> q \in minted,
           hashing'[q].dir = hashing[q].dir,
           pending'[q] = pending[q], intent'[q] = intent[q]
    PROVE  Path(q)' /\ Outcome(q)'
<1>1. SignedFile(q)' <=> SignedFile(q)
    BY DEF SignedFile, action_intent, Class
<1>2. Outcome(q)'
    BY <1>1 DEF Outcome, At
<1> QED
    BY <1>2, PathKept

\* Whatever one step of a command does to its own request, the others keep
\* theirs.
LEMMA OneRequest ==
    ASSUME AInv, NEW r \in Requests, OnlyRequest(r),
           ApprovalTypeOK', intent' = [q \in Requests |-> intent'[q]],
           Path(r)', Outcome(r)'
    PROVE  AInv'
<1>1. ASSUME NEW q \in Requests, q # r
      PROVE  Path(q)' /\ Outcome(q)'
    BY <1>1, Untouched DEF AInv, OnlyRequest
<1> QED
    BY <1>1 DEF AInv

\* A hash that ends or begins changes nothing of the other hashes.
LEMMA HashTypes ==
    ASSUME WorldTypeOK, NEW k \in Hashers, EndHash(k) \/ \E d \in Dirs : BeginHash(k, d)
    PROVE  /\ hashing' \in [Hashers -> Hash]
           /\ \A j \in Hashers : j # k => hashing'[j] = hashing[j]
<1>1. CASE EndHash(k)
    <2>1. NoHash \in Hash
        BY DEF NoHash, Hash
    <2> QED
        BY <1>1, <2>1 DEF WorldTypeOK, EndHash
<1>2. ASSUME NEW d \in Dirs, BeginHash(k, d)
      PROVE  /\ hashing' \in [Hashers -> Hash]
             /\ \A j \in Hashers : j # k => hashing'[j] = hashing[j]
    <2>1. [dir |-> d, had |-> {tree[d]}] \in Hash
        BY DEF WorldTypeOK, Hash
    <2> QED
        BY <1>2, <2>1 DEF WorldTypeOK, BeginHash
<1> QED
    BY <1>1, <1>2

\* A step that only changes req[r], and perhaps the hash of r, and leaves the disk
\* alone.
LEMMA ReqStep ==
    ASSUME AInv, NEW r \in Requests, req'[r] \in Request,
           req' = [q \in Requests |-> req'[q]],
           \A q \in Requests : q # r => req'[q] = req[q],
           UNCHANGED <<clock, tree, pending, intent>>,
           hashing' \in [Hashers -> Hash],
           \A k \in Hashers : k # r => hashing'[k] = hashing[k],
           minted' \in {minted, minted \cup {r}},
           Path(r)', Outcome(r)'
    PROVE  AInv'
<1>1. OnlyRequest(r)
    BY ApprovalAssumption DEF OnlyRequest, AInv, ApprovalTypeOK
<1>2. req' \in [Requests -> Request]
    <2>1. \A q \in Requests : req'[q] \in Request
        BY DEF AInv, ApprovalTypeOK
    <2> QED
        BY <2>1
<1>3. ApprovalTypeOK'
    BY <1>2 DEF AInv, ApprovalTypeOK, WorldTypeOK
<1>4. intent' = [p \in Requests |-> intent'[p]]
    BY DEF AInv
<1> QED
    BY <1>1, <1>3, <1>4, OneRequest

\* The same for a step that leaves all of the world alone.
LEMMA QuietStep ==
    ASSUME AInv, NEW r \in Requests, req'[r] \in Request,
           req' = [q \in Requests |-> req'[q]],
           \A q \in Requests : q # r => req'[q] = req[q],
           UNCHANGED worldVars, minted' \in {minted, minted \cup {r}},
           Path(r)', Outcome(r)'
    PROVE  AInv'
<1>1. UNCHANGED <<clock, tree, hashing, pending, intent>>
    BY DEF worldVars
<1>2. hashing' \in [Hashers -> Hash]
    BY <1>1 DEF AInv, ApprovalTypeOK, WorldTypeOK
<1> QED
    BY ONLY AInv, r \in Requests, req'[r] \in Request, req' = [q \in Requests |-> req'[q]],
            \A q \in Requests : q # r => req'[q] = req[q],
            minted' \in {minted, minted \cup {r}}, Path(r)', Outcome(r)', <1>1, <1>2, ReqStep

LEMMA SubmitStep ==
    ASSUME AInv, NEW r \in Requests, NEW e \in Events, Submit(r, e)
    PROVE  AInv'
<1> USE DEF AInv, ApprovalTypeOK
<1>0. req \in [Requests -> Request]
    OBVIOUS
<1>1. req[r] \in Request
    BY ONLY r \in Requests, <1>0
<1>2. PICK pc \in Stages, rc \in ExitCodes :
        req'[r] = [req[r] EXCEPT !.ev = e, !.pc = pc, !.rc = rc]
    BY ONLY r \in Requests, Submit(r, e), <1>0 DEF Submit, Stages, ExitCodes
<1>3. req'[r] \in Request
    BY ONLY e \in Events, <1>1, <1>2 DEF Request
<1>4. /\ req' = [q \in Requests |-> req'[q]]
      /\ \A q \in Requests : q # r => req'[q] = req[q]
    BY DEF Submit
<1>5. Path(r)'
    BY DEF Submit, At, Path, Class, Unbound
<1>6. Outcome(r)'
    BY DEF Submit, At, Path, Outcome, worldVars, Refusals
<1> QED
    BY <1>3, <1>4, <1>5, <1>6, QuietStep DEF Submit

\* What ending the command does to the record of its request.
LEMMA ExitStep ==
    ASSUME AInv, NEW r \in Requests, NEW rc \in ExitCodes, Exit(r, rc)
    PROVE  /\ req'[r] \in Request
           /\ req' = [q \in Requests |-> req'[q]]
           /\ \A q \in Requests : q # r => req'[q] = req[q]
           /\ req'[r] = [req[r] EXCEPT !.pc = "done", !.rc = rc]
           /\ req'[r].pc = "done" /\ req'[r].rc = rc /\ req'[r].ev = req[r].ev
           /\ req'[r].tree_sha = req[r].tree_sha /\ req'[r].state_repo = req[r].state_repo
           /\ req'[r].seen = req[r].seen /\ req'[r].said = req[r].said
           /\ req'[r].approved = req[r].approved /\ req'[r].token = req[r].token
           /\ Bound(r)' <=> Bound(r)
           /\ minted' = minted /\ intent'[r] = intent[r] => (SignedFile(r)' <=> SignedFile(r))
<1>1. req[r] \in Request
    BY DEF AInv, ApprovalTypeOK
<1>2. req'[r] = [req[r] EXCEPT !.pc = "done", !.rc = rc]
    BY DEF Exit, AInv, ApprovalTypeOK
<1>3. req'[r] \in Request
    BY ONLY rc \in ExitCodes, <1>1, <1>2 DEF Request, Stages
<1>4. /\ req'[r].pc = "done" /\ req'[r].rc = rc /\ req'[r].ev = req[r].ev
      /\ req'[r].tree_sha = req[r].tree_sha /\ req'[r].state_repo = req[r].state_repo
      /\ req'[r].seen = req[r].seen /\ req'[r].said = req[r].said
      /\ req'[r].approved = req[r].approved /\ req'[r].token = req[r].token
      /\ req'[r].approved_at = req[r].approved_at
    BY ONLY <1>1, <1>2 DEF Request
<1>5. Bound(r)' <=> Bound(r)
    BY <1>4, SameRecord
<1>6. minted' = minted /\ intent'[r] = intent[r] => (SignedFile(r)' <=> SignedFile(r))
    BY <1>4 DEF SignedFile, action_intent, Class
<1> QED
    BY <1>2, <1>3, <1>4, <1>5, <1>6 DEF Exit, AInv, ApprovalTypeOK

\* A command that has not asked for a signature may end in a refusal.
LEMMA RefusalStep ==
    ASSUME AInv, NEW r \in Requests, Exit(r, "refused"),
           req[r].pc \in {"bind", "hash"},
           UNCHANGED <<minted, clock, tree, pending, intent>>,
           hashing' \in [Hashers -> Hash],
           \A k \in Hashers : k # r => hashing'[k] = hashing[k]
    PROVE  AInv'
<1> USE DEF AInv, ApprovalTypeOK
<1>1. "refused" \in ExitCodes
    BY DEF ExitCodes
<1>2. /\ req'[r] \in Request
      /\ req' = [q \in Requests |-> req'[q]]
      /\ \A q \in Requests : q # r => req'[q] = req[q]
      /\ req'[r].pc = "done" /\ req'[r].rc = "refused" /\ req'[r].ev = req[r].ev
    BY <1>1, ExitStep
<1>3. r \notin minted /\ req[r].ev \in Events
    BY DEF Path, At
<1>4. Path(r)'
    BY <1>2, <1>3 DEF At, Path
<1>5. Outcome(r)'
    BY <1>2, <1>3 DEF At, Path, Outcome, Refusals
<1> QED
    BY <1>2, <1>4, <1>5, ReqStep

LEMMA BeginBindStep ==
    ASSUME AInv, NEW r \in Requests, BeginBind(r)
    PROVE  AInv'
<1> USE DEF AInv, ApprovalTypeOK
<1> DEFINE dir == BoundDir(req[r].ev)
<1>1. req[r] \in Request /\ r \in Hashers
    BY ApprovalAssumption
<1>2. req'[r] = [req[r] EXCEPT !.pc = "hash"]
    BY DEF BeginBind
<1>3. req'[r] \in Request
    BY ONLY <1>1, <1>2 DEF Request, Stages
<1>4. /\ req' = [q \in Requests |-> req'[q]]
      /\ \A q \in Requests : q # r => req'[q] = req[q]
    BY DEF BeginBind
<1>5. /\ req'[r].pc = "hash" /\ req'[r].rc = req[r].rc /\ req'[r].ev = req[r].ev
      /\ req'[r].tree_sha = req[r].tree_sha /\ req'[r].state_repo = req[r].state_repo
    BY ONLY <1>1, <1>2 DEF Request
<1>6. dir \in Dirs
    BY WorldAssumption DEF BeginBind, At, Path, BoundDir
<1>7. /\ hashing' \in [Hashers -> Hash]
      /\ \A k \in Hashers : k # r => hashing'[k] = hashing[k]
    BY <1>1, <1>6, HashTypes DEF BeginBind
<1>8. hashing'[r].dir = dir
    BY <1>1, <1>6 DEF BeginBind, BeginHash, WorldTypeOK
<1>9. Path(r)'
    <2>1. req[r].ev \in Events /\ requires_approval(Class(r)) /\ Unbound(r) /\ r \notin minted
        BY DEF BeginBind, At, Path
    <2>2. Unbound(r)'
        BY <1>5, <1>6, <1>8, <2>1 DEF Unbound, At, BoundDir
    <2> QED
        BY <1>5, <2>1, <2>2 DEF BeginBind, At, Path, Class
<1>10. Outcome(r)'
    BY <1>5 DEF BeginBind, At, Path, Outcome, Refusals
<1> QED
    BY <1>3, <1>4, <1>7, <1>9, <1>10, ReqStep DEF BeginBind

LEMMA BindNothingStep ==
    ASSUME AInv, NEW r \in Requests, BindNothing(r)
    PROVE  AInv'
<1> USE DEF AInv, ApprovalTypeOK
<1>1. req[r] \in Request
    OBVIOUS
<1>2. req'[r] = [req[r] EXCEPT !.pc = "fetch"]
    BY DEF BindNothing
<1>3. req'[r] \in Request
    BY ONLY <1>1, <1>2 DEF Request, Stages
<1>4. /\ req' = [q \in Requests |-> req'[q]]
      /\ \A q \in Requests : q # r => req'[q] = req[q]
    BY DEF BindNothing
<1>5. Path(r)'
    BY DEF BindNothing, At, Path, Class, Bound, Unbound
<1>6. Outcome(r)'
    BY DEF BindNothing, At, Path, Outcome, worldVars, Refusals
<1> QED
    BY <1>3, <1>4, <1>5, <1>6, QuietStep DEF BindNothing

LEMMA BindStep ==
    ASSUME AInv, NEW r \in Requests, Bind(r)
    PROVE  AInv'
<1> USE DEF AInv, ApprovalTypeOK
<1> DEFINE dir == hashing[r].dir
<1> DEFINE had == hashing[r].had
<1>1. PICK hash \in Hashed(r) :
        IF hash = HashError THEN Exit(r, "refused") ELSE BindTo(r, hash)
    BY DEF Bind
<1>2. /\ req[r].ev \in Events /\ requires_approval(Class(r)) /\ r \notin minted
      /\ dir = BoundDir(req[r].ev) /\ dir \in Dirs
    BY DEF Bind, At, Path, Unbound
<1>3. req[r] \in Request /\ r \in Hashers
    BY ApprovalAssumption
<1>4. /\ hashing' \in [Hashers -> Hash]
      /\ \A k \in Hashers : k # r => hashing'[k] = hashing[k]
    BY <1>3, HashTypes DEF Bind
<1>5. CASE hash = HashError
    BY <1>1, <1>4, <1>5, RefusalStep DEF Bind, At
<1>6. CASE hash # HashError
    <2>1. hash \in Trees /\ ReadDuring(had, hash)
        BY <1>1, <1>6 DEF Hashed
    <2>2. had \in SUBSET (Worktrees \cup {NotGit})
        BY <1>3 DEF WorldTypeOK, Hash
    <2>3. req'[r] = [req[r] EXCEPT !.tree_sha = hash, !.state_repo = dir, !.seen = had,
                                   !.pc = "fetch"]
        BY <1>1, <1>6 DEF BindTo
    <2>4. req'[r] \in Request
        BY ONLY <1>2, <1>3, <2>1, <2>2, <2>3 DEF Request, Stages
    <2>5. /\ req'[r].ev = req[r].ev /\ req'[r].tree_sha = hash /\ req'[r].rc = req[r].rc
          /\ req'[r].state_repo = dir /\ req'[r].seen = had /\ req'[r].pc = "fetch"
        BY ONLY <1>3, <2>3 DEF Request
    <2>6. Bound(r)'
        BY <1>2, <2>1, <2>5, WorldAssumption DEF Bound, BoundDir, ReadDuring
    <2>7. Path(r)'
        BY <1>2, <2>5, <2>6 DEF Bind, At, Path, Class
    <2>8. Outcome(r)'
        BY <2>5 DEF Bind, At, Path, Outcome, Refusals
    <2>9. /\ req' = [q \in Requests |-> req'[q]]
          /\ \A q \in Requests : q # r => req'[q] = req[q]
        BY <1>1, <1>6 DEF BindTo
    <2> QED
        BY <1>4, <2>4, <2>7, <2>8, <2>9, ReqStep DEF Bind
<1> QED
    BY <1>5, <1>6

LEMMA RefuseStep ==
    ASSUME AInv, NEW r \in Requests, RefuseBinding(r)
    PROVE  AInv'
    BY RefusalStep DEF RefuseBinding, At, worldVars, AInv, ApprovalTypeOK, WorldTypeOK

LEMMA BlessStep ==
    ASSUME AInv, NEW r \in Requests, Bless(r)
    PROVE  AInv'
<1> USE DEF AInv, ApprovalTypeOK
<1>1. req[r] \in Request /\ clock \in 0..MaxClock
    BY DEF WorldTypeOK
<1>2. req'[r] = [req[r] EXCEPT !.said = "pre-blessed", !.approved = TRUE,
                               !.approved_at = clock, !.pc = "confirm"]
    BY DEF Bless
<1>3. req'[r] \in Request
    BY ONLY <1>1, <1>2 DEF Request, Stages
<1>4. /\ req' = [q \in Requests |-> req'[q]]
      /\ \A q \in Requests : q # r => req'[q] = req[q]
    BY DEF Bless
<1>5. Path(r)'
    BY DEF Bless, At, Path, Class, Bound, Approved, BoundDir
<1>6. Outcome(r)'
    BY DEF Bless, At, Path, Outcome, worldVars, Refusals
<1> QED
    BY <1>3, <1>4, <1>5, <1>6, QuietStep DEF Bless

LEMMA FetchStep ==
    ASSUME AInv, NEW r \in Requests, Fetch(r)
    PROVE  AInv'
<1> USE DEF AInv, ApprovalTypeOK
<1> DEFINE dir == IF req[r].state_repo = NoRepo THEN Class(r).cwd ELSE req[r].state_repo
<1>1. dir \in Dirs
    BY WorldAssumption DEF Fetch, At, Path, Class, Request
<1>2. PICK shown \in {tree[dir]} \cup (IF HashFaults THEN {Unavailable} ELSE {}) :
        req' = [req EXCEPT ![r].reviewed = shown, ![r].pc = "review"]
    BY DEF Fetch
<1>3. shown \in Trees \cup {NotGit, NoTree, Unavailable}
    BY <1>1, <1>2, WorldAssumption DEF WorldTypeOK
<1>4. req[r] \in Request
    OBVIOUS
<1>5. req'[r] = [req[r] EXCEPT !.reviewed = shown, !.pc = "review"]
    BY <1>2
<1>6. req'[r] \in Request
    BY ONLY <1>3, <1>4, <1>5 DEF Request, Stages
<1>7. /\ req' = [q \in Requests |-> req'[q]]
      /\ \A q \in Requests : q # r => req'[q] = req[q]
    BY <1>2
<1>8. Path(r)'
    BY <1>2 DEF Fetch, At, Path, Class, Bound, Approved, BoundDir
<1>9. Outcome(r)'
    BY <1>2 DEF Fetch, At, Path, Outcome, worldVars, Refusals
<1> QED
    BY <1>6, <1>7, <1>8, <1>9, QuietStep DEF Fetch

\* What the command takes for an approval, a reader takes for one.
LEMMA VerdictIsRead ==
    ASSUME NEW out \in Outputs
    PROVE  Reading(out) \in Sayings /\ (opus_capital_reviewer(out) => Reading(out) = "approve")
<1>1. out \in Output
    BY ApprovalAssumption
<1>2. out.lines \in Seq(Lines) /\ Len(out.lines) \in Nat
    BY <1>1 DEF Output
<1>3. ASSUME opus_capital_reviewer(out)
      PROVE  Reading(out) = "approve"
    <2>1. out.lines # << >> /\ 1 \in DOMAIN out.lines /\ out.lines[1] = "approve" /\ ~out.failed
        BY <1>2, <1>3 DEF opus_capital_reviewer
    <2>2. \A i \in DOMAIN out.lines : i # 1 => out.lines[i] \notin VerdictLines
        BY <1>2, <1>3 DEF opus_capital_reviewer
    <2>3. {i \in DOMAIN out.lines : out.lines[i] \in VerdictLines} = {1}
        BY <2>1, <2>2 DEF VerdictLines
    <2> QED
        BY <2>1, <2>3 DEF Reading
<1>4. Reading(out) \in Sayings
    <2> DEFINE verdicts == {i \in DOMAIN out.lines : out.lines[i] \in VerdictLines}
    <2>1. CASE verdicts = {1} /\ out.lines[1] # "verdict"
        <3>1. out.lines[1] \in {"approve", "reject"}
            BY <2>1 DEF VerdictLines
        <3> QED
            BY <2>1, <3>1 DEF Reading, Sayings
    <2> QED
        BY <2>1 DEF Reading, Sayings
<1> QED
    BY <1>3, <1>4

LEMMA ReviewStep ==
    ASSUME AInv, NEW r \in Requests, NEW out \in Outputs, Review(r, out)
    PROVE  AInv'
<1> USE DEF AInv, ApprovalTypeOK
<1> DEFINE said == Reading(out)
<1> DEFINE ok == opus_capital_reviewer(out)
<1> DEFINE pc == IF ok THEN "confirm" ELSE "done"
<1> DEFINE rc == IF ok THEN "none" ELSE "rejected"
<1>0. said \in Sayings /\ (ok => said = "approve")
    BY VerdictIsRead
<1>1. req[r] \in Request /\ clock \in 0..MaxClock
    BY DEF WorldTypeOK
<1>2. req'[r] = [req[r] EXCEPT !.said = said, !.approved = ok, !.approved_at = clock,
                               !.pc = pc, !.rc = rc]
    BY DEF Review
<1>3. ok \in BOOLEAN /\ pc \in Stages /\ rc \in ExitCodes
    BY DEF Stages, ExitCodes, opus_capital_reviewer
<1>8. /\ req'[r].said = said /\ req'[r].approved = ok /\ req'[r].pc = pc
      /\ req'[r].rc = rc /\ req'[r].ev = req[r].ev
      /\ req'[r].tree_sha = req[r].tree_sha /\ req'[r].state_repo = req[r].state_repo
      /\ req'[r].seen = req[r].seen
    <2> HIDE DEF said, ok, pc, rc
    <2> QED
        BY ONLY <1>1, <1>2 DEF Request
<1>4. req'[r] \in Request
    <2> HIDE DEF said, ok, pc, rc
    <2> QED
        BY ONLY <1>0, <1>1, <1>2, <1>3 DEF Request
<1>5. /\ req' = [q \in Requests |-> req'[q]]
      /\ \A q \in Requests : q # r => req'[q] = req[q]
    BY DEF Review
<1>9. At(r, "review") /\ Path(r) /\ Outcome(r) /\ UNCHANGED <<minted, worldVars>>
    BY DEF Review
<1>10. Bound(r)'
    <2>1. Bound(r)
        BY ONLY <1>9 DEF Path, At
    <2> QED
        BY ONLY <1>8, <2>1, SameRecord, r \in Requests
<1>11. r \notin minted /\ requires_approval(Class(r)) /\ req[r].ev \in Events
    BY ONLY <1>9 DEF Path, At
<1>12. Class(r)' = Class(r)
    BY ONLY <1>8 DEF Class
<1>6. Path(r)'
    BY ONLY <1>0, <1>3, <1>8, <1>9, <1>10, <1>11, <1>12 DEF Path, At, Approved
<1>7. Outcome(r)'
    <2>1. pending[r] = "absent" /\ pending'[r] = "absent"
        BY ONLY <1>9 DEF Outcome, At, worldVars
    <2> QED
        BY ONLY <1>8, <1>9, <1>11, <2>1 DEF Outcome, At, Refusals
<1> QED
    BY <1>4, <1>5, <1>6, <1>7, QuietStep DEF Review

LEMMA ConfirmStep ==
    ASSUME AInv, NEW r \in Requests, NEW token \in {"CONFIRM", "other"}, Confirm(r, token)
    PROVE  AInv'
<1> USE DEF AInv, ApprovalTypeOK
<1>0. req \in [Requests -> Request]
    OBVIOUS
<1>1. req[r] \in Request
    BY ONLY r \in Requests, <1>0
<1>2. PICK pc \in Stages, rc \in ExitCodes :
        req'[r] = [req[r] EXCEPT !.token = token, !.pc = pc, !.rc = rc]
    BY ONLY r \in Requests, Confirm(r, token), <1>0 DEF Confirm, Stages, ExitCodes
<1>3. req'[r] \in Request
    BY ONLY token \in {"CONFIRM", "other"}, <1>1, <1>2 DEF Request
<1>4. /\ req' = [q \in Requests |-> req'[q]]
      /\ \A q \in Requests : q # r => req'[q] = req[q]
    BY DEF Confirm
<1>5. Path(r)'
    BY DEF Confirm, At, Path, Class, Bound, Approved, BoundDir
<1>6. Outcome(r)'
    BY DEF Confirm, At, Path, Outcome, worldVars, Refusals
<1> QED
    BY <1>3, <1>4, <1>5, <1>6, QuietStep DEF Confirm

LEMMA SignStep ==
    ASSUME AInv, NEW r \in Requests, Sign(r)
    PROVE  AInv'
<1> USE DEF AInv, ApprovalTypeOK
<1>1. req[r] \in Request
    OBVIOUS
<1>2. req'[r] = [req[r] EXCEPT !.pc = "open"]
    BY DEF Sign
<1>3. req'[r] \in Request
    BY ONLY <1>1, <1>2 DEF Request, Stages
<1>4. /\ req' = [q \in Requests |-> req'[q]]
      /\ \A q \in Requests : q # r => req'[q] = req[q]
    BY DEF Sign
<1>5. Path(r)'
    BY DEF Sign, At, Path, Class, Bound, Approved, BoundDir
<1>6. Outcome(r)'
    BY DEF Sign, At, Path, Outcome, worldVars, Refusals
<1> QED
    BY <1>3, <1>4, <1>5, <1>6, QuietStep DEF Sign

\* An exit with "raised" leaves what was signed or written as it is.
LEMMA RaisedStep ==
    ASSUME AInv, NEW r \in Requests, SignReplyLost(r) \/ Die(r)
    PROVE  AInv'
<1> USE DEF AInv, ApprovalTypeOK
<1>1. Exit(r, "raised") /\ "raised" \in ExitCodes /\ UNCHANGED <<clock, tree, pending, intent>>
    BY DEF SignReplyLost, Die, ExitCodes, worldVars
<1>2. /\ req'[r] \in Request
      /\ req' = [q \in Requests |-> req'[q]]
      /\ \A q \in Requests : q # r => req'[q] = req[q]
      /\ req'[r].pc = "done" /\ req'[r].rc = "raised" /\ req'[r].ev = req[r].ev
      /\ req'[r].said = req[r].said /\ req'[r].approved = req[r].approved
      /\ req'[r].token = req[r].token
      /\ Bound(r)' <=> Bound(r)
      /\ minted' = minted => (SignedFile(r)' <=> SignedFile(r))
    BY <1>1, ExitStep
<1>3. minted' \in {minted, minted \cup {r}} /\ (minted' # minted => At(r, "sign"))
    BY DEF SignReplyLost, Die
<1>4. /\ hashing' \in [Hashers -> Hash]
      /\ \A k \in Hashers : k # r => hashing'[k] = hashing[k]
    <2>1. CASE UNCHANGED hashing
        BY <2>1 DEF WorldTypeOK
    <2>2. CASE EndHash(r)
        BY <2>2, HashTypes, ApprovalAssumption
    <2> QED
        BY <2>1, <2>2 DEF SignReplyLost, Die, worldVars
<1>5. ~At(r, "new") /\ ~At(r, "done")
    BY DEF SignReplyLost, Die, At
<1>6. Path(r)'
    <2>1. CASE minted' = minted
        BY <1>2, <1>5, <2>1 DEF At, Path, Class, Approved
    <2>2. CASE At(r, "sign")
        BY <1>2, <2>2 DEF At, Path, Class, Approved
    <2> QED
        BY <1>3, <2>1, <2>2
<1>7. Outcome(r)'
    <2>1. CASE minted' = minted
        <3>1. Outcome(r) /\ pending'[r] = pending[r] /\ (SignedFile(r)' <=> SignedFile(r))
            BY <1>1, <1>2, <2>1
        <3> QED
            BY ONLY <1>2, <1>5, <2>1, <3>1 DEF At, Outcome, Refusals
    <2>2. CASE At(r, "sign")
        BY <1>1, <1>2, <2>2 DEF At, Outcome, Refusals
    <2> QED
        BY <1>3, <2>1, <2>2
<1> QED
    BY <1>1, <1>2, <1>3, <1>4, <1>6, <1>7, ReqStep

LEMMA OpenStep ==
    ASSUME AInv, NEW r \in Requests, OpenPending(r)
    PROVE  AInv'
<1> USE DEF AInv, ApprovalTypeOK
<1>1. req[r] \in Request
    OBVIOUS
<1>2. req'[r] = [req[r] EXCEPT !.pc = "write"]
    BY DEF OpenPending
<1>3. req'[r] \in Request
    BY ONLY <1>1, <1>2 DEF Request, Stages
<1>4. /\ req' = [q \in Requests |-> req'[q]]
      /\ \A q \in Requests : q # r => req'[q] = req[q]
    BY DEF OpenPending
<1>5. ApprovalTypeOK'
    <2>1. \A q \in Requests : req'[q] \in Request
        BY <1>3, <1>4
    <2> HIDE DEF AInv
    <2>2. req' \in [Requests -> Request]
        BY <1>4, <2>1
    <2> QED
        BY <2>2 DEF AInv, OpenPending, WorldTypeOK, FileStates
<1>6. Path(r)'
    BY DEF OpenPending, At, Path, Class, Bound, Approved, BoundDir
<1>7. Outcome(r)'
    BY DEF OpenPending, At, Path, Outcome, WorldTypeOK, Refusals
<1>8. OnlyRequest(r)
    BY DEF OpenPending, OnlyRequest, WorldTypeOK
<1> QED
    BY <1>5, <1>6, <1>7, <1>8, OneRequest DEF OpenPending

LEMMA WriteStep ==
    ASSUME AInv, NEW r \in Requests, WritePending(r)
    PROVE  AInv'
<1> USE DEF AInv, ApprovalTypeOK
<1>1. req[r] \in Request
    OBVIOUS
<1>2. req'[r] = [req[r] EXCEPT !.pc = "announce"]
    BY DEF WritePending
<1>3. req'[r] \in Request
    BY ONLY <1>1, <1>2 DEF Request, Stages
<1>4. /\ req' = [q \in Requests |-> req'[q]]
      /\ \A q \in Requests : q # r => req'[q] = req[q]
    BY DEF WritePending
<1>5. ApprovalTypeOK'
    <2>1. \A q \in Requests : req'[q] \in Request
        BY <1>3, <1>4
    <2> HIDE DEF AInv
    <2>2. req' \in [Requests -> Request]
        BY <1>4, <2>1
    <2> QED
        BY <2>2 DEF AInv, WritePending, WorldTypeOK, FileStates
<1>6. /\ req'[r].pc = "announce" /\ req'[r].ev = req[r].ev /\ req'[r].rc = req[r].rc
      /\ req'[r].tree_sha = req[r].tree_sha /\ req'[r].state_repo = req[r].state_repo
      /\ req'[r].seen = req[r].seen /\ req'[r].said = req[r].said
      /\ req'[r].approved = req[r].approved /\ req'[r].token = req[r].token
      /\ req'[r].approved_at = req[r].approved_at
    BY ONLY <1>1, <1>2 DEF Request
<1>7. Bound(r)' <=> Bound(r)
    BY <1>6, SameRecord
<1>8. Path(r)'
    BY <1>6, <1>7 DEF WritePending, At, Path, Class, Approved
<1>9. SignedFile(r)'
    <2>1. action_intent(r)' = action_intent(r)
        BY <1>6 DEF action_intent, Class
    <2>2. intent'[r] = sign_intent(action_intent(r), GatekeeperKey)
        BY DEF WritePending
    <2> QED
        BY <2>1, <2>2 DEF WritePending, At, Path, SignedFile
<1>10. pending'[r] = "whole"
    BY DEF WritePending, WorldTypeOK
<1>11. Outcome(r)'
    BY <1>6, <1>9, <1>10 DEF WritePending, At, Outcome, Refusals
<1>12. OnlyRequest(r)
    BY DEF WritePending, OnlyRequest, WorldTypeOK
<1>13. intent' = [q \in Requests |-> intent'[q]]
    BY DEF WritePending
<1> QED
    BY <1>5, <1>8, <1>11, <1>12, <1>13, OneRequest

LEMMA AnnounceStep ==
    ASSUME AInv, NEW r \in Requests, Announce(r)
    PROVE  AInv'
<1> USE DEF AInv, ApprovalTypeOK
<1>1. Exit(r, "authorized") /\ "authorized" \in ExitCodes
    BY DEF Announce, ExitCodes
<1>2. /\ req'[r] \in Request
      /\ req' = [q \in Requests |-> req'[q]]
      /\ \A q \in Requests : q # r => req'[q] = req[q]
      /\ req'[r].pc = "done" /\ req'[r].rc = "authorized" /\ req'[r].ev = req[r].ev
      /\ req'[r].said = req[r].said /\ req'[r].approved = req[r].approved
      /\ req'[r].token = req[r].token
      /\ Bound(r)' <=> Bound(r)
      /\ minted' = minted /\ intent'[r] = intent[r] => (SignedFile(r)' <=> SignedFile(r))
    BY <1>1, ExitStep
<1>3. minted' = minted /\ UNCHANGED worldVars
    BY DEF Announce
<1>4. Path(r)'
    BY <1>2, <1>3 DEF Announce, At, Path, Class, Approved
<1>5. Outcome(r)'
    BY <1>2, <1>3 DEF Announce, At, Outcome, worldVars, Refusals
<1> QED
    BY <1>2, <1>3, <1>4, <1>5, QuietStep

\* A step of a command preserves the invariant.
LEMMA CommandStep ==
    ASSUME AInv, NEW r \in Requests, ApprovalStep(r)
    PROVE  AInv'
    BY SubmitStep, BeginBindStep, BindNothingStep, RefuseStep, BindStep, BlessStep, FetchStep,
       ReviewStep, ConfirmStep, SignStep, RaisedStep, OpenStep, WriteStep, AnnounceStep
    DEF ApprovalStep, Code

\* An edit is noted by the hashes it may disturb and changes nothing else of them.
LEMMA EditHashes ==
    ASSUME WorldTypeOK, Environment
    PROVE  /\ hashing' \in [Hashers -> Hash]
           /\ \A k \in Hashers : /\ hashing'[k].dir = hashing[k].dir
                                 /\ hashing[k].had \subseteq hashing'[k].had
<1>1. CASE Tick
    BY <1>1 DEF Tick, WorldTypeOK
<1>2. ASSUME NEW d \in Dirs, NEW t \in Worktrees \cup {NotGit}, Edit(d, t)
      PROVE  /\ hashing' \in [Hashers -> Hash]
             /\ \A k \in Hashers : /\ hashing'[k].dir = hashing[k].dir
                                   /\ hashing[k].had \subseteq hashing'[k].had
    <2>1. ASSUME NEW k \in Hashers
          PROVE  /\ hashing'[k] \in Hash /\ hashing'[k].dir = hashing[k].dir
                 /\ hashing[k].had \subseteq hashing'[k].had
        <3>1. hashing[k] \in Hash
            BY DEF WorldTypeOK
        <3>2. \/ hashing'[k] = hashing[k]
              \/ hashing'[k] = [hashing[k] EXCEPT !.had = @ \cup {t}]
            BY <1>2 DEF Edit
        <3> QED
            BY <3>1, <3>2 DEF Hash
    <2> QED
        BY <1>2, <2>1 DEF Edit
<1> QED
    BY <1>1, <1>2 DEF Environment

LEMMA EnvironmentStep ==
    ASSUME AInv, Environment, UNCHANGED approvalVars
    PROVE  AInv'
<1>1. /\ hashing' \in [Hashers -> Hash]
      /\ \A k \in Hashers : hashing'[k].dir = hashing[k].dir
    BY EditHashes DEF AInv, ApprovalTypeOK
<1>2. ApprovalTypeOK'
    BY <1>1, WorldAssumption
    DEF AInv, ApprovalTypeOK, WorldTypeOK, Environment, Tick, Edit, approvalVars
<1>3. UNCHANGED <<req, minted, pending, intent>>
    BY DEF Environment, Tick, Edit, approvalVars
<1>4. \A r \in Requests : Path(r)' /\ Outcome(r)'
    BY <1>1, <1>3, Untouched, ApprovalAssumption DEF AInv
<1> QED
    BY <1>2, <1>3, <1>4 DEF AInv

LEMMA StutterStep ==
    ASSUME AInv, UNCHANGED approvalAll
    PROVE  AInv'
<1>1. UNCHANGED <<req, minted, clock, tree, hashing, pending, intent>>
    BY DEF approvalAll, approvalVars, worldVars
<1>2. \A r \in Requests : Path(r)' /\ Outcome(r)'
    BY <1>1, Untouched DEF AInv
<1> QED
    BY <1>1, <1>2 DEF AInv, ApprovalTypeOK, WorldTypeOK

LEMMA InitAInv ==
    ASSUME ApprovalInit
    PROVE  AInv
<1>1. ApprovalTypeOK
    BY WorldAssumption DEF WorldInit, ApprovalInit, ApprovalTypeOK, WorldTypeOK, FileStates,
       Request, Stages, Sayings, ExitCodes, Hash, NoHash
<1>2. \A r \in Requests : Path(r) /\ Outcome(r)
    BY DEF WorldInit, ApprovalInit, Path, Unbound, Outcome, At, Refusals
<1> QED
    BY <1>1, <1>2 DEF AInv, ApprovalInit, WorldInit

\* The invariant holds in every reachable state of the commands.
THEOREM ApprovalInvariance == ApprovalSpec => []AInv
<1>1. AInv /\ [ApprovalNext]_approvalAll => AInv'
    BY CommandStep, EnvironmentStep, StutterStep DEF ApprovalNext
<1> QED
    BY <1>1, InitAInv, PTL DEF ApprovalSpec

\* The state of every command, of the clock, of the worktrees and of the pending
\* directory keeps its type.
THEOREM ApprovalTypeCorrect == ApprovalSpec => []ApprovalTypeOK
<1>1. AInv => ApprovalTypeOK
    BY DEF AInv
<1> QED
    BY <1>1, ApprovalInvariance, PTL

\* gatekeeper_sign_authorized never signs for a call that was not capital, not
\* approved or not confirmed, with any number of commands running and dying.
THEOREM SignedOnlyIfAuthorized == ApprovalSpec => []SignedWasAuthorized
<1>1. AInv => SignedWasAuthorized
    BY DEF AInv, ApprovalTypeOK, Path, Approved, SignedWasAuthorized
<1> QED
    BY <1>1, ApprovalInvariance, PTL

\* A signed service mutation, deploy or migration is bound to a content of the
\* registered repository (bind_approval_state).
THEOREM SignedIsBound == ApprovalSpec => []SignedBindsRepo
<1>1. AInv => SignedBindsRepo
    BY WorldAssumption DEF AInv, ApprovalTypeOK, Path, Bound, BoundDir, Class, SignedBindsRepo
<1> QED
    BY <1>1, ApprovalInvariance, PTL

\* Wherever a command fails or dies, its exit code and the pending directory agree:
\* no signature and no file after a refusal, a complete and signed file whenever
\* AUTHORIZED was said, and no usable file but a signed one.
THEOREM OutcomesAreTrue == ApprovalSpec => []FilesMatchOutcome
<1>1. AInv => FilesMatchOutcome
    <2>1. ASSUME NEW r \in Requests, Outcome(r)
          PROVE  /\ req[r].rc \in Refusals => r \notin minted /\ pending[r] = "absent"
                 /\ req[r].rc = "authorized" => pending[r] # "torn" /\ SignedFile(r)
                 /\ pending[r] = "torn" => At(r, "write") \/ req[r].rc = "raised"
                 /\ pending[r] = "whole" =>
                    /\ SignedFile(r)
                    /\ At(r, "announce") \/ req[r].rc \in {"authorized", "raised"}
        BY <2>1 DEF Outcome, At
    <2> QED
        BY <2>1 DEF AInv, FilesMatchOutcome, Refusals
<1> QED
    BY <1>1, ApprovalInvariance, PTL
=============================================================================
