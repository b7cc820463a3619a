------------------------------ MODULE Approval ------------------------------
(***************************************************************************)
(* The approval command, src/scripts/request_capital_approval.py, with     *)
(* the review and signing path it drives (approval.py, lifecycle.py and    *)
(* gatekeeper_sign.py).  Each request is one run of the command, and each  *)
(* action one stretch of it between two points at which other processes,   *)
(* the reviewer, the human or the gatekeeper host may take their time.     *)
(***************************************************************************)
EXTENDS World, Sequences

CONSTANTS
    PreBlessed,    \* the events the registry is_pre_blessed
    Outputs,       \* what a run of the reviewer may come back with
    Unavailable,   \* the reviewer was told "repo state unavailable"
    Crashes,       \* may the command raise, be killed, or lose the gatekeeper?
    TTL            \* seconds from approval to expiry, 300 in the code

\* A line of the review: one that is VERDICT: APPROVE or VERDICT: REJECT to the
\* letter, another that begins like a verdict in any case or indentation, text
\* that does not, and white space.
VerdictLines == {"approve", "reject", "verdict"}

Lines == VerdictLines \cup {"prose", "blank"}

\* The reviewer process has failed if it raised, timed out or exited nonzero.
Output == [failed : BOOLEAN, lines : Seq(Lines)]

ASSUME ApprovalAssumption ==
    /\ PreBlessed \subseteq Events
    /\ Outputs \subseteq Output
    /\ Crashes \in BOOLEAN
    /\ TTL \in Nat
    /\ Requests \subseteq Hashers

VARIABLES
    req,           \* req[r]: the local state of the command
    minted         \* history: requests for which the gatekeeper has signed

approvalVars == <<req, minted>>

\* What a reader takes from the review: one of the two verdicts, neither of them
\* beyond doubt, or nothing at all.
Sayings == {"approve", "reject", "ambiguous", "error"}

Stages == {"new", "bind", "hash", "fetch", "review", "confirm", "sign", "open", "write",
           "announce", "done"}

ExitCodes == {"none", "not-capital", "refused", "rejected", "not-confirmed",
              "authorized", "raised"}

Request ==
    [pc          : Stages,
     ev          : Events \cup {NoEvent},
     tree_sha    : Trees \cup {NoTree},
     state_repo  : Dirs \cup {NoRepo},
     seen        : SUBSET (Worktrees \cup {NotGit}),  \* history: what the directory held
                                                     \* while it was hashed
     reviewed    : Trees \cup {NotGit, NoTree, Unavailable},
     said        : Sayings \cup {"unasked", "pre-blessed"},
     approved    : BOOLEAN,
     approved_at : 0..MaxClock,
     token       : {"none", "CONFIRM", "other"},
     rc          : ExitCodes]

ApprovalInit ==
    /\ WorldInit
    /\ req = [r \in Requests |->
                [pc |-> "new", ev |-> NoEvent, tree_sha |-> NoTree, state_repo |-> NoRepo,
                 seen |-> {}, reviewed |-> NoTree, said |-> "unasked", approved |-> FALSE,
                 approved_at |-> 0, token |-> "none", rc |-> "none"]]
    /\ minted = {}

Class(r) == Classify[req[r].ev]

\* The command moves from one stage to the next.
At(r, stage) == req[r].pc = stage

Exit(r, rc) == req' = [req EXCEPT ![r].pc = "done", ![r].rc = rc]

----------------------------------------------------------------------------
\* main classifies the call it was started for.
Submit(r, e) ==
    /\ At(r, "new")
    /\ req' = [req EXCEPT ![r].ev = e,
                          ![r].pc = IF requires_approval(Classify[e]) THEN "bind" ELSE "done",
                          ![r].rc = IF requires_approval(Classify[e]) THEN "none" ELSE "not-capital"]
    /\ UNCHANGED <<minted, worldVars>>

\* Mutated: a service nobody registered falls back to the working directory.
BoundDir_FallBack(e) ==
    IF Classify[e].state_bound /\ ServiceRepo[e] # NoRepo
    THEN ServiceRepo[e]
    ELSE Classify[e].cwd

\* The directory whose content event e is bound to: the registered repository of
\* the service for a service mutation, a deploy or a migration, else the
\* working directory.
BoundDir(e) == IF Classify[e].state_bound THEN ServiceRepo[e] ELSE Classify[e].cwd

\* bind_approval_state begins to hash the directory, after a look whether the
\* working directory is in a repository at all.
BeginBind(r) ==
    /\ At(r, "bind")
    /\ LET dir == BoundDir(req[r].ev) IN
        /\ dir # NoRepo
        /\ Class(r).state_bound \/ TRUE \in FoundGit(dir)
        /\ BeginHash(r, dir)
    /\ req' = [req EXCEPT ![r].pc = "hash"]
    /\ UNCHANGED <<minted, clock, tree, pending, intent>>

\* No repository is found in the working directory: the call is bound to nothing.
BindNothing(r) ==
    /\ At(r, "bind")
    /\ ~Class(r).state_bound
    /\ FALSE \in FoundGit(BoundDir(req[r].ev))
    /\ req' = [req EXCEPT ![r].pc = "fetch"]
    /\ UNCHANGED <<minted, worldVars>>

\* StateBindingError: no repository for the service, or git cannot be run.
RefuseBinding(r) ==
    /\ At(r, "bind")
    /\ BoundDir(req[r].ev) = NoRepo \/ HashFaults
    /\ Exit(r, "refused")
    /\ UNCHANGED <<minted, worldVars>>

\* What the request is bound to once the hash has come back.
BindTo(r, hash) ==
    req' = [req EXCEPT ![r].tree_sha = hash, ![r].state_repo = hashing[r].dir,
                       ![r].seen = hashing[r].had, ![r].pc = "fetch"]

\* Mutated: the failure of the hash is taken for a hash.
Bind_Unchecked(r) ==
    /\ At(r, "hash")
    /\ \E hash \in Hashed(r) : BindTo(r, hash)
    /\ EndHash(r)
    /\ UNCHANGED <<minted, clock, tree, pending, intent>>

\* Mutated: the hash is tried again until it succeeds.
Bind_Retries(r) ==
    /\ At(r, "hash")
    /\ \E hash \in Hashed(r) \ {HashError} : BindTo(r, hash)
    /\ EndHash(r)
    /\ UNCHANGED <<minted, clock, tree, pending, intent>>

\* The hash comes back, with a tree or with an error.
Bind(r) ==
    /\ At(r, "hash")
    /\ \E hash \in Hashed(r) :
        IF hash = HashError THEN Exit(r, "refused") ELSE BindTo(r, hash)
    /\ EndHash(r)
    /\ UNCHANGED <<minted, clock, tree, pending, intent>>

\* pre_blessed_reviewer: no review, approved on the spot.
Bless(r) ==
    /\ At(r, "fetch")
    /\ req[r].ev \in PreBlessed
    /\ req' = [req EXCEPT ![r].said = "pre-blessed", ![r].approved = TRUE,
                          ![r].approved_at = clock, ![r].pc = "confirm"]
    /\ UNCHANGED <<minted, worldVars>>

\* repo_state_context: the state the reviewer is shown is read when the review
\* begins; git may fail, and then the review goes on without it.
Fetch(r) ==
    /\ At(r, "fetch")
    /\ req[r].ev \notin PreBlessed
    /\ LET dir == IF req[r].state_repo = NoRepo THEN Class(r).cwd ELSE req[r].state_repo IN
       \E shown \in {tree[dir]} \cup (IF HashFaults THEN {Unavailable} ELSE {}) :
            req' = [req EXCEPT ![r].reviewed = shown, ![r].pc = "review"]
    /\ UNCHANGED <<minted, worldVars>>

\* What a reader takes from an output: it speaks for itself only when the line it
\* opens with is the one line in it that looks like a verdict.
Reading(out) ==
    LET verdicts == {i \in DOMAIN out.lines : out.lines[i] \in VerdictLines} IN
    IF out.failed \/ \A i \in DOMAIN out.lines : out.lines[i] = "blank"
    THEN "error"
    ELSE IF verdicts = {1} /\ out.lines[1] # "verdict" THEN out.lines[1] ELSE "ambiguous"

\* Mutated: the lines after the first are not looked at.
opus_capital_reviewer_FirstLine(out) ==
    ~out.failed /\ out.lines # << >> /\ Head(out.lines) = "approve"

\* opus_capital_reviewer: does it approve?  The first line alone is matched, and
\* none of the others may begin like a verdict.
opus_capital_reviewer(out) ==
    /\ ~out.failed
    /\ out.lines # << >>
    /\ Head(out.lines) = "approve"
    /\ \A i \in 2..Len(out.lines) : out.lines[i] \notin VerdictLines

Review(r, out) ==
    /\ At(r, "review")
    /\ LET ok == opus_capital_reviewer(out) IN
       req' = [req EXCEPT ![r].said = Reading(out), ![r].approved = ok,
                          ![r].approved_at = clock,
                          ![r].pc = IF ok THEN "confirm" ELSE "done",
                          ![r].rc = IF ok THEN "none" ELSE "rejected"]
    /\ UNCHANGED <<minted, worldVars>>

\* The human answers the prompt, after any time.
Confirm(r, token) ==
    /\ At(r, "confirm")
    /\ req' = [req EXCEPT ![r].token = token,
                          ![r].pc = IF token = "CONFIRM" THEN "sign" ELSE "done",
                          ![r].rc = IF token = "CONFIRM" THEN "none" ELSE "not-confirmed"]
    /\ UNCHANGED <<minted, worldVars>>

\* gatekeeper_sign_authorized; gatekeeper_sign.py is always run with --confirm.
gatekeeper_authorizes(r) == req[r].approved

\* build_signing_request: the record the gatekeeper signs.  The nonce is drawn
\* afresh, so it is as distinct as the requests.
action_intent(r) ==
    LET b == expected_from_classification(Class(r)) IN
    [action_type |-> b.action_type, exact_action |-> b.exact_action, cwd |-> b.cwd,
     repo_id |-> b.repo_id, host |-> b.host, target |-> b.target,
     risk_class |-> b.risk_class,
     tree_sha |-> req[r].tree_sha, state_repo |-> req[r].state_repo,
     timestamp |-> req[r].approved_at, nonce |-> r,
     expires_at |-> req[r].approved_at + TTL]

\* sign_on_gatekeeper: the gatekeeper signs and the answer arrives.
Sign(r) ==
    /\ At(r, "sign")
    /\ gatekeeper_authorizes(r)
    /\ minted' = minted \cup {r}
    /\ req' = [req EXCEPT ![r].pc = "open"]
    /\ UNCHANGED worldVars

\* sign_on_gatekeeper: the gatekeeper signs, but ssh fails or times out.
SignReplyLost(r) ==
    /\ Crashes
    /\ At(r, "sign")
    /\ gatekeeper_authorizes(r)
    /\ minted' = minted \cup {r}
    /\ Exit(r, "raised")
    /\ UNCHANGED worldVars

\* Path.write_text opens the pending file, empty, under its final name ...
OpenPending(r) ==
    /\ At(r, "open")
    /\ pending' = [pending EXCEPT ![r] = "torn"]
    /\ req' = [req EXCEPT ![r].pc = "write"]
    /\ UNCHANGED <<minted, clock, tree, hashing, intent>>

\* Mutated: a write that fails is passed over.
WritePending_Ignored(r) ==
    /\ At(r, "write")
    /\ \/ /\ pending' = [pending EXCEPT ![r] = "whole"]
          /\ intent' = [intent EXCEPT ![r] = sign_intent(action_intent(r), GatekeeperKey)]
       \/ UNCHANGED <<pending, intent>>
    /\ req' = [req EXCEPT ![r].pc = "announce"]
    /\ UNCHANGED <<minted, clock, tree, hashing>>

\* Mutated: the expiry is counted from the time of writing.
WritePending_Restamps(r) ==
    /\ At(r, "write")
    /\ pending' = [pending EXCEPT ![r] = "whole"]
    /\ intent' = [intent EXCEPT ![r] =
            [sign_intent(action_intent(r), GatekeeperKey) EXCEPT !.payload.expires_at = clock + TTL]]
    /\ req' = [req EXCEPT ![r].pc = "announce"]
    /\ UNCHANGED <<minted, clock, tree, hashing>>

\* ... and writes the signed intent.  From here on a hook can use it.
WritePending(r) ==
    /\ At(r, "write")
    /\ pending' = [pending EXCEPT ![r] = "whole"]
    /\ intent' = [intent EXCEPT ![r] = sign_intent(action_intent(r), GatekeeperKey)]
    /\ req' = [req EXCEPT ![r].pc = "announce"]
    /\ UNCHANGED <<minted, clock, tree, hashing>>

\* AUTHORIZED is printed, and the exit code is 0.
Announce(r) ==
    /\ At(r, "announce")
    /\ Exit(r, "authorized")
    /\ UNCHANGED <<minted, worldVars>>

\* An exception nobody catches, or the death of the command, anywhere.
Die(r) ==
    /\ Crashes
    /\ req[r].pc \notin {"new", "done"}
    /\ Exit(r, "raised")
    /\ EndHash(r)
    /\ UNCHANGED <<minted, clock, tree, pending, intent>>

\* The steps the command takes by itself; the reviewer has a time-out.
Code(r) ==
    \/ BeginBind(r) \/ BindNothing(r) \/ RefuseBinding(r) \/ Bind(r)
    \/ Bless(r) \/ Fetch(r)
    \/ \E out \in Outputs : Review(r, out)
    \/ Sign(r) \/ SignReplyLost(r) \/ OpenPending(r) \/ WritePending(r)
    \/ Announce(r)

ApprovalStep(r) ==
    \/ \E e \in Events : Submit(r, e)
    \/ \E token \in {"CONFIRM", "other"} : Confirm(r, token)
    \/ Code(r)
    \/ Die(r)

approvalAll == <<approvalVars, worldVars>>

ApprovalNext ==
    \/ \E r \in Requests : ApprovalStep(r)
    \/ Environment /\ UNCHANGED approvalVars

ApprovalSpec == ApprovalInit /\ [][ApprovalNext]_approvalAll

\* A started command runs until it waits for the human.
ApprovalFairSpec == ApprovalSpec /\ \A r \in Requests : WF_approvalAll(Code(r))
----------------------------------------------------------------------------
\* Types of the command's state and of what it has signed.
ApprovalTypeOK ==
    /\ WorldTypeOK
    /\ req \in [Requests -> Request]
    /\ minted \subseteq Requests

\* The gatekeeper's key was used only for a capital call that the reviewer
\* approved in so many words, or the owner has pre-blessed, and that a human
\* confirmed, in spite of garbled reviews, time-outs and deaths on the way.
SignedWasAuthorized ==
    \A r \in minted :
        /\ requires_approval(Class(r))
        /\ req[r].said = "approve" \/ (req[r].said = "pre-blessed" /\ req[r].ev \in PreBlessed)
        /\ req[r].token = "CONFIRM"

\* What is signed for a service mutation, a deploy or a migration is bound to a
\* content of the service's registered repository, never to "none" and never to
\* the directory the call happened to be made in.
SignedBindsRepo ==
    \A r \in minted :
        /\ Class(r).state_bound =>
            /\ req[r].state_repo = ServiceRepo[req[r].ev]
            /\ req[r].tree_sha \in Trees
        /\ req[r].tree_sha = NoTree <=> req[r].state_repo = NoRepo

\* What the gatekeeper has signed for r is what r's file says.
SignedFile(r) ==
    r \in minted /\ intent[r] = sign_intent(action_intent(r), GatekeeperKey)

\* The exit code and the pending directory agree, wherever the command dies: a
\* refusal of any kind leaves no signature and no file; AUTHORIZED is said only of
\* a file that was written completely; half a file means that the command is
\* writing it or died; and a usable one that it was signed, and that the
\* command has said so, is about to, or died before it could.
FilesMatchOutcome ==
    \A r \in Requests :
        /\ req[r].rc \in {"not-capital", "refused", "rejected", "not-confirmed"}
            => r \notin minted /\ pending[r] = "absent"
        /\ req[r].rc = "authorized" => pending[r] # "torn" /\ SignedFile(r)
        /\ pending[r] = "torn" => At(r, "write") \/ req[r].rc = "raised"
        /\ pending[r] = "whole" =>
            /\ SignedFile(r)
            /\ At(r, "announce") \/ req[r].rc \in {"authorized", "raised"}

\* The command never hangs on its own: a started one reaches the human or ends,
\* a confirmed one ends.
RequestEnds ==
    \A r \in Requests :
        /\ At(r, "bind") ~> At(r, "confirm") \/ At(r, "done")
        /\ At(r, "sign") ~> At(r, "done")

\* "A capital action cannot be bound to the reviewed repository state" is an
\* error (request_capital_approval.py:48): what the reviewer was shown of a
\* repository is what the signature binds.
ReviewedIsBound ==
    \A r \in minted :
        req[r].said = "approve" /\ {req[r].reviewed, req[r].tree_sha} \subseteq Trees
            => req[r].reviewed = req[r].tree_sha
============================================================================
