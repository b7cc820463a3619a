# A specification of model-routing's capital gate

model-routing stops a coding agent from running a *capital* action (one that
touches secrets, live exchanges or capital services) unless an independent
reviewer approved that very action, a human confirmed it, and a separate
gatekeeper host signed it. These modules model the gate, check it with TLC and
prove its central properties with TLAPS. Paths below are relative to the
repository.

## 1. The system

| Component | Code | State it keeps | Operations |
|---|---|---|---|
| Signed intents, nonce store | `src/model_routing/intents.py` | one file per spent nonce | `sign_intent`, `verify_peek`, `verify_intent`, `NonceStore.mark_seen` |
| Lifecycle checks | `src/model_routing/lifecycle.py` | none of its own; uses a nonce store | `local_pretooluse_check`, `authoritative_broker_check`, `authoritative_prereceive_check`, building requests |
| Approval | `src/model_routing/approval.py`, `scripts/request_capital_approval.py`, `scripts/gatekeeper_sign.py` | one run's local state; the pending file it writes | classify, bind, review, confirm, sign, write |
| Hook | `scripts/pretooluse_hook.py` | the pending directory (shared) | classify, search, compare the state, invalidate, consume, allow or block |
| State hash | `src/model_routing/statehash.py` | a scratch git index per call | `is_git_repository`, `tree_sha_for_repo` |
| Registry | `src/model_routing/registry.py`, `config/` | read-only configuration | path, service, vault and network look-ups |
| Classifier | `src/model_routing/classifier.py` | none | `classify_tool_call`, heredoc scan |
| Policies | `breakglass.py`, `kill_switch.py`, `confirmation.py`, `mutation.py`, `telemetry.py`, `advice.py` | none | pure functions |
| Red team | `redteam.py`, `scripts/redteam_harness.py`, `runner_support.py`, `shadow_runner.py` | throw-away keys and a nonce store per run | replay of a corpus, `calculate_recall`, exit code |
| Self-tests | `scripts/gatekeeper_selftest.py`, `test_hook_isolation.py`, `test_heredoc_canary.py`, `dry_run_install.py` | none | drivers |

**How they interact.** The harness starts one hook process per tool call. The
operator starts one approval command per blocked call; it calls the classifier,
the registry, git, a reviewer process and, over ssh, the signer on the
gatekeeper host. The command and the hooks never talk to each other: they share
the pending directory (`<request id>.json`, renamed to `.json.invalidated` on
drift), the worktrees and the clock. Both hash worktrees with git, in scratch
indexes of their own. On the gatekeeper host the broker and the pre-receive check
are called by concurrent processes that share a nonce store. The red-team scripts
drive the same classifier, signer and checks over a corpus, in one process.

**What is hard.** Hooks interleave with each other, with commands and with edits
of the worktree; every read of the disk may be stale when it is acted on, and
git reads a worktree file by file. The command waits for a reviewer, a human and
ssh, and may die at any of them. Files are written in place and not atomically.
Failures of git, of the file system and of the standard streams are turned into
answers in a dozen places, each of which picks a side. `hazards` in PROJECT.json
lists them at their lines.

**What makes each part correct.**
* nonce store: a nonce is accepted at most once in any race, a crash never makes
  it acceptable again, and a race without failures has a winner;
* checks: an acceptance is for a signed, unexpired intent of the very call;
* approval: nothing is signed without review and confirmation; only an output
  that speaks for itself counts as an approval; what is signed is bound to the
  right repository; exit codes tell the truth about the disk; the command ends;
* hook: the fail posture as the harness sees it; an allow rests on a fitting
  intent; the search misses none; it answers; drift does not block for ever;
* state hash: a tree is made of contents the files had during the call, the
  user's index stays the user's, the scratch index goes with the call (a process
  that is killed leaves its temporary directory, and the objects git writes stay
  in the repository's own store), and every call ends;
* classifier: what is left out of the scan is never run; a mutation is gated on
  whichever line it stands; a word takes a call out of the triggers in named ways
  only; the state signed is that of a service the call names, and the label that
  of the nearest repository;
* red team: each case is decided on its own merits, the exit code is earned, and
  no private key outlives the run;
* gate: an allowed call was approved end to end, what the hook reads of the state
  is what the approval read of it, a dead intent stays dead, and an intent is used
  once.

## 2. Modules

```
OneShot              abstract: tokens issued, used or voided at most once
Intents              records, signatures and verifiers (operators, no state)
 |- Broker           checks over a nonce store      -> MCBroker, BrokerProofs
 |- RedTeam          the replay of a corpus         -> MCRedTeam, RedTeamProofs
 `- World            clock, worktrees, pending directory
     |- Approval     the command and the signer     -> MCApproval, ApprovalProofs
     |- Hook         the hook                       -> MCHook
     `- CapitalGate  Approval and Hook on one World -> MCGate, GateProofs, HookProofs
StateHash            hashes of edited worktrees     -> MCStateHash, StateHashProofs
Registry             look-ups (operators, no state)
 `- Classifier       one call: classified, then bound -> MCClassifier, ClassifierProofs
SequenceFacts        lemmas about sequences, for ClassifierProofs and RedTeamProofs
```

`Broker` and `CapitalGate` each state a refinement mapping to `OneShot`.
Operators named `X_Y` under a comment "Mutated" are variants of operator `X` with
a plausible bug; PROJECT.json names the property that catches each.

**Intents.** A JSON object is a record; a missing key is one that is not in its
DOMAIN, so the checks for missing payloads, algorithms and nonces are real. An
Ed25519 signature is the pair of key and payload. `verify_signed_payload` keeps
the order of the checks, `expires_at < now` included. All failures to load a key
or decode a signature are the one reason "key-error".

**Broker.** A caller is a process in one of the three checks. `Answer` is a check
that ends without the store, `Proceed` one that reaches `mark_seen`; then `Claim`
(O_EXCL create), `Replay` (FileExistsError), `Finish` (write and answer). With
`Faults`, `RaiseBeforeClaim` and `RaiseAfterClaim` are exceptions and deaths. The
answer of `local_pretooluse_check` and of a call that is not capital touches no
store. `uses` and `burnt` are history variables. `seen` is never called by the
code and is not modelled.

**World.** `tree[d]` is the content of directory d, a function of its files, or
`NotGit`. `FoundGit(d)` is what `is_git_repository` may find; with `HashFaults` a
failing `git rev-parse` reads as "not a repository", as in the code. A hash takes
time: from `BeginHash` to `EndHash` every `Edit` of the directory is added to
`hashing[k].had`, and what comes back is any tree made, file by file, of contents
in `had` (`ReadDuring`), torn ones included, or an error. That is what
`StateHash`, where git's commands and reads are steps of their own, shows of a
hash: `EntriesWereThere`, proved as `TreesAreOfTheCall`. (What the two do not
share: there a path may be absent or ignored; here each of `Paths` has a content.)
`Worktrees` are the contents an edit may set; a hash may return any of `Trees`.
`pending[r]` is the state of r's file: absent, torn (opened and not written yet),
whole, invalidated.

**Approval.** One request is one run of `request_capital_approval.py`. Each action
is a stretch between two points where someone else takes time: `Submit`
(classify), `BeginBind` and `Bind` around the hash, or `BindNothing` or
`RefuseBinding` (`bind_approval_state`), `Bless` or `Fetch` and `Review` (the
reviewer is shown `repo_state_context`, then answers), `Confirm`, `Sign` or
`SignReplyLost` (ssh), `OpenPending`, `WritePending` and `Announce` (the file is
opened, written, and AUTHORIZED is printed), and `Die` before each of them: after
`WritePending` a hook can use the intent, whether or not the command lives to say
so. Each exit code of `main` has a name in `ExitCodes`. A reviewer's output is a
sequence of lines, told apart by what `opus_capital_reviewer` does with them: an
exact approval or rejection, any other line that begins like a verdict, a blank
one, prose. The parser is modelled on it; `Reading` says independently what a
person would take from the same output, and `SignedWasAuthorized` speaks of the
reading. The stub reviewers and `--confirm-token` exist for tests and are left
out. A request's nonce is the request itself: `secrets.token_urlsafe` is taken to
be collision-free, as are request ids.

**Hook.** One run at a time per process of `Hooks`. `EarlyAnswer` is `main` up to
the search: unreadable input allows (an event that is no JSON object reaches the
backstop and allows too: it counts as unreadable), a failing classification blocks
in enforce mode, and so on. `Start` reads the clock, `Glob` lists the directory,
`Match` and `Skip` read one file each in the order of the names, and `NoMatch`
ends a search without a match. A match is compared with the state: `CheckDrift`
without a hash, or `BeginCheck` and `Compare` around one; then `Invalidate` or
`Unlink` ends the run. A rename or unlink of a file another run has taken fails
and is passed over, as in the code; with `FsFaults` they may fail anyway.
`is_dir`, the clock and the import are part of the steps they precede: nothing
another process does comes between them and matters. `ExitCode` is what the
harness sees: `block` writes its reason to stderr before it exits with 2, and
without a usable stderr (or, when the interpreter flushes, stdout) the run exits
with 0 or 120, which stops nothing. `FailPosture` is about that code.

**CapitalGate.** Both on one World, and the end-to-end properties.
`ExecutedStateIsBound` is about every file by itself: the content the hook read
when it was satisfied, and the one the approval read, are the same, and each was
in the bound directory during its hash. It does not say that the worktree ever was
the bound tree as a whole: both hashes may be torn, in the same way.

**StateHash.** Several processes are in `is_git_repository` or
`tree_sha_for_repo`, each in an environment it inherited, while the worktrees are
edited and files are staged. `RevParse`, `List` and one `AddFile` per file
(`git add -A`), and `WriteTree` are the git commands; `_git_env` and
`_scratch_git_env` decide which worktree they read and which index they write,
and `index` holds the real and the scratch indexes together so that the wrong
one could be hit. `Fail` is a command that cannot start, times out, fails or
prints no SHA; leaving the `with` statement removes the scratch index in each
case. Git itself is external: its listing (what is in the index or not ignored)
and its failure on a vanished file are what the code relies on. `was` is a
history variable: the contents each path had since the call began.

**Registry and Classifier.** `Approval` and `Hook` are correct for any function
`Classify`; these two modules are about the function itself. A command is a
sequence of lines and a line a sequence of words. Of a word the model knows its
`Traits` (which of the regular expressions and word lists match it) and where the
registry's strings occur in it (`Occurs`), so that overlapping names behave as
they do in the code. The order of the tests and of the registry's entries is kept:
`classify_capital` is the decision list of `_classify_capital`,
`heredoc_authoring_scan` the text that is scanned instead of the command, with
the checks of the sink by the kind of file that lies there, `Target` falls back to
the whole command when a quote is left open, and `classify_path` is the longest
registered path around the directory. The machine takes one call through
`Classify` and through the choice of the directory whose state is signed
(`BindService`, `BindDirectory`, the first half of `bind_approval_state`), and
stops; hence CHECK_DEADLOCK FALSE in its run. Against this stands `WrittenLines`,
a reading of the same command by a shell's rules for heredocs, which is broader
than the rule of the code (several words between `cat` and the heredoc) and
defined without it. Left out: letter case, resolution of paths, the labels
(`action_type`, `risk_class`) that nothing here decides on.

**RedTeam.** One run of `redteam_harness.py` or `shadow_runner.py`. `Prepare`
makes the temporary directories; for each case in turn `Detect`, `Sign`, `Peek` and
`Consume` are the stages of `replay_case`, with the verifiers of `Intents`, a clock
that stands still, the case's id as the nonce, and one nonce store for the run
(only this process uses it, so `mark_seen` is one step). `Report` folds the body of
`calculate_recall` over the decisions and sets the exit code. `Raise` is an
exception anywhere, whose `finally` clauses and finalizers remove the directories;
`Kill` removes nothing. What is left of a kill in the middle of `Prepare` is like
that of one after it. A case carries its classification: the classifier has a
module of its own. A run ends, hence CHECK_DEADLOCK FALSE.

## 3. Runs

| Run | Instance | Checks |
|---|---|---|
| `broker_safety` | 2 callers, 12 checks, 2 nonces, faults, clock 0..2 | types, `AtMostOnce`, `SpentIsAccounted`, `AcceptedMatches`, `ImplementsOneShot`, `ContestIsWon` |
| `approval_command` | 1 request, 5 calls, 2 directories that are edited while they are hashed, every output of up to 3 lines, faults, deaths, TTL 1, clock 0..3 | types, `SignedWasAuthorized`, `SignedBindsRepo`, `FilesMatchOutcome`, `RequestEnds` |
| `hook_safety` | 1 hook, 2 files of 7 kinds, 2 calls, both modes, with and without stderr, all faults | types, `FailPosture`, `AllowNeedsIntent`, `ScanMissesNothing`, `HookEnds`, `DriftBlocksEnd` |
| `gate_concurrent` | 1 request, 2 hooks, 2 calls, 1 directory of 2 files with 2 contents, failing git, deaths, TTL 0, clock 0..1 | types, `ConsumedWasAuthorized`, `ExecutedStateIsBound`, `DeadStaysDead` |
| `gate_serial` | 2 requests, 1 hook, a directory that becomes a repository and stops being one | `ImplementsOneShot` |
| `classifier` | commands of up to 4 of 14 lines, one-line commands of up to 3 of 19 words with every registry of up to 2 of 6 services, 3 directories with every registry of up to 3 of 4 paths | types, `NothingRunIsUnscanned`, `MutationsAreGated`, `BoundRepoIsOfAMentionedService`, `AuthoringIsFree`, `NoWordDilutes`, `LabelIsOfNearestRepo` |
| `statehash` | 2 processes, 1 edited directory of 2 paths, up to 2 edits, any staging, the environment of another repository | types, `EntriesWereThere`, `UserIndexIsTheirs`, `HashEnds` |
| `redteam` | both scripts, every corpus of up to 3 cases, faults | types, `CasesAreIndependent`, `ExitCodeIsEarned`, `KeysDoNotOutlive` |
| `approval_reviewed` | as `approval_command`, with a git that does not fail and 2 contents | `ReviewedIsBound`, violated |
| `gate_single_use`, `gate_revert` | 1 request, 2 hooks or 1, 1 file with 1 content or 2, a git that does not fail, deaths, TTL 1, clock 0..2 | `SingleUse`, `RevertedIntentWorks`, violated |
| `classifier_address` | commands of one line of up to 3 words | `NamedAddressIsCapital`, violated |

**Bounds.** Two callers, hooks or hashes suffice for a race; the proofs of section
5 cover any number. Requests are independent (only `IsNext` compares them), so one
is enough for the command, two for the hook's search, where one file may stand
before another; in `hook_safety` other hooks are the environment that takes files
away (`Take`), and two real hooks meet in `gate_concurrent`. Two files with two
contents each are enough for a torn tree, of an approval and of a comparison, and
an edit sets both files at once, so that every mixture is the work of a hash.
Where only the outcome of a comparison matters, one tree and `NotGit` tell all of
it. The clock runs past every expiry, so each intent is met on its last second and
expired (TTL 0, clock 1, in the two big runs of the gate) and fresh (TTL 1, clock
2 or 3, in the others; `hook_safety` has files with either expiry). `uses` and
`allows` count to 2, which is enough to see a second use. Symmetry, of hooks,
files and contents, and the `View` of `MCGate` are used in `gate_concurrent`,
which checks safety and action properties only. `View` leaves out what the
reviewer was shown and what the last run of an idle hook was: no step and none of
the properties of that run but the types reads them. A review of three lines has
room for a verdict, a second one, and a line before, between or behind them. Of
the bad streams `no-stderr` stands for all: they differ in the exit code (0 or
120), and only 2 stops a call; `HookProofs` covers the others.

Four lines are a header, a text line, a delimiter and a line behind it: the
shortest command that hides something after a first heredoc or behind a second
delimiter. Three words are a service manager, a verb and a service; two services
are enough for one to stand in another's place; three paths nest twice, in any
order. Two edits are one before and one behind the reading of a file, or one on
each of two paths, and two paths are enough for a tree that mixes moments. One
environment is enough, the one that redirects everything: `_git_env` makes every
other one of it. Three cases are one that uses an id, one with the same id, and
one between them.

The runs but those of the classifier and the replay allow a stop by stuttering
and none deadlocks: a worktree can always be edited, a check always be called.

**Fairness.** `Broker`: a caller inside `mark_seen` is running code, and goes on.
With faults on, `ContestIsWon` says that a contested nonce ends as used, or that a
caller failed. `Approval`: `Code(r)` is weakly fair: git, the reviewer and ssh
have time-outs in the code (10, 600 and 40 seconds), so each comes back; `Submit`,
`Confirm` and `Die` have no fairness, nobody has to call or confirm. `MCHook`: a
run of the hook goes on; nobody has to call, edit or write. `StateHash`: git may
hang for ever, and only `Fail(k)`, the time-out of 10 seconds on each command
(`statehash.py:86`), is weakly fair; `HashEnds` holds on that alone. `RedTeam`: the
steps of a run are one process's code; exceptions and kills need not happen.

**MCHook's environment.** `Open` and `Write` stand for the commands and drop files
of every kind the verifier tells apart: fitting, for another call, expired, of
another signer, without `state_repo` (a field with the default ""), bound to
nothing, garbage.

## 4. Disagreements found

* `SingleUse` (`gate_single_use`). "single-use, consumed on match"
  (`scripts/pretooluse_hook.py:7`). The hook peeks, then unlinks and passes over
  a failure to unlink; two hooks that peek before either unlinks both allow. The
  nonce store would settle the race, but the hook does not use it. `DeadStaysDead`
  is what remains true: once the runs that hold an intent have ended, no later
  run uses it; `gate_serial` shows that hooks run one at a time are one-shot.
* `ReviewedIsBound` (`approval_reviewed`). The hash is taken before the reviewer's
  snapshot, and they are never compared (`request_capital_approval.py:274`, `:178`):
  an edit in between is shown and not bound. No failure is needed.
* `RevertedIntentWorks` (`gate_revert`). README.md:61 says a drifted intent works
  again after the drift is reverted. That is so only if no call was tried in
  between: the first one renames the intent away. A hash that fails once for a
  transient reason has the same effect.
* `NamedAddressIsCapital` (`classifier_address`). README.md:55 counts "a
  transfer-shaped operation naming a registered capital address" among the capital
  actions, and says with `classifier.py:233-235` that "a trigger cannot be smuggled
  by position". Of several addresses only the first is looked up
  (`classifier.py:406`), and with `unknown_is_capital: false`, as in
  `config/capital-registry.example.json:5`, one that is not registered is not
  capital: a transfer that names it before a registered capital address is let
  through. (With `true` only a registered address that is not capital hides it.)

Others were met and have no run:
* The same promise fails for entries of the registry. Of the surfaces and of the
  network targets the first that occurs in a command decides (`registry.py:114-130`,
  `:184-188`), so that one registered as not capital hides a capital one which
  comes after it in the registry. `NoWordDilutes` names addresses and the words of
  such entries as its exceptions.
* The docstring at `statehash.py:41-43` says that tracked edits affect the returned
  tree. The scratch index starts empty (`:52`), so git takes a file that is tracked
  and also matched by the ignore rules for an ignored one, and its edits leave the
  hash as it is. `EntriesWereThere` is what remains: nothing but an ignored path is
  ever left out.
* A command that dies, or cannot print, between the write of the pending file and
  its end (`request_capital_approval.py:311-313`) leaves a usable intent without
  having said AUTHORIZED. `FilesMatchOutcome` says what such an intent still is.
* The 300 seconds of an intent count from the review (`lifecycle.py:155`) and the
  prompt waits without a bound, so "AUTHORIZED" (`request_capital_approval.py:312`)
  may announce an intent that has expired.
* The hook's docstring (`pretooluse_hook.py:9-14`) says that every internal error
  fails open, while in enforce mode a failing classification blocks (line 166);
  README.md:63 has it right. There, though, "fail-closed" holds only while the
  refusal can be written: without a usable stderr the exit code is 0 or 120, and
  only 2 stops a call. `FailPosture` names the exception.
* README.md:78 says that for the one authoring shape only the body is stripped from
  the scan. The target is scanned too, and when the text has an odd number of
  apostrophes (`don't`) `shlex` cannot split the command and the target is all of
  it (`classifier.py:164-167`, `:248`), text included. The error is on the safe
  side: an innocent write is blocked. `AuthoringIsFree` is stated for texts with
  balanced quotes.
* README.md:117 promises a nonzero exit of the red-team harness "on any miss". The
  report counts wrongly blocked cases among the misses (`redteam.py:61`), the exit
  code looks at the bad cases that went through alone (`redteam_harness.py:74`),
  and the shadow runner always exits 0. `ExitCodeIsEarned` says what the code means.
* Any failure of `git rev-parse` reads as "not a repository" (`statehash.py:33`), so
  that an approval of a call that need not be bound may be bound to nothing.

## 5. Proofs

TLAPS checks these for every value of the constants, under the named assumptions
of the modules (`IntentsAssumption`, `BrokerAssumption`, `WorldAssumption`,
`ApprovalAssumption`, `HookAssumption`, `GateAssumption`, `StateHashAssumption`,
`RegistryAssumption`, `ClassifierAssumption`, `RedTeamAssumption`), which TLC
evaluates in the runs.

* `BrokerProofs`: `TypeCorrect`, `NonceUsedOnce`, `NonceConserved`,
  `AcceptedWasAuthorised`, `BrokerImplementsOneShot`. `AtMostOnce` is not
  inductive: a caller between create and answer has a claim that `uses` does not
  show yet. `SpentIsAccounted` is the strengthening: the file of a nonce is owed to
  exactly one of an accepted use, a failure or a writer, and a writer excludes the
  other two. The step lemmas then need only whether the nonce touched is in the
  store. The second strand records that a caller in `mark_seen` holds a check whose
  verdict was "ok", from which the acceptance follows.
* `ApprovalProofs`: `ApprovalTypeCorrect`, `SignedOnlyIfAuthorized`, `SignedIsBound`,
  `OutcomesAreTrue`. The invariant `AInv` says for each stage what the earlier ones
  established (`Path`), which directory is hashed and what is bound (`Unbound`,
  `Bound`), and what the disk and the exit code may be (`Outcome`). An edit adds to
  what the hashes in progress may have met (`EditHashes`) and takes nothing away. Only
  one request changes per step (`OneRequest`), so one lemma per action about that
  request is enough. That the parser approves only what reads as an approval, for
  outputs of any length, is the lemma `VerdictIsRead`. `Untouched` and
  `CommandStep` are stated without the specification so that the composition can
  use them.
* `GateProofs`: the two machines on one directory, any number of requests and hooks.
  `GateTypeCorrect`, `ConsumedOnlyIfAuthorized` and `ExecutedIsBound` hold whatever
  fails. The invariant is `GInv`: `AInv` of the command, the typing of the hook,
  `Picked` (the file a run holds was whole, is what the gatekeeper signed, and fits
  the call of the run) and `Checking` (a hash in progress is of the directory the
  file names). It is needed because the three properties speak of a moment when the
  file may be gone. A command that has written its file, whether it has announced
  it, died before or ended, is `Past`: it never touches the file again (`PastStays`),
  so `Picked` survives the command; `AInv` survives the hook since a hook only takes
  whole files away (`FilesGo`). `ExecutedIsBound` then puts together two hashes:
  `Bound` says that the tree signed is one that `ReadDuring` the approval's, and
  `Compare` that the same tree is one that `ReadDuring` the hook's.
* `DeadIntentsStayDead` assumes `~FsFaults`: a failed rename or unlink is passed over
  (`Invalidate`, `Unlink`) and leaves the file to the next run. `SpentInv` adds that
  a spent request has no whole file in the directory, so no later search can pick it.
* `SerialGateIsOneShot` assumes `~FsFaults` and a single hook, and proves that the
  gate implements `OneShot`. `SerialInv` relates the token of a request to its
  file, its uses and what the one run holds. Neither assumption can go: two hooks
  break the promise (`gate_single_use`), and so does an unlink that fails.
* `HookProofs`, on the composed gate: `HookTypeCorrect`, `PostureHolds`,
  `AllowsRestOnIntents`, `SearchIsComplete`. `HInv` adds to `GInv` two parts per run:
  `Upright` (a run that searches is for a capital call in enforce mode, and each
  answer is one its class of call may have) and `Searched` (a file that was whole
  when it was listed is still to be read, or gone, or does not fit, and its
  command is `Past` it). The last clause of `Searched` is what the interleaving needs:
  a command that could still rewrite a file the search has passed would break it.
  `AllowsRestOnIntents` is about steps: whatever step ends a run of a capital call in
  enforce mode so that the harness goes on, it is the unlink of a fitting intent
  (`UnlinkHolds`), unless a refusal could not be written.
* `StateHashProofs`: `HashTypeCorrect`, `TreesAreOfTheCall`, `UserIndexIsUntouched`,
  for any number of processes, paths, edits and environments. The invariant
  of a process is `Hashing`: while a process works, each entry of its scratch
  index is a content its path has had since the call began, or the path is ignored
  or still to be read. It rests on `ScratchIsOwn`: whatever was inherited, the
  commands read the call's directory and write the process's own index.
* `ClassifierProofs`: `ClassifierTypeCorrect`, `RunLinesAreScanned`,
  `MutationsNeedAnIntent`, `AuthoringIsNotGated`, `NoWordHelps`,
  `BoundRepoIsMentioned`, `LabelIsNearest`, for registries and commands of any
  length. `CInv` says that a classification, once made, is that of the call; the
  rest is about `classify_tool_call`.
  - Mutations: a run line is scanned (`RunIsScanned`), so its manager, verb and
    service are (`MutationIsCapital`), and no line that begins with them is on the
    read-only list, which takes single lines only (`MutationIsNoRead`).
  - Texts: `HeredocLines` gives the shape of a recognised heredoc, `HeredocText` what
    of it is scanned, and `TextIsFree` that this is the same as for the heredoc with
    nothing to write, its last token included.
  - Words: removing a word from a line takes one word out of the flattened text
    (`FlattenWithout`). Triggers that ask for some word cannot appear by it
    (`TriggersStay`); those that take the first match keep it, because the words that
    come and go match no entry (`SameMatch`) and the first address scanned is the
    first of the command (`FirstScanned`, `FirstWithout`).
  - `BoundRepoIsMentioned` needs the assumption that occurrence is transitive, and
    that the target is part of the command.
* `RedTeamProofs`: `ReplayTypeCorrect`, `CasesDecidedAlone`, `ExitCodeEarned`, for any
  corpus. `RInv` says that the store holds exactly the ids of the cases that were
  allowed on an intent (`Spent`), which turns a refusal by the store into a statement
  about earlier cases, that the intent in hand is the one signed for the case
  (`JudgedIs`: it fits unless the key cannot be read), and that a result is the
  report on all the cases. The report is a fold: `FoldExists` gives the sequence of
  its intermediate counts, `OneMore` and `CountStep` relate each to the cardinalities
  of the cases so far, and `RecallCounts` climbs to the last.
  `KeysGoWithTheRun` is the part of `KeysDoNotOutlive` that needs no fairness: if the
  run ends, its keys are gone for good or it was killed.
* `SequenceFacts`: texts are flattened sequences of lines and reports are folds, about
  which nothing follows without induction. The library's induction theorems take
  an operator as a parameter; `LeastNumber` derives a least-number principle for
  sets from well-foundedness instead, and `Climb` an induction over a set of numbers.
  `FlattenIsFlat` then unfolds a concatenation, and the lemmas behind it say what
  the result holds, begins and ends with, and what removing one element does.

Two properties of the classifier have the form they do because broader ones are
false, as counterexamples of TLC show. `AuthoringIsFree` compares with the same
heredoc without text instead of promising that a write is never gated: the header
is scanned, and its sink may be a path whose own name holds a service manager, a
verb and a service. `NoWordDilutes` excepts words of a surface or host entry that
come to be scanned, and not only the removed word: a word that breaks the shape
of a recognised heredoc brings the text into the scan, and what was only
written there, a non-capital host say, may then be the entry that decides.

Every safety invariant and action property of the passing runs is a theorem
now. Only model-checked is liveness (`ContestIsWon`, `RequestEnds`, `HookEnds`,
`DriftBlocksEnd`, `HashEnds`, and of `KeysDoNotOutlive` that the run ends):
fairness and ENABLED are outside the prover.

## 6. Plan

Done: the modules above, the hash over an interval in the gate included. What is
left, in this order:
1. Paths that are absent or ignored in the trees of `World`, and a refinement from
   `StateHash` to the interval that `World` has of it, in place of the argument of
   section 2.
2. The `is_capital_*` questions of the registry, when a caller uses them.

## 7. Not modelled

* `breakglass.py`, `kill_switch.py`, `confirmation.py`, `mutation.py` and
  `telemetry.py`: functions of a few lines, without state, that nothing in the gate
  calls. A model would repeat their conditions. `advice.py` formats a message.
* The self-test drivers and `dry_run_install.py`: they exercise or print.
* `require_key_custody` and `ensure_key_outside_workspace`: checks of the mode,
  owner and place of one file; a key that cannot be used is a fault of `Sign`.
* `classify_remote` and the questions of the registry that only tests ask.
* The action types and risk classes of a classification. They are opaque parts of
  the payload here. (No classification has the action type "git-push", so the
  pre-receive check meets such intents only if someone else signs them: a hazard
  without a property, for nothing in the code states what should happen.)
* The worktree between the hook's comparison and the execution of the call, the
  harness's own time-out, and what it does after an allow: outside this code.
* JSON and canonical encoding, base64 and Ed25519 (ideal); logging, wording, the
  printed report of the harness.
