------------------------------- MODULE World -------------------------------
(***************************************************************************)
(* What the approval command and the hook share without calling each       *)
(* other: the clock, the worktrees of the repositories, and the directory  *)
(* of pending intents.  Approval and Hook extend this module; CapitalGate  *)
(* puts the two on one instance of it.                                     *)
(***************************************************************************)
EXTENDS Intents

CONSTANTS
    Requests,      \* request ids; their order is the order of the file names
    Events,        \* the tool calls
    NoEvent,       \* no tool call yet
    Classify,      \* classify_tool_call of each event
    ServiceRepo,   \* repo_for_service of the service each event names, or NoRepo
    Dirs, NoRepo,  \* directories; the empty state_repo ""
    Paths,         \* the files of a worktree
    Contents,      \* what one of them can hold
    Worktrees,     \* the contents that somebody gives to a worktree as a whole
    NotGit,        \* a directory that is no git repository
    NoTree,        \* the tree_sha "none"
    HashError,     \* StateHashError
    HashFaults,    \* may git fail on a worktree?
    FsFaults,      \* may the file system fail?
    Hashers,       \* the processes that hash worktrees
    MaxClock       \* bound on the clock

\* A tree SHA stands for one content of every file.
Trees == [Paths -> Contents]

ASSUME WorldAssumption ==
    /\ Requests \subseteq Nat
    /\ NoNonce \notin Requests
    /\ NoEvent \notin Events
    /\ NoRepo \notin Dirs
    /\ Paths # {}
    /\ Worktrees \subseteq Trees
    /\ {NotGit, NoTree, HashError} \cap Trees = {}
    /\ NoTree # HashError
    /\ \A e \in Events : /\ Classify[e].cwd \in Dirs
                         /\ ServiceRepo[e] \in Dirs \cup {NoRepo}
    /\ MaxClock \in Nat
    /\ {HashFaults, FsFaults} \subseteq BOOLEAN

VARIABLES
    clock,         \* int(time.time())
    tree,          \* tree[d]: the content of directory d
    hashing,       \* hashing[k]: the hash that k is taking
    pending,       \* pending[r]: the file <r>.json of the pending directory
    intent         \* intent[r]: its content, once it is whole

worldVars == <<clock, tree, hashing, pending, intent>>

\* An invalidated file has been renamed to <r>.json.invalidated.
FileStates == {"absent", "torn", "whole", "invalidated"}

EmptyFile == << >>

\* A hash in progress: the directory, and what it has held since the hash began.
Hash == [dir : Dirs \cup {NoRepo}, had : SUBSET (Worktrees \cup {NotGit})]

NoHash == [dir |-> NoRepo, had |-> {}]

WorldTypeOK ==
    /\ clock \in 0..MaxClock
    /\ tree \in [Dirs -> Worktrees \cup {NotGit}]
    /\ hashing \in [Hashers -> Hash]
    /\ pending \in [Requests -> FileStates]

WorldInit ==
    /\ clock = 0
    /\ tree \in [Dirs -> Worktrees \cup {NotGit}]
    /\ hashing = [k \in Hashers |-> NoHash]
    /\ pending = [r \in Requests |-> "absent"]
    /\ intent = [r \in Requests |-> EmptyFile]

Tick ==
    /\ clock < MaxClock
    /\ clock' = clock + 1
    /\ UNCHANGED <<tree, hashing, pending, intent>>

\* Somebody edits a worktree, creates a repository or removes one; the hashes of
\* it that are in progress may meet either content of each file.
Edit(d, t) ==
    /\ tree' = [tree EXCEPT ![d] = t]
    /\ hashing' = [k \in Hashers |->
            IF hashing[k].dir = d THEN [hashing[k] EXCEPT !.had = @ \cup {t}] ELSE hashing[k]]
    /\ UNCHANGED <<clock, pending, intent>>

Environment == Tick \/ \E d \in Dirs, t \in Worktrees \cup {NotGit} : Edit(d, t)

----------------------------------------------------------------------------
\* statehash.is_git_repository: what it may find of d now.  git may exit with an
\* error in a repository it cannot read, and that reads as no repository.
FoundGit(d) == {tree[d] # NotGit} \cup (IF HashFaults THEN {FALSE} ELSE {})

\* statehash.tree_sha_for_repo is called, and returns.
BeginHash(k, d) == hashing' = [hashing EXCEPT ![k] = [dir |-> d, had |-> {tree[d]}]]

EndHash(k) == hashing' = [hashing EXCEPT ![k] = NoHash]

\* Each file is read at a moment of its own: its content is one that the file had
\* at some time since the call.
ReadDuring(had, t) == \A p \in Paths : \E u \in had \ {NotGit} : u[p] = t[p]

\* What tree_sha_for_repo may return to k.  It fails if a command of it finds no
\* repository.
Hashed(k) ==
    {t \in Trees : ReadDuring(hashing[k].had, t)}
        \cup (IF NotGit \in hashing[k].had \/ HashFaults THEN {HashError} ELSE {})
============================================================================
