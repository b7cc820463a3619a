----------------------------- MODULE StateHash -----------------------------
(***************************************************************************)
(* The state hash, src/src/model_routing/statehash.py: the content of a    *)
(* worktree as a git tree, taken with a scratch index of its own.  Several *)
(* processes hash at once, while somebody edits the worktrees and stages   *)
(* files for a commit.  git reads a worktree file by file, so a run takes  *)
(* one step for the listing and one for each file; a tree SHA stands for   *)
(* the tree it names.                                                      *)
(***************************************************************************)
EXTENDS Naturals

CONSTANTS
    Runs,          \* the processes that hash
    Dirs, NoDir,   \* directories
    Edited,        \* the directories somebody works in
    Paths,         \* paths in a directory
    Contents,      \* contents of a file
    Gone,          \* there is no file
    Inherited,     \* the environments processes inherit
    MaxEdits       \* bound on the edits

\* The variables of the process environment that redirect git.
Environ == [GIT_WORK_TREE : Dirs \cup {NoDir}, GIT_INDEX_FILE : Dirs \cup {NoDir}]

ASSUME StateHashAssumption ==
    /\ NoDir \notin Dirs \cup Runs
    /\ Dirs \cap Runs = {}
    /\ Edited \subseteq Dirs
    /\ Gone \notin Contents
    /\ Inherited \subseteq Environ
    /\ MaxEdits \in Nat

VARIABLES
    content,       \* content[d][p]: the file at path p of directory d
    repos,         \* the directories that are git repositories
    ignored,       \* ignored[d]: the paths the ignore rules of d match
    index,         \* index[d]: the real index of d; index[k]: the scratch index of k
    run,           \* run[k]: the call process k is in, or was last in
    edits          \* the number of edits so far

vars == <<content, repos, ignored, index, run, edits>>

Tree == [Paths -> Contents \cup {Gone}]

EmptyTree == [p \in Paths |-> Gone]

Call ==
    [pc   : {"idle", "rev-parse", "list", "add"},
     op   : {"none", "is_git_repository", "tree_sha_for_repo"},
     dir  : Dirs \cup {NoDir},
     env  : Environ,                      \* what the process inherited
     todo : SUBSET Paths,                 \* the files listed and not read yet
     ans  : {"none", "in-progress", "git", "not-git", "tree", "error"},
     tree : Tree,                         \* the tree returned
     was  : [Paths -> SUBSET (Contents \cup {Gone})]]   \* history: the contents met

Idle ==
    [pc |-> "idle", op |-> "none", dir |-> NoDir,
     env |-> [GIT_WORK_TREE |-> NoDir, GIT_INDEX_FILE |-> NoDir],
     todo |-> {}, ans |-> "none", tree |-> EmptyTree, was |-> [p \in Paths |-> {}]]

Init ==
    /\ content \in [Dirs -> Tree]
    /\ repos \in SUBSET Dirs
    /\ ignored \in [Dirs -> SUBSET Paths]
    /\ index = [x \in Dirs \cup Runs |-> EmptyTree]
    /\ run = [k \in Runs |-> Idle]
    /\ edits = 0

At(k, stage) == run[k].pc = stage

----------------------------------------------------------------------------
\* Mutated: the variables are handed on.
_git_env_Inherits(env) == env

\* The variables that redirect git are not handed on.
_git_env(env) == [env EXCEPT !.GIT_WORK_TREE = NoDir, !.GIT_INDEX_FILE = NoDir]

\* Mutated: the commands use the index git chooses.
_scratch_git_env_Real(env, k) == _git_env(env)

_scratch_git_env(env, k) == [_git_env(env) EXCEPT !.GIT_INDEX_FILE = k]

\* What git makes of them.
WorkTree(env, dir) == IF env.GIT_WORK_TREE = NoDir THEN dir ELSE env.GIT_WORK_TREE

IndexFile(env, dir) == IF env.GIT_INDEX_FILE = NoDir THEN dir ELSE env.GIT_INDEX_FILE

Scratch(k) == _scratch_git_env(run[k].env, k)

Files(k) == WorkTree(Scratch(k), run[k].dir)

Index(k) == IndexFile(Scratch(k), run[k].dir)

----------------------------------------------------------------------------
\* A hook, an approval command or a test calls one of the two functions.
Begin(k, op, dir, env) ==
    /\ At(k, "idle")
    /\ run' = [run EXCEPT ![k] =
            [Idle EXCEPT !.pc = "rev-parse", !.op = op, !.dir = dir, !.env = env,
                         !.ans = "in-progress", !.was = [p \in Paths |-> {content[dir][p]}]]]
    /\ UNCHANGED <<content, repos, ignored, index, edits>>

Ended(k, ans) == [Idle EXCEPT !.op = run[k].op, !.dir = run[k].dir, !.ans = ans]

InsideWorkTree(k) ==
    /\ run[k].dir \in repos
    /\ WorkTree(_git_env(run[k].env), run[k].dir) = run[k].dir

\* is_git_repository.  git exits with an error outside a repository, and may do
\* so inside one it cannot read.
RevParse(k) ==
    /\ At(k, "rev-parse")
    /\ \E inside \in {InsideWorkTree(k)} \cup {FALSE} :
        run' = [run EXCEPT ![k] =
            IF run[k].op = "is_git_repository"
            THEN Ended(k, IF inside THEN "git" ELSE "not-git")
            ELSE IF inside THEN [@ EXCEPT !.pc = "list"] ELSE Ended(k, "error")]
    /\ UNCHANGED <<content, repos, ignored, index, edits>>

\* git add -A lists the worktree: the files that are in the index or not ignored.
\* What is in the index and not in the worktree leaves the index.
List(k) ==
    /\ At(k, "list")
    /\ LET files == content[Files(k)]
           exist == {p \in Paths : files[p] # Gone}
       IN  /\ run' = [run EXCEPT ![k].pc = "add",
                        ![k].todo = {p \in exist : \/ p \notin ignored[Files(k)]
                                                   \/ index[Index(k)][p] # Gone}]
           /\ index' = [index EXCEPT ![Index(k)] =
                            [p \in Paths |-> IF p \in exist THEN @[p] ELSE Gone]]
    /\ UNCHANGED <<content, repos, ignored, edits>>

\* Leaving the with statement removes the scratch index.
Removed(indexes, k) == [indexes EXCEPT ![k] = EmptyTree]

\* Mutated: the exit status of git add is not looked at.
AddFile_Unchecked(k, p) ==
    /\ At(k, "add") /\ p \in run[k].todo
    /\ IF content[Files(k)][p] = Gone
       THEN run' = [run EXCEPT ![k].todo = {}] /\ UNCHANGED index
       ELSE /\ run' = [run EXCEPT ![k].todo = @ \ {p}]
            /\ index' = [index EXCEPT ![Index(k)][p] = content[Files(k)][p]]
    /\ UNCHANGED <<content, repos, ignored, edits>>

\* git add reads a file; one that is gone by now fails the command, and
\* _check_git raises.
AddFile(k, p) ==
    /\ At(k, "add") /\ p \in run[k].todo
    /\ IF content[Files(k)][p] = Gone
       THEN run' = [run EXCEPT ![k] = Ended(k, "error")] /\ index' = Removed(index, k)
       ELSE /\ run' = [run EXCEPT ![k].todo = @ \ {p}]
            /\ index' = [index EXCEPT ![Index(k)][p] = content[Files(k)][p]]
    /\ UNCHANGED <<content, repos, ignored, edits>>

\* git write-tree.
WriteTree(k) ==
    /\ At(k, "add") /\ run[k].todo = {}
    /\ run' = [run EXCEPT ![k] =
            [Ended(k, "tree") EXCEPT !.tree = index[Index(k)], !.was = run[k].was]]
    /\ index' = Removed(index, k)
    /\ UNCHANGED <<content, repos, ignored, edits>>

\* Mutated: the first command has no time-out.
Fail_NotFirst(k) ==
    /\ run[k].pc \in {"list", "add"}
    /\ run' = [run EXCEPT ![k] = Ended(k, "error")]
    /\ index' = Removed(index, k)
    /\ UNCHANGED <<content, repos, ignored, edits>>

\* Mutated: the scratch index is removed on success only.
Fail_Leaves(k) ==
    /\ ~At(k, "idle")
    /\ run' = [run EXCEPT ![k] = Ended(k, "error")]
    /\ UNCHANGED <<content, repos, ignored, index, edits>>

\* A command cannot be started, takes longer than GIT_TIMEOUT_SECONDS, fails, or
\* prints what is no 40-hex SHA: StateHashError.
Fail(k) ==
    /\ ~At(k, "idle")
    /\ run' = [run EXCEPT ![k] = Ended(k, "error")]
    /\ index' = Removed(index, k)
    /\ UNCHANGED <<content, repos, ignored, edits>>

Step(k) ==
    \/ \E op \in {"is_git_repository", "tree_sha_for_repo"}, dir \in Dirs, env \in Inherited :
        Begin(k, op, dir, env)
    \/ RevParse(k) \/ List(k) \/ WriteTree(k) \/ Fail(k)
    \/ \E p \in Paths : AddFile(k, p)

----------------------------------------------------------------------------
\* Somebody writes or deletes a file.
Edit(d, p, v) ==
    /\ edits < MaxEdits
    /\ edits' = edits + 1
    /\ content' = [content EXCEPT ![d][p] = v]
    /\ run' = [k \in Runs |->
            IF run[k].dir = d /\ ~At(k, "idle")
            THEN [run[k] EXCEPT !.was[p] = @ \cup {v}]
            ELSE run[k]]
    /\ UNCHANGED <<repos, ignored, index>>

\* The user stages a file, ignored or not, or its deletion.
Stage(d, p) ==
    /\ index' = [index EXCEPT ![d][p] = content[d][p]]
    /\ UNCHANGED <<content, repos, ignored, run, edits>>

User ==
    \E d \in Edited, p \in Paths : Stage(d, p) \/ \E v \in Contents \cup {Gone} : Edit(d, p, v)

Next == User \/ \E k \in Runs : Step(k)

Spec == Init /\ [][Next]_vars

\* git may hang for ever: only the time-outs are certain.
FairSpec == Spec /\ \A k \in Runs : WF_vars(Fail(k))
----------------------------------------------------------------------------
\* Types; a call that has ended has left no scratch index behind.
TypeOK ==
    /\ content \in [Dirs -> Tree]
    /\ repos \subseteq Dirs
    /\ ignored \in [Dirs -> SUBSET Paths]
    /\ index \in [Dirs \cup Runs -> Tree]
    /\ run \in [Runs -> Call]
    /\ edits \in 0..MaxEdits
    /\ \A k \in Runs :
        /\ At(k, "idle") <=> run[k].ans # "in-progress"
        /\ At(k, "idle") => index[k] = EmptyTree
        /\ ~At(k, "idle") => run[k].dir \in Dirs

\* Every entry of a tree that is returned is what the path held at some moment
\* of the call, in the directory the call was about, and only an ignored path may
\* be left out: whatever was edited, staged, hashed or inherited meanwhile.  In
\* particular the tree is exact when nothing was edited.
EntriesWereThere ==
    \A k \in Runs :
        run[k].ans = "tree" =>
            \A p \in Paths :
                run[k].tree[p] \in run[k].was[p] \cup
                    (IF p \in ignored[run[k].dir] THEN {Gone} ELSE {})

\* "without staging anything in the user's real index" (statehash.py:43): the
\* index of a repository changes only when the user stages.
UserIndexIsTheirs ==
    [][\A d \in Dirs : index'[d] # index[d] => \E p \in Paths : Stage(d, p)]_vars

\* A call ends, even if git does not.
HashEnds == \A k \in Runs : ~At(k, "idle") ~> At(k, "idle")
============================================================================
